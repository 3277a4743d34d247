---------------------------- MODULE MCVMLifecycle ----------------------------
(* Instances of VMLifecycle for TLC. *)
EXTENDS VMLifecycle, TLC

CONSTANTS v1, v2, v3, h1, h2, r1, r2, u1

OneVM   == {v1}
ThreeVMs == {v1, v2, v3}
OneHost  == {h1}
TwoHosts == {h1, h2}
TwoRequests   == {r1, r2}
OneUser  == {u1}
NoVM     == {}
NoEvents == {}
NoUser   == {}

EditOps      == {"network", "assign", "migrate", "reboot"}
PortOps      == {"create", "delete"}
LifeOps      == {"create", "delete", "start", "stop"}

AllEvents  == Faults
EditEvents == {"lost", "opfail", "crash"}
HostEvents == {"unregister"}

(* Requests are interchangeable: no definition but the fairness tells them apart. *)
Requests == Permutations(Req)
=============================================================================
