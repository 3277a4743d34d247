--------------------------- MODULE MCHostRegistry ---------------------------
(* Instances of HostRegistry for TLC. *)
EXTENDS HostRegistry, TLC

CONSTANTS h1, h2, e1, bad, r1, r2

OneHost   == {h1}
TwoHosts  == {h1, h2}
OneEnd    == {e1}
BadEnd    == {bad}
EndAndBad == {e1, bad}
NoStatus  == {Nil}
TwoReqs   == {r1, r2}

Interchangeable == Permutations(Req) \cup Permutations(Endpoint \ Unusable)
=============================================================================
