------------------------------ MODULE IncusHost ------------------------------
(***************************************************************************)
(* The Incus daemons the backend drives over HTTPS (external: no line of   *)
(* this is in src/).  What the backend relies on, and what it does not     *)
(* wait for:                                                               *)
(*                                                                         *)
(*  - GET /1.0/instances/<name> answers at once with the configuration;    *)
(*  - POST, PUT, PUT .../state and DELETE are only ACCEPTED by the call    *)
(*    (202 and an operation): the daemon runs the operation later, and     *)
(*    Manager.doJSON returns nil for any 2xx answer without waiting for it *)
(*    (internal/incus/manager.go:595-629);                                 *)
(*  - an unknown instance is answered with 404, and DELETE of a running    *)
(*    instance is refused.                                                 *)
(*                                                                         *)
(* Operations of one instance that are in progress together run in either  *)
(* order.  Two equal ones are one member of `pending`: running the second  *)
(* would change nothing.                                                   *)
(***************************************************************************)
EXTENDS Naturals, FiniteSets

CONSTANTS VM,       \* virtual machines: the row's uuid and the instance name
          Host,     \* the hosts that ever exist
          Val,      \* values a setting may have
          Nil,      \* no row, no instance, no owner, no value
          Events    \* which of the faults below a run lets happen

(* "reject": a daemon or the client refuses a call it could have served.   *)
(* "lost":   a call fails at the client (15 s timeout, cancelled context)  *)
(*           whether or not the daemon accepted it.                        *)
(* "opfail": an accepted operation fails.                                  *)
Faults == {"reject", "lost", "opfail", "dbfail", "crash", "unregister"}

ASSUME FaultsAssumption == Events \subseteq Faults

VARIABLES inst,     \* inst[h][v]: the instance v on host h, or Nil
          pending   \* the operations accepted and not yet run

Setting == {"config", "disk", "network"}

Instance == [set : [Setting -> Val], running : BOOLEAN]

Task == {t \in [host : Host, vm : VM,
                kind : {"create", "update", "start", "stop", "restart", "destroy"},
                set  : [Setting -> Val] \cup {Nil}] :
           t.kind \in {"create", "update"} => t.set # Nil}

Operation(h, v, kind, s) == [host |-> h, vm |-> v, kind |-> kind, set |-> s]

Present(t) == inst[t.host][t.vm] # Nil
Running(t) == Present(t) /\ inst[t.host][t.vm].running

(* What the daemon checks before it answers 202. *)
Accepts(t) == CASE t.kind = "create"  -> ~Present(t)
                [] t.kind = "destroy" -> Present(t) /\ ~Running(t)
                [] OTHER              -> Present(t)

Answer == {"accepted", "notfound", "refused", "lost"}

(* One mutating call: the answer the backend gets, and what the daemon     *)
(* took on.                                                                *)
Ask(t, answer) ==
  \/ /\ answer = "accepted"
     /\ Accepts(t)
     /\ pending' = pending \cup {t}
  \/ /\ answer = "notfound"
     /\ t.kind # "create" /\ ~Present(t)
     /\ UNCHANGED pending
  \/ /\ answer = "refused"
     /\ \/ (t.kind = "create" \/ Present(t)) /\ ~Accepts(t)
        \/ "reject" \in Events
     /\ UNCHANGED pending
  \/ /\ answer = "lost"
     /\ "lost" \in Events
     /\ \/ UNCHANGED pending
        \/ Accepts(t) /\ pending' = pending \cup {t}

(* When an operation run now succeeds, and what it leaves. *)
Possible(t) == CASE t.kind = "create"             -> ~Present(t)
                 [] t.kind = "update"             -> Present(t)
                 [] t.kind \in {"start", "destroy"} -> Present(t) /\ ~Running(t)
                 [] OTHER                         -> Running(t)

Result(t) ==
  CASE t.kind = "create"  -> [set |-> t.set, running |-> FALSE]
    [] t.kind = "update"  -> [set |-> t.set, running |-> Running(t)]
    [] t.kind = "destroy" -> Nil
    [] OTHER              -> [set |-> inst[t.host][t.vm].set,
                              running |-> t.kind # "stop"]

RunOperation(t) ==
  /\ t \in pending
  /\ Possible(t)
  /\ inst' = [inst EXCEPT ![t.host][t.vm] = Result(t)]
  /\ pending' = pending \ {t}

FailOperation(t) ==
  /\ t \in pending
  /\ ~Possible(t) \/ "opfail" \in Events
  /\ pending' = pending \ {t}
  /\ UNCHANGED inst

(* A failed start of a running instance, or stop or destroy of one already *)
(* stopped or gone, left what was asked for.                               *)
Harmless(t) == CASE t.kind = "start"   -> Running(t)
                 [] t.kind = "stop"    -> ~Running(t)
                 [] t.kind = "destroy" -> ~Present(t)
                 [] OTHER              -> FALSE

IncusTypeOK ==
  /\ inst \in [Host -> [VM -> Instance \cup {Nil}]]
  /\ pending \in SUBSET Task
=============================================================================
