------------------------------ MODULE AtomicVM ------------------------------
(***************************************************************************)
(* What users may take a virtual machine for as long as nobody and nothing *)
(* gets in the way: an object that each operation changes at once, and in  *)
(* nothing but what it is for.  A VM that met an overlap, a failure or a   *)
(* migration is given up: nothing more is said of it.                      *)
(***************************************************************************)
CONSTANTS VM, Row, User, Setting, Val, Nil,
          Fresh   \* the settings a VM is created with

VARIABLES vm,       \* vm[v]: what v is, or Nil
          born,     \* VMs that were created once, or given up
          givenUp

objectVars == <<vm, born, givenUp>>

Becomes(v, x) == /\ v \notin givenUp
                 /\ vm' = [vm EXCEPT ![v] = x]
                 /\ UNCHANGED <<born, givenUp>>

Is(v, states) == vm[v] # Nil /\ vm[v].status \in states

Usable(v) == Is(v, {"stopped", "running"})

Init ==
  /\ vm \in [VM -> Row \cup {Nil}]
  /\ born = {v \in VM : vm[v] # Nil}
  /\ \A v \in born : Usable(v)
  /\ givenUp = {}

(* A VM is created once, on some host, with some port and owner. *)
Create(v) ==
  /\ v \notin born \cup givenUp
  /\ born' = born \cup {v}
  /\ vm' = [vm EXCEPT ![v] = vm'[v]]
  /\ vm'[v] \in Row /\ vm'[v].status = "creating" /\ vm'[v].set = Fresh
  /\ UNCHANGED givenUp

Created(v) ==
  /\ Is(v, {"creating"})
  /\ \E status \in {"stopped", "error"} : Becomes(v, [vm[v] EXCEPT !.status = status])

Configure(v) ==
  /\ Usable(v)
  /\ \E setting \in Setting, x \in Val : Becomes(v, [vm[v] EXCEPT !.set[setting] = x])

Power(v) ==
  /\ Usable(v)
  /\ \E status \in {"stopped", "running"} : Becomes(v, [vm[v] EXCEPT !.status = status])

Assign(v) ==
  /\ Is(v, {"stopped", "running", "error"})
  /\ \E u \in User : Becomes(v, [vm[v] EXCEPT !.owner = u])

Delete(v) ==
  /\ Is(v, {"stopped", "running", "error"})
  /\ Becomes(v, Nil)

GiveUp(lost) ==
  /\ givenUp' = givenUp \cup lost
  /\ born' = born \cup lost
  /\ vm' = [v \in VM |-> IF v \in lost THEN Nil ELSE vm[v]]

Next ==
  \/ \E lost \in SUBSET VM : GiveUp(lost)
  \/ \E v \in VM : Create(v) \/ Created(v) \/ Configure(v) \/ Power(v) \/ Assign(v) \/ Delete(v)

Spec == Init /\ [][Next]_objectVars
=============================================================================
