----------------------------- MODULE ConsoleSlot -----------------------------
(***************************************************************************)
(* What a console service promises: under each key at most one connection  *)
(* at a time, backend consoles opened and closed only while the connection *)
(* holds the key.                                                          *)
(***************************************************************************)
CONSTANTS Key, Conn

VARIABLES holder,   \* holder[k]: the connections that hold key k
          live      \* the connections whose backend console is open

slotVars == <<holder, live>>

Holds(c) == \E k \in Key : c \in holder[k]

Init == holder = [k \in Key |-> {}] /\ live = {}

Acquire(c, k) ==
  /\ holder[k] = {} /\ ~Holds(c)
  /\ holder' = [holder EXCEPT ![k] = {c}]
  /\ UNCHANGED live

Open(c) ==
  /\ Holds(c)
  /\ live' = live \cup {c}
  /\ UNCHANGED holder

Close(c) ==
  /\ Holds(c)
  /\ live' = live \ {c}
  /\ UNCHANGED holder

Release(c, k) ==
  /\ holder[k] = {c} /\ c \notin live
  /\ holder' = [holder EXCEPT ![k] = {}]
  /\ UNCHANGED live

Next == \E c \in Conn : \/ Open(c) \/ Close(c)
                        \/ \E k \in Key : Acquire(c, k) \/ Release(c, k)

Spec == Init /\ [][Next]_slotVars
=============================================================================
