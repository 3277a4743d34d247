------------------------- MODULE HostRegistryProofs -------------------------
(***************************************************************************)
(* Proofs about HostRegistry, for any hosts, endpoints and requests and    *)
(* every choice of operations and faults.                                  *)
(***************************************************************************)
EXTENDS HostRegistry, TLAPS

(* What a place in a handler says of the request. *)
Prepared(r) ==
  /\ Busy(r) => req[r].host \in Host /\ req[r].host \in used /\ req[r].op \in Op
  /\ req[r].pc \in {"save", "lookup", "register"} => req[r].local \in Row
  /\ req[r].pc = "save" => req[r].op = "update"
  /\ req[r].pc = "drop" => /\ req[r].op \in Writers
                           /\ req[r].op = "update" => req[r].local \in Row

TypeInv ==
  /\ TypeOK
  /\ \A r \in Req : Prepared(r)
  /\ \A h \in Host : row[h] # Nil => h \in used

(* The client a host has is that of its row. *)
ClientOk(h) == client[h] # Nil => row[h] # Nil /\ client[h] = row[h].end

(* What a place in a handler says of the host when nobody else writes it. *)
Place(r) ==
  LET h == req[r].host
  IN /\ req[r].pc = "save" => /\ row[h] # Nil
                              /\ ~req[r].moved => req[r].local.end = row[h].end
     /\ req[r].pc = "drop" => /\ req[r].op \in Writers
                              /\ req[r].op = "update" => /\ row[h] # Nil
                                                         /\ req[r].local.end = row[h].end
     /\ req[r].pc = "drop" /\ req[r].op = "delete" => row[h] = Nil
     /\ req[r].pc \in {"lookup", "register"} => /\ row[h] # Nil
                                                /\ req[r].local.end = row[h].end
     /\ req[r].pc = "fetch" => row[h] # Nil /\ client[h] = row[h].end
     /\ req[r].pc \in {"call", "apply"} => row[h] # Nil /\ req[r].using = row[h].end

(* A writer is alone, and the cache is right except when a client is about *)
(* to be dropped.                                                          *)
Good(h) ==
  /\ \A r, s \in On(h) : r # s => req[r].op \notin Writers
  /\ (\E r \in On(h) : req[r].pc = "drop") \/ ClientOk(h)
  /\ \A r \in On(h) : Place(r)

CacheInv == \A h \in Host \ disturbed : Good(h)

-----------------------------------------------------------------------------
(* Types. *)

LEMMA LoadedHosts ==
  ASSUME row \in [Host -> Row \cup {Nil}], NEW f \in Loaded(row)
  PROVE  /\ f \in [Host -> (Endpoint \ Unusable) \cup {Nil}]
         /\ \A h \in Host : f[h] # Nil => row[h] # Nil /\ f[h] = row[h].end
<1> DEFINE known == {h \in Host : row[h] # Nil}
           good  == {h \in known : row[h].end \notin Unusable}
<1>1. PICK done \in (IF good = known THEN {known} ELSE SUBSET good) :
        f = [h \in Host |-> IF h \in done THEN row[h].end ELSE Nil]
  BY DEF Loaded
<1>2. done \subseteq good
  BY <1>1
<1>3. \A h \in good : row[h].end \in Endpoint \ Unusable
  BY DEF Row
<1> QED
  BY <1>1, <1>2, <1>3

LEMMA IdleRequest == Idle \in Request /\ Idle.pc = "idle"
BY DEF Idle, Request, Pc

LEMMA GotoTypes ==
  ASSUME TypeInv, NEW r \in Req, NEW pc \in Pc, Goto(r, pc)
  PROVE  /\ req' \in [Req -> Request]
         /\ \A q \in Req \ {r} : req'[q] = req[q]
         /\ req'[r].pc = pc /\ req'[r].op = req[r].op /\ req'[r].host = req[r].host
         /\ req'[r].local = req[r].local /\ req'[r].moved = req[r].moved
         /\ req'[r].using = req[r].using
<1>1. req \in [Req -> Request] /\ req[r] \in Request
  BY DEF TypeInv, TypeOK
<1>2. PICK new : new = [req[r] EXCEPT !.pc = pc] /\ req' = [req EXCEPT ![r] = new]
  BY <1>1 DEF Goto
<1>3. /\ new \in Request /\ new.pc = pc /\ new.op = req[r].op /\ new.host = req[r].host
      /\ new.local = req[r].local /\ new.moved = req[r].moved /\ new.using = req[r].using
  BY <1>1, <1>2 DEF Request
<1> QED
  BY <1>1, <1>2, <1>3

LEMMA AnsweredTypes ==
  ASSUME TypeInv, NEW r \in Req, NEW a \in {"ok", "failed", "notfound"}, Answered(r, a)
  PROVE  /\ req' \in [Req -> Request] /\ req'[r].pc = "idle"
         /\ \A q \in Req \ {r} : req'[q] = req[q]
<1>1. req \in [Req -> Request]
  BY DEF TypeInv, TypeOK
<1>2. PICK new : new = [Idle EXCEPT !.reply = a] /\ req' = [req EXCEPT ![r] = new]
  BY DEF Answered
<1>3. new \in Request /\ new.pc = "idle"
  BY <1>2 DEF Idle, Request, Pc
<1> QED
  BY <1>1, <1>2, <1>3

LEMMA GoCallTypes ==
  ASSUME TypeInv, NEW r \in Req, NEW c \in Endpoint \cup {Nil}, GoCall(r, c)
  PROVE  /\ req' \in [Req -> Request]
         /\ \A q \in Req \ {r} : req'[q] = req[q]
         /\ req'[r].pc = "call" /\ req'[r].op = req[r].op /\ req'[r].host = req[r].host
         /\ req'[r].using = c
<1>1. req \in [Req -> Request] /\ req[r] \in Request
  BY DEF TypeInv, TypeOK
<1>2. PICK new : /\ new = [Idle EXCEPT !.op = req[r].op, !.host = req[r].host, !.pc = "call",
                                       !.asked = req[r].asked, !.using = c]
                 /\ req' = [req EXCEPT ![r] = new]
  BY DEF GoCall
<1>3. /\ req[r].op \in Op \cup {Nil} /\ req[r].host \in Host \cup {Nil}
      /\ req[r].asked \in Status \cup {Nil}
  BY <1>1 DEF Request
<1>4. new = [op |-> req[r].op, host |-> req[r].host, pc |-> "call", local |-> Nil,
             asked |-> req[r].asked, moved |-> FALSE, using |-> c, reply |-> "none"]
  BY <1>2 DEF Idle
<1>5. new \in Request
  BY <1>3, <1>4 DEF Request, Pc
<1> QED
  BY <1>1, <1>2, <1>4, <1>5

(* What is left to say of the types when r takes a step. *)
LEMMA StepTypes ==
  ASSUME TypeInv, NEW r \in Req, req' \in [Req -> Request],
         \A q \in Req \ {r} : req'[q] = req[q],
         row' \in [Host -> Row \cup {Nil}],
         client' \in [Host -> (Endpoint \ Unusable) \cup {Nil}],
         used' \in SUBSET Host, used \subseteq used', disturbed' \in SUBSET Host,
         \A h \in Host : row'[h] # Nil => row[h] # Nil \/ h \in used',
         Prepared(r)'
  PROVE  TypeInv'
<1>1. ASSUME NEW q \in Req, q # r
      PROVE  Prepared(q)'
  BY <1>1 DEF Prepared, Busy, TypeInv
<1> QED
  BY <1>1 DEF TypeInv, TypeOK

(* A request that begins. *)
LEMMA StartTypes ==
  ASSUME TypeInv, NEW r \in Req, NEW op \in Op, NEW h \in Host, NEW q \in Request,
         Starts(r, op, h, q), q.host = h, q.op = op, h \in used',
         \/ op = "update" /\ q.pc = "save" /\ q.local \in Row
         \/ op = "delete" /\ q.pc = "drop"
         \/ q.pc = "lookup" /\ q.local \in Row,
         row' \in [Host -> Row \cup {Nil}], client' = client,
         used' \in SUBSET Host, used \subseteq used',
         \A g \in Host : row'[g] # Nil => row[g] # Nil \/ g \in used'
  PROVE  TypeInv'
<1>1. /\ TypeOK /\ req' = [req EXCEPT ![r] = q]
      /\ disturbed' = disturbed \cup {h} \/ disturbed' = disturbed
  BY DEF TypeInv, Starts, Disturb
<1>2. /\ req' \in [Req -> Request] /\ req'[r] = q /\ \A p \in Req \ {r} : req'[p] = req[p]
      /\ disturbed' \in SUBSET Host
  BY <1>1 DEF TypeOK
<1>3. Prepared(r)'
  BY <1>2 DEF Prepared, Busy, Writers, Op
<1> QED
  BY <1>1, <1>2, <1>3, StepTypes DEF TypeOK

LEMMA CreateTypes ==
  ASSUME TypeInv, NEW r \in Req, Create(r)
  PROVE  TypeInv'
<1>1. PICK h \in Host \ used, e \in Endpoint :
        /\ Starts(r, "create", h,
             [Idle EXCEPT !.op = "create", !.host = h, !.pc = "lookup",
                          !.local = [end |-> e, status |-> "offline"]])
        /\ row' = [row EXCEPT ![h] = [end |-> e, status |-> "offline"]]
        /\ used' = used \cup {h} /\ client' = client
  BY DEF Create
<1>2. PICK q : /\ q = [Idle EXCEPT !.op = "create", !.host = h, !.pc = "lookup",
                                   !.local = [end |-> e, status |-> "offline"]]
               /\ Starts(r, "create", h, q)
  BY <1>1
<1>3. [end |-> e, status |-> "offline"] \in Row
  BY DEF Row, Status
<1>4. q = [op |-> "create", host |-> h, pc |-> "lookup",
           local |-> [end |-> e, status |-> "offline"], asked |-> Nil,
           moved |-> FALSE, using |-> Nil, reply |-> "none"]
  BY <1>2 DEF Idle
<1>5. q \in Request
  BY <1>3, <1>4 DEF Request, Pc, Op
<1>6. TypeOK /\ row' \in [Host -> Row \cup {Nil}]
      /\ \A g \in Host : row'[g] # Nil => row[g] # Nil \/ g = h
  BY <1>1, <1>3 DEF TypeInv, TypeOK
<1>7. used' \in SUBSET Host /\ used \subseteq used' /\ h \in used'
  BY <1>1, <1>6 DEF TypeOK
<1>8. q.host = h /\ q.op = "create" /\ q.pc = "lookup" /\ q.local \in Row
  BY <1>3, <1>4
<1> QED
  BY <1>1, <1>2, <1>5, <1>6, <1>7, <1>8, StartTypes DEF Op

LEMMA BeginUpdateTypes ==
  ASSUME TypeInv, NEW r \in Req, BeginUpdate(r)
  PROVE  TypeInv'
<1>1. PICK h \in Host, e \in Endpoint \cup {Nil}, s \in Asks :
        /\ row[h] # Nil
        /\ Starts(r, "update", h,
             [Idle EXCEPT !.op = "update", !.host = h, !.pc = "save", !.asked = s,
                !.moved = e # Nil,
                !.local = [row[h] EXCEPT !.end = IF e = Nil THEN @ ELSE e,
                                         !.status = IF s = Nil THEN @ ELSE s]])
        /\ UNCHANGED <<row, client, used>>
  BY DEF BeginUpdate
<1>2. row[h] \in Row /\ h \in used /\ s \in Status \cup {Nil} /\ TypeOK
  BY <1>1, RegistryAssumption DEF TypeInv, TypeOK, RegistryAssumption
<1>3. PICK new : new = [row[h] EXCEPT !.end = IF e = Nil THEN @ ELSE e,
                                      !.status = IF s = Nil THEN @ ELSE s]
  OBVIOUS
<1>4. new \in Row
  BY <1>2, <1>3 DEF Row
<1>5. PICK q : /\ q = [Idle EXCEPT !.op = "update", !.host = h, !.pc = "save", !.asked = s,
                          !.moved = e # Nil, !.local = new]
               /\ Starts(r, "update", h, q)
  BY <1>1, <1>3
<1>6. q = [op |-> "update", host |-> h, pc |-> "save", local |-> new, asked |-> s,
           moved |-> e # Nil, using |-> Nil, reply |-> "none"]
  BY <1>5 DEF Idle
<1>7. q \in Request
  BY <1>2, <1>4, <1>6 DEF Request, Pc, Op
<1>8. q.host = h /\ q.op = "update" /\ q.pc = "save" /\ q.local \in Row
  BY <1>4, <1>6
<1>9. row' \in [Host -> Row \cup {Nil}] /\ used' \in SUBSET Host
  BY <1>1, <1>2 DEF TypeOK
<1> QED
  BY <1>1, <1>2, <1>5, <1>7, <1>8, <1>9, StartTypes DEF Op

LEMMA DeleteTypes ==
  ASSUME TypeInv, NEW r \in Req, Delete(r)
  PROVE  TypeInv'
<1>1. PICK h \in Host :
        /\ row[h] # Nil
        /\ Starts(r, "delete", h, [Idle EXCEPT !.op = "delete", !.host = h, !.pc = "drop"])
        /\ row' = [row EXCEPT ![h] = Nil]
        /\ UNCHANGED <<client, used>>
  BY DEF Delete
<1>2. PICK q : /\ q = [Idle EXCEPT !.op = "delete", !.host = h, !.pc = "drop"]
               /\ Starts(r, "delete", h, q)
  BY <1>1
<1>3. q \in Request /\ q.op = "delete" /\ q.host = h /\ q.pc = "drop"
  BY <1>2 DEF Idle, Request, Pc, Op
<1>4. /\ row' \in [Host -> Row \cup {Nil}] /\ h \in used /\ used \in SUBSET Host
      /\ \A g \in Host : row'[g] # Nil => row[g] # Nil
  BY <1>1 DEF TypeInv, TypeOK
<1> QED
  BY <1>1, <1>2, <1>3, <1>4, StartTypes DEF Op

LEMMA BeginTypes ==
  ASSUME TypeInv, NEW r \in Req, Begin(r)
  PROVE  TypeInv'
<1>1. PICK op \in {"sync", "use"}, h \in Host :
        /\ row[h] # Nil
        /\ Starts(r, op, h,
             [Idle EXCEPT !.op = op, !.host = h, !.pc = "lookup", !.local = row[h]])
        /\ UNCHANGED <<row, client, used>>
  BY DEF Begin
<1>2. row[h] \in Row /\ h \in used /\ TypeOK
  BY <1>1 DEF TypeInv, TypeOK
<1>3. PICK q : /\ q = [Idle EXCEPT !.op = op, !.host = h, !.pc = "lookup", !.local = row[h]]
               /\ Starts(r, op, h, q)
  BY <1>1
<1>4. q = [op |-> op, host |-> h, pc |-> "lookup", local |-> row[h], asked |-> Nil,
           moved |-> FALSE, using |-> Nil, reply |-> "none"]
  BY <1>3 DEF Idle
<1>5. q \in Request
  BY <1>2, <1>4 DEF Request, Pc, Op
<1>6. q.host = h /\ q.op = op /\ q.pc = "lookup" /\ q.local \in Row /\ op \in Op
  BY <1>2, <1>4 DEF Op
<1>7. row' \in [Host -> Row \cup {Nil}] /\ used' \in SUBSET Host
  BY <1>1, <1>2 DEF TypeOK
<1> QED
  BY <1>1, <1>2, <1>3, <1>5, <1>6, <1>7, StartTypes


(* What a step of r may do to its request. *)
LEMMA CallFailedTypes ==
  ASSUME TypeInv, NEW r \in Req, Busy(r), CallFailed(r)
  PROVE  /\ req' \in [Req -> Request]
         /\ \A q \in Req \ {r} : req'[q] = req[q]
         /\ req'[r].pc \in {"idle", "offline", "answer"}
         /\ Busy(r)' => req'[r].op = req[r].op /\ req'[r].host = req[r].host
<1>1. CASE req[r].op = "sync"
  <2>1. Goto(r, "offline")
    BY <1>1 DEF CallFailed
  <2> QED
    BY <2>1, GotoTypes DEF Pc
<1>2. CASE req[r].op = "use"
  <2>1. Answered(r, "failed")
    BY <1>2 DEF CallFailed
  <2> QED
    BY <2>1, AnsweredTypes DEF Busy
<1>3. CASE req[r].op \notin {"sync", "use"}
  <2>1. Goto(r, "answer")
    BY <1>3 DEF CallFailed
  <2> QED
    BY <2>1, GotoTypes DEF Pc
<1> QED
  BY <1>1, <1>2, <1>3

(* A handler moves on in its own request. *)
Moves(r) ==
  /\ req' \in [Req -> Request]
  /\ \A q \in Req \ {r} : req'[q] = req[q]
  /\ Busy(r)' => req'[r].op = req[r].op /\ req'[r].host = req[r].host

LEMMA MovesTypes ==
  ASSUME TypeInv, NEW r \in Req, Busy(r), Moves(r),
         req'[r].pc # "save",
         req'[r].pc = "drop" => req[r].op \in Writers,
         req'[r].pc \in {"drop", "lookup", "register"} =>
           req'[r].local = req[r].local /\ req[r].local \in Row,
         row' \in [Host -> Row \cup {Nil}],
         \A h \in Host : row'[h] # Nil => h \in used,
         client' \in [Host -> (Endpoint \ Unusable) \cup {Nil}],
         used' = used, disturbed' \in SUBSET Host
  PROVE  TypeInv'
<1>1. Prepared(r) /\ used \in SUBSET Host
  BY DEF TypeInv, TypeOK
<1>2. Prepared(r)'
  BY <1>1 DEF Prepared, Moves, Busy, Writers
<1> QED
  BY <1>1, <1>2, StepTypes DEF Moves

LEMMA HandleTypes ==
  ASSUME TypeInv, NEW r \in Req, Handle(r)
  PROVE  TypeInv'
<1>0. TypeOK /\ Prepared(r) /\ \A h \in Host : row[h] # Nil => h \in used
  BY DEF TypeInv
<1>1. Busy(r) /\ used' = used
  BY DEF Handle, Save, Drop, Lookup, Register, Fetch, Call, Apply, Offline, Answer, Busy
<1>2. req[r].host \in Host /\ req[r].host \in used
  BY <1>0, <1>1 DEF Prepared
<1>3. ASSUME NEW table \in [Host -> Row \cup {Nil}],
             \A h \in Host : table[h] # Nil => h \in used,
             Failed(r, table), UNCHANGED <<client, used>>
      PROVE  TypeInv'
  <2>1. /\ row' = row \/ row' = table
        /\ Answered(r, "failed") /\ disturbed' = disturbed \cup {req[r].host}
    BY <1>3 DEF Failed, Disturb
  <2>2. Moves(r) /\ req'[r].pc = "idle"
    BY <2>1, AnsweredTypes DEF Moves, Busy
  <2> QED
    BY <1>0, <1>1, <1>2, <1>3, <2>1, <2>2, MovesTypes DEF TypeOK
<1>4. CASE Save(r)
  <2> DEFINE table == [row EXCEPT ![req[r].host] = req[r].local]
  <2>1. /\ table \in [Host -> Row \cup {Nil}] /\ \A h \in Host : table[h] # Nil => h \in used
        /\ req[r].local \in Row /\ req[r].op = "update"
    BY <1>0, <1>2, <1>4 DEF TypeOK, Prepared, Save
  <2>2. CASE row' = table /\ Goto(r, AfterSave(r)) /\ UNCHANGED disturbed
    <3>1. AfterSave(r) \in {"drop", "lookup"} /\ AfterSave(r) \in Pc
      BY DEF AfterSave, Pc
    <3>2. Moves(r) /\ req'[r].pc \in {"drop", "lookup"} /\ req'[r].local = req[r].local
      BY <2>2, <3>1, GotoTypes DEF Moves
    <3> QED
      BY <1>0, <1>1, <1>4, <2>1, <2>2, <3>2, MovesTypes DEF TypeOK, Save, Writers
  <2>3. CASE Failed(r, table)
    BY <1>1, <1>3, <1>4, <2>1, <2>3 DEF Save
  <2> QED
    BY <1>4, <2>2, <2>3 DEF Save
<1>5. CASE Drop(r)
  <2>1. /\ client' \in [Host -> (Endpoint \ Unusable) \cup {Nil}]
        /\ disturbed' \in SUBSET Host /\ row' = row
        /\ req[r].op \in Writers
        /\ req[r].op = "update" => req[r].local \in Row
    BY <1>0, <1>2, <1>5 DEF Drop, Disturb, TypeOK, Prepared
  <2>2. CASE req[r].op = "delete" /\ Answered(r, "ok")
    <3>1. Moves(r) /\ req'[r].pc = "idle"
      BY <2>2, AnsweredTypes DEF Moves, Busy
    <3> QED
      BY <1>0, <1>1, <2>1, <3>1, MovesTypes DEF TypeOK
  <2>3. CASE req[r].op # "delete" /\ Goto(r, "lookup")
    <3>1. Moves(r) /\ req'[r].pc = "lookup" /\ req'[r].local = req[r].local
      BY <2>3, GotoTypes DEF Moves, Pc
    <3>2. req[r].local \in Row
      BY <2>1, <2>3 DEF Writers
    <3> QED
      BY <1>0, <1>1, <2>1, <3>1, <3>2, MovesTypes DEF TypeOK
  <2> QED
    BY <1>5, <2>2, <2>3 DEF Drop
<1>6. CASE Lookup(r)
  <2>1. /\ UNCHANGED <<row, client, used, disturbed>> /\ req[r].local \in Row
        /\ client[req[r].host] \in Endpoint \cup {Nil}
    BY <1>0, <1>2, <1>6 DEF Lookup, Prepared, TypeOK
  <2>2. CASE Goto(r, "register")
    <3>1. Moves(r) /\ req'[r].pc = "register" /\ req'[r].local = req[r].local
      BY <2>2, GotoTypes DEF Moves, Pc
    <3> QED
      BY <1>0, <1>1, <2>1, <3>1, MovesTypes DEF TypeOK
  <2>3. CASE GoCall(r, client[req[r].host])
    <3>1. Moves(r) /\ req'[r].pc = "call"
      BY <2>1, <2>3, GoCallTypes DEF Moves
    <3> QED
      BY <1>0, <1>1, <2>1, <3>1, MovesTypes DEF TypeOK
  <2> QED
    BY <1>6, <2>2, <2>3 DEF Lookup
<1>7. CASE Register(r)
  <2>1. UNCHANGED <<row, used, disturbed>> /\ req[r].local \in Row
    BY <1>0, <1>7 DEF Register, Prepared
  <2>2. CASE CallFailed(r) /\ UNCHANGED client
    <3>1. Moves(r) /\ req'[r].pc \in {"idle", "offline", "answer"}
      BY <1>1, <2>2, CallFailedTypes DEF Moves
    <3> QED
      BY <1>0, <1>1, <2>1, <2>2, <3>1, MovesTypes DEF TypeOK
  <2>3. CASE /\ req[r].local.end \notin Unusable
             /\ client' = [client EXCEPT ![req[r].host] = req[r].local.end]
             /\ Goto(r, "fetch")
    <3>1. Moves(r) /\ req'[r].pc = "fetch"
      BY <2>3, GotoTypes DEF Moves, Pc
    <3>2. client' \in [Host -> (Endpoint \ Unusable) \cup {Nil}]
      BY <1>0, <2>1, <2>3 DEF TypeOK, Row
    <3> QED
      BY <1>0, <1>1, <2>1, <3>1, <3>2, MovesTypes DEF TypeOK
  <2> QED
    BY <1>7, <2>2, <2>3 DEF Register
<1>8. CASE Fetch(r)
  <2>1. /\ UNCHANGED <<row, client, used, disturbed>>
        /\ client[req[r].host] \in Endpoint \cup {Nil} /\ GoCall(r, client[req[r].host])
    BY <1>0, <1>2, <1>8 DEF Fetch, TypeOK
  <2>2. Moves(r) /\ req'[r].pc = "call"
    BY <2>1, GoCallTypes DEF Moves
  <2> QED
    BY <1>0, <1>1, <2>1, <2>2, MovesTypes DEF TypeOK
<1>9. CASE Call(r)
  <2>1. UNCHANGED <<row, client, used, disturbed>>
    BY <1>9 DEF Call
  <2>2. Moves(r) /\ req'[r].pc \in {"idle", "apply", "offline", "answer"}
    <3>1. CASE Answered(r, "ok") \/ Answered(r, "failed")
      BY <3>1, AnsweredTypes DEF Moves, Busy
    <3>2. CASE Goto(r, "apply")
      BY <3>2, GotoTypes DEF Moves, Pc
    <3>3. CASE CallFailed(r)
      BY <1>1, <3>3, CallFailedTypes DEF Moves
    <3> QED
      BY <1>9, <3>1, <3>2, <3>3 DEF Call
  <2> QED
    BY <1>0, <1>1, <2>1, <2>2, MovesTypes DEF TypeOK
<1>10. CASE Apply(r)
  <2> DEFINE table == Snapshot(r, req[r].host)
  <2>1. table \in [Host -> Row \cup {Nil}] /\ \A h \in Host : table[h] # Nil => h \in used
    BY <1>0, <1>2 DEF Snapshot, TypeOK, Row, Status
  <2>2. CASE row' = table /\ Goto(r, "answer") /\ UNCHANGED disturbed
    <3>1. Moves(r) /\ req'[r].pc = "answer"
      BY <2>2, GotoTypes DEF Moves, Pc
    <3> QED
      BY <1>0, <1>1, <1>10, <2>1, <2>2, <3>1, MovesTypes DEF TypeOK, Apply
  <2>3. CASE Failed(r, table)
    BY <1>1, <1>3, <1>10, <2>1, <2>3 DEF Apply
  <2> QED
    BY <1>10, <2>2, <2>3 DEF Apply
<1>11. CASE Offline(r)
  <2> DEFINE table == IF row[req[r].host] = Nil THEN row
                      ELSE [row EXCEPT ![req[r].host].status = "offline"]
  <2>1. table \in [Host -> Row \cup {Nil}] /\ \A h \in Host : table[h] # Nil => h \in used
    BY <1>0, <1>2 DEF TypeOK, Row, Status
  <2>2. CASE row' = table /\ Answered(r, "failed") /\ UNCHANGED disturbed
    <3>1. Moves(r) /\ req'[r].pc = "idle"
      BY <2>2, AnsweredTypes DEF Moves, Busy
    <3> QED
      BY <1>0, <1>1, <1>11, <2>1, <2>2, <3>1, MovesTypes DEF TypeOK, Offline
  <2>3. CASE Failed(r, table)
    BY <1>1, <1>3, <1>11, <2>1, <2>3 DEF Offline
  <2> QED
    BY <1>11, <2>2, <2>3 DEF Offline
<1>12. CASE Answer(r)
  <2>1. UNCHANGED <<row, client, used, disturbed>>
    BY <1>12 DEF Answer
  <2>2. Moves(r) /\ req'[r].pc = "idle"
    BY <1>12, AnsweredTypes DEF Answer, Moves, Busy
  <2> QED
    BY <1>0, <1>1, <2>1, <2>2, MovesTypes DEF TypeOK
<1> QED
  BY <1>4, <1>5, <1>6, <1>7, <1>8, <1>9, <1>10, <1>11, <1>12 DEF Handle


LEMMA TypeStep == TypeInv /\ [Next]_vars => TypeInv'
<1> SUFFICES ASSUME TypeInv, [Next]_vars
             PROVE  TypeInv'
  OBVIOUS
<1>0. TypeOK
  BY DEF TypeInv
<1>1. ASSUME NEW r \in Req, Create(r) \/ BeginUpdate(r) \/ Delete(r) \/ Begin(r) \/ Handle(r)
      PROVE  TypeInv'
  BY <1>1, CreateTypes, BeginUpdateTypes, DeleteTypes, BeginTypes, HandleTypes
<1>2. ASSUME NEW r \in Req, DeleteFails(r) \/ Refuse(r)
      PROVE  TypeInv'
  <2>1. PICK a \in {"failed", "notfound"} : Answered(r, a)
    BY <1>2 DEF DeleteFails, Refuse, Answered
  <2>2. /\ req' \in [Req -> Request] /\ req'[r].pc = "idle"
        /\ \A q \in Req \ {r} : req'[q] = req[q]
    BY <2>1, AnsweredTypes
  <2>3. /\ row' \in [Host -> Row \cup {Nil}] /\ \A h \in Host : row'[h] # Nil => row[h] # Nil
        /\ UNCHANGED <<client, used>> /\ disturbed' \in SUBSET Host
    BY <1>0, <1>2 DEF DeleteFails, Refuse, Disturb, TypeOK
  <2>4. Prepared(r)'
    BY <2>2 DEF Prepared, Busy
  <2> QED
    BY <1>0, <2>2, <2>3, <2>4, StepTypes DEF TypeOK
<1>3. CASE Restart
  <2>1. /\ client' \in Loaded(row) /\ req' = [r \in Req |-> Idle] /\ disturbed' = {}
        /\ UNCHANGED <<row, used>>
    BY <1>3 DEF Restart
  <2>2. client' \in [Host -> (Endpoint \ Unusable) \cup {Nil}]
    BY <1>0, <2>1, LoadedHosts DEF TypeOK
  <2>3. \A r \in Req : Prepared(r)'
    BY <2>1, IdleRequest DEF Prepared, Busy
  <2> QED
    BY <1>0, <2>1, <2>2, <2>3, IdleRequest DEF TypeInv, TypeOK
<1>4. CASE UNCHANGED vars
  BY <1>4 DEF vars, TypeInv, TypeOK, Prepared, Busy
<1> QED
  BY <1>1, <1>2, <1>3, <1>4 DEF Next

-----------------------------------------------------------------------------
(* The cache. *)

(* A step of r on the host h, which alone it touches. *)
LEMMA Elsewhere ==
  ASSUME CacheInv, NEW r \in Req, NEW h \in Host,
         Busy(r) => req[r].host = h, Busy(r)' => req'[r].host = h,
         \A q \in Req \ {r} : req'[q] = req[q],
         \A g \in Host \ {h} : row'[g] = row[g] /\ client'[g] = client[g],
         disturbed \subseteq disturbed',
         h \notin disturbed' => Good(h)'
  PROVE  CacheInv'
<1> SUFFICES ASSUME NEW g \in Host \ disturbed', g # h
             PROVE  Good(g)'
  BY DEF CacheInv
<1>1. Good(g)
  BY DEF CacheInv
<1>2. On(g)' = On(g)
  BY DEF On, Busy
<1>3. \A q \in On(g) : req'[q] = req[q] /\ req[q].host = g
  BY DEF On
<1>4. row'[g] = row[g] /\ client'[g] = client[g]
  OBVIOUS
<1> QED
  BY <1>1, <1>2, <1>3, <1>4 DEF Good, ClientOk, Place

(* A step of r after which its host still has the row, or none, and the    *)
(* right client.                                                           *)
LEMMA GoesOn ==
  ASSUME TypeInv, CacheInv, NEW r \in Req, Busy(r), Moves(r), NEW h, h = req[r].host,
         req[r].pc # "drop", req'[r].pc # "drop",
         \A g \in Host \ {h} : row'[g] = row[g] /\ client'[g] = client[g],
         disturbed \subseteq disturbed',
         row[h] = Nil <=> row'[h] = Nil,
         row[h] # Nil => row'[h].end = row[h].end,
         client'[h] = client[h] \/ (row[h] # Nil /\ client'[h] = row[h].end),
         Busy(r)' /\ h \notin disturbed' => Place(r)'
  PROVE  CacheInv'
<1>1. h \in Host
  BY DEF TypeInv, Prepared
<1>2. ASSUME h \notin disturbed'
      PROVE  Good(h)'
  <2>1. Good(h) /\ r \in On(h)
    BY <1>1, <1>2 DEF CacheInv, On
  <2>2. On(h)' \subseteq On(h) /\ \A q \in On(h) \ {r} : req'[q] = req[q] /\ req[q].host = h
    BY <1>1 DEF On, Busy, Moves
  <2>3. \A q \in On(h) : req[q].pc # "drop"
    BY <2>1 DEF Good, Place
  <2>4. ClientOk(h)'
    BY <2>1, <2>3 DEF Good, ClientOk
  <2>5. \A p, q \in On(h)' : p # q => req'[p].op \notin Writers
    BY <2>1, <2>2 DEF Good, Moves, On
  <2>6. ASSUME NEW q \in On(h)', q # r
        PROVE  Place(q)'
    <3>1. Place(q) /\ req'[q] = req[q] /\ req[q].host = h /\ req[q].pc # "drop"
      BY <2>1, <2>2, <2>3, <2>6 DEF Good
    <3> QED
      BY <3>1 DEF Place
  <2>7. \A q \in On(h)' : Place(q)'
    BY <1>2, <2>6 DEF On
  <2> QED
    BY <2>4, <2>5, <2>7 DEF Good
<1> QED
  BY <1>1, <1>2, Elsewhere DEF Moves


(* A request that begins without an overlap. *)
LEMMA StartKnown ==
  ASSUME TypeInv, CacheInv, NEW r \in Req, NEW op \in Op, NEW h \in Host, NEW q,
         Starts(r, op, h, q), q.host = h, q.op = op
  PROVE  /\ req' = [req EXCEPT ![r] = q] /\ ~Busy(r) /\ req'[r] = q
         /\ \A p \in Req \ {r} : req'[p] = req[p]
         /\ disturbed \subseteq disturbed'
         /\ h \notin disturbed' => Good(h) /\ ~Overlaps(op, h)
         /\ On(h)' \subseteq On(h) \cup {r}
         /\ r \notin On(h)
BY DEF Starts, Disturb, CacheInv, TypeInv, TypeOK, On, Busy

(* One that only reads. *)
LEMMA ReaderKnown ==
  ASSUME TypeInv, CacheInv, NEW r \in Req, NEW op \in Op \ Writers, NEW h \in Host, NEW q,
         Starts(r, op, h, q), q.host = h, q.op = op, q.pc = "lookup",
         row'[h] # Nil, q.local.end = row'[h].end,
         row'[h] = row[h] \/ (row[h] = Nil /\ On(h) = {}),
         \A g \in Host \ {h} : row'[g] = row[g], client' = client
  PROVE  CacheInv'
<1>1. /\ ~Busy(r) /\ req'[r] = q
      /\ \A p \in Req \ {r} : req'[p] = req[p]
      /\ disturbed \subseteq disturbed'
      /\ h \notin disturbed' => Good(h) /\ ~Overlaps(op, h)
      /\ On(h)' \subseteq On(h) \cup {r} /\ r \notin On(h)
  BY StartKnown
<1>2. ASSUME h \notin disturbed'
      PROVE  Good(h)'
  <2>1. Good(h) /\ \A p \in On(h) : req[p].op \notin Writers
    BY <1>1, <1>2 DEF Overlaps
  <2>2. ClientOk(h)
    BY <2>1 DEF Good, Place
  <2>3. ClientOk(h)'
    BY <2>2 DEF ClientOk
  <2>4. \A p \in On(h)' \ {r} : /\ p \in On(h) /\ req'[p] = req[p] /\ req[p].host = h
                                /\ p \in Req
    BY <1>1 DEF On
  <2>5. \A p \in On(h)' : req'[p].op \notin Writers
    BY <1>1, <2>1, <2>4
  <2>6. ASSUME NEW p \in On(h)', p # r
        PROVE  Place(p)'
    <3>1. /\ Place(p) /\ req'[p] = req[p] /\ req[p].host = h /\ row'[h] = row[h]
          /\ req[p].op \notin Writers
      BY <2>1, <2>4, <2>6 DEF Good
    <3> QED
      BY <3>1 DEF Place
  <2>7. Place(r)'
    BY <1>1 DEF Place
  <2> QED
    BY <2>3, <2>5, <2>6, <2>7 DEF Good
<1>3. Busy(r)' => req'[r].host = h
  BY <1>1
<1> QED
  BY <1>1, <1>2, <1>3, Elsewhere

(* One that writes is the only one. *)
LEMMA WriterKnown ==
  ASSUME TypeInv, CacheInv, NEW r \in Req, NEW op \in Writers, NEW h \in Host, NEW q,
         Starts(r, op, h, q), q.host = h, q.op = op,
         \A g \in Host \ {h} : row'[g] = row[g], client' = client,
         \/ /\ op = "update" /\ q.pc = "save" /\ row' = row /\ row[h] # Nil
            /\ ~q.moved => q.local.end = row[h].end
         \/ op = "delete" /\ q.pc = "drop" /\ row'[h] = Nil
  PROVE  CacheInv'
<1>1. /\ ~Busy(r) /\ req'[r] = q
      /\ \A p \in Req \ {r} : req'[p] = req[p]
      /\ disturbed \subseteq disturbed'
      /\ h \notin disturbed' => Good(h) /\ ~Overlaps(op, h)
      /\ On(h)' \subseteq On(h) \cup {r} /\ r \notin On(h)
  BY StartKnown DEF Writers, Op
<1>2. ASSUME h \notin disturbed'
      PROVE  Good(h)'
  <2>1. Good(h) /\ On(h) = {}
    BY <1>1, <1>2 DEF Overlaps
  <2>2. ClientOk(h)
    BY <2>1 DEF Good
  <2>3. On(h)' \subseteq {r} /\ (q.pc # "idle" => r \in On(h)')
    BY <1>1, <2>1 DEF On, Busy
  <2>4. CASE op = "update" /\ q.pc = "save"
    <3>1. ClientOk(h)' /\ Place(r)'
      BY <1>1, <2>2, <2>4 DEF ClientOk, Place
    <3> QED
      BY <2>3, <3>1 DEF Good
  <2>5. CASE op = "delete" /\ q.pc = "drop"
    <3>1. Place(r)' /\ req'[r].pc = "drop" /\ r \in On(h)'
      BY <1>1, <2>3, <2>5 DEF Place, Writers
    <3> QED
      BY <2>3, <3>1 DEF Good
  <2> QED
    BY <2>4, <2>5
<1>3. Busy(r)' => req'[r].host = h
  BY <1>1
<1> QED
  BY <1>1, <1>2, <1>3, Elsewhere

LEMMA BeginsKnown ==
  ASSUME TypeInv, CacheInv, NEW r \in Req,
         Create(r) \/ BeginUpdate(r) \/ Delete(r) \/ Begin(r)
  PROVE  CacheInv'
<1>0. TypeOK /\ \A p \in Req : Prepared(p)
  BY DEF TypeInv
<1>1. CASE Create(r)
  <2>1. PICK h \in Host \ used, e \in Endpoint :
          /\ Starts(r, "create", h,
               [Idle EXCEPT !.op = "create", !.host = h, !.pc = "lookup",
                            !.local = [end |-> e, status |-> "offline"]])
          /\ row' = [row EXCEPT ![h] = [end |-> e, status |-> "offline"]]
          /\ client' = client
    BY <1>1 DEF Create
  <2>2. PICK q : /\ q = [Idle EXCEPT !.op = "create", !.host = h, !.pc = "lookup",
                                     !.local = [end |-> e, status |-> "offline"]]
                 /\ Starts(r, "create", h, q)
    BY <2>1
  <2>3. /\ q.op = "create" /\ q.host = h /\ q.pc = "lookup" /\ q.local.end = e
    BY <2>2 DEF Idle
  <2>4. [end |-> e, status |-> "offline"] \in Row
    BY DEF Row, Status
  <2>5. /\ row'[h] # Nil /\ row'[h].end = e
        /\ \A g \in Host \ {h} : row'[g] = row[g]
    BY <1>0, <2>1, <2>4, RegistryAssumption DEF TypeOK, RegistryAssumption
  <2>6. row[h] = Nil /\ On(h) = {}
    BY <1>0, <2>1 DEF TypeInv, On, Prepared
  <2> QED
    BY <2>1, <2>2, <2>3, <2>5, <2>6, ReaderKnown DEF Op, Writers
<1>2. CASE BeginUpdate(r)
  <2>1. PICK h \in Host, e \in Endpoint \cup {Nil}, st \in Asks :
          /\ row[h] # Nil
          /\ Starts(r, "update", h,
               [Idle EXCEPT !.op = "update", !.host = h, !.pc = "save", !.asked = st,
                  !.moved = e # Nil,
                  !.local = [row[h] EXCEPT !.end = IF e = Nil THEN @ ELSE e,
                                           !.status = IF st = Nil THEN @ ELSE st]])
          /\ UNCHANGED <<row, client, used>>
    BY <1>2 DEF BeginUpdate
  <2>2. PICK new : new = [row[h] EXCEPT !.end = IF e = Nil THEN @ ELSE e,
                                        !.status = IF st = Nil THEN @ ELSE st]
    OBVIOUS
  <2>3. row[h] \in Row
    BY <1>0, <2>1 DEF TypeOK
  <2>4. e = Nil => new.end = row[h].end
    BY <2>2, <2>3 DEF Row
  <2>5. PICK q : /\ q = [Idle EXCEPT !.op = "update", !.host = h, !.pc = "save", !.asked = st,
                            !.moved = e # Nil, !.local = new]
                 /\ Starts(r, "update", h, q)
    BY <2>1, <2>2
  <2>6. /\ q.op = "update" /\ q.host = h /\ q.pc = "save" /\ q.local = new
        /\ q.moved = (e # Nil)
    BY <2>5 DEF Idle
  <2>7. ~q.moved => q.local.end = row[h].end
    BY <2>4, <2>6
  <2> QED
    BY <2>1, <2>5, <2>6, <2>7, WriterKnown DEF Writers
<1>3. CASE Delete(r)
  <2>1. PICK h \in Host :
          /\ Starts(r, "delete", h, [Idle EXCEPT !.op = "delete", !.host = h, !.pc = "drop"])
          /\ row' = [row EXCEPT ![h] = Nil]
          /\ UNCHANGED <<client, used>>
    BY <1>3 DEF Delete
  <2>2. PICK q : /\ q = [Idle EXCEPT !.op = "delete", !.host = h, !.pc = "drop"]
                 /\ Starts(r, "delete", h, q)
    BY <2>1
  <2>3. q.op = "delete" /\ q.host = h /\ q.pc = "drop"
    BY <2>2 DEF Idle
  <2>4. row'[h] = Nil /\ \A g \in Host \ {h} : row'[g] = row[g]
    BY <1>0, <2>1 DEF TypeOK
  <2> QED
    BY <2>1, <2>2, <2>3, <2>4, WriterKnown DEF Writers
<1>4. CASE Begin(r)
  <2>1. PICK op \in {"sync", "use"}, h \in Host :
          /\ row[h] # Nil
          /\ Starts(r, op, h,
               [Idle EXCEPT !.op = op, !.host = h, !.pc = "lookup", !.local = row[h]])
          /\ UNCHANGED <<row, client, used>>
    BY <1>4 DEF Begin
  <2>2. PICK q : /\ q = [Idle EXCEPT !.op = op, !.host = h, !.pc = "lookup", !.local = row[h]]
                 /\ Starts(r, op, h, q)
    BY <2>1
  <2>3. q.op = op /\ q.host = h /\ q.pc = "lookup" /\ q.local = row[h] /\ op \in Op \ Writers
    BY <2>2 DEF Idle, Op, Writers
  <2> QED
    BY <2>1, <2>2, <2>3, ReaderKnown
<1> QED
  BY <1>1, <1>2, <1>3, <1>4


(* A writer's own steps, which change the row or the client. *)
LEMMA SaveKnown ==
  ASSUME TypeInv, CacheInv, NEW r \in Req, Save(r), row' = [row EXCEPT ![req[r].host] = req[r].local],
         Goto(r, AfterSave(r)), UNCHANGED disturbed
  PROVE  CacheInv'
<1>1. PICK h \in Host : h = req[r].host
  BY DEF TypeInv, Prepared, Busy, Save
<1>2. /\ req[r].op = "update" /\ req[r].local \in Row /\ req[r].pc = "save" /\ client' = client
      /\ Busy(r)
  BY DEF TypeInv, Prepared, Save, Busy
<1>3. /\ row'[h] = req[r].local /\ row'[h] # Nil
      /\ \A g \in Host \ {h} : row'[g] = row[g]
  BY <1>1, <1>2, RegistryAssumption DEF TypeInv, TypeOK, RegistryAssumption
<1>4. AfterSave(r) \in Pc
  BY DEF AfterSave, Pc
<1>5. /\ \A q \in Req \ {r} : req'[q] = req[q]
      /\ req'[r].pc = AfterSave(r) /\ req'[r].op = "update" /\ req'[r].host = h
      /\ req'[r].local = req[r].local
  BY <1>1, <1>2, <1>4, GotoTypes
<1>6. ASSUME h \notin disturbed'
      PROVE  Good(h)'
  <2>1. Good(h) /\ r \in On(h)
    BY <1>1, <1>2, <1>6 DEF CacheInv, On
  <2>2. On(h) = {r}
    BY <1>2, <2>1 DEF Good, Writers
  <2>3. On(h)' = {r}
    BY <1>1, <1>4, <1>5, <2>2 DEF On, Busy, AfterSave
  <2>4. CASE req[r].moved
    <3>1. req'[r].pc = "drop"
      BY <1>5, <2>4 DEF AfterSave
    <3>2. Place(r)'
      BY <1>3, <1>5, <3>1 DEF Place, Writers
    <3> QED
      BY <2>3, <3>1, <3>2 DEF Good
  <2>5. CASE ~req[r].moved
    <3>1. req'[r].pc = "lookup"
      BY <1>5, <2>5 DEF AfterSave
    <3>2. req[r].local.end = row[h].end /\ row[h] # Nil /\ ClientOk(h)
      BY <1>1, <1>2, <2>1, <2>2, <2>5 DEF Good, Place
    <3>3. ClientOk(h)' /\ Place(r)'
      BY <1>2, <1>3, <1>5, <3>1, <3>2 DEF ClientOk, Place
    <3> QED
      BY <2>3, <3>3 DEF Good
  <2> QED
    BY <2>4, <2>5
<1> QED
  BY <1>1, <1>2, <1>3, <1>5, <1>6, Elsewhere

LEMMA DropKnown ==
  ASSUME TypeInv, CacheInv, NEW r \in Req, Drop(r)
  PROVE  CacheInv'
<1>1. PICK h \in Host : h = req[r].host
  BY DEF TypeInv, Prepared, Busy, Drop
<1>2. /\ req[r].pc = "drop" /\ row' = row /\ Busy(r) /\ req[r].op \in Writers
      /\ client' = [client EXCEPT ![h] = Nil] \/ client' = client
      /\ disturbed' = disturbed \cup {h} \/ (disturbed' = disturbed /\ client'[h] = Nil)
  BY <1>1 DEF TypeInv, TypeOK, Prepared, Drop, Busy, Disturb
<1>3. \A g \in Host \ {h} : client'[g] = client[g]
  BY <1>1, <1>2 DEF TypeInv, TypeOK
<1>4. /\ \A q \in Req \ {r} : req'[q] = req[q]
      /\ \/ req[r].op = "delete" /\ req'[r].pc = "idle"
         \/ /\ req[r].op = "update" /\ req'[r].pc = "lookup" /\ req'[r].op = req[r].op
            /\ req'[r].host = h /\ req'[r].local = req[r].local
  <2>1. CASE req[r].op = "delete"
    BY <2>1, AnsweredTypes DEF Drop
  <2>2. CASE req[r].op = "update"
    BY <1>1, <2>2, GotoTypes DEF Drop, Pc
  <2> QED
    BY <1>2, <2>1, <2>2 DEF Writers
<1>5. ASSUME h \notin disturbed'
      PROVE  Good(h)'
  <2>1. Good(h) /\ r \in On(h) /\ client'[h] = Nil
    BY <1>1, <1>2, <1>5 DEF CacheInv, On
  <2>2. On(h) = {r} /\ Place(r)
    BY <1>2, <2>1 DEF Good
  <2>3. ClientOk(h)'
    BY <2>1 DEF ClientOk
  <2>4. CASE req'[r].pc = "idle"
    <3>1. On(h)' = {}
      BY <1>4, <2>2, <2>4 DEF On, Busy
    <3> QED
      BY <2>3, <3>1 DEF Good
  <2>5. CASE /\ req[r].op = "update" /\ req'[r].pc = "lookup" /\ req'[r].op = req[r].op
             /\ req'[r].host = h /\ req'[r].local = req[r].local
    <3>1. On(h)' = {r}
      BY <1>4, <2>2, <2>5 DEF On, Busy
    <3>2. Place(r)'
      BY <1>1, <1>2, <2>2, <2>5 DEF Place
    <3> QED
      BY <2>3, <3>1, <3>2 DEF Good
  <2> QED
    BY <1>4, <2>4, <2>5
<1>6. /\ Busy(r) => req[r].host = h /\ disturbed \subseteq disturbed'
      /\ Busy(r)' => req'[r].host = h
  BY <1>1, <1>2, <1>4 DEF Busy
<1> QED
  BY <1>1, <1>2, <1>3, <1>4, <1>5, <1>6, Elsewhere

(* A failed statement puts the host among the disturbed. *)
LEMMA FailedKnown ==
  ASSUME TypeInv, CacheInv, NEW r \in Req, Busy(r), NEW table, Failed(r, table),
         \A g \in Host \ {req[r].host} : table[g] = row[g], client' = client
  PROVE  CacheInv'
<1>1. PICK h \in Host : h = req[r].host
  BY DEF TypeInv, Prepared
<1>2. /\ \A q \in Req \ {r} : req'[q] = req[q]
      /\ req'[r].pc = "idle"
  BY AnsweredTypes DEF Failed
<1>3. /\ disturbed \subseteq disturbed' /\ h \in disturbed'
      /\ \A g \in Host \ {h} : row'[g] = row[g]
  BY <1>1 DEF Failed, Disturb
<1> QED
  BY <1>1, <1>2, <1>3, Elsewhere DEF Busy

LEMMA HandleKnown ==
  ASSUME TypeInv, CacheInv, NEW r \in Req, Handle(r)
  PROVE  CacheInv'
<1>0. TypeOK /\ Prepared(r)
  BY DEF TypeInv
<1>1. Busy(r)
  BY DEF Handle, Save, Drop, Lookup, Register, Fetch, Call, Apply, Offline, Answer, Busy
<1>2. PICK h \in Host : h = req[r].host
  BY <1>0, <1>1 DEF Prepared
<1>3. h \notin disturbed => Place(r) /\ (req[r].pc # "drop" => ClientOk(h))
  <2> SUFFICES ASSUME h \notin disturbed
               PROVE  Place(r) /\ (req[r].pc # "drop" => ClientOk(h))
    OBVIOUS
  <2>1. Good(h) /\ r \in On(h)
    BY <1>1, <1>2 DEF CacheInv, On
  <2>2. ASSUME NEW q \in On(h), req[q].pc = "drop"
        PROVE  req[r].pc = "drop"
    BY <2>1, <2>2 DEF Good, Place
  <2> QED
    BY <2>1, <2>2 DEF Good
<1>4. ASSUME Moves(r), req'[r].pc \in {"idle", "offline", "answer"}, req[r].pc # "drop",
             disturbed' = disturbed, client' = client,
             \A g \in Host \ {h} : row'[g] = row[g], row[h] = Nil <=> row'[h] = Nil,
             row[h] # Nil => row'[h].end = row[h].end
      PROVE  CacheInv'
  <2>1. Place(r)'
    BY <1>4 DEF Place
  <2> QED
    BY <1>1, <1>2, <1>4, <2>1, GoesOn
<1>5. ASSUME Moves(r), req'[r].pc \in {"register", "fetch", "call", "apply"}, req[r].pc # "drop",
             disturbed' = disturbed, row' = row,
             \A g \in Host \ {h} : client'[g] = client[g],
             client'[h] = client[h] \/ (row[h] # Nil /\ client'[h] = row[h].end),
             h \notin disturbed => Place(r)'
      PROVE  CacheInv'
  BY <1>1, <1>2, <1>5, GoesOn
<1>6. CASE Save(r)
  <2> DEFINE table == [row EXCEPT ![req[r].host] = req[r].local]
  <2>1. CASE row' = table /\ Goto(r, AfterSave(r)) /\ UNCHANGED disturbed
    BY <1>6, <2>1, SaveKnown
  <2>2. CASE Failed(r, table)
    <3>1. client' = client /\ \A g \in Host \ {req[r].host} : table[g] = row[g]
      BY <1>0, <1>2, <1>6 DEF Save, TypeOK
    <3> QED
      BY <1>1, <2>2, <3>1, FailedKnown
  <2> QED
    BY <1>6, <2>1, <2>2 DEF Save
<1>7. CASE Drop(r)
  BY <1>7, DropKnown
<1>8. CASE Lookup(r)
  <2>1. /\ UNCHANGED <<row, client, used, disturbed>> /\ req[r].pc = "lookup"
        /\ client[h] \in Endpoint \cup {Nil}
    BY <1>0, <1>2, <1>8 DEF Lookup, TypeOK
  <2>2. CASE Goto(r, "register")
    <3>1. /\ Moves(r) /\ req'[r].pc = "register" /\ req'[r].host = h
          /\ req'[r].local = req[r].local
      BY <1>2, <2>2, GotoTypes DEF Moves, Pc
    <3>2. h \notin disturbed => Place(r)'
      BY <1>2, <1>3, <2>1, <3>1 DEF Place
    <3> QED
      BY <1>5, <2>1, <3>1, <3>2
  <2>3. CASE client[h] # Nil /\ GoCall(r, client[h])
    <3>1. /\ Moves(r) /\ req'[r].pc = "call" /\ req'[r].host = h
          /\ req'[r].using = client[h]
      BY <1>2, <2>1, <2>3, GoCallTypes DEF Moves
    <3>2. h \notin disturbed => Place(r)'
      BY <1>2, <1>3, <2>1, <2>3, <3>1 DEF Place, ClientOk
    <3> QED
      BY <1>5, <2>1, <3>1, <3>2
  <2> QED
    BY <1>2, <1>8, <2>2, <2>3 DEF Lookup
<1>9. CASE Register(r)
  <2>1. /\ UNCHANGED <<row, used, disturbed>> /\ req[r].pc = "register"
        /\ req[r].local \in Row
    BY <1>0, <1>9 DEF Register, Prepared
  <2>2. CASE CallFailed(r) /\ UNCHANGED client
    <3>1. Moves(r) /\ req'[r].pc \in {"idle", "offline", "answer"}
      BY <1>1, <2>2, CallFailedTypes DEF Moves
    <3> QED
      BY <1>4, <2>1, <2>2, <3>1
  <2>3. CASE /\ client' = [client EXCEPT ![h] = req[r].local.end] /\ Goto(r, "fetch")
    <3>1. Moves(r) /\ req'[r].pc = "fetch" /\ req'[r].host = h
      BY <1>2, <2>3, GotoTypes DEF Moves, Pc
    <3>2. /\ client'[h] = req[r].local.end
          /\ \A g \in Host \ {h} : client'[g] = client[g]
      BY <1>0, <2>3 DEF TypeOK
    <3>3. h \notin disturbed => row[h] # Nil /\ req[r].local.end = row[h].end
      BY <1>2, <1>3, <2>1 DEF Place
    <3>4. CASE h \in disturbed
      <4>1. Busy(r)' => req'[r].host = h
        BY <3>1
      <4> QED
        BY <1>1, <1>2, <2>1, <3>1, <3>2, <3>4, <4>1, Elsewhere DEF Moves
    <3>5. CASE h \notin disturbed
      <4>1. Place(r)'
        BY <2>1, <3>1, <3>2, <3>3, <3>5 DEF Place
      <4> QED
        BY <1>5, <2>1, <3>1, <3>2, <3>3, <3>5, <4>1
    <3> QED
      BY <3>4, <3>5
  <2> QED
    BY <1>2, <1>9, <2>2, <2>3 DEF Register
<1>10. CASE Fetch(r)
  <2>1. /\ UNCHANGED <<row, client, used, disturbed>> /\ req[r].pc = "fetch"
        /\ client[h] \in Endpoint \cup {Nil} /\ GoCall(r, client[h])
    BY <1>0, <1>2, <1>10 DEF Fetch, TypeOK
  <2>2. /\ Moves(r) /\ req'[r].pc = "call" /\ req'[r].host = h
        /\ req'[r].using = client[h]
    BY <1>2, <2>1, GoCallTypes DEF Moves
  <2>3. h \notin disturbed => Place(r)'
    BY <1>2, <1>3, <2>1, <2>2 DEF Place
  <2> QED
    BY <1>5, <2>1, <2>2, <2>3
<1>11. CASE Call(r)
  <2>1. UNCHANGED <<row, client, used, disturbed>> /\ req[r].pc = "call"
    BY <1>11 DEF Call
  <2>2. CASE Answered(r, "ok") \/ Answered(r, "failed")
    <3>1. Moves(r) /\ req'[r].pc = "idle"
      BY <2>2, AnsweredTypes DEF Moves, Busy
    <3> QED
      BY <1>4, <2>1, <3>1
  <2>3. CASE Goto(r, "apply")
    <3>1. /\ Moves(r) /\ req'[r].pc = "apply" /\ req'[r].host = h
          /\ req'[r].using = req[r].using
      BY <1>2, <2>3, GotoTypes DEF Moves, Pc
    <3>2. h \notin disturbed => Place(r)'
      BY <1>2, <1>3, <2>1, <3>1 DEF Place
    <3> QED
      BY <1>5, <2>1, <3>1, <3>2
  <2>4. CASE CallFailed(r)
    <3>1. Moves(r) /\ req'[r].pc \in {"idle", "offline", "answer"}
      BY <1>1, <2>4, CallFailedTypes DEF Moves
    <3> QED
      BY <1>4, <2>1, <3>1
  <2> QED
    BY <1>11, <2>2, <2>3, <2>4 DEF Call
<1>12. CASE Apply(r)
  <2> DEFINE table == Snapshot(r, h)
  <2>1. /\ \A g \in Host \ {h} : table[g] = row[g]
        /\ row[h] = Nil <=> table[h] = Nil
        /\ row[h] # Nil => table[h].end = row[h].end
    <3>1. CASE row[h] = Nil
      BY <3>1 DEF Snapshot
    <3>2. CASE row[h] # Nil
      <4>1. row[h] \in Row
        BY <1>0, <1>2, <3>2 DEF TypeOK
      <4>2. PICK new : new = [row[h] EXCEPT !.status = "online"] /\ table = [row EXCEPT ![h] = new]
        BY <3>2 DEF Snapshot
      <4>3. new \in Row /\ new.end = row[h].end
        BY <4>1, <4>2 DEF Row, Status
      <4>4. new # Nil
        BY <4>3, RegistryAssumption DEF RegistryAssumption
      <4> HIDE DEF table
      <4> QED
        BY <1>0, <3>2, <4>2, <4>3, <4>4 DEF TypeOK
    <3> QED
      BY <3>1, <3>2
  <2> HIDE DEF table
  <2>2. client' = client /\ req[r].pc = "apply"
    BY <1>12 DEF Apply
  <2>3. CASE row' = table /\ Goto(r, "answer") /\ UNCHANGED disturbed
    <3>1. Moves(r) /\ req'[r].pc = "answer"
      BY <2>3, GotoTypes DEF Moves, Pc
    <3> QED
      BY <1>4, <2>1, <2>2, <2>3, <3>1
  <2>4. CASE Failed(r, table)
    BY <1>1, <1>2, <2>1, <2>2, <2>4, FailedKnown
  <2> QED
    BY <1>2, <1>12, <2>3, <2>4 DEF Apply, table
<1>13. CASE Offline(r)
  <2> DEFINE table == IF row[h] = Nil THEN row ELSE [row EXCEPT ![h].status = "offline"]
  <2>1. /\ \A g \in Host \ {h} : table[g] = row[g]
        /\ row[h] = Nil <=> table[h] = Nil
        /\ row[h] # Nil => table[h].end = row[h].end
    <3>1. CASE row[h] = Nil
      BY <3>1
    <3>2. CASE row[h] # Nil
      <4>1. row[h] \in Row
        BY <1>0, <1>2, <3>2 DEF TypeOK
      <4>2. PICK new : new = [row[h] EXCEPT !.status = "offline"] /\ table = [row EXCEPT ![h] = new]
        BY <3>2
      <4>3. new \in Row /\ new.end = row[h].end
        BY <4>1, <4>2 DEF Row, Status
      <4>4. new # Nil
        BY <4>3, RegistryAssumption DEF RegistryAssumption
      <4> HIDE DEF table
      <4> QED
        BY <1>0, <3>2, <4>2, <4>3, <4>4 DEF TypeOK
    <3> QED
      BY <3>1, <3>2
  <2> HIDE DEF table
  <2>2. client' = client /\ req[r].pc = "offline"
    BY <1>13 DEF Offline
  <2>3. CASE row' = table /\ Answered(r, "failed") /\ UNCHANGED disturbed
    <3>1. Moves(r) /\ req'[r].pc = "idle"
      BY <2>3, AnsweredTypes DEF Moves, Busy
    <3> QED
      BY <1>4, <2>1, <2>2, <2>3, <3>1
  <2>4. CASE Failed(r, table)
    BY <1>1, <1>2, <2>1, <2>2, <2>4, FailedKnown
  <2> QED
    BY <1>2, <1>13, <2>3, <2>4 DEF Offline, table
<1>14. CASE Answer(r)
  <2>1. Moves(r) /\ req'[r].pc = "idle"
    BY <1>14, AnsweredTypes DEF Answer, Moves, Busy
  <2>2. UNCHANGED <<row, client, used, disturbed>> /\ req[r].pc = "answer"
    BY <1>14 DEF Answer
  <2> QED
    BY <1>4, <2>1, <2>2
<1> QED
  BY <1>6, <1>7, <1>8, <1>9, <1>10, <1>11, <1>12, <1>13, <1>14 DEF Handle

LEMMA CacheStep == TypeInv /\ CacheInv /\ [Next]_vars => CacheInv'
<1> SUFFICES ASSUME TypeInv, CacheInv, [Next]_vars
             PROVE  CacheInv'
  OBVIOUS
<1>0. TypeOK
  BY DEF TypeInv
<1>1. ASSUME NEW r \in Req, Create(r) \/ BeginUpdate(r) \/ Delete(r) \/ Begin(r)
      PROVE  CacheInv'
  BY <1>1, BeginsKnown
<1>2. ASSUME NEW r \in Req, Handle(r)
      PROVE  CacheInv'
  BY <1>2, HandleKnown
<1>3. ASSUME NEW r \in Req, DeleteFails(r)
      PROVE  CacheInv'
  <2>1. PICK h \in Host :
          /\ row' \in {row, [row EXCEPT ![h] = Nil]}
          /\ Answered(r, "failed") /\ disturbed' = disturbed \cup {h}
    BY <1>3 DEF DeleteFails, Answered, Disturb
  <2>2. ~Busy(r) /\ ~Busy(r)' /\ \A q \in Req \ {r} : req'[q] = req[q]
    BY <1>3, <2>1, AnsweredTypes DEF DeleteFails, Busy
  <2>3. \A g \in Host \ {h} : row'[g] = row[g] /\ client'[g] = client[g]
    BY <1>0, <1>3, <2>1 DEF DeleteFails, TypeOK
  <2> QED
    BY <2>1, <2>2, <2>3, Elsewhere
<1>4. ASSUME NEW r \in Req, Refuse(r)
      PROVE  CacheInv'
  <2>1. Answered(r, "notfound") /\ ~Busy(r) /\ UNCHANGED <<row, client, disturbed>>
    BY <1>4 DEF Refuse, Answered
  <2>2. ~Busy(r)' /\ \A q \in Req \ {r} : req'[q] = req[q]
    BY <2>1, AnsweredTypes DEF Busy
  <2>3. \A h \in Host : On(h)' = On(h)
    BY <2>1, <2>2 DEF On, Busy
  <2>4. ASSUME NEW h \in Host \ disturbed
        PROVE  Good(h)'
    <3>1. \A q \in On(h) : req'[q] = req[q] /\ q \in Req
      BY <2>1, <2>2 DEF On
    <3>2. Good(h) /\ On(h)' = On(h)
      BY <2>3 DEF CacheInv
    <3> QED
      BY <2>1, <3>1, <3>2 DEF Good, ClientOk, Place
  <2> QED
    BY <2>1, <2>4 DEF CacheInv
<1>5. CASE Restart
  <2>1. /\ client' \in Loaded(row) /\ req' = [r \in Req |-> Idle] /\ row' = row
    BY <1>5 DEF Restart
  <2>2. \A h \in Host : On(h)' = {} /\ ClientOk(h)'
    BY <1>0, <2>1, LoadedHosts, IdleRequest DEF On, Busy, ClientOk, TypeOK
  <2> QED
    BY <2>2 DEF CacheInv, Good
<1>6. CASE UNCHANGED vars
  BY <1>6 DEF vars, CacheInv, Good, ClientOk, Place, On, Busy
<1> QED
  BY <1>1, <1>2, <1>3, <1>4, <1>5, <1>6 DEF Next

-----------------------------------------------------------------------------
LEMMA InitInv == Init => TypeInv /\ CacheInv
<1> SUFFICES ASSUME Init
             PROVE  TypeInv /\ CacheInv
  OBVIOUS
<1>1. /\ row \in [Host -> Row \cup {Nil}]
      /\ \A h \in Host : row[h] # Nil <=> h \in used
      /\ used \in SUBSET Host
  BY RegistryAssumption DEF Init, RegistryAssumption, Row, Status
<1>2. /\ client \in [Host -> (Endpoint \ Unusable) \cup {Nil}]
      /\ \A h \in Host : ClientOk(h)
  BY <1>1, LoadedHosts DEF Init, ClientOk
<1>3. /\ req \in [Req -> Request] /\ \A r \in Req : req[r].pc = "idle"
      /\ disturbed = {}
  BY IdleRequest DEF Init
<1>4. TypeInv
  BY <1>1, <1>2, <1>3 DEF TypeInv, TypeOK, Prepared, Busy
<1>5. \A h \in Host : On(h) = {}
  BY <1>3 DEF On, Busy
<1> QED
  BY <1>2, <1>4, <1>5 DEF CacheInv, Good

(* The inductive invariant: a writer that has its host to itself finds the *)
(* cache as the table has it, but for the client it is about to drop.      *)
THEOREM Invariance == Spec => [](TypeInv /\ CacheInv)
<1>1. Init => TypeInv /\ CacheInv
  BY InitInv
<1>2. TypeInv /\ CacheInv /\ [Next]_vars => TypeInv' /\ CacheInv'
  BY TypeStep, CacheStep
<1> QED
  BY <1>1, <1>2, PTL DEF Spec

(* The hosts table, the cache of clients and the requests have their types. *)
(* No cached client was made from a certificate that does not parse.        *)
THEOREM TypeCorrect == Spec => []TypeOK
<1>1. TypeInv => TypeOK
  BY DEF TypeInv
<1> QED
  BY <1>1, Invariance, PTL

(* RegisterHost and RemoveHost keep the cache of clients in step with the  *)
(* hosts table: a host nobody is working on, written by one request at a   *)
(* time, has no client or the one its row asks for.                        *)
THEOREM CacheFollowsAlways == Spec => []CacheFollowsTable
<1>1. TypeInv /\ CacheInv => CacheFollowsTable
  BY DEF CacheInv, Good, ClientOk, CacheFollowsTable
<1> QED
  BY <1>1, Invariance, PTL

(* getOrCreateClient never hands out the client of another endpoint than   *)
(* the row's, nor nil, unless a writer overlapped or failed.               *)
THEOREM CallsGoToTheRow == Spec => []CallsRegisteredEndpoint
<1>1. TypeInv /\ CacheInv => CallsRegisteredEndpoint
  <2> SUFFICES ASSUME TypeInv, CacheInv, NEW r \in Req,
                      req[r].pc \in {"call", "apply"}, req[r].host \notin disturbed
               PROVE  row[req[r].host] # Nil /\ req[r].using = row[req[r].host].end
    BY DEF CallsRegisteredEndpoint
  <2>1. Busy(r) /\ req[r].host \in Host
    BY DEF Busy, TypeInv, Prepared
  <2>2. Place(r)
    BY <2>1 DEF CacheInv, Good, On
  <2> QED
    BY <2>2 DEF Place
<1> QED
  BY <1>1, Invariance, PTL

(* The struct an update saves is the only thing that could bring a row     *)
(* back.                                                                   *)
LEMMA StaysDeleted ==
  ASSUME TypeInv, [Next]_vars, NEW h \in Host, Deleted(h)
  PROVE  Deleted(h)'
<1>1. /\ TypeOK /\ h \in used /\ row[h] = Nil
      /\ \A q \in Req : req[q].host = h => req[q].pc # "save"
  BY DEF TypeInv, Deleted, On, Busy
<1>2. ASSUME NEW r \in Req, used \subseteq used', row'[h] = Nil,
             \A q \in Req \ {r} : req'[q] = req[q],
             req'[r].host = h => req'[r].pc # "save"
      PROVE  Deleted(h)'
  BY <1>1, <1>2 DEF Deleted, On
<1>3. ASSUME NEW r \in Req, NEW a \in {"ok", "failed", "notfound"}, Answered(r, a),
             used' = used, row'[h] = Nil
      PROVE  Deleted(h)'
  BY <1>2, <1>3, AnsweredTypes
<1>4. ASSUME NEW r \in Req, Moves(r), req'[r].pc # "save", used' = used, row'[h] = Nil
      PROVE  Deleted(h)'
  BY <1>2, <1>4 DEF Moves
<1>5. ASSUME NEW r \in Req, Create(r) \/ BeginUpdate(r) \/ Delete(r) \/ Begin(r)
      PROVE  Deleted(h)'
  <2>1. ASSUME NEW op, NEW g \in Host, NEW q, q.host = g, Starts(r, op, g, q),
               q.pc = "save" => g # h, used \subseteq used', row'[h] = Nil
        PROVE  Deleted(h)'
    <3>1. req' = [req EXCEPT ![r] = q]
      BY <2>1 DEF Starts
    <3>2. req'[r] = q /\ \A p \in Req \ {r} : req'[p] = req[p]
      BY <1>1, <3>1 DEF TypeOK
    <3> QED
      BY <1>2, <2>1, <3>2
  <2>2. CASE Create(r)
    <3>1. PICK g \in Host \ used, e \in Endpoint :
            /\ Starts(r, "create", g,
                 [Idle EXCEPT !.op = "create", !.host = g, !.pc = "lookup",
                              !.local = [end |-> e, status |-> "offline"]])
            /\ row' = [row EXCEPT ![g] = [end |-> e, status |-> "offline"]]
            /\ used' = used \cup {g}
      BY <2>2 DEF Create
    <3>2. PICK q : /\ q = [Idle EXCEPT !.op = "create", !.host = g, !.pc = "lookup",
                                       !.local = [end |-> e, status |-> "offline"]]
                   /\ Starts(r, "create", g, q)
      BY <3>1
    <3>3. q.host = g /\ q.pc = "lookup"
      BY <3>2 DEF Idle
    <3>4. row'[h] = Nil
      BY <1>1, <3>1 DEF TypeOK
    <3> QED
      BY <2>1, <3>1, <3>2, <3>3, <3>4
  <2>3. CASE BeginUpdate(r)
    <3>1. PICK g \in Host, e \in Endpoint \cup {Nil}, s \in Asks :
            /\ row[g] # Nil
            /\ Starts(r, "update", g,
                 [Idle EXCEPT !.op = "update", !.host = g, !.pc = "save", !.asked = s,
                    !.moved = e # Nil,
                    !.local = [row[g] EXCEPT !.end = IF e = Nil THEN @ ELSE e,
                                             !.status = IF s = Nil THEN @ ELSE s]])
            /\ UNCHANGED <<row, client, used>>
      BY <2>3 DEF BeginUpdate
    <3>2. PICK q : /\ q = [Idle EXCEPT !.op = "update", !.host = g, !.pc = "save", !.asked = s,
                              !.moved = e # Nil,
                              !.local = [row[g] EXCEPT !.end = IF e = Nil THEN @ ELSE e,
                                                       !.status = IF s = Nil THEN @ ELSE s]]
                   /\ Starts(r, "update", g, q)
      BY <3>1
    <3>3. q.host = g /\ g # h
      BY <1>1, <3>1, <3>2 DEF Idle
    <3> QED
      BY <1>1, <2>1, <3>1, <3>2, <3>3
  <2>4. CASE Delete(r)
    <3>1. PICK g \in Host :
            /\ Starts(r, "delete", g, [Idle EXCEPT !.op = "delete", !.host = g, !.pc = "drop"])
            /\ row' = [row EXCEPT ![g] = Nil] /\ used' = used
      BY <2>4 DEF Delete
    <3>2. PICK q : /\ q = [Idle EXCEPT !.op = "delete", !.host = g, !.pc = "drop"]
                   /\ Starts(r, "delete", g, q)
      BY <3>1
    <3>3. q.host = g /\ q.pc = "drop"
      BY <3>2 DEF Idle
    <3>4. row'[h] = Nil
      BY <1>1, <3>1 DEF TypeOK
    <3> QED
      BY <2>1, <3>1, <3>2, <3>3, <3>4
  <2>5. CASE Begin(r)
    <3>1. PICK op \in {"sync", "use"}, g \in Host :
            /\ Starts(r, op, g,
                 [Idle EXCEPT !.op = op, !.host = g, !.pc = "lookup", !.local = row[g]])
            /\ UNCHANGED <<row, client, used>>
      BY <2>5 DEF Begin
    <3>2. PICK q : /\ q = [Idle EXCEPT !.op = op, !.host = g, !.pc = "lookup", !.local = row[g]]
                   /\ Starts(r, op, g, q)
      BY <3>1
    <3>3. q.host = g /\ q.pc = "lookup"
      BY <3>2 DEF Idle
    <3> QED
      BY <1>1, <2>1, <3>1, <3>2, <3>3
  <2> QED
    BY <1>5, <2>2, <2>3, <2>4, <2>5
<1>6. ASSUME NEW r \in Req, DeleteFails(r)
      PROVE  Deleted(h)'
  <2>1. Answered(r, "failed") /\ used' = used /\ row'[h] = Nil
    BY <1>1, <1>6 DEF DeleteFails, Answered, TypeOK
  <2> QED
    BY <1>3, <2>1
<1>7. ASSUME NEW r \in Req, Refuse(r)
      PROVE  Deleted(h)'
  <2>1. Answered(r, "notfound") /\ used' = used /\ row' = row
    BY <1>7 DEF Refuse, Answered
  <2> QED
    BY <1>1, <1>3, <2>1
<1>8. ASSUME NEW r \in Req, Handle(r)
      PROVE  Deleted(h)'
  <2>1. Busy(r)
    BY <1>8 DEF Handle, Save, Drop, Lookup, Register, Fetch, Call, Apply, Offline, Answer, Busy
  <2>2. used' = used
    BY <1>8 DEF Handle, Save, Drop, Lookup, Register, Fetch, Call, Apply, Offline, Answer
  <2>3. row'[h] = Nil
    <3>1. CASE Save(r)
      <4>1. req[r].host # h
        BY <1>1, <3>1 DEF Save
      <4>2. row' = row \/ row' = [row EXCEPT ![req[r].host] = req[r].local]
        BY <3>1 DEF Save, Failed
      <4> QED
        BY <1>1, <4>1, <4>2 DEF TypeOK
    <3>2. CASE Apply(r)
      <4>1. row' = row \/ row' = Snapshot(r, req[r].host)
        BY <3>2 DEF Apply, Failed
      <4> QED
        BY <1>1, <4>1 DEF Snapshot, TypeOK
    <3>3. CASE Offline(r)
      <4>1. \/ row' = row
            \/ /\ row[req[r].host] # Nil
               /\ row' = [row EXCEPT ![req[r].host].status = "offline"]
        BY <3>3 DEF Offline, Failed
      <4> QED
        BY <1>1, <4>1 DEF TypeOK
    <3>4. CASE Drop(r) \/ Lookup(r) \/ Register(r) \/ Fetch(r) \/ Call(r) \/ Answer(r)
      BY <1>1, <3>4 DEF Drop, Lookup, Register, Fetch, Call, Answer
    <3> QED
      BY <1>8, <3>1, <3>2, <3>3, <3>4 DEF Handle
  <2>4. ASSUME NEW pc \in Pc, Goto(r, pc), pc # "save"
        PROVE  Deleted(h)'
    BY <1>4, <2>2, <2>3, <2>4, GotoTypes DEF Moves
  <2>5. ASSUME NEW c \in Endpoint \cup {Nil}, GoCall(r, c)
        PROVE  Deleted(h)'
    BY <1>4, <2>2, <2>3, <2>5, GoCallTypes DEF Moves
  <2>6. ASSUME NEW a \in {"ok", "failed", "notfound"}, Answered(r, a)
        PROVE  Deleted(h)'
    BY <1>3, <2>2, <2>3, <2>6
  <2>7. ASSUME CallFailed(r)
        PROVE  Deleted(h)'
    <3>1. Moves(r) /\ req'[r].pc # "save"
      BY <2>1, <2>7, CallFailedTypes DEF Moves
    <3> QED
      BY <1>4, <2>2, <2>3, <3>1
  <2>8. client[req[r].host] \in Endpoint \cup {Nil}
    BY <1>1, <2>1 DEF TypeOK, TypeInv, Prepared
  <2>9. CASE Save(r)
    <3>1. AfterSave(r) \in Pc /\ AfterSave(r) # "save"
      BY DEF AfterSave, Pc
    <3> QED
      BY <2>4, <2>6, <2>9, <3>1 DEF Save, Failed
  <2>10. CASE Drop(r)
    BY <2>4, <2>6, <2>10 DEF Drop, Pc
  <2>11. CASE Lookup(r)
    BY <2>4, <2>5, <2>8, <2>11 DEF Lookup, Pc
  <2>12. CASE Register(r)
    BY <2>4, <2>7, <2>12 DEF Register, Pc
  <2>13. CASE Fetch(r)
    BY <2>5, <2>8, <2>13 DEF Fetch
  <2>14. CASE Call(r)
    BY <2>4, <2>6, <2>7, <2>14 DEF Call, Pc
  <2>15. CASE Apply(r)
    BY <2>4, <2>6, <2>15 DEF Apply, Failed, Pc
  <2>16. CASE Offline(r)
    BY <2>6, <2>16 DEF Offline, Failed
  <2>17. CASE Answer(r)
    BY <2>6, <2>17 DEF Answer
  <2> QED
    BY <1>8, <2>9, <2>10, <2>11, <2>12, <2>13, <2>14, <2>15, <2>16, <2>17 DEF Handle
<1>9. CASE Restart
  <2>1. row' = row /\ used' = used /\ \A q \in Req : req'[q].pc = "idle"
    BY <1>9, IdleRequest DEF Restart
  <2> QED
    BY <1>1, <2>1 DEF Deleted, On, Busy
<1>10. CASE UNCHANGED vars
  BY <1>10 DEF vars, Deleted, On, Busy
<1> QED
  BY <1>5, <1>6, <1>7, <1>8, <1>9, <1>10 DEF Next

(* A host that was deleted stays deleted, whatever snapshots, syncs and    *)
(* restarts follow.                                                        *)
THEOREM DeletedForGood == Spec => DeletedStaysDeleted
<1>1. TypeInv /\ [Next]_vars => [\A h \in Host : Deleted(h) => Deleted(h)']_vars
  BY StaysDeleted
<1> QED
  BY <1>1, Invariance, PTL DEF Spec, DeletedStaysDeleted
=============================================================================
