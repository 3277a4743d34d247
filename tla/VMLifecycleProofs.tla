-------------------------- MODULE VMLifecycleProofs --------------------------
(***************************************************************************)
(* Proofs about VMLifecycle, for any sets of VMs, hosts, users and         *)
(* requests, any operations, any faults and any backlog.                   *)
(***************************************************************************)
EXTENDS VMLifecycle, FiniteSetTheorems, TLAPS

(* The struct-carrying steps, from the lookup of the rows to the Save. *)
Editing == {"get", "put", "power", "save"}

(* What TypeOK needs of a request to be inductive: its VM is one a create  *)
(* drew, the struct it will write from is a row, the argument a Save will  *)
(* store suits the operation, and a PUT has the settings to send.          *)
Prepared(q) ==
  /\ q.pc # "idle" => q.op \in Op /\ q.vm \in used
  /\ q.pc \in Editing \cup {"insert", "post", "halt", "destroy"} => q.local \in Row
  /\ q.pc \in Editing => q.op \in Op \ {"create", "delete"} /\ q.arg \in Args(q.op)
  /\ q.pc \in {"get", "put"} => q.op \in Setting
  /\ q.pc = "put" => q.set \in [Setting -> Val]
  /\ q.pc = "power" => q.op \in Power

(* Only VMs a create drew have rows. *)
RowsUsed == \A v \in VM : row[v] # Nil => v \in used

TypeInv == TypeOK /\ RowsUsed /\ \A r \in Req : Prepared(req[r])

-----------------------------------------------------------------------------
(* What the handlers' helpers return. *)

(* An edited configuration is a configuration. *)
LEMMA EditedSetType ==
  ASSUME NEW op \in Setting, NEW arg \in Args(op), NEW s \in [Setting -> Val]
  PROVE  EditedSet(op, arg, s) \in [Setting -> Val]
BY DEF EditedSet, Args, Setting

(* An edited struct is a row, with the port it had. *)
LEMMA EditedType ==
  ASSUME NEW op \in Op \ {"create", "delete"}, NEW arg \in Args(op), NEW vm \in Row
  PROVE  Edited(op, arg, vm) \in Row /\ Edited(op, arg, vm).port = vm.port
<1>1. CASE op \in Setting
  <2>1. EditedSet(op, arg, vm.set) \in [Setting -> Val]
    BY <1>1, EditedSetType DEF Row
  <2> QED
    BY <1>1, <2>1, SMT DEF Edited, Row, Setting
<1>2. CASE op = "assign"
  BY <1>2 DEF Edited, Row, Args, Setting
<1>3. CASE op = "migrate"
  BY <1>3 DEF Edited, Row, Args, Setting
<1>4. CASE op \in Power
  BY <1>4 DEF Edited, Row, Power, StatusAfter, Status, Setting
<1> QED
  BY <1>1, <1>2, <1>3, <1>4 DEF Op

(* Nil is no row, so a field of a row never has to be read from it. *)
LEMMA NilIsNothing ==
  /\ Nil \notin Row /\ Nil \notin Instance /\ Nil \notin Host
  /\ Nil \notin User /\ Nil \notin Val /\ Nil \notin [Setting -> Val]
BY LifecycleAssumption, Zenon DEF LifecycleAssumption

(* Writing a status keeps the table a table, and adds or drops no row. *)
LEMMA SetStatusType ==
  ASSUME row \in [VM -> Row \cup {Nil}], NEW v \in VM, NEW s \in Status
  PROVE  /\ SetStatus(v, s) \in [VM -> Row \cup {Nil}]
         /\ \A w \in VM : /\ (SetStatus(v, s)[w] = Nil) <=> (row[w] = Nil)
                          /\ row[w] # Nil => SetStatus(v, s)[w].port = row[w].port
                          /\ w # v => SetStatus(v, s)[w] = row[w]
<1>1. CASE row[v] = Nil
  BY <1>1 DEF SetStatus
<1>2. CASE row[v] # Nil
  <2>1. [row[v] EXCEPT !.status = s] \in Row /\ [row[v] EXCEPT !.status = s].port = row[v].port
    BY <1>2 DEF Row
  <2>2. SetStatus(v, s) = [row EXCEPT ![v] = [row[v] EXCEPT !.status = s]]
    BY <1>2 DEF SetStatus
  <2> QED
    BY <1>2, <2>1, <2>2, NilIsNothing
<1> QED
  BY <1>1, <1>2

-----------------------------------------------------------------------------
(* Type correctness. *)

(* The daemons' part of a call: what is pending stays a set of operations. *)
LEMMA AskType ==
  ASSUME IncusTypeOK, NEW t \in Task, NEW a \in Answer, Ask(t, a)
  PROVE  pending' \in SUBSET Task
BY DEF Ask, IncusTypeOK

(* Running an operation leaves instances and operations. *)
LEMMA RunType ==
  ASSUME IncusTypeOK, NEW t \in pending, RunOperation(t)
  PROVE  IncusTypeOK'
<1>1. t \in Task
  BY DEF IncusTypeOK
<1>2. Result(t) \in Instance \cup {Nil}
  BY <1>1 DEF Result, Task, Instance, RunOperation, Possible, Present, Running, IncusTypeOK
<1> QED
  BY <1>1, <1>2 DEF RunOperation, IncusTypeOK, Task

(* A request that is answered holds nothing more. *)
LEMMA AnsweredType ==
  ASSUME req \in [Req -> Request], NEW r \in Req, NEW a \in Reply, Answered(r, a),
         alone \in SUBSET Req
  PROVE  /\ req' = [req EXCEPT ![r] = [Idle EXCEPT !.reply = a]]
         /\ req' \in [Req -> Request] /\ alone' \in SUBSET Req
         /\ Prepared(req[r])' /\ \A q \in Req \ {r} : req'[q] = req[q]
BY DEF Answered, Idle, Request, Pc, Prepared, Editing

(* A request that goes on without its struct. *)
LEMMA GoOnType ==
  ASSUME req \in [Req -> Request], NEW r \in Req, Busy(r), Prepared(req[r]), used' = used,
         NEW pc \in {"settle", "fail", "erase", "log"}, GoOn(r, pc)
  PROVE  /\ req' \in [Req -> Request] /\ Prepared(req[r])'
         /\ \A s \in Req \ {r} : req'[s] = req[s]
<1>1. req' = [req EXCEPT ![r] = [Idle EXCEPT !.op = req[r].op, !.vm = req[r].vm, !.pc = pc]]
  BY DEF GoOn
<1>2. [Idle EXCEPT !.op = req[r].op, !.vm = req[r].vm, !.pc = pc] \in Request
  BY DEF Idle, Request, Pc, Reply
<1>3. req'[r].pc = pc /\ req'[r].op = req[r].op /\ req'[r].vm = req[r].vm
  BY <1>1 DEF Idle, Request
<1> QED
  BY <1>1, <1>2, <1>3 DEF Prepared, Editing, Busy

LEMMA InitTypeInv == Init => TypeInv
<1> SUFFICES ASSUME Init PROVE TypeInv
  OBVIOUS
<1>1. row \in [VM -> Row \cup {Nil}] /\ chosen \in [VM -> Nat] /\ RowsUsed
  BY LifecycleAssumption, NilIsNothing DEF Init, LifecycleAssumption, Row, Status, Fresh, RowsUsed
<1>2. IncusTypeOK
  <2>1. Fresh \in [Setting -> Val]
    BY LifecycleAssumption DEF LifecycleAssumption, Fresh
  <2>2. \A up \in BOOLEAN : [set |-> Fresh, running |-> up] \in Instance
    BY <2>1 DEF Instance
  <2>3. PICK h \in Host, up \in BOOLEAN : inst = [g \in Host |-> [v \in VM |->
            IF g = h /\ v \in Existing THEN [set |-> Fresh, running |-> up] ELSE Nil]]
    BY DEF Init
  <2> QED
    BY <2>2, <2>3 DEF Init, IncusTypeOK
<1>3. \A r \in Req : req[r] \in Request /\ Prepared(req[r])
  BY DEF Init, Idle, Request, Pc, Reply, Prepared, Editing
<1> QED
  BY <1>1, <1>2, <1>3, LifecycleAssumption DEF Init, TypeInv, TypeOK, LifecycleAssumption

(* A step touches one request: the others stay prepared. *)
LEMMA RequestFrame ==
  ASSUME NEW r \in Req, \A q \in Req : Prepared(req[q]), Prepared(req[r])',
         \A q \in Req \ {r} : req'[q] = req[q], used \subseteq used'
  PROVE  \A q \in Req : Prepared(req[q])'
BY DEF Prepared

(* The steps of Create keep the types. *)
LEMMA CreateTypeInv ==
  ASSUME TypeInv, NEW r \in Req,
         BeginCreate(r) \/ RefuseCreate(r) \/ Insert(r) \/ Post(r) \/ CreateFailed(r)
           \/ CreateAccepted(r) \/ Reread(r)
  PROVE  TypeInv'
<1> USE DEF TypeInv, TypeOK
<1>1. CASE BeginCreate(r)
  <2>1. PICK v \in VM \ used, h \in hosts, u \in User \cup {Nil},
             p \in Candidates :
          /\ req' = [req EXCEPT ![r] =
               [Idle EXCEPT !.op = "create", !.vm = v, !.pc = "insert",
                  !.local = [host |-> h, owner |-> u, set |-> Fresh, port |-> p,
                             status |-> "creating"]]]
          /\ used' = used \cup {v}
          /\ chosen' = [chosen EXCEPT ![v] = p]
          /\ seen' = [seen EXCEPT ![v] = InTable]
    BY <1>1 DEF BeginCreate
  <2>2. p \in Nat
    <3>1. \A w \in InTable : row[w].port \in Nat
      BY DEF InTable, Row
    <3> QED
      BY <3>1, LifecycleAssumption DEF LifecycleAssumption, Candidates
  <2> DEFINE l == [host |-> h, owner |-> u, set |-> Fresh, port |-> p, status |-> "creating"]
  <2>3. l \in Row
    BY <2>2, LifecycleAssumption DEF Row, Fresh, LifecycleAssumption, Status
  <2>4. req' \in [Req -> Request] /\ req'[r].pc = "insert" /\ req'[r].local = l
        /\ req'[r].op = "create" /\ req'[r].vm = v
    BY <2>1, <2>3 DEF Idle, Request, Pc, Reply, Op
  <2>5. Prepared(req[r])'
    BY <2>1, <2>3, <2>4 DEF Prepared, Editing, Op
  <2>6. \A q \in Req : Prepared(req[q])'
    BY <2>1, <2>5, RequestFrame
  <2> QED
    BY <1>1, <2>1, <2>2, <2>4, <2>6 DEF BeginCreate, incusVars, IncusTypeOK, RowsUsed, InTable
<1>2. CASE RefuseCreate(r)
  <2>1. req' \in [Req -> Request] /\ Prepared(req[r])' /\ \A q \in Req \ {r} : req'[q] = req[q]
    BY <1>2 DEF RefuseCreate, Idle, Request, Pc, Reply, Op, Prepared, Editing
  <2> QED
    BY <1>2, <2>1, RequestFrame DEF RefuseCreate, incusVars, auxVars, IncusTypeOK, RowsUsed
<1>3. CASE Insert(r)
  <2>1. req[r].local \in Row /\ req[r].vm \in used /\ req[r].vm \in VM
    BY <1>3 DEF Insert, Prepared
  <2>2. row' \in [VM -> Row \cup {Nil}] /\ RowsUsed'
    BY <1>3, <2>1 DEF Insert, SaveRow, MaybeWritten, RowsUsed
  <2>3. CASE Goto(r, "post") /\ UNCHANGED <<alone, disturbed>>
    <3>1. req' \in [Req -> Request] /\ Prepared(req[r])' /\ \A q \in Req \ {r} : req'[q] = req[q]
      BY <1>3, <2>1, <2>3 DEF Goto, Request, Pc, Prepared, Editing, Insert
    <3> QED
      BY <1>3, <2>2, <2>3, <3>1, RequestFrame DEF Insert, incusVars, IncusTypeOK
  <2>4. CASE Answered(r, "failed") /\ Disturb(req[r].vm)
    <3>1. req' \in [Req -> Request] /\ Prepared(req[r])' /\ (\A q \in Req \ {r} : req'[q] = req[q])
          /\ alone' \in SUBSET Req
      BY <2>4, AnsweredType DEF Reply
    <3> QED
      BY <1>3, <2>1, <2>2, <2>4, <3>1, RequestFrame DEF Insert, incusVars, IncusTypeOK, Disturb
  <2> QED
    BY <1>3, <2>3, <2>4 DEF Insert
<1>4. CASE Post(r)
  <2>1. req[r].local \in Row /\ req[r].vm \in used /\ req[r].vm \in VM
    BY <1>4 DEF Post, Prepared
  <2>2. Operation(req[r].local.host, req[r].vm, "create", Fresh) \in Task
    BY <2>1, LifecycleAssumption, NilIsNothing DEF Operation, Task, Row, Fresh, LifecycleAssumption
  <2>3. pending' \in SUBSET Task
    BY <1>4, <2>2, AskType DEF Post
  <2>4. PICK pc \in {"settle", "fail"} : GoOn(r, pc)
    BY <1>4 DEF Post
  <2>5. req' \in [Req -> Request] /\ Prepared(req[r])' /\ \A q \in Req \ {r} : req'[q] = req[q]
    BY <1>4, <2>4, GoOnType DEF Post, Busy
  <2>6. disturbed' \in SUBSET VM
    BY <1>4, <2>1 DEF Post, Disturb
  <2> QED
    BY <1>4, <2>3, <2>5, <2>6, RequestFrame DEF Post, IncusTypeOK, RowsUsed
<1>5. CASE CreateFailed(r)
  <2>1. req[r].vm \in VM
    BY <1>5 DEF CreateFailed, Prepared
  <2>2. row' \in [VM -> Row \cup {Nil}] /\ RowsUsed'
    BY <1>5, <2>1, SetStatusType DEF CreateFailed, MaybeWritten, RowsUsed, Status
  <2>3. /\ req' \in [Req -> Request] /\ Prepared(req[r])' /\ alone' \in SUBSET Req
        /\ \A q \in Req \ {r} : req'[q] = req[q]
    BY <1>5, AnsweredType DEF Reply, CreateFailed
  <2> QED
    BY <1>5, <2>1, <2>2, <2>3, RequestFrame DEF CreateFailed, incusVars, IncusTypeOK, Disturb
<1>6. CASE CreateAccepted(r)
  <2>1. req[r].vm \in VM
    BY <1>6 DEF CreateAccepted, Prepared
  <2>2. row' \in [VM -> Row \cup {Nil}] /\ RowsUsed'
    BY <1>6, <2>1, SetStatusType DEF CreateAccepted, MaybeWritten, RowsUsed, Status
  <2>3. CASE Goto(r, "log") /\ UNCHANGED <<alone, disturbed>>
    <3>1. req' \in [Req -> Request] /\ Prepared(req[r])' /\ \A q \in Req \ {r} : req'[q] = req[q]
      BY <1>6, <2>3 DEF CreateAccepted, Goto, Request, Pc, Prepared, Editing
    <3> QED
      BY <1>6, <2>2, <2>3, <3>1, RequestFrame DEF CreateAccepted, incusVars, IncusTypeOK
  <2>4. CASE Answered(r, "failed") /\ Disturb(req[r].vm)
    <3>1. /\ req' \in [Req -> Request] /\ Prepared(req[r])' /\ alone' \in SUBSET Req
          /\ \A q \in Req \ {r} : req'[q] = req[q]
      BY <2>4, AnsweredType DEF Reply
    <3> QED
      BY <1>6, <2>1, <2>2, <2>4, <3>1, RequestFrame DEF CreateAccepted, incusVars, IncusTypeOK, Disturb
  <2> QED
    BY <1>6, <2>3, <2>4 DEF CreateAccepted
<1>7. CASE Reread(r)
  <2>1. /\ req' \in [Req -> Request] /\ Prepared(req[r])' /\ alone' \in SUBSET Req
        /\ \A q \in Req \ {r} : req'[q] = req[q]
    BY <1>7, AnsweredType DEF Reply, Reread
  <2> QED
    BY <1>7, <2>1, RequestFrame DEF Reread, incusVars, IncusTypeOK, RowsUsed
<1> QED
  BY <1>1, <1>2, <1>3, <1>4, <1>5, <1>6, <1>7

(* The steps of the operations on a VM that exists keep the types. *)
LEMMA UpdateTypeInv ==
  ASSUME TypeInv, NEW r \in Req,
         Begin(r) \/ Refuse(r) \/ Get(r) \/ Put(r) \/ PowerCall(r) \/ Save(r)
  PROVE  TypeInv'
<1> USE DEF TypeInv, TypeOK
<1>1. CASE Begin(r)
  <2>1. PICK op \in Ops \ {"create"}, v \in VM : \E arg \in Args(op), actor \in Callers(op) :
          /\ Admits(actor, op, arg, v)
          /\ req' = [req EXCEPT ![r] =
               [Idle EXCEPT !.op = op, !.vm = v, !.arg = arg, !.local = row[v],
                  !.pc = IF HostKnown(op, arg, v) THEN FirstCall(op) ELSE "erase"]]
          /\ alone' = IF On(v) = {} THEN alone \cup {r} ELSE alone \ On(v)
          /\ disturbed' = IF Quiet(v) THEN disturbed ELSE disturbed \cup {v}
    BY <1>1 DEF Begin
  <2>2. PICK arg \in Args(op), actor \in Callers(op) :
          /\ Admits(actor, op, arg, v)
          /\ req' = [req EXCEPT ![r] =
               [Idle EXCEPT !.op = op, !.vm = v, !.arg = arg, !.local = row[v],
                  !.pc = IF HostKnown(op, arg, v) THEN FirstCall(op) ELSE "erase"]]
    BY <2>1
  <2> DEFINE pc == IF HostKnown(op, arg, v) THEN FirstCall(op) ELSE "erase"
  <2>3. row[v] \in Row /\ v \in used
    BY <2>2 DEF Admits, Found, RowsUsed
  <2>4. op \in Op /\ op # "create"
    BY LifecycleAssumption DEF LifecycleAssumption
  <2>5. pc \in {"get", "power", "halt", "save", "erase"} /\ (op = "delete" => pc \in {"halt", "erase"})
        /\ (pc = "get" => op \in Setting) /\ (pc = "power" => op \in Power)
    BY DEF FirstCall, Setting, Power
  <2>6. (pc = "erase" => op = "delete")
    BY <2>2, <2>4 DEF Admits, ErrorRecord, FirstCall, Setting, Power
  <2>7. arg \in Val \cup User \cup Host \cup {Nil}
    BY DEF Args
  <2>8. req' \in [Req -> Request] /\ req'[r].pc = pc /\ req'[r].local = row[v]
        /\ req'[r].op = op /\ req'[r].vm = v /\ req'[r].arg = arg
        /\ \A q \in Req \ {r} : req'[q] = req[q]
    <3>1. pc \in Pc
      BY <2>5 DEF Pc
    <3> HIDE DEF pc
    <3> QED
      BY <2>2, <2>3, <2>4, <2>7, <3>1 DEF Idle, Request, Reply, pc
  <2>9. Prepared(req[r])'
    <3> HIDE DEF pc
    <3> QED
      BY <1>1, <2>3, <2>4, <2>5, <2>8 DEF Prepared, Editing, Begin
  <2>10. alone' \in SUBSET Req /\ disturbed' \in SUBSET VM
    BY <2>1
  <2> QED
    BY <1>1, <2>8, <2>9, <2>10, RequestFrame DEF Begin, incusVars, IncusTypeOK, RowsUsed
<1>2. CASE Refuse(r)
  <2>1. req' \in [Req -> Request] /\ Prepared(req[r])' /\ \A q \in Req \ {r} : req'[q] = req[q]
    <3>1. PICK op \in Ops, v \in VM, answer \in {"notfound", "failed"} :
            req' = [req EXCEPT ![r] = [Idle EXCEPT !.op = op, !.vm = v, !.reply = answer]]
      BY <1>2 DEF Refuse
    <3>2. op \in Op
      BY LifecycleAssumption DEF LifecycleAssumption
    <3> QED
      BY <3>1, <3>2 DEF Idle, Request, Pc, Reply, Prepared, Editing
  <2> QED
    BY <1>2, <2>1, RequestFrame DEF Refuse, incusVars, auxVars, IncusTypeOK, RowsUsed
<1>3. CASE Get(r)
  <2>1. req[r].local \in Row /\ req[r].vm \in VM /\ req[r].op \in Setting
        /\ req[r].arg \in Args(req[r].op)
    BY <1>3 DEF Get, Prepared, Editing
  <2> DEFINE i == inst[req[r].local.host][req[r].vm]
  <2>2. CASE /\ i # Nil /\ UNCHANGED alone
             /\ req' = [req EXCEPT ![r].pc = "put",
                                   ![r].set = EditedSet(req[r].op, req[r].arg, i.set)]
    <3>1. i \in Instance
      BY <2>1, <2>2 DEF IncusTypeOK, Row
    <3>2. EditedSet(req[r].op, req[r].arg, i.set) \in [Setting -> Val]
      BY <2>1, <3>1, EditedSetType DEF Instance
    <3> HIDE DEF i
    <3>3. req' \in [Req -> Request] /\ Prepared(req[r])' /\ \A q \in Req \ {r} : req'[q] = req[q]
      BY <1>3, <2>1, <2>2, <3>2 DEF Get, Prepared, Request, Pc, Editing
    <3> QED
      BY <1>3, <2>2, <3>3, RequestFrame DEF Get, incusVars, IncusTypeOK, RowsUsed
  <2>3. CASE Answered(r, "failed")
    <3>1. /\ req' \in [Req -> Request] /\ Prepared(req[r])' /\ alone' \in SUBSET Req
          /\ \A q \in Req \ {r} : req'[q] = req[q]
      BY <2>3, AnsweredType DEF Reply
    <3> QED
      BY <1>3, <3>1, RequestFrame DEF Get, incusVars, IncusTypeOK, RowsUsed
  <2> QED
    BY <1>3, <2>2, <2>3 DEF Get
<1>4. ASSUME NEW kind \in {"update", "start", "stop", "restart"}, NEW s \in [Setting -> Val] \cup {Nil},
             kind = "update" => s # Nil, NEW a \in Answer,
             Busy(r), req[r].pc \in Editing,
             Ask(Operation(req[r].local.host, req[r].vm, kind, s), a),
             IF a = "accepted" THEN Goto(r, "save") /\ UNCHANGED alone ELSE Answered(r, "failed"),
             IF a = "lost" THEN Disturb(req[r].vm) ELSE UNCHANGED disturbed,
             UNCHANGED <<inst, row, hosts, log, used, chosen, seen, unlogged>>
      PROVE  TypeInv'
  <2>1. req[r].local \in Row /\ req[r].vm \in VM
    BY <1>4 DEF Prepared, Editing
  <2>2. pending' \in SUBSET Task
    <3>1. Operation(req[r].local.host, req[r].vm, kind, s) \in Task
      BY <1>4, <2>1 DEF Operation, Task, Row
    <3> QED
      BY <1>4, <3>1, AskType
  <2>3. /\ req' \in [Req -> Request] /\ Prepared(req[r])' /\ alone' \in SUBSET Req
        /\ \A q \in Req \ {r} : req'[q] = req[q]
    <3>1. CASE a = "accepted"
      BY <1>4, <2>1, <3>1 DEF Goto, Request, Pc, Prepared, Editing
    <3>2. CASE a # "accepted"
      BY <1>4, <3>2, AnsweredType DEF Reply
    <3> QED
      BY <3>1, <3>2
  <2>4. disturbed' \in SUBSET VM
    BY <1>4, <2>1 DEF Disturb
  <2> QED
    BY <1>4, <2>2, <2>3, <2>4, RequestFrame DEF IncusTypeOK, RowsUsed
<1>5. CASE Put(r)
  <2>1. req[r].set \in [Setting -> Val] \cup {Nil} /\ req[r].set # Nil
    BY <1>5, NilIsNothing DEF Put, Prepared
  <2> QED
    BY <1>4, <1>5, <2>1 DEF Put, Busy, Editing
<1>6. CASE PowerCall(r)
  <2>1. (IF req[r].op = "reboot" THEN "restart" ELSE req[r].op) \in {"start", "stop", "restart"}
    BY <1>6 DEF PowerCall, Prepared, Power
  <2> QED
    BY <1>4, <1>6, <2>1 DEF PowerCall, Busy, Editing
<1>7. CASE Save(r)
  <2>1. req[r].local \in Row /\ req[r].vm \in used /\ req[r].vm \in VM
        /\ req[r].op \in Op \ {"create", "delete"} /\ req[r].arg \in Args(req[r].op)
    BY <1>7 DEF Save, Prepared, Editing
  <2>2. row' \in [VM -> Row \cup {Nil}] /\ RowsUsed'
    BY <1>7, <2>1, EditedType DEF Save, SaveRow, MaybeWritten, RowsUsed
  <2>3. CASE GoOn(r, "log") /\ UNCHANGED alone
    <3>1. req' \in [Req -> Request] /\ Prepared(req[r])' /\ \A q \in Req \ {r} : req'[q] = req[q]
      BY <1>7, <2>3, GoOnType DEF Save, Busy
    <3> QED
      BY <1>7, <2>1, <2>2, <2>3, <3>1, RequestFrame DEF Save, incusVars, IncusTypeOK, Disturb
  <2>4. CASE Answered(r, "failed") /\ Disturb(req[r].vm)
    <3>1. /\ req' \in [Req -> Request] /\ Prepared(req[r])' /\ alone' \in SUBSET Req
          /\ \A q \in Req \ {r} : req'[q] = req[q]
      BY <2>4, AnsweredType DEF Reply
    <3> QED
      BY <1>7, <2>1, <2>2, <2>4, <3>1, RequestFrame DEF Save, incusVars, IncusTypeOK, Disturb
  <2> QED
    BY <1>7, <2>3, <2>4 DEF Save
<1> QED
  BY <1>1, <1>2, <1>3, <1>5, <1>6, <1>7

(* The steps of Delete, and the log every handler ends in, keep the types. *)
LEMMA DeleteTypeInv ==
  ASSUME TypeInv, NEW r \in Req,
         Halt(r) \/ Destroy(r) \/ Erase(r) \/ LogOperation(r)
  PROVE  TypeInv'
<1> USE DEF TypeInv, TypeOK
<1>1. ASSUME NEW kind \in {"stop", "destroy"}, req[r].pc \in {"halt", "destroy"}
      PROVE  /\ Operation(req[r].local.host, req[r].vm, kind, Nil) \in Task
             /\ req[r].vm \in VM /\ Busy(r)
  <2>1. req[r].local \in Row /\ req[r].vm \in VM
    BY <1>1 DEF Prepared
  <2> QED
    BY <1>1, <2>1 DEF Operation, Task, Row, Busy
<1>2. CASE Halt(r)
  <2>1. pending' \in SUBSET Task /\ disturbed' \in SUBSET VM
    BY <1>1, <1>2, AskType DEF Halt, Disturb
  <2>2. req' \in [Req -> Request] /\ Prepared(req[r])' /\ \A q \in Req \ {r} : req'[q] = req[q]
    BY <1>2 DEF Halt, Goto, Request, Pc, Prepared, Editing
  <2> QED
    BY <1>2, <2>1, <2>2, RequestFrame DEF Halt, IncusTypeOK, RowsUsed
<1>3. CASE Destroy(r)
  <2>1. pending' \in SUBSET Task /\ disturbed' \in SUBSET VM
    BY <1>1, <1>3, AskType DEF Destroy, Disturb
  <2>2. /\ req' \in [Req -> Request] /\ Prepared(req[r])' /\ alone' \in SUBSET Req
        /\ \A q \in Req \ {r} : req'[q] = req[q]
    <3>1. CASE GoOn(r, "erase") /\ UNCHANGED alone
      BY <1>1, <1>3, <3>1, GoOnType DEF Destroy
    <3>2. CASE Answered(r, "failed")
      BY <3>2, AnsweredType DEF Reply
    <3> QED
      BY <1>3, <3>1, <3>2 DEF Destroy
  <2> QED
    BY <1>3, <2>1, <2>2, RequestFrame DEF Destroy, IncusTypeOK, RowsUsed
<1>4. CASE Erase(r)
  <2>1. req[r].vm \in VM
    BY <1>4 DEF Erase, Prepared
  <2>2. row' \in [VM -> Row \cup {Nil}] /\ RowsUsed' /\ disturbed' \in SUBSET VM
    BY <1>4, <2>1 DEF Erase, MaybeWritten, RowsUsed, Disturb
  <2>3. /\ req' \in [Req -> Request] /\ Prepared(req[r])' /\ alone' \in SUBSET Req
        /\ \A q \in Req \ {r} : req'[q] = req[q]
    <3>1. CASE GoOn(r, "log") /\ UNCHANGED alone
      BY <1>4, <3>1, GoOnType DEF Erase, Busy
    <3>2. CASE Answered(r, "failed")
      BY <3>2, AnsweredType DEF Reply
    <3> QED
      BY <1>4, <3>1, <3>2 DEF Erase
  <2> QED
    BY <1>4, <2>2, <2>3, RequestFrame DEF Erase, incusVars, IncusTypeOK
<1>5. CASE LogOperation(r)
  <2>1. req[r].vm \in VM /\ req[r].op \in Op
    BY <1>5 DEF LogOperation, Prepared
  <2>2. log' \in [VM -> Op \cup {Nil}] /\ unlogged' \in SUBSET VM
    BY <1>5, <2>1 DEF LogOperation
  <2>3. /\ req' \in [Req -> Request] /\ Prepared(req[r])' /\ alone' \in SUBSET Req
        /\ \A q \in Req \ {r} : req'[q] = req[q]
    <3>1. CASE Goto(r, "reread") /\ UNCHANGED alone
      <4>1. req' = [req EXCEPT ![r].pc = "reread"] /\ req[r].pc = "log" /\ used' = used
        BY <1>5, <3>1 DEF LogOperation, Goto
      <4> QED
        BY <3>1, <4>1 DEF Request, Pc, Prepared, Editing
    <3>2. ASSUME NEW a \in {"ok", "failed"}, Answered(r, a)
          PROVE  /\ req' \in [Req -> Request] /\ Prepared(req[r])' /\ alone' \in SUBSET Req
                 /\ \A q \in Req \ {r} : req'[q] = req[q]
      BY <3>2, AnsweredType DEF Reply
    <3> QED
      BY <1>5, <3>1, <3>2 DEF LogOperation
  <2> QED
    BY <1>5, <2>2, <2>3, RequestFrame DEF LogOperation, incusVars, IncusTypeOK, RowsUsed
<1> QED
  BY <1>2, <1>3, <1>4, <1>5

(* So do the daemons, a crash and the removal of a host. *)
LEMMA EnvironmentTypeInv ==
  ASSUME TypeInv, RunOp \/ FailOp \/ Crash \/ Unregister
  PROVE  TypeInv'
<1> USE DEF TypeInv, TypeOK
<1>1. CASE RunOp
  BY <1>1, RunType DEF RunOp, auxVars, RowsUsed, Prepared
<1>2. CASE FailOp
  BY <1>2 DEF FailOp, FailOperation, IncusTypeOK, RowsUsed, Prepared, Disturb, Task
<1>3. CASE Crash
  <2>1. \A r \in Req : req'[r] = Idle /\ Idle \in Request
    BY <1>3 DEF Crash, Idle, Request, Pc, Reply
  <2>2. req' \in [Req -> Request] /\ \A r \in Req : Prepared(req[r])'
    BY <1>3, <2>1 DEF Crash, Prepared, Idle, Editing
  <2>3. {req[r].vm : r \in {q \in Req : Busy(q)}} \subseteq VM
    BY DEF Busy, Prepared
  <2> QED
    BY <1>3, <2>2, <2>3 DEF Crash, incusVars, IncusTypeOK, RowsUsed
<1>4. CASE Unregister
  BY <1>4 DEF Unregister, incusVars, auxVars, IncusTypeOK, RowsUsed, Prepared
<1> QED
  BY <1>1, <1>2, <1>3, <1>4

LEMMA StepTypeInv == TypeInv /\ [Next]_vars => TypeInv'
<1> SUFFICES ASSUME TypeInv, [Next]_vars PROVE TypeInv'
  OBVIOUS
<1>1. CASE UNCHANGED vars
  BY <1>1 DEF vars, incusVars, auxVars, TypeInv, TypeOK, IncusTypeOK, RowsUsed, Prepared
<1>2. CASE Next
  BY <1>2, CreateTypeInv, UpdateTypeInv, DeleteTypeInv, EnvironmentTypeInv DEF Next, Handle
<1> QED
  BY <1>1, <1>2

(* The types hold in every run, of any number of VMs, hosts and requests,  *)
(* whatever faults there are.                                              *)
THEOREM TypeCorrect == Spec => []TypeOK
<1>1. Spec => []TypeInv
  BY InitTypeInv, StepTypeInv, PTL DEF Spec
<1>2. TypeInv => TypeOK
  BY DEF TypeInv
<1> QED
  BY <1>1, <1>2, PTL

-----------------------------------------------------------------------------
(* What one step of a handler does to the table and to its request. *)

(* The steps after which a request writes no row any more, but a status.   *)
Tail == {"fail", "settle", "erase", "log", "reread"}

(* The write of the step: nothing, the struct, the edited struct, a status *)
(* of a row that is there, or a deletion.                                  *)
Writes(q) ==
  \/ row' = row
  \/ q.pc = "insert" /\ row'[q.vm] = q.local
  \/ q.pc = "save" /\ row'[q.vm] = Edited(q.op, q.arg, q.local)
  \/ /\ q.pc \in {"fail", "settle"}
     /\ (row'[q.vm] = Nil) <=> (row[q.vm] = Nil)
     /\ row[q.vm] # Nil => row'[q.vm].port = row[q.vm].port
  \/ q.pc = "erase" /\ row'[q.vm] = Nil

(* Where the step leaves the request: answered, or going on for its VM.    *)
GoesOn(q, r) ==
  \/ req'[r].pc = "idle" /\ req'[r].local = Nil /\ alone' = alone \ {r}
  \/ /\ req'[r].pc # "idle" /\ req'[r].vm = q.vm /\ req'[r].op = q.op
     /\ req'[r].local \in {Nil, q.local}
     /\ alone' = alone
     /\ req'[r].pc \in Editing =>
          q.pc \in Editing /\ row' = row /\ req'[r].local = q.local /\ req'[r].arg = q.arg
     /\ q.pc \in Tail => req'[r].pc \in Tail

HandlerStep(r) ==
  /\ Busy(r)
  /\ UNCHANGED <<used, chosen, seen>>
  /\ \A q \in Req \ {r} : req'[q] = req[q]
  /\ \A v \in VM \ {req[r].vm} : row'[v] = row[v]
  /\ Writes(req[r])
  /\ GoesOn(req[r], r)

LEMMA AnsweredGoesOn ==
  ASSUME TypeInv, NEW r \in Req, NEW a \in Reply, Answered(r, a)
  PROVE  GoesOn(req[r], r) /\ \A q \in Req \ {r} : req'[q] = req[q]
BY DEF TypeInv, TypeOK, Answered, GoesOn, Idle, Request

LEMMA GoOnGoesOn ==
  ASSUME TypeInv, NEW r \in Req, Busy(r), NEW pc \in Tail, GoOn(r, pc), alone' = alone
  PROVE  GoesOn(req[r], r) /\ \A q \in Req \ {r} : req'[q] = req[q]
<1>1. req' = [req EXCEPT ![r] = [Idle EXCEPT !.op = req[r].op, !.vm = req[r].vm, !.pc = pc]]
  BY DEF GoOn
<1>2. req'[r].pc = pc /\ req'[r].vm = req[r].vm /\ req'[r].op = req[r].op /\ req'[r].local = Nil
  BY <1>1 DEF TypeInv, TypeOK, Idle, Request
<1> QED
  BY <1>1, <1>2 DEF GoesOn, Tail, Editing, TypeInv, TypeOK

(* A request that keeps its struct moves on before its write, not after.   *)
LEMMA GotoGoesOn ==
  ASSUME TypeInv, NEW r \in Req, Busy(r), NEW pc \in Pc \ {"idle"}, Goto(r, pc), alone' = alone,
         pc \in Editing => req[r].pc \in Editing /\ row' = row,
         req[r].pc \in Tail => pc \in Tail
  PROVE  GoesOn(req[r], r) /\ \A q \in Req \ {r} : req'[q] = req[q]
BY DEF Goto, GoesOn, TypeInv, TypeOK, Request

LEMMA HandleShape ==
  ASSUME TypeInv, NEW r \in Req, Handle(r)
  PROVE  HandlerStep(r)
<1> DEFINE Moves == GoesOn(req[r], r) /\ \A q \in Req \ {r} : req'[q] = req[q]
<1>0. Busy(r) /\ UNCHANGED <<used, chosen, seen>>
  BY DEF Handle, Busy, Insert, Post, CreateFailed, CreateAccepted, Reread, Get, Put, PowerCall,
         Save, Halt, Destroy, Erase, LogOperation
<1>1. req[r].vm \in VM
  BY <1>0 DEF TypeInv, TypeOK, Prepared, Busy
<1>a. ASSUME NEW a \in {"ok", "failed"}, Answered(r, a) PROVE Moves
  BY <1>a, AnsweredGoesOn DEF Reply
<1>b. ASSUME NEW pc \in Tail, GoOn(r, pc), alone' = alone PROVE Moves
  BY <1>0, <1>b, GoOnGoesOn
<1>2. CASE Insert(r)
  <2>1. Moves
    BY <1>0, <1>2, <1>a, GotoGoesOn DEF Insert, Pc, Editing, Tail
  <2>2. Writes(req[r]) /\ \A v \in VM \ {req[r].vm} : row'[v] = row[v]
    BY <1>1, <1>2 DEF Insert, SaveRow, MaybeWritten, Writes, TypeInv, TypeOK
  <2> QED
    BY <1>0, <2>1, <2>2 DEF HandlerStep
<1>3. CASE Post(r)
  <2>1. Moves
    BY <1>3, <1>b DEF Post, Tail
  <2> QED
    BY <1>0, <1>3, <2>1 DEF Post, HandlerStep, Writes
<1>4. CASE CreateFailed(r)
  <2>1. Moves
    BY <1>4, <1>a DEF CreateFailed
  <2>2. Writes(req[r]) /\ \A v \in VM \ {req[r].vm} : row'[v] = row[v]
    BY <1>1, <1>4, SetStatusType DEF CreateFailed, MaybeWritten, Writes, TypeInv, TypeOK, Status
  <2> QED
    BY <1>0, <2>1, <2>2 DEF HandlerStep
<1>5. CASE CreateAccepted(r)
  <2>1. Moves
    BY <1>0, <1>5, <1>a, GotoGoesOn DEF CreateAccepted, Pc, Editing, Tail
  <2>2. Writes(req[r]) /\ \A v \in VM \ {req[r].vm} : row'[v] = row[v]
    BY <1>1, <1>5, SetStatusType DEF CreateAccepted, MaybeWritten, Writes, TypeInv, TypeOK, Status
  <2> QED
    BY <1>0, <2>1, <2>2 DEF HandlerStep
<1>6. CASE Reread(r)
  <2>1. Moves
    BY <1>6, <1>a DEF Reread
  <2> QED
    BY <1>0, <1>6, <2>1 DEF Reread, HandlerStep, Writes
<1>7. CASE Get(r)
  <2>1. ASSUME NEW x, req' = [req EXCEPT ![r].pc = "put", ![r].set = x], UNCHANGED alone
        PROVE  Moves
    <3>1. req' = [req EXCEPT ![r] = [req[r] EXCEPT !.pc = "put", !.set = x]]
      BY <2>1 DEF TypeInv, TypeOK
    <3>2. /\ req'[r].pc = "put" /\ req'[r].vm = req[r].vm /\ req'[r].op = req[r].op
          /\ req'[r].local = req[r].local /\ req'[r].arg = req[r].arg
      BY <3>1 DEF TypeInv, TypeOK, Request
    <3> QED
      BY <1>7, <2>1, <3>1, <3>2 DEF Get, GoesOn, TypeInv, TypeOK, Editing, Tail
  <2>2. Moves
    <3> DEFINE i == inst[req[r].local.host][req[r].vm]
               x == EditedSet(req[r].op, req[r].arg, i.set)
    <3>1. CASE req' = [req EXCEPT ![r].pc = "put", ![r].set = x] /\ UNCHANGED alone
      <4> HIDE DEF x
      <4> QED BY <2>1, <3>1
    <3> QED
      BY <1>7, <1>a, <3>1 DEF Get
  <2> QED
    BY <1>0, <1>7, <2>2 DEF Get, HandlerStep, Writes
<1>8. CASE Put(r) \/ PowerCall(r)
  <2>1. Moves
    <3>1. CASE Goto(r, "save") /\ UNCHANGED alone
      BY <1>0, <1>8, <3>1, GotoGoesOn DEF Put, PowerCall, Pc, Editing, Tail
    <3> QED
      BY <1>8, <1>a, <3>1 DEF Put, PowerCall
  <2> QED
    BY <1>0, <1>8, <2>1 DEF Put, PowerCall, HandlerStep, Writes
<1>9. CASE Save(r)
  <2>1. Moves
    BY <1>9, <1>a, <1>b DEF Save, Tail
  <2>2. Writes(req[r]) /\ \A v \in VM \ {req[r].vm} : row'[v] = row[v]
    BY <1>1, <1>9 DEF Save, SaveRow, MaybeWritten, Writes, TypeInv, TypeOK
  <2> QED
    BY <1>0, <2>1, <2>2 DEF HandlerStep
<1>10. CASE Halt(r)
  <2>1. Moves
    BY <1>0, <1>10, GotoGoesOn DEF Halt, Pc, Editing, Tail
  <2> QED
    BY <1>0, <1>10, <2>1 DEF Halt, HandlerStep, Writes
<1>11. CASE Destroy(r)
  <2>1. Moves
    BY <1>11, <1>a, <1>b DEF Destroy, Tail
  <2> QED
    BY <1>0, <1>11, <2>1 DEF Destroy, HandlerStep, Writes
<1>12. CASE Erase(r)
  <2>1. Moves
    BY <1>12, <1>a, <1>b DEF Erase, Tail
  <2>2. Writes(req[r]) /\ \A v \in VM \ {req[r].vm} : row'[v] = row[v]
    BY <1>1, <1>12 DEF Erase, MaybeWritten, Writes, TypeInv, TypeOK
  <2> QED
    BY <1>0, <2>1, <2>2 DEF HandlerStep
<1>13. CASE LogOperation(r)
  <2>1. Moves
    <3>1. CASE Goto(r, "reread") /\ UNCHANGED alone
      BY <1>0, <1>13, <3>1, GotoGoesOn DEF LogOperation, Pc, Editing, Tail
    <3> QED
      BY <1>13, <1>a, <3>1 DEF LogOperation
  <2> QED
    BY <1>0, <1>13, <2>1 DEF LogOperation, HandlerStep, Writes
<1> QED
  BY <1>2, <1>3, <1>4, <1>5, <1>6, <1>7, <1>8, <1>9, <1>10, <1>11, <1>12, <1>13 DEF Handle

(* What the lookup of a VM gives a request. *)
LEMMA BeginShape ==
  ASSUME TypeInv, NEW r \in Req, Begin(r)
  PROVE  \E v \in VM :
           /\ row[v] # Nil
           /\ req'[r].vm = v /\ req'[r].local = row[v]
           /\ \A q \in Req \ {r} : req'[q] = req[q]
           /\ alone' = IF On(v) = {} THEN alone \cup {r} ELSE alone \ On(v)
           /\ req'[r].pc # "idle"
<1>1. PICK op \in Ops \ {"create"}, v \in VM : \E arg \in Args(op), actor \in Callers(op) :
        /\ Admits(actor, op, arg, v)
        /\ req' = [req EXCEPT ![r] =
             [Idle EXCEPT !.op = op, !.vm = v, !.arg = arg, !.local = row[v],
                !.pc = IF HostKnown(op, arg, v) THEN FirstCall(op) ELSE "erase"]]
        /\ alone' = IF On(v) = {} THEN alone \cup {r} ELSE alone \ On(v)
        /\ disturbed' = IF Quiet(v) THEN disturbed ELSE disturbed \cup {v}
  BY DEF Begin
<1>2. PICK arg \in Args(op), actor \in Callers(op) :
        /\ Admits(actor, op, arg, v)
        /\ req' = [req EXCEPT ![r] =
             [Idle EXCEPT !.op = op, !.vm = v, !.arg = arg, !.local = row[v],
                !.pc = IF HostKnown(op, arg, v) THEN FirstCall(op) ELSE "erase"]]
  BY <1>1
<1>3. FirstCall(op) # "idle"
  BY DEF FirstCall
<1>4. row[v] # Nil
  BY <1>2 DEF Admits, Found
<1>5. /\ req'[r].vm = v /\ req'[r].local = row[v] /\ req'[r].pc # "idle"
      /\ \A q \in Req \ {r} : req'[q] = req[q]
  BY <1>2, <1>3 DEF Idle, TypeInv, TypeOK
<1> QED
  BY <1>1, <1>4, <1>5

-----------------------------------------------------------------------------
(* ssh ports. *)

(* A VM's port never changes once chosen: rows and structs carry it, stale *)
(* or not; and it is above the ports of the VMs its create saw.            *)
PortInv ==
  /\ \A v \in VM : row[v] # Nil => row[v].port = chosen[v]
  /\ \A r \in Req : Busy(r) /\ req[r].local # Nil => req[r].local.port = chosen[req[r].vm]
  /\ \A v \in VM : \A w \in seen[v] : w \in used /\ chosen[v] > chosen[w]

LEMMA InitPortInv == Init => PortInv
BY NilIsNothing DEF Init, PortInv, Busy, Idle

LEMMA StepPortInv == TypeInv /\ PortInv /\ [Next]_vars => PortInv'
<1> SUFFICES ASSUME TypeInv, PortInv, [Next]_vars PROVE PortInv'
  OBVIOUS
<1> USE DEF PortInv
<1>1. ASSUME NEW r \in Req, BeginCreate(r) PROVE PortInv'
  <2>1. PICK v \in VM \ used, h \in hosts, u \in User \cup {Nil},
             p \in Candidates :
          /\ NextPort(p)
          /\ req' = [req EXCEPT ![r] =
               [Idle EXCEPT !.op = "create", !.vm = v, !.pc = "insert",
                  !.local = [host |-> h, owner |-> u, set |-> Fresh, port |-> p,
                             status |-> "creating"]]]
          /\ used' = used \cup {v}
          /\ chosen' = [chosen EXCEPT ![v] = p]
          /\ seen' = [seen EXCEPT ![v] = InTable]
    BY <1>1 DEF BeginCreate
  <2>2. row' = row /\ row[v] = Nil
    BY <1>1 DEF BeginCreate, TypeInv, RowsUsed
  <2>3. \A w \in VM : w # v => chosen'[w] = chosen[w]
    BY <2>1 DEF TypeInv, TypeOK
  <2>4. chosen'[v] = p
    BY <2>1 DEF TypeInv, TypeOK
  <2>5. \A w \in VM : row'[w] # Nil => row'[w].port = chosen'[w]
    BY <2>2, <2>3
  <2>6. \A q \in Req : Busy(q)' /\ req'[q].local # Nil => req'[q].local.port = chosen'[req'[q].vm]
    <3>1. req'[r].local.port = p /\ req'[r].vm = v
      BY <2>1 DEF TypeInv, TypeOK, Idle
    <3>2. ASSUME NEW q \in Req \ {r}, Busy(q) PROVE req'[q] = req[q] /\ req[q].vm \in VM \ {v}
      BY <2>1, <3>2 DEF TypeInv, TypeOK, Prepared, Busy
    <3>3. ASSUME NEW q \in Req \ {r} PROVE req'[q] = req[q]
      BY <2>1 DEF TypeInv, TypeOK
    <3> QED
      BY <2>3, <2>4, <3>1, <3>2, <3>3 DEF Busy
  <2>7. \A w \in VM : \A x \in seen'[w] : x \in used' /\ chosen'[w] > chosen'[x]
    <3>1. \A x \in InTable : x \in used /\ x # v /\ p > chosen[x]
      BY <2>1, <2>2 DEF InTable, NextPort, TypeInv, RowsUsed
    <3>2. seen'[v] = InTable /\ \A w \in VM \ {v} : seen'[w] = seen[w]
      BY <2>1 DEF TypeInv, TypeOK
    <3>3. \A w \in VM \ {v} : \A x \in seen[w] : x \in VM \ {v}
      BY DEF TypeInv, TypeOK
    <3>4. InTable \subseteq VM
      BY DEF InTable
    <3> QED
      BY <2>1, <2>3, <2>4, <3>1, <3>2, <3>3, <3>4
  <2> QED
    BY <2>5, <2>6, <2>7 DEF Busy
<1>2. ASSUME NEW r \in Req, Begin(r) PROVE PortInv'
  <2>2. PICK v \in VM : /\ row[v] # Nil /\ req'[r].vm = v /\ req'[r].local = row[v]
                         /\ \A q \in Req \ {r} : req'[q] = req[q]
    BY <1>2, BeginShape
  <2>3. UNCHANGED <<row, used, chosen, seen>>
    BY <1>2 DEF Begin
  <2> QED
    BY <2>2, <2>3 DEF Busy
<1>3. ASSUME NEW r \in Req, RefuseCreate(r) \/ Refuse(r) PROVE PortInv'
  <2>1. req'[r].pc = "idle" /\ \A q \in Req \ {r} : req'[q] = req[q]
    <3>1. CASE RefuseCreate(r)
      BY <3>1 DEF RefuseCreate, Idle, TypeInv, TypeOK
    <3>2. CASE Refuse(r)
      BY <3>2 DEF Refuse, Idle, TypeInv, TypeOK
    <3> QED
      BY <1>3, <3>1, <3>2
  <2> QED
    BY <1>3, <2>1 DEF RefuseCreate, Refuse, auxVars, Busy
<1>4. ASSUME NEW r \in Req, Handle(r) PROVE PortInv'
  <2>1. HandlerStep(r)
    BY <1>4, HandleShape
  <2> DEFINE v == req[r].vm
  <2>2. v \in VM /\ (req[r].local \in Row \/ req[r].local = Nil)
    BY <2>1 DEF HandlerStep, TypeInv, TypeOK, Prepared, Busy, Request
  <2>3. row'[v] # Nil => row'[v].port = chosen[v]
    <3>1. CASE row' = row
      BY <2>2, <3>1
    <3>2. CASE req[r].pc = "insert" /\ row'[v] = req[r].local
      BY <2>1, <2>2, <3>2 DEF HandlerStep
    <3>3. CASE req[r].pc = "save" /\ row'[v] = Edited(req[r].op, req[r].arg, req[r].local)
      <4>1. row'[v].port = req[r].local.port /\ req[r].local # Nil
        BY <3>3, EditedType, NilIsNothing DEF TypeInv, Prepared, Editing
      <4> QED
        BY <2>1, <4>1 DEF HandlerStep
    <3>4. CASE ((row'[v] = Nil) <=> (row[v] = Nil)) /\ (row[v] # Nil => row'[v].port = row[v].port)
      BY <2>2, <3>4
    <3>5. CASE row'[v] = Nil
      BY <3>5
    <3> QED
      BY <2>1, <3>1, <3>2, <3>3, <3>4, <3>5 DEF HandlerStep, Writes
  <2>4. \A q \in Req : Busy(q)' /\ req'[q].local # Nil => req'[q].local.port = chosen[req'[q].vm]
    BY <2>1 DEF HandlerStep, GoesOn, Busy
  <2> QED
    BY <2>1, <2>2, <2>3, <2>4 DEF HandlerStep
<1>5. CASE RunOp \/ FailOp \/ Unregister \/ UNCHANGED vars
  BY <1>5 DEF RunOp, FailOp, Unregister, vars, auxVars, Busy
<1>6. CASE Crash
  BY <1>6 DEF Crash, Busy, Idle
<1> QED
  BY <1>1, <1>2, <1>3, <1>4, <1>5, <1>6 DEF Next

(* Ports rise with the table, in every run: stale saves, resurrected rows, *)
(* crashes and failed statements included.                                 *)
THEOREM PortsRiseAlways == Spec => []PortsRise
<1>1. TypeInv /\ PortInv => PortsRise
  BY DEF PortInv, PortsRise, TypeInv, TypeOK
<1>2. Spec => [](TypeInv /\ PortInv)
  BY InitTypeInv, StepTypeInv, InitPortInv, StepPortInv, PTL DEF Spec
<1> QED
  BY <1>1, <1>2, PTL

(* The ports chosen so far fit below one for each VM drawn.                *)
PaceInv ==
  /\ IsFiniteSet(used)
  /\ \A v \in used : chosen[v] < RemotePortStart + Cardinality(used)

LEMMA InitPaceInv == Init => PaceInv
<1> SUFFICES ASSUME Init PROVE PaceInv
  OBVIOUS
<1>1. used = Existing /\ IsFiniteSet(used) /\ used \subseteq VM
  BY LifecycleAssumption DEF Init, LifecycleAssumption
<1>2. Cardinality(used) \in Nat /\ RemotePortStart \in Nat
  BY <1>1, FS_CardinalityType, LifecycleAssumption DEF LifecycleAssumption
<1>3. ASSUME NEW v \in used
      PROVE  chosen[v] < RemotePortStart + Cardinality(used)
  <2>1. PICK p \in [used -> RemotePortStart .. (RemotePortStart + Cardinality(used) - 1)] :
          chosen = [w \in VM |-> IF w \in used THEN p[w] ELSE 0]
    BY <1>1 DEF Init
  <2>2. chosen[v] = p[v] /\ p[v] \in RemotePortStart .. (RemotePortStart + Cardinality(used) - 1)
    BY <1>1, <2>1
  <2> QED
    BY <1>2, <2>2
<1> QED
  BY <1>1, <1>3 DEF PaceInv

(* One more VM moves the bound by one, and the port with it by at most one. *)
LEMMA CreateKeepsPace ==
  ASSUME TypeInv, PortInv, PaceInv, NEW r \in Req, BeginCreate(r)
  PROVE  PaceInv'
<1>1. PICK v \in VM \ used, p \in Candidates :
        used' = used \cup {v} /\ chosen' = [chosen EXCEPT ![v] = p]
  BY DEF BeginCreate
<1> DEFINE n == Cardinality(used)
<1>2. n \in Nat /\ IsFiniteSet(used') /\ Cardinality(used') = n + 1
  BY <1>1, FS_CardinalityType, FS_AddElement DEF PaceInv
<1>3. RemotePortStart \in Nat
  BY LifecycleAssumption DEF LifecycleAssumption
<1>4. \A w \in used : chosen[w] \in Nat /\ chosen[w] < RemotePortStart + n
  BY DEF PaceInv, TypeInv, TypeOK
<1> HIDE DEF n
<1>5. p < RemotePortStart + (n + 1)
  <2>1. CASE p = RemotePortStart
    BY <1>2, <1>3, <2>1
  <2>2. CASE p # RemotePortStart
    <3>1. PICK w \in InTable : p = row[w].port + 1
      BY <2>2 DEF Candidates
    <3>2. w \in used /\ row[w].port = chosen[w]
      BY DEF InTable, TypeInv, RowsUsed, PortInv
    <3> QED
      BY <1>2, <1>3, <1>4, <3>1, <3>2
  <2> QED
    BY <2>1, <2>2
<1>6. ASSUME NEW w \in used'
      PROVE  chosen'[w] < RemotePortStart + (n + 1)
  <2>1. CASE w = v
    BY <1>1, <1>5, <2>1 DEF TypeInv, TypeOK
  <2>2. CASE w # v
    <3>1. w \in used /\ chosen'[w] = chosen[w]
      BY <1>1, <2>2 DEF TypeInv, TypeOK
    <3> QED
      BY <1>2, <1>3, <1>4, <3>1
  <2> QED
    BY <2>1, <2>2
<1> QED
  BY <1>2, <1>6 DEF PaceInv

LEMMA StepPaceInv == TypeInv /\ PortInv /\ PaceInv /\ [Next]_vars => PaceInv'
<1> SUFFICES ASSUME TypeInv, PortInv, PaceInv, [Next]_vars
             PROVE  PaceInv'
  OBVIOUS
<1>1. ASSUME NEW r \in Req, BeginCreate(r)
      PROVE  PaceInv'
  BY <1>1, CreateKeepsPace
<1>2. ASSUME NEW r \in Req, Handle(r)
      PROVE  UNCHANGED <<used, chosen>>
  BY <1>2, HandleShape DEF HandlerStep
<1>3. ASSUME NEW r \in Req, RefuseCreate(r) \/ Begin(r) \/ Refuse(r)
      PROVE  UNCHANGED <<used, chosen>>
  BY <1>3 DEF RefuseCreate, Begin, Refuse, auxVars
<1>4. RunOp \/ FailOp \/ Crash \/ Unregister \/ UNCHANGED vars => UNCHANGED <<used, chosen>>
  BY DEF RunOp, FailOp, Crash, Unregister, vars, auxVars
<1> QED
  BY <1>1, <1>2, <1>3, <1>4 DEF Next, PaceInv

(* MAX+1 gives ports away no faster than VMs are created, in every run.    *)
THEOREM PortsKeepPaceAlways == Spec => []PortsKeepPace
<1>1. TypeInv /\ PortInv /\ PaceInv => PortsKeepPace
  BY DEF TypeInv, RowsUsed, PortInv, PaceInv, PortsKeepPace
<1>2. Spec => [](TypeInv /\ PortInv /\ PaceInv)
  BY InitTypeInv, StepTypeInv, InitPortInv, StepPortInv, InitPaceInv, StepPaceInv, PTL DEF Spec
<1> QED
  BY <1>1, <1>2, PTL

-----------------------------------------------------------------------------
(* Lost updates. *)

(* A request alone on its VM still holds the row as it is.                 *)
AloneInv ==
  \A r \in alone :
    /\ Busy(r)
    /\ \A q \in Req : Busy(q) /\ req[q].vm = req[r].vm => q = r
    /\ req[r].pc \in Editing => req[r].local = row[req[r].vm]

LEMMA InitAloneInv == Init => AloneInv
BY DEF Init, AloneInv

LEMMA StepAloneInv == TypeInv /\ AloneInv /\ [Next]_vars => AloneInv'
<1> SUFFICES ASSUME TypeInv, AloneInv, [Next]_vars PROVE AloneInv'
  OBVIOUS
<1> USE DEF AloneInv
<1>0. alone \subseteq Req
  BY DEF TypeInv, TypeOK
<1>1. ASSUME NEW q \in Req, BeginCreate(q) PROVE AloneInv'
  <2>1. PICK v \in VM \ used : req'[q].vm = v /\ req'[q].pc = "insert"
    BY <1>1 DEF BeginCreate, TypeInv, TypeOK, Idle
  <2>2. \A r \in Req \ {q} : req'[r] = req[r] /\ (Busy(r) => req[r].vm # v)
    BY <1>1, <2>1 DEF BeginCreate, TypeInv, TypeOK, Prepared, Busy
  <2>3. alone' = alone \cup {q} /\ row' = row /\ q \notin alone
    BY <1>1 DEF BeginCreate, Arrives
  <2> QED
    BY <1>0, <2>1, <2>2, <2>3 DEF Busy, Editing
<1>2. ASSUME NEW q \in Req, Begin(q) PROVE AloneInv'
  <2>1. PICK v \in VM :
          /\ req'[q].vm = v /\ req'[q].local = row[v] /\ req'[q].pc # "idle"
          /\ \A r \in Req \ {q} : req'[r] = req[r]
          /\ alone' = IF On(v) = {} THEN alone \cup {q} ELSE alone \ On(v)
    BY <1>2, BeginShape
  <2>2. row' = row /\ ~Busy(q) /\ q \notin alone
    BY <1>2 DEF Begin, Arrives
  <2>3. \A r \in Req : Busy(r) /\ req[r].vm = v => r \in On(v)
    BY DEF On
  <2>4. ASSUME NEW r \in alone', r # q
        PROVE  r \in alone /\ req[r].vm # v
    BY <1>0, <2>1, <2>3, <2>4
  <2>5. q \in alone' => On(v) = {}
    BY <2>1, <2>2
  <2>6. alone' \subseteq alone \cup {q}
    BY <2>1
  <2>7. \A r \in alone' : Busy(r)' /\ (req'[r].pc \in Editing => req'[r].local = row'[req'[r].vm])
    BY <1>0, <2>1, <2>2, <2>4, <2>6 DEF Busy
  <2>8. ASSUME NEW r \in alone', NEW s \in Req, Busy(s)', req'[s].vm = req'[r].vm
        PROVE  s = r
    BY <1>0, <2>1, <2>2, <2>3, <2>4, <2>5, <2>6, <2>8 DEF Busy
  <2> QED
    BY <2>7, <2>8 DEF Busy
<1>3. ASSUME NEW q \in Req, RefuseCreate(q) \/ Refuse(q) PROVE AloneInv'
  <2>1. req'[q].pc = "idle" /\ (\A r \in Req \ {q} : req'[r] = req[r]) /\ ~Busy(q)
        /\ UNCHANGED <<row, alone>>
    <3>1. CASE RefuseCreate(q)
      BY <3>1 DEF RefuseCreate, Idle, TypeInv, TypeOK, auxVars
    <3>2. CASE Refuse(q)
      BY <3>2 DEF Refuse, Idle, TypeInv, TypeOK, auxVars
    <3> QED
      BY <1>3, <3>1, <3>2
  <2> QED
    BY <1>0, <2>1 DEF Busy
<1>4. ASSUME NEW q \in Req, Handle(q) PROVE AloneInv'
  <2>1. HandlerStep(q)
    BY <1>4, HandleShape
  <2>2. ASSUME NEW r \in alone', r # q
        PROVE  /\ r \in alone /\ req'[r] = req[r] /\ req[r].vm \in VM
               /\ req[r].vm # req[q].vm /\ row'[req[r].vm] = row[req[r].vm]
    BY <1>0, <2>1, <2>2 DEF HandlerStep, GoesOn, TypeInv, TypeOK, Prepared, Busy
  <2>3. q \in alone' => q \in alone /\ req'[q].pc # "idle" /\ req'[q].vm = req[q].vm
    BY <2>1 DEF HandlerStep, GoesOn
  <2>4. q \in alone' /\ req'[q].pc \in Editing => req'[q].local = row'[req'[q].vm]
    BY <2>1, <2>3 DEF HandlerStep, GoesOn
  <2>5. req'[q].pc = "idle" \/ req'[q].vm = req[q].vm
    BY <2>1 DEF HandlerStep, GoesOn
  <2>6. ASSUME NEW r \in alone', NEW s \in Req, Busy(s)', req'[s].vm = req'[r].vm
        PROVE  s = r
    BY <1>0, <2>1, <2>2, <2>3, <2>5, <2>6 DEF HandlerStep, Busy
  <2>7. \A r \in alone' : Busy(r)' /\ (req'[r].pc \in Editing => req'[r].local = row'[req'[r].vm])
    BY <2>2, <2>3, <2>4 DEF Busy
  <2> QED
    BY <2>6, <2>7 DEF Busy
<1>5. CASE RunOp \/ FailOp \/ Unregister \/ UNCHANGED vars
  BY <1>5 DEF RunOp, FailOp, Unregister, vars, auxVars, Busy
<1>6. CASE Crash
  BY <1>6 DEF Crash
<1> QED
  BY <1>1, <1>2, <1>3, <1>4, <1>5, <1>6 DEF Next

(* The step in which the Save of an undisturbed request returns.           *)
LEMMA SaveStep ==
  ASSUME TypeInv, TypeInv', AloneInv, [Next]_vars, NEW r \in alone,
         req[r].pc = "save", req'[r] # req[r]
  PROVE  /\ row[req[r].vm] # Nil
         /\ row' \in {row, SaveRow(req[r].vm, Edited(req[r].op, req[r].arg, row[req[r].vm]))}
<1>0. r \in Req /\ Busy(r) /\ req[r].local = row[req[r].vm] /\ req[r].vm \in VM
  BY DEF AloneInv, TypeInv, TypeOK, Prepared, Editing, Busy
<1>1. row[req[r].vm] # Nil
  BY <1>0, NilIsNothing DEF TypeInv, Prepared, Editing
<1>2. CASE Handle(r)
  <2>1. HandlerStep(r)
    BY <1>0, <1>2, HandleShape
  <2>2. row' = row \/ row'[req[r].vm] = Edited(req[r].op, req[r].arg, req[r].local)
    BY <2>1 DEF HandlerStep, Writes
  <2>3. \A v \in VM \ {req[r].vm} : row'[v] = row[v]
    BY <2>1 DEF HandlerStep
  <2> QED
    BY <1>0, <1>1, <2>2, <2>3 DEF SaveRow, TypeInv, TypeOK
<1>3. ASSUME NEW q \in Req \ {r}, Handle(q) PROVE FALSE
  BY <1>0, <1>3, HandleShape DEF HandlerStep
<1>4. ASSUME NEW q \in Req, BeginCreate(q) \/ RefuseCreate(q) \/ Begin(q) \/ Refuse(q)
      PROVE  row' = row
  BY <1>4 DEF BeginCreate, RefuseCreate, Begin, Refuse
<1>5. RunOp \/ FailOp \/ Crash \/ Unregister \/ UNCHANGED vars => row' = row
  BY DEF RunOp, FailOp, Crash, Unregister, vars
<1> QED
  BY <1>1, <1>2, <1>3, <1>4, <1>5 DEF Next

(* A request no other overlapped never loses an update, in any run.        *)
THEOREM NoUpdateLostAlone == Spec => NoLostUpdate
<1>1. TypeInv /\ TypeInv' /\ AloneInv /\ [Next]_vars =>
        [\A r \in alone :
           req[r].pc = "save" /\ req'[r] # req[r] =>
             /\ row[req[r].vm] # Nil
             /\ row' \in {row, SaveRow(req[r].vm,
                                      Edited(req[r].op, req[r].arg, row[req[r].vm]))}]_vars
  BY SaveStep
<1>2. Spec => [](TypeInv /\ AloneInv)
  BY InitTypeInv, StepTypeInv, InitAloneInv, StepAloneInv, PTL DEF Spec
<1> QED
  BY <1>1, <1>2, PTL DEF Spec, NoLostUpdate

-----------------------------------------------------------------------------
(* Deleted VMs. *)

LEMMA GoneStays ==
  ASSUME TypeInv, [Next]_vars, NEW v \in VM, Gone(v)
  PROVE  Gone(v)'
<1> USE DEF Gone, On
<1>0. v \in used /\ row[v] = Nil /\ \A r \in Req : Busy(r) /\ req[r].vm = v => req[r].pc \in Tail
  BY DEF Tail
<1>1. SUFFICES /\ v \in used' /\ row'[v] = Nil
               /\ \A r \in Req : req'[r].pc # "idle" /\ req'[r].vm = v => req'[r].pc \in Tail
  BY <1>1 DEF Tail, Busy
<1>2. ASSUME NEW q \in Req, BeginCreate(q)
      PROVE  /\ v \in used' /\ row'[v] = Nil
             /\ \A r \in Req : req'[r].pc # "idle" /\ req'[r].vm = v => req'[r].pc \in Tail
  <2>1. req'[q].vm # v /\ (\A r \in Req \ {q} : req'[r] = req[r]) /\ v \in used' /\ row' = row
    BY <1>0, <1>2 DEF BeginCreate, TypeInv, TypeOK, Idle
  <2> QED
    BY <1>0, <2>1 DEF Busy
<1>3. ASSUME NEW q \in Req, Begin(q)
      PROVE  /\ v \in used' /\ row'[v] = Nil
             /\ \A r \in Req : req'[r].pc # "idle" /\ req'[r].vm = v => req'[r].pc \in Tail
  <2>1. req'[q].vm # v /\ (\A r \in Req \ {q} : req'[r] = req[r])
    BY <1>0, <1>3, BeginShape
  <2> QED
    BY <1>0, <1>3, <2>1 DEF Begin, Busy
<1>4. ASSUME NEW q \in Req, RefuseCreate(q) \/ Refuse(q)
      PROVE  /\ v \in used' /\ row'[v] = Nil
             /\ \A r \in Req : req'[r].pc # "idle" /\ req'[r].vm = v => req'[r].pc \in Tail
  <2>1. req'[q].pc = "idle" /\ (\A r \in Req \ {q} : req'[r] = req[r]) /\ UNCHANGED <<row, used>>
    <3>1. CASE RefuseCreate(q)
      BY <3>1 DEF RefuseCreate, Idle, TypeInv, TypeOK
    <3>2. CASE Refuse(q)
      BY <3>2 DEF Refuse, Idle, TypeInv, TypeOK
    <3> QED
      BY <1>4, <3>1, <3>2
  <2> QED
    BY <1>0, <2>1 DEF Busy
<1>5. ASSUME NEW q \in Req, Handle(q)
      PROVE  /\ v \in used' /\ row'[v] = Nil
             /\ \A r \in Req : req'[r].pc # "idle" /\ req'[r].vm = v => req'[r].pc \in Tail
  <2>1. HandlerStep(q)
    BY <1>5, HandleShape
  <2>2. CASE req[q].vm = v
    <3>1. req[q].pc \in Tail
      BY <1>0, <2>1, <2>2 DEF HandlerStep
    <3>2. row'[v] = Nil
      BY <1>0, <2>1, <2>2, <3>1 DEF HandlerStep, Writes, Tail
    <3> QED
      BY <1>0, <2>1, <2>2, <3>1, <3>2 DEF HandlerStep, GoesOn, Busy
  <2>3. CASE req[q].vm # v
    BY <1>0, <2>1, <2>3 DEF HandlerStep, GoesOn, Busy
  <2> QED
    BY <2>2, <2>3
<1>6. CASE RunOp \/ FailOp \/ Unregister \/ UNCHANGED vars
  BY <1>0, <1>6 DEF RunOp, FailOp, Unregister, vars, auxVars, Busy
<1>7. CASE Crash
  BY <1>0, <1>7 DEF Crash, Idle
<1> QED
  BY <1>2, <1>3, <1>4, <1>5, <1>6, <1>7 DEF Next

(* A VM that is gone is gone for good, in every run.                       *)
THEOREM DeletedStaysDeleted == Spec => GoneForGood
<1>1. TypeInv /\ [Next]_vars => [\A v \in VM : Gone(v) => Gone(v)']_vars
  BY GoneStays
<1>2. Spec => []TypeInv
  BY InitTypeInv, StepTypeInv, PTL DEF Spec
<1> QED
  BY <1>1, <1>2, PTL DEF Spec, GoneForGood

-----------------------------------------------------------------------------
(* "vm not found". *)

(* Every host is registered, and nobody being served has an answer yet.    *)
RegisteredInv ==
  /\ hosts = Host
  /\ \A r \in Req : Busy(r) => req[r].reply = "none"

(* A handler that found its rows never says "not found".                   *)
LEMMA HandleReply ==
  ASSUME TypeInv, NEW r \in Req, Handle(r), req[r].reply = "none"
  PROVE  /\ hosts' = hosts /\ \A q \in Req \ {r} : req'[q] = req[q]
         /\ req'[r].reply # "notfound" /\ (Busy(r)' => req'[r].reply = "none")
<1> DEFINE Replies == req'[r].reply # "notfound" /\ (Busy(r)' => req'[r].reply = "none")
<1>1. hosts' = hosts /\ \A q \in Req \ {r} : req'[q] = req[q]
  <2>1. hosts' = hosts
    BY DEF Handle, Insert, Post, CreateFailed, CreateAccepted, Reread, Get, Put, PowerCall,
           Save, Halt, Destroy, Erase, LogOperation
  <2> QED
    BY <2>1, HandleShape DEF HandlerStep
<1>s. SUFFICES Replies
  BY <1>1
<1>2. req[r] \in Request /\ req \in [Req -> Request]
  BY DEF TypeInv, TypeOK
<1>3. ASSUME NEW a \in {"ok", "failed"}, Answered(r, a) PROVE Replies
  BY <1>2, <1>3 DEF Answered, Idle, Busy, Request
<1>4. ASSUME NEW pc \in Pc, GoOn(r, pc) PROVE Replies
  BY <1>2, <1>4 DEF GoOn, Idle, Request
<1>5. ASSUME NEW pc \in Pc, Goto(r, pc) PROVE Replies
  BY <1>2, <1>5 DEF Goto, Request
<1>6. CASE Get(r)
  <2>1. ASSUME NEW s, req' = [req EXCEPT ![r].pc = "put", ![r].set = s]
        PROVE  Replies
    BY <1>2, <2>1 DEF Request
  <2> HIDE DEF Replies
  <2> QED
    BY <1>3, <1>6, <2>1 DEF Get
<1> HIDE DEF Replies
<1>7. CASE Insert(r) \/ CreateFailed(r) \/ CreateAccepted(r) \/ Reread(r) \/ LogOperation(r)
  BY <1>3, <1>5, <1>7 DEF Insert, CreateFailed, CreateAccepted, Reread, LogOperation, Pc
<1>8. CASE Put(r) \/ PowerCall(r) \/ Halt(r)
  BY <1>3, <1>5, <1>8 DEF Put, PowerCall, Halt, Pc
<1>9. CASE Post(r) \/ Save(r) \/ Destroy(r) \/ Erase(r)
  BY <1>3, <1>4, <1>9 DEF Post, Save, Destroy, Erase, Pc
<1> QED
  BY <1>6, <1>7, <1>8, <1>9 DEF Handle

(* What a request that comes in says, and of what, when no host is gone.   *)
LEMMA RefusalMeansGone ==
  ASSUME TypeInv, RegisteredInv, NEW r \in Req, Refuse(r)
  PROVE  /\ ~Busy(r)' /\ \A q \in Req \ {r} : req'[q] = req[q]
         /\ req'[r].op = "delete" /\ req'[r].reply = "notfound" => row[req'[r].vm] = Nil
<1>1. PICK op \in Ops \ {"create"}, v \in VM : \E arg \in Args(op), actor \in Callers(op) :
        \E answer \in {"notfound", "failed"} :
          /\ answer = "notfound" => ~Admits(actor, op, arg, v)
          /\ req' = [req EXCEPT ![r] = [Idle EXCEPT !.op = op, !.vm = v, !.reply = answer]]
  BY DEF Refuse
<1>2. PICK arg \in Args(op), actor \in Callers(op), answer \in {"notfound", "failed"} :
        /\ answer = "notfound" => ~Admits(actor, op, arg, v)
        /\ req' = [req EXCEPT ![r] = [Idle EXCEPT !.op = op, !.vm = v, !.reply = answer]]
  BY <1>1
<1>3. /\ req'[r].pc = "idle" /\ req'[r].op = op /\ req'[r].vm = v /\ req'[r].reply = answer
      /\ \A q \in Req \ {r} : req'[q] = req[q]
  BY <1>2 DEF TypeInv, TypeOK, Idle
<1>4. ASSUME op = "delete", answer = "notfound"
      PROVE  row[v] = Nil
  <2>1. actor = Admin
    BY <1>4 DEF Callers, Power
  <2>2. row[v] # Nil => row[v].host \in Host
    BY DEF TypeInv, TypeOK, Row
  <2> QED
    BY <1>2, <1>4, <2>1, <2>2 DEF Admits, Found, HostKnown, RegisteredInv
<1> QED
  BY <1>3, <1>4 DEF Busy

LEMMA StepNotFound ==
  ASSUME "unregister" \notin Events, TypeInv, RegisteredInv, [Next]_vars
  PROVE  /\ RegisteredInv'
         /\ \A r \in Req :
              req'[r].op = "delete" /\ req'[r].reply = "notfound" /\ req'[r] # req[r] =>
                row[req'[r].vm] = Nil
<1> DEFINE Fine(r) == /\ Busy(r)' => req'[r].reply = "none"
                      /\ req'[r].op = "delete" /\ req'[r].reply = "notfound"
                           /\ req'[r] # req[r] => row[req'[r].vm] = Nil
<1>0. ASSUME NEW q \in Req, hosts' = hosts, \A r \in Req \ {q} : req'[r] = req[r], Fine(q)
      PROVE  hosts' = Host /\ \A r \in Req : Fine(r)
  BY <1>0 DEF RegisteredInv, Busy
<1>1. SUFFICES hosts' = Host /\ \A r \in Req : Fine(r)
  BY <1>1 DEF RegisteredInv
<1>2. ASSUME NEW q \in Req, BeginCreate(q)
      PROVE  hosts' = hosts /\ (\A r \in Req \ {q} : req'[r] = req[r]) /\ Fine(q)
  BY <1>2 DEF BeginCreate, TypeInv, TypeOK, Idle
<1>3. ASSUME NEW q \in Req, RefuseCreate(q)
      PROVE  hosts' = hosts /\ (\A r \in Req \ {q} : req'[r] = req[r]) /\ Fine(q)
  BY <1>3 DEF RefuseCreate, TypeInv, TypeOK, Idle, Busy
<1>4. ASSUME NEW q \in Req, Begin(q)
      PROVE  hosts' = hosts /\ (\A r \in Req \ {q} : req'[r] = req[r]) /\ Fine(q)
  BY <1>4 DEF Begin, TypeInv, TypeOK, Idle
<1>5. ASSUME NEW q \in Req, Refuse(q)
      PROVE  hosts' = hosts /\ (\A r \in Req \ {q} : req'[r] = req[r]) /\ Fine(q)
  BY <1>5, RefusalMeansGone DEF Refuse
<1>6. ASSUME NEW q \in Req, Handle(q)
      PROVE  hosts' = hosts /\ (\A r \in Req \ {q} : req'[r] = req[r]) /\ Fine(q)
  <2>1. req[q].reply = "none"
    BY <1>6, HandleShape DEF HandlerStep, RegisteredInv
  <2> QED
    BY <1>6, <2>1, HandleReply
<1>7. CASE RunOp \/ FailOp \/ UNCHANGED vars
  BY <1>7 DEF RunOp, FailOp, vars, RegisteredInv, Busy
<1>8. CASE Crash
  BY <1>8 DEF Crash, Idle, Busy, RegisteredInv
<1>9. ~Unregister
  BY DEF Unregister
<1> HIDE DEF Fine
<1> QED
  BY <1>0, <1>2, <1>3, <1>4, <1>5, <1>6, <1>7, <1>8, <1>9 DEF Next

(* An administrator is told wrongly that a VM to be deleted is not there   *)
(* only because of a deleted host: while no host is deleted, "vm not       *)
(* found" means what it says, whatever else fails.                         *)
THEOREM NotFoundNeedsLostHost ==
  ASSUME "unregister" \notin Events
  PROVE  Spec => NotFoundMeansGone
<1>1. Init => RegisteredInv
  BY DEF Init, RegisteredInv, Idle, Busy
<1>2. TypeInv /\ RegisteredInv /\ [Next]_vars =>
        /\ RegisteredInv'
        /\ [\A r \in Req :
              req'[r].op = "delete" /\ req'[r].reply = "notfound" /\ req'[r] # req[r] =>
                row[req'[r].vm] = Nil]_vars
  BY StepNotFound
<1>3. Spec => []TypeInv
  BY InitTypeInv, StepTypeInv, PTL DEF Spec
<1> QED
  BY <1>1, <1>2, <1>3, PTL DEF Spec, NotFoundMeansGone
=============================================================================
