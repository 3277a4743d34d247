--------------------------- MODULE VMObjectProofs ---------------------------
(***************************************************************************)
(* A VM as one thing: it is in one place whatever happens to it, and until *)
(* something gets in its way it is the object of AtomicVM.                 *)
(***************************************************************************)
EXTENDS VMMirrorProofs

(* Where v is, or may still come to be: on a host that has an instance of  *)
(* it, that is to create one, or that a create is about to ask for one.    *)
Site(h, v) ==
  \/ inst[h][v] # Nil
  \/ \E t \in pending : t.kind = "create" /\ t.vm = v /\ t.host = h
  \/ \E r \in Req : req[r].pc \in {"insert", "post"} /\ req[r].vm = v /\ req[r].local.host = h

SiteInv ==
  \A v \in VM : /\ v \notin used => \A h \in Host : ~Site(h, v)
                /\ \A g, h \in Host : Site(g, v) /\ Site(h, v) => g = h

LEMMA InitSiteInv == Init => SiteInv
<1> SUFFICES ASSUME Init
             PROVE  SiteInv
  OBVIOUS
<1>1. PICK h \in Host, up \in BOOLEAN : inst = [g \in Host |-> [v \in VM |->
            IF g = h /\ v \in Existing THEN [set |-> Fresh, running |-> up] ELSE Nil]]
  BY DEF Init
<1>2. \A g \in Host, v \in VM : Site(g, v) => g = h /\ v \in Existing
  BY <1>1 DEF Init, Site, Idle
<1> QED
  BY <1>2 DEF Init, SiteInv

(* Only Insert comes before Post, and nothing before Insert.               *)
LEMMA BeforePost ==
  ASSUME TypeInv, NEW r \in Req, Handle(r), req'[r].pc \in {"insert", "post"}
  PROVE  /\ req[r].pc = "insert" /\ req'[r].pc = "post"
         /\ req'[r].vm = req[r].vm /\ req'[r].local = req[r].local
<1>1. ASSUME NEW pc \in Pc, Goto(r, pc) \/ GoOn(r, pc)
      PROVE  req'[r].pc = pc
  BY <1>1, GotoFields, GoOnFields
<1>2. ~Answered(r, "ok") /\ ~Answered(r, "failed")
  BY AnsweredFields DEF Busy
<1>3. Insert(r)
  <2>1. ~Get(r)
    <3>1. ASSUME NEW x, req' = [req EXCEPT ![r].pc = "put", ![r].set = x]
          PROVE  FALSE
      <4>1. req' = [req EXCEPT ![r] = [req[r] EXCEPT !.pc = "put", !.set = x]]
        BY <3>1, Typed
      <4>2. req'[r].pc = "put"
        BY <4>1, Typed DEF Request
      <4> QED
        BY <4>2
    <3> QED
      BY <1>2, <3>1 DEF Get
  <2>2. ~Post(r) /\ ~CreateFailed(r) /\ ~CreateAccepted(r) /\ ~Reread(r) /\ ~Put(r)
        /\ ~PowerCall(r)
    BY <1>1, <1>2 DEF Pc, Post, CreateFailed, CreateAccepted, Reread, Put, PowerCall
  <2>3. ~Save(r) /\ ~Halt(r) /\ ~Destroy(r) /\ ~Erase(r) /\ ~LogOperation(r)
    BY <1>1, <1>2 DEF Pc, Save, Halt, Destroy, Erase, LogOperation
  <2> QED
    BY <2>1, <2>2, <2>3 DEF Handle
<1>4. req[r].pc = "insert" /\ Goto(r, "post")
  BY <1>2, <1>3 DEF Insert
<1> QED
  BY <1>4, GotoFields DEF Pc

(* No step of a handler gives a VM another place: only Post asks for an    *)
(* instance, where its create said.                                        *)
LEMMA HandleSites ==
  ASSUME TypeInv, NEW r \in Req, Handle(r), NEW h \in Host, NEW v \in VM, Site(h, v)'
  PROVE  Site(h, v)
<1>0. HandlerStep(r) /\ \A q \in Req \ {r} : req'[q] = req[q]
  BY HandleShape DEF HandlerStep
<1>1. inst' = inst
  BY DEF Handle, Insert, Post, CreateFailed, CreateAccepted, Reread, Get, Put, PowerCall, Save,
         Halt, Destroy, Erase, LogOperation, incusVars
<1>2. ASSUME NEW t \in pending', t \notin pending, t.kind = "create"
      PROVE  req[r].pc = "post" /\ t.vm = req[r].vm /\ t.host = req[r].local.host
  <2>1. ASSUME NEW kind \in {"update", "start", "stop", "restart", "destroy"}, NEW s,
               NEW a \in Answer, Ask(Operation(req[r].local.host, req[r].vm, kind, s), a)
        PROVE  FALSE
    BY <1>2, <2>1 DEF Ask, Operation
  <2>2. ~Put(r) /\ ~Halt(r) /\ ~Destroy(r)
    BY <2>1 DEF Put, Halt, Destroy
  <2>3. ~PowerCall(r)
    <3>1. PowerCall(r) => (IF req[r].op = "reboot" THEN "restart" ELSE req[r].op)
                             \in {"start", "stop", "restart"}
      BY DEF PowerCall, TypeInv, Prepared, Power
    <3> QED
      BY <2>1, <3>1 DEF PowerCall
  <2>4. CASE Post(r)
    BY <1>2, <2>4 DEF Post, Ask, Operation
  <2>5. CASE Insert(r) \/ CreateFailed(r) \/ CreateAccepted(r) \/ Reread(r) \/ Get(r) \/ Save(r)
             \/ Erase(r) \/ LogOperation(r)
    BY <1>2, <2>5 DEF Insert, CreateFailed, CreateAccepted, Reread, Get, Save, Erase,
                      LogOperation, incusVars
  <2> QED
    BY <2>2, <2>3, <2>4, <2>5 DEF Handle
<1>3. ASSUME req'[r].pc \in {"insert", "post"}
      PROVE  req[r].pc = "insert" /\ req'[r].vm = req[r].vm /\ req'[r].local = req[r].local
  BY <1>3, BeforePost
<1> QED
  BY <1>0, <1>1, <1>2, <1>3 DEF Site

(* Nor does any other step, but the one that draws a VM.                   *)
LEMMA SitesStay ==
  ASSUME TypeInv, [Next]_vars, \A r \in Req : ~BeginCreate(r),
         NEW h \in Host, NEW v \in VM, Site(h, v)'
  PROVE  Site(h, v)
<1>1. CASE \E r \in Req : Handle(r)
  BY <1>1, HandleSites
<1>2. ASSUME NEW r \in Req, RefuseCreate(r) \/ Begin(r) \/ Refuse(r)
      PROVE  Site(h, v)
  <2>1. inst' = inst /\ pending' = pending
    BY <1>2 DEF RefuseCreate, Begin, Refuse, incusVars
  <2>2. req'[r].pc \notin {"insert", "post"} /\ \A q \in Req \ {r} : req'[q] = req[q]
    <3>1. CASE RefuseCreate(r)
      BY <3>1, Typed DEF RefuseCreate, Idle
    <3>2. CASE Refuse(r)
      BY <3>2, Typed DEF Refuse, Idle
    <3>3. CASE Begin(r)
      <4>1. PICK op \in Ops, w \in VM : \E arg \in Args(op) :
              req' = [req EXCEPT ![r] =
                [Idle EXCEPT !.op = op, !.vm = w, !.arg = arg, !.local = row[w],
                   !.pc = IF HostKnown(op, arg, w) THEN FirstCall(op) ELSE "erase"]]
        BY <3>3 DEF Begin
      <4>2. FirstCall(op) \notin {"insert", "post"}
        BY DEF FirstCall
      <4> QED
        BY <4>1, <4>2, Typed DEF Idle
    <3> QED
      BY <1>2, <3>1, <3>2, <3>3
  <2> QED
    BY <2>1, <2>2 DEF Site
<1>3. CASE RunOp
  <2>1. PICK t \in pending : RunOperation(t)
    BY <1>3 DEF RunOp
  <2>2. /\ t \in Task /\ t.host \in Host /\ t.vm \in VM
        /\ t.kind \in {"create", "update", "start", "stop", "restart", "destroy"}
    BY Typed DEF Task
  <2>3. req' = req /\ pending' = pending \ {t} /\ Possible(t)
        /\ inst' = [inst EXCEPT ![t.host][t.vm] = Result(t)]
    BY <1>3, <2>1 DEF RunOp, RunOperation
  <2>4. inst'[h][v] # Nil => inst[h][v] # Nil \/ (h = t.host /\ v = t.vm /\ Result(t) # Nil)
    BY <2>2, <2>3, Typed
  <2>5. Result(t) # Nil => Present(t) \/ t.kind = "create"
    BY <2>2, <2>3 DEF Result, Possible, Running
  <2> QED
    BY <2>3, <2>4, <2>5 DEF Site, Present
<1>4. CASE FailOp \/ Crash \/ Unregister \/ UNCHANGED vars
  <2>1. inst' = inst /\ pending' \subseteq pending
    BY <1>4 DEF FailOp, FailOperation, Crash, Unregister, vars, incusVars
  <2>2. \A r \in Req : req'[r] = req[r] \/ req'[r].pc = "idle"
    BY <1>4 DEF FailOp, Crash, Unregister, vars, auxVars, Idle
  <2> QED
    BY <2>1, <2>2 DEF Site
<1> QED
  BY <1>1, <1>2, <1>3, <1>4 DEF Next

(* A VM gets its one place when it is drawn.                               *)
LEMMA BeginCreateSites ==
  ASSUME TypeInv, SiteInv, NEW r \in Req, BeginCreate(r)
  PROVE  SiteInv'
<1>1. PICK v \in VM \ used, g \in hosts, u \in User \cup {Nil}, p \in Candidates :
        /\ req' = [req EXCEPT ![r] =
             [Idle EXCEPT !.op = "create", !.vm = v, !.pc = "insert",
                !.local = [host |-> g, owner |-> u, set |-> Fresh, port |-> p,
                           status |-> "creating"]]]
        /\ used' = used \cup {v}
  BY DEF BeginCreate
<1>2. /\ req'[r].vm = v /\ req'[r].local.host = g
      /\ \A q \in Req \ {r} : req'[q] = req[q]
  BY <1>1, Typed DEF Idle
<1>3. inst' = inst /\ pending' = pending
  BY DEF BeginCreate, incusVars
<1>4. ASSUME NEW h \in Host, NEW w \in VM, Site(h, w)'
      PROVE  Site(h, w) \/ (w = v /\ h = g)
  BY <1>2, <1>3, <1>4 DEF Site
<1>5. \A h \in Host : ~Site(h, v)
  BY <1>1 DEF SiteInv
<1> QED
  BY <1>1, <1>4, <1>5 DEF SiteInv

LEMMA StepSiteInv == TypeInv /\ SiteInv /\ [Next]_vars => SiteInv'
<1> SUFFICES ASSUME TypeInv, SiteInv, [Next]_vars
             PROVE  SiteInv'
  OBVIOUS
<1>1. CASE \E r \in Req : BeginCreate(r)
  BY <1>1, BeginCreateSites
<1>2. CASE \A r \in Req : ~BeginCreate(r)
  <2>1. used \subseteq used'
    <3>1. ASSUME NEW r \in Req, Handle(r)
          PROVE  used' = used
      BY <3>1, HandleShape DEF HandlerStep
    <3>2. ASSUME NEW r \in Req, RefuseCreate(r) \/ Begin(r) \/ Refuse(r)
          PROVE  used' = used
      BY <3>2 DEF RefuseCreate, Begin, Refuse
    <3>3. RunOp \/ FailOp \/ Crash \/ Unregister \/ UNCHANGED vars => used' = used
      BY DEF RunOp, FailOp, Crash, Unregister, vars
    <3> QED
      BY <1>2, <3>1, <3>2, <3>3 DEF Next
  <2> QED
    BY <1>2, <2>1, SitesStay DEF SiteInv
<1> QED
  BY <1>1, <1>2

(* A VM is never on two hosts, in any run with any faults.                 *)
THEOREM OneInstanceAlways == Spec => []OneInstance
<1>1. SiteInv => OneInstance
  BY DEF SiteInv, Site, OneInstance
<1>2. Spec => [](TypeInv /\ SiteInv)
  BY InitTypeInv, StepTypeInv, InitSiteInv, StepSiteInv, PTL DEF Spec
<1> QED
  BY <1>1, <1>2, PTL

-----------------------------------------------------------------------------
(* The object. *)

Inserting == {req[r].vm : r \in {q \in Req : req[q].pc = "insert"}}

(* AtomicVM's vm and born. *)
Seen == [v \in VM |-> IF v \in disturbed THEN Nil ELSE row[v]]
Born == disturbed \cup (used \ Inserting)

(* What is not given up stays as it is: a stutter when nothing is given up. *)
LEMMA GivesUp ==
  ASSUME TypeInv, NEW lost \in SUBSET VM, disturbed' = disturbed \cup lost, used' \subseteq VM,
         \A w \in VM : w \notin disturbed' =>
           row'[w] = row[w] /\ (w \in used' \ Inserting' <=> w \in used \ Inserting)
  PROVE  Object!Next
<1>1. used \subseteq VM /\ disturbed \subseteq VM
  BY Typed
<1>2. Seen' = [v \in VM |-> IF v \in lost THEN Nil ELSE Seen[v]]
  BY DEF Seen
<1>3. Born' = Born \cup lost
  BY <1>1 DEF Born
<1>4. Object!GiveUp(lost)
  BY <1>2, <1>3 DEF Object!GiveUp, Inserting, Seen, Born
<1> QED
  BY <1>4 DEF Object!Next

(* One VM changes. *)
LEMMA RowChanges ==
  ASSUME TypeInv, NEW v \in VM, v \notin disturbed, UNCHANGED <<disturbed, used, Inserting>>,
         \A w \in VM \ {v} : row'[w] = row[w]
  PROVE  Seen' = [Seen EXCEPT ![v] = row'[v]] /\ Seen[v] = row[v] /\ Born' = Born
BY DEF Seen, Born

LEMMA IsRow ==
  ASSUME NEW v \in VM, v \notin disturbed, row[v] # Nil, NEW S, row[v].status \in S
  PROVE  Object!Is(v, S)
BY DEF Object!Is

(* Who is about to insert changes with the request that steps only. *)
LEMMA SameInserting ==
  ASSUME NEW r \in Req, \A q \in Req \ {r} : req'[q] = req[q], NEW w,
         req[r].pc = "insert" => req[r].vm # w,
         req'[r].pc = "insert" => req'[r].vm # w
  PROVE  w \in Inserting' <=> w \in Inserting
BY DEF Inserting

(* What a handler's step leaves of the other VMs.                          *)
LEMMA Others ==
  ASSUME TypeInv, NEW r \in Req, Handle(r)
  PROVE  /\ req[r].vm \in VM /\ used' = used
         /\ \A w \in VM \ {req[r].vm} : row'[w] = row[w]
         /\ \A w : w # req[r].vm => (w \in Inserting' <=> w \in Inserting)
         /\ req[r].pc # "insert" => Inserting' = Inserting
         /\ disturbed' \in {disturbed, disturbed \cup {req[r].vm}}
<1>1. HandlerStep(r)
  BY HandleShape
<1>2. /\ used' = used /\ \A q \in Req \ {r} : req'[q] = req[q]
      /\ \A w \in VM \ {req[r].vm} : row'[w] = row[w]
      /\ Busy(r)
  BY <1>1 DEF HandlerStep
<1>3. req[r].vm \in VM
  BY <1>2, BusyVM
<1>4. req'[r].pc # "insert"
  BY BeforePost
<1>5. \A w : w # req[r].vm => (w \in Inserting' <=> w \in Inserting)
  BY <1>2, <1>4, SameInserting
<1>6. ASSUME req[r].pc # "insert"
      PROVE  Inserting' = Inserting
  <2>1. \A w : w \in Inserting' <=> w \in Inserting
    BY <1>2, <1>4, <1>6, SameInserting
  <2> QED
    BY <2>1
<1>7. disturbed' \in {disturbed, disturbed \cup {req[r].vm}}
  BY DEF Handle, Insert, Post, CreateFailed, CreateAccepted, Reread, Get, Put, PowerCall, Save,
         Halt, Destroy, Erase, LogOperation, Disturb, auxVars
<1> QED
  BY <1>2, <1>3, <1>5, <1>6, <1>7

(* The row is inserted: the VM is created.                                 *)
LEMMA InsertCreates ==
  ASSUME TypeInv, NEW r \in Req, NEW v, Serves(r, v), Insert(r), v \notin disturbed'
  PROVE  Object!Next
<1>0. /\ v \in VM /\ v = req[r].vm /\ On(v) = {r} /\ req[r].pc = "insert" /\ Handle(r)
      /\ v \in used /\ req[r].local \in Row
      /\ req[r].local.status = "creating" /\ req[r].local.set = Fresh
  BY DEF Serves, Insert, Place, Prepared, Handle
<1>1. row' = SaveRow(v, req[r].local) /\ disturbed' = disturbed /\ v \notin disturbed
  BY <1>0 DEF Insert, Disturb
<1>2. row'[v] = req[r].local
  BY <1>0, <1>1, Typed DEF SaveRow
<1>3. v \in Inserting
  BY <1>0 DEF Inserting
<1>4. v \notin Inserting'
  <2>1. \A q \in Req \ {r} : req'[q] = req[q] /\ (req[q].pc = "insert" => req[q].vm # v)
    BY <1>0 DEF Serves, On, Busy
  <2> QED
    BY <1>0, <2>1, BeforePost DEF Inserting
<1>5. /\ used' = used /\ \A w \in VM \ {v} : row'[w] = row[w]
      /\ \A w : w # v => (w \in Inserting' <=> w \in Inserting)
  BY <1>0, Others
<1>6. Born' = Born \cup {v} /\ v \notin Born
  BY <1>0, <1>1, <1>3, <1>4, <1>5 DEF Born
<1>7. Seen' = [Seen EXCEPT ![v] = row'[v]] /\ Seen'[v] = row'[v]
  BY <1>0, <1>1, <1>5 DEF Seen
<1>8. Object!Create(v)
  BY <1>0, <1>1, <1>2, <1>6, <1>7 DEF Object!Create, Inserting, Seen, Born
<1> QED
  BY <1>0, <1>8 DEF Object!Next

(* The status its create gives a VM.                                       *)
LEMMA SettleCreates ==
  ASSUME TypeInv, NEW r \in Req, NEW v, Serves(r, v), v \notin disturbed',
         CreateFailed(r) \/ CreateAccepted(r)
  PROVE  Object!Next
<1>0. /\ v \in VM /\ v = req[r].vm /\ req[r].pc \in {"fail", "settle"} /\ Handle(r)
      /\ row[v] # Nil /\ row[v].status = "creating"
  BY DEF Serves, CreateFailed, CreateAccepted, Place, Handle
<1>1. disturbed' = disturbed /\ v \notin disturbed
  BY <1>0, Others
<1>2. PICK s \in {"stopped", "error"} : row' = SetStatus(v, s)
  BY <1>0, <1>1 DEF CreateFailed, CreateAccepted, Disturb
<1>3. row'[v] = [row[v] EXCEPT !.status = s]
  BY <1>0, <1>2, Typed DEF SetStatus
<1>4. Seen' = [Seen EXCEPT ![v] = row'[v]] /\ Seen[v] = row[v] /\ Born' = Born
  BY <1>0, <1>1, Others, RowChanges
<1>5. Object!Is(v, {"creating"})
  BY <1>0, <1>1, IsRow
<1>6. Object!Created(v)
  BY <1>0, <1>1, <1>3, <1>4, <1>5
     DEF Object!Created, Object!Becomes, Seen, Born, Inserting
<1> QED
  BY <1>0, <1>6 DEF Object!Next

(* The Save of an edit.                                                    *)
LEMMA SaveEdits ==
  ASSUME TypeInv, NEW r \in Req, NEW v, Serves(r, v), Save(r), v \notin disturbed'
  PROVE  Object!Next
<1>0. /\ v \in VM /\ v = req[r].vm /\ req[r].pc = "save" /\ Handle(r)
      /\ row[v] # Nil /\ req[r].local = row[v] /\ row[v].status # "creating"
      /\ req[r].op \in Setting \cup Power => row[v].status # "error"
      /\ req[r].op \in Op \ {"create", "delete"} /\ req[r].arg \in Args(req[r].op)
  BY DEF Serves, Save, Place, Prepared, Editing, Handle
<1> DEFINE op == req[r].op
           arg == req[r].arg
<1>1. disturbed' = disturbed /\ v \notin disturbed
  BY <1>0, Others
<1>2. /\ row' = SaveRow(v, Edited(op, arg, row[v]))
      /\ ~(op = "migrate" /\ arg # row[v].host)
  BY <1>0, <1>1 DEF Save, Disturb
<1>3. row'[v] = Edited(op, arg, row[v]) /\ row[v] \in Row
  BY <1>0, <1>2, Typed DEF SaveRow
<1>4. Seen' = [Seen EXCEPT ![v] = row'[v]] /\ Seen[v] = row[v] /\ Born' = Born
  BY <1>0, <1>1, Others, RowChanges
<1>5. row[v].status \in Status /\ row[v].set \in [Setting -> Val]
  BY <1>0, RowOf
<1>6. CASE op \in Setting
  <2>1. Object!Usable(v)
    BY <1>0, <1>1, <1>5, <1>6, IsRow DEF Object!Usable, Status
  <2>2. PICK x \in Val : EditedSet(op, arg, row[v].set) = [row[v].set EXCEPT ![op] = x]
    <3>1. CASE arg = Nil
      <4>1. row[v].set[op] \in Val
        BY <1>5, <1>6
      <4>2. row[v].set = [row[v].set EXCEPT ![op] = row[v].set[op]]
        BY <1>5, <1>6
      <4> QED
        BY <3>1, <4>1, <4>2 DEF EditedSet
    <3>2. CASE arg # Nil
      BY <1>0, <1>6, <3>2 DEF EditedSet, Args, Setting
    <3> QED
      BY <3>1, <3>2
  <2>3. row'[v] = [row[v] EXCEPT !.set[op] = x]
    <3>1. row'[v] = [row[v] EXCEPT !.set = EditedSet(op, arg, row[v].set)]
      BY <1>3, <1>6 DEF Edited, Setting
    <3> QED
      BY <1>3, <2>2, <3>1 DEF Row
  <2> HIDE DEF op
  <2>4. Object!Configure(v)
    <3>1. Seen' = [Seen EXCEPT ![v] = [Seen[v] EXCEPT !.set[op] = x]]
      BY <1>4, <2>3
    <3> QED
      BY <1>1, <1>4, <1>6, <2>1, <3>1
         DEF Object!Configure, Object!Becomes, Seen, Born, Inserting
  <2> QED
    BY <1>0, <2>4 DEF Object!Next
<1>7. CASE op \in Power
  <2>1. Object!Usable(v)
    BY <1>0, <1>1, <1>5, <1>7, IsRow DEF Object!Usable, Status
  <2>2. row'[v] = [row[v] EXCEPT !.status = StatusAfter(op)]
    BY <1>3, <1>7 DEF Edited, Power, Setting
  <2>3. StatusAfter(op) \in {"stopped", "running"}
    BY DEF StatusAfter
  <2>4. Object!Power(v)
    BY <1>0, <1>1, <1>4, <2>1, <2>2, <2>3
     DEF Object!Power, Object!Becomes, Seen, Born, Inserting
  <2> QED
    BY <1>0, <2>4 DEF Object!Next
<1>8. CASE op = "assign"
  <2>1. Object!Is(v, {"stopped", "running", "error"})
    BY <1>0, <1>1, <1>5, IsRow DEF Status
  <2>2. row'[v] = [row[v] EXCEPT !.owner = arg] /\ arg \in User
    BY <1>0, <1>3, <1>8 DEF Edited, Setting, Args
  <2>3. Object!Assign(v)
    BY <1>0, <1>1, <1>4, <2>1, <2>2
     DEF Object!Assign, Object!Becomes, Seen, Born, Inserting
  <2> QED
    BY <1>0, <2>3 DEF Object!Next
<1>9. CASE op = "migrate"
  <2>1. row'[v] = row[v]
    BY <1>2, <1>3, <1>9 DEF Edited, Setting, Row
  <2> QED
    BY <1>0, <1>1, <2>1, Typed, Others, GivesUp
<1> QED
  BY <1>0, <1>6, <1>7, <1>8, <1>9 DEF Op

(* The row is erased.                                                      *)
LEMMA EraseDeletes ==
  ASSUME TypeInv, NEW r \in Req, NEW v, Serves(r, v), Erase(r), v \notin disturbed'
  PROVE  Object!Next
<1>0. /\ v \in VM /\ v = req[r].vm /\ req[r].pc = "erase" /\ Handle(r)
      /\ row[v] # Nil /\ row[v].status # "creating"
  BY DEF Serves, Erase, Place, Handle
<1>1. disturbed' = disturbed /\ v \notin disturbed
  BY <1>0, Others
<1>2. row'[v] = Nil
  BY <1>0, <1>1, Typed DEF Erase, Disturb
<1>3. Seen' = [Seen EXCEPT ![v] = row'[v]] /\ Seen[v] = row[v] /\ Born' = Born
  BY <1>0, <1>1, Others, RowChanges
<1>4. Object!Is(v, {"stopped", "running", "error"})
  BY <1>0, <1>1, RowOf, IsRow DEF Status
<1>5. Object!Delete(v)
  BY <1>0, <1>1, <1>2, <1>3, <1>4
     DEF Object!Delete, Object!Becomes, Seen, Born, Inserting
<1> QED
  BY <1>0, <1>5 DEF Object!Next

LEMMA HandleObject ==
  ASSUME TypeInv, MirrorInv, LogInv, NEW r \in Req, Handle(r)
  PROVE  Object!Next
<1> DEFINE v == req[r].vm
<1>0. /\ v \in VM /\ used' = used /\ used \subseteq VM
      /\ disturbed' \in {disturbed, disturbed \cup {v}}
      /\ \A w \in VM \ {v} : row'[w] = row[w] /\ (w \in Inserting' <=> w \in Inserting)
      /\ req[r].pc # "insert" => Inserting' = Inserting
  BY Others, Typed
<1> HIDE DEF v
<1>1. CASE v \in disturbed'
  <2>1. disturbed' = disturbed \cup {v}
    BY <1>0, <1>1
  <2> QED
    BY <1>0, <1>1, <2>1, GivesUp
<1>2. CASE v \notin disturbed'
  <2>1. disturbed' = disturbed /\ v \notin disturbed
    BY <1>0, <1>2
  <2>2. Serves(r, v)
    BY <2>1, ServesHandler DEF v
  <2>3. CASE row' = row /\ req[r].pc # "insert"
    <3>1. disturbed' = disturbed \cup {} /\ {} \in SUBSET VM
      BY <2>1
    <3> QED
      BY <1>0, <2>3, <3>1, GivesUp
  <2>4. CASE Post(r) \/ Reread(r) \/ Get(r) \/ Put(r) \/ PowerCall(r) \/ Halt(r) \/ Destroy(r)
             \/ LogOperation(r)
    BY <2>3, <2>4 DEF Post, Reread, Get, Put, PowerCall, Halt, Destroy, LogOperation
  <2> QED
    BY <1>2, <2>2, <2>4, InsertCreates, SettleCreates, SaveEdits, EraseDeletes DEF Handle
<1> QED
  BY <1>1, <1>2

(* A request that begins: a create is not seen before its Insert, and the  *)
(* other operations at most overlap.                                       *)
LEMMA BeginObject ==
  ASSUME TypeInv, TypeInv', NEW r \in Req, BeginCreate(r) \/ Begin(r)
  PROVE  Object!Next
<1>0. used' \subseteq VM /\ row' = row
  BY Typed DEF BeginCreate, Begin, TypeInv, TypeOK
<1>1. CASE BeginCreate(r)
  <2>1. PICK v \in VM \ used :
          used' = used \cup {v} /\ req'[r].vm = v /\ req'[r].pc = "insert"
    <3>1. PICK v \in VM \ used, h \in hosts, u \in User \cup {Nil}, p \in Candidates :
            /\ req' = [req EXCEPT ![r] =
                 [Idle EXCEPT !.op = "create", !.vm = v, !.pc = "insert",
                    !.local = [host |-> h, owner |-> u, set |-> Fresh, port |-> p,
                               status |-> "creating"]]]
            /\ used' = used \cup {v}
      BY <1>1 DEF BeginCreate
    <3>2. req'[r].vm = v /\ req'[r].pc = "insert"
      BY <3>1, Typed DEF Idle
    <3> QED
      BY <3>1, <3>2
  <2>2. disturbed' = disturbed \cup {} /\ ~Busy(r) /\ \A q \in Req \ {r} : req'[q] = req[q]
    BY <1>1, Typed DEF BeginCreate, Arrives
  <2>3. \A w : w \in Inserting' <=> w \in Inserting \cup {v}
    BY <2>1, <2>2 DEF Inserting, Busy
  <2>4. v \notin Inserting
    BY <2>1, BusyVM DEF Inserting, Busy
  <2>5. \A w : w \in used' \ Inserting' <=> w \in used \ Inserting
    BY <2>1, <2>3, <2>4
  <2>6. {} \in SUBSET VM
    OBVIOUS
  <2> QED
    BY <1>0, <2>2, <2>5, <2>6, GivesUp
<1>2. CASE Begin(r)
  <2>1. PICK v \in VM : req'[r].vm = v /\ \A q \in Req \ {r} : req'[q] = req[q]
    BY <1>2, BeginShape
  <2>2. ~Busy(r) /\ used' = used
    BY <1>2 DEF Begin, Arrives
  <2>3. PICK lost \in SUBSET VM : disturbed' = disturbed \cup lost
    <3>1. PICK w \in VM : disturbed' = disturbed \cup {} \/ disturbed' = disturbed \cup {w}
      BY <1>2 DEF Begin
    <3> QED
      BY <3>1
  <2>4. req'[r].pc # "insert"
    <3>1. PICK op \in Ops, w \in VM : \E arg \in Args(op) :
            req' = [req EXCEPT ![r] =
              [Idle EXCEPT !.op = op, !.vm = w, !.arg = arg, !.local = row[w],
                 !.pc = IF HostKnown(op, arg, w) THEN FirstCall(op) ELSE "erase"]]
      BY <1>2 DEF Begin
    <3>2. FirstCall(op) # "insert"
      BY DEF FirstCall
    <3> QED
      BY <3>1, <3>2, Typed DEF Idle
  <2>5. \A w : w \in Inserting' <=> w \in Inserting
    BY <2>1, <2>2, <2>4, SameInserting DEF Busy
  <2> QED
    BY <1>0, <2>2, <2>3, <2>5, GivesUp
<1> QED
  BY <1>1, <1>2

(* The daemons, a crash, a host removed and a request refused.             *)
LEMMA EnvironmentObject ==
  ASSUME TypeInv,
         \/ \E r \in Req : RefuseCreate(r) \/ Refuse(r)
         \/ RunOp \/ FailOp \/ Crash \/ Unregister \/ UNCHANGED vars
  PROVE  Object!Next
<1>0. used' = used /\ used \subseteq VM /\ row' = row
  BY Typed DEF RefuseCreate, Refuse, RunOp, FailOp, Crash, Unregister, vars, auxVars
<1>1. CASE Crash
  <2> DEFINE cut == {req[r].vm : r \in {q \in Req : Busy(q)}}
  <2>1. disturbed' = disturbed \cup cut /\ \A r \in Req : req'[r] = Idle
    BY <1>1 DEF Crash
  <2>2. cut \in SUBSET VM
    BY BusyVM
  <2>3. Inserting' = {} /\ Inserting \subseteq cut
    BY <2>1 DEF Inserting, Idle, Busy
  <2> HIDE DEF cut
  <2> QED
    BY <1>0, <2>1, <2>2, <2>3, GivesUp
<1>2. ASSUME NEW r \in Req, RefuseCreate(r) \/ Refuse(r)
      PROVE  Object!Next
  <2>1. req'[r].pc = "idle" /\ (\A q \in Req \ {r} : req'[q] = req[q]) /\ ~Busy(r)
        /\ disturbed' = disturbed
    <3>1. CASE RefuseCreate(r)
      BY <3>1, Typed DEF RefuseCreate, Idle, auxVars
    <3>2. CASE Refuse(r)
      BY <3>2, Typed DEF Refuse, Idle, auxVars
    <3> QED
      BY <1>2, <3>1, <3>2
  <2>2. \A w : w \in Inserting' <=> w \in Inserting
    BY <2>1, SameInserting DEF Busy
  <2>3. disturbed' = disturbed \cup {} /\ {} \in SUBSET VM
    BY <2>1
  <2> QED
    BY <1>0, <2>2, <2>3, GivesUp
<1>3. CASE RunOp \/ FailOp \/ Unregister \/ UNCHANGED vars
  <2>1. Inserting' = Inserting
    BY <1>3 DEF RunOp, FailOp, Unregister, vars, auxVars, Inserting
  <2>2. PICK lost \in SUBSET VM : disturbed' = disturbed \cup lost
    <3>1. disturbed' = disturbed \cup {} \/ \E t \in pending : disturbed' = disturbed \cup {t.vm}
      BY <1>3 DEF RunOp, FailOp, Disturb, Unregister, vars, auxVars
    <3>2. \A t \in pending : t.vm \in VM
      BY Typed DEF Task
    <3> QED
      BY <3>1, <3>2
  <2> QED
    BY <1>0, <2>1, <2>2, GivesUp
<1> QED
  BY <1>1, <1>2, <1>3

LEMMA InitObject == Init => Object!Init
<1> SUFFICES ASSUME Init
             PROVE  Object!Init
  OBVIOUS
<1>1. TypeInv /\ disturbed = {} /\ used = Existing /\ Inserting = {}
  BY InitTypeInv DEF Init, Inserting, Idle
<1>2. Seen = row /\ Born = Existing
  BY <1>1, Typed DEF Seen, Born
<1>3. \A v \in VM : /\ row[v] # Nil <=> v \in Existing
                    /\ v \in Existing => row[v].status \in {"stopped", "running"}
  <2>1. PICK h \in Host, up \in BOOLEAN,
             p \in [Existing -> RemotePortStart .. (RemotePortStart + Cardinality(Existing) - 1)] :
          row = [v \in VM |->
             IF v \in Existing
             THEN [host |-> h, owner |-> Nil, set |-> Fresh, port |-> p[v],
                   status |-> IF up THEN "running" ELSE "stopped"]
             ELSE Nil]
    BY DEF Init
  <2>2. ASSUME NEW v \in Existing
        PROVE  row[v] # Nil /\ row[v].status \in {"stopped", "running"}
    <3>1. v \in VM /\ p[v] \in Nat /\ Fresh \in [Setting -> Val]
      BY LifecycleAssumption DEF LifecycleAssumption, Fresh
    <3>2. row[v] = [host |-> h, owner |-> Nil, set |-> Fresh, port |-> p[v],
                    status |-> IF up THEN "running" ELSE "stopped"]
      BY <2>1, <3>1
    <3>3. row[v] \in Row
      BY <3>1, <3>2 DEF Row, Status
    <3> QED
      BY <3>2, <3>3, NilIsNothing
  <2> QED
    BY <2>1, <2>2
<1>4. Existing \subseteq VM
  BY LifecycleAssumption DEF LifecycleAssumption
<1>5. \A v \in Existing : Object!Usable(v)
  BY <1>1, <1>3, <1>4, IsRow DEF Object!Usable
<1> QED
  BY <1>1, <1>2, <1>3, <1>4, <1>5, Typed DEF Object!Init, Seen, Born, Inserting

LEMMA StepObject ==
  TypeInv /\ TypeInv' /\ MirrorInv /\ LogInv /\ [Next]_vars => [Object!Next]_(Object!objectVars)
BY HandleObject, BeginObject, EnvironmentObject DEF Next

(* Until something gets in its way, a VM under the handlers is the object  *)
(* of AtomicVM.                                                            *)
THEOREM ImplementsObject == Spec => ObjectSpec
BY Invariance, InitObject, StepObject, PTL DEF Spec, ObjectSpec, Object!Spec
=============================================================================
