--------------------------- MODULE VMMirrorProofs ---------------------------
(***************************************************************************)
(* The table and the hosts, and the log and the table: that VMLifecycle's  *)
(* TableMirrorsHosts and LogExplainsTable hold for any number of VMs,      *)
(* hosts and requests, with every fault.                                   *)
(*                                                                         *)
(* A VM that nothing has disturbed has one request at a time, which finds  *)
(* nothing pending when it begins.  So what is pending is its own work,    *)
(* and the invariant can say what it will lead to.                         *)
(***************************************************************************)
EXTENDS VMLifecycleProofs

(* What is accepted for v and has not run. *)
Tasks(v) == {t \in pending : t.vm = v}

NoInstance(v) == \A h \in Host : inst[h][v] = Nil

OnlyOn(h, v) == \A g \in Host \ {h} : inst[g][v] = Nil

(* Nothing of v is on the hosts, and nothing will be. *)
Blank(v) == NoInstance(v) /\ Tasks(v) = {}

(* The instance a row describes. *)
Target(vm) == [set |-> vm.set, running |-> vm.status = "running"]

(* The operation t, run on i or failed without harm, leaves goal. *)
Brings(t, i, goal) ==
  \/ t.kind = "create" /\ i = Nil /\ goal = [set |-> t.set, running |-> FALSE]
  \/ t.kind = "update" /\ i # Nil /\ goal = [set |-> t.set, running |-> i.running]
  \/ t.kind \in {"start", "restart"} /\ i # Nil /\ goal = [set |-> i.set, running |-> TRUE]
  \/ t.kind = "stop" /\ i # Nil /\ goal = [set |-> i.set, running |-> FALSE]

(* The hosts are, or will be, as the row vm says. *)
LeadsTo(v, vm) ==
  IF vm.status = "error" THEN Blank(v)
  ELSE /\ OnlyOn(vm.host, v)
       /\ \/ Tasks(v) = {} /\ inst[vm.host][v] = Target(vm)
          \/ \E t \in Task : /\ Tasks(v) = {t} /\ t.host = vm.host
                             /\ Brings(t, inst[vm.host][v], Target(vm))

(* The deletion has asked for a stop, which may have run. *)
Halted(v, vm) ==
  IF vm.status = "error" THEN Blank(v)
  ELSE /\ OnlyOn(vm.host, v) /\ inst[vm.host][v] # Nil
       /\ \A t \in Tasks(v) : t.host = vm.host /\ t.kind = "stop"

(* The instance is gone, or is stopped and about to be destroyed. *)
Ending(v) ==
  /\ \A t \in Tasks(v) : t.kind \in {"stop", "destroy"}
  /\ \/ NoInstance(v)
     \/ \E h \in Host : /\ OnlyOn(h, v) /\ inst[h][v] # Nil /\ ~inst[h][v].running
                        /\ \A t \in Tasks(v) : t.host = h
                        /\ \E t \in Tasks(v) : t.kind = "destroy"

(* The row is final: what is pending makes it true. *)
Final(v) == IF row[v] = Nil THEN Ending(v)
            ELSE row[v].status # "creating" /\ LeadsTo(v, row[v])

(* The struct is the row, and nothing is pending. *)
Reading(v, q) == /\ row[v] # Nil /\ q.local = row[v] /\ row[v].status # "creating"
                 /\ Tasks(v) = {} /\ LeadsTo(v, row[v])

(* What each place in the only handler on v says of v. *)
Place(v, q) ==
  /\ q.pc \in {"insert", "post", "settle", "fail", "reread"} => q.op = "create"
  /\ q.pc \in {"insert", "post", "settle", "fail"} => log[v] = Nil
  /\ q.pc \in {"halt", "destroy", "erase"} => q.op = "delete"
  /\ q.pc \in {"insert", "post"} => q.local.status = "creating" /\ q.local.set = Fresh
  /\ q.pc = "insert" => row[v] = Nil /\ Blank(v)
  /\ q.pc = "post"   => row[v] = q.local /\ Blank(v)
  /\ q.pc = "fail"   => row[v] # Nil /\ row[v].status = "creating" /\ Blank(v)
  /\ q.pc = "settle" => row[v] # Nil /\ row[v].status = "creating" /\ LeadsTo(v, row[v])
  /\ q.pc \in {"get", "put", "power", "halt"} => Reading(v, q)
  /\ q.pc = "put"  => row[v].status # "error" /\ q.set = EditedSet(q.op, q.arg, row[v].set)
  /\ q.pc = "save" => /\ row[v] # Nil /\ q.local = row[v] /\ row[v].status # "creating"
                      /\ \/ q.op = "migrate" /\ q.arg # row[v].host
                         \/ LeadsTo(v, Edited(q.op, q.arg, row[v]))
                      /\ q.op \in Setting \cup Power => row[v].status # "error"
  /\ q.pc = "destroy" => row[v] # Nil /\ q.local = row[v] /\ Halted(v, row[v])
  /\ q.pc = "erase"   => row[v] # Nil /\ Ending(v)
  /\ q.pc \in {"destroy", "erase"} => row[v].status # "creating"
  /\ q.pc \in {"log", "reread"} => Final(v)

(* A VM that is not disturbed. *)
Mirrors(v) ==
  /\ \A r, s \in On(v) : r = s
  /\ On(v) = {} => Final(v)
  /\ \A r \in On(v) : Place(v, req[r])

(* A uuid no create has drawn. *)
Unused(v) == Blank(v) /\ log[v] = Nil

MirrorInv == /\ \A v \in VM \ used : Unused(v)
             /\ \A v \in VM \ disturbed : Mirrors(v)

(* The entry op agrees with v's row. *)
Explains(op, v) ==
  /\ op = "delete" <=> row[v] = Nil
  /\ op \in {"start", "reboot"} => row[v].status = "running"
  /\ op \in {"create", "stop"}  => row[v].status = "stopped"

(* The newest entry does, or the one about to be written will. *)
Explained(v) ==
  /\ \A r \in On(v) : req[r].pc = "log" => Explains(req[r].op, v)
  /\ (\A r \in On(v) : req[r].pc # "log") /\ log[v] # Nil => Explains(log[v], v)

LogInv == \A v \in VM \ (disturbed \cup unlogged) : Explained(v)

-----------------------------------------------------------------------------
(* What the predicates depend on. *)

LEMMA Typed ==
  ASSUME TypeInv
  PROVE  /\ row \in [VM -> Row \cup {Nil}] /\ log \in [VM -> Op \cup {Nil}]
         /\ inst \in [Host -> [VM -> Instance \cup {Nil}]]
         /\ pending \subseteq Task /\ req \in [Req -> Request]
         /\ used \subseteq VM /\ disturbed \subseteq VM /\ unlogged \subseteq VM
BY DEF TypeInv, TypeOK, IncusTypeOK

(* A busy request works on a VM that was drawn. *)
LEMMA BusyVM ==
  ASSUME TypeInv, NEW r \in Req, Busy(r)
  PROVE  req[r].vm \in VM /\ req[r].vm \in used /\ req[r].op \in Op
BY DEF TypeInv, TypeOK, Prepared, Busy

(* No step has touched v, its requests or its log. *)
Untouched(v) ==
  /\ row'[v] = row[v] /\ log'[v] = log[v]
  /\ Tasks(v)' = Tasks(v) /\ \A h \in Host : inst'[h][v] = inst[h][v]
  /\ On(v)' = On(v) /\ \A r \in On(v) : req'[r] = req[r]

LEMMA SameHosts ==
  ASSUME NEW v \in VM, Tasks(v)' = Tasks(v), \A h \in Host : inst'[h][v] = inst[h][v]
  PROVE  /\ Blank(v)' <=> Blank(v)
         /\ Ending(v)' <=> Ending(v)
         /\ \A vm \in Row : /\ LeadsTo(v, vm)' <=> LeadsTo(v, vm)
                            /\ Halted(v, vm)' <=> Halted(v, vm)
<1>1. Blank(v)' <=> Blank(v)
  BY DEF Blank, NoInstance
<1>2. Ending(v)' <=> Ending(v)
  BY DEF Ending, NoInstance, OnlyOn
<1>3. ASSUME NEW vm \in Row
      PROVE  /\ LeadsTo(v, vm)' <=> LeadsTo(v, vm)
             /\ Halted(v, vm)' <=> Halted(v, vm)
  <2>1. vm.host \in Host
    BY DEF Row
  <2> QED
    BY <1>1, <2>1 DEF LeadsTo, Halted, OnlyOn
<1> QED
  BY <1>1, <1>2, <1>3

(* What an edit does to a row. *)
LEMMA EditedFields ==
  ASSUME NEW op \in Op \ {"create", "delete"}, NEW arg \in Args(op), NEW vm \in Row
  PROVE  LET new == Edited(op, arg, vm)
         IN /\ new \in Row
            /\ new.status = IF op \in Power THEN StatusAfter(op) ELSE vm.status
            /\ new.host = IF op = "migrate" THEN arg ELSE vm.host
            /\ new.set = IF op \in Setting THEN EditedSet(op, arg, vm.set) ELSE vm.set
<1>0. Edited(op, arg, vm) \in Row
  BY EditedType
<1>1. CASE op \in Setting
  BY <1>0, <1>1 DEF Edited, Row, Setting, Power
<1>2. CASE op = "assign"
  BY <1>0, <1>2 DEF Edited, Row, Setting, Power
<1>3. CASE op = "migrate"
  BY <1>0, <1>3 DEF Edited, Row, Setting, Power
<1>4. CASE op \in Power
  BY <1>0, <1>4 DEF Edited, Row, Setting, Power
<1> QED
  BY <1>1, <1>2, <1>3, <1>4 DEF Op

(* Rows that describe the same instance are led to together. *)
LEMMA SameLead ==
  ASSUME NEW v \in VM, NEW vm \in Row, NEW new \in Row, LeadsTo(v, vm), new.host = vm.host,
         \/ new.status = vm.status /\ new.set = vm.set
         \/ /\ vm.status # "error" /\ new.status # "error" /\ new.set = vm.set
            /\ new.status = "running" <=> vm.status = "running"
  PROVE  LeadsTo(v, new)
<1>1. Target(new) = Target(vm)
  BY DEF Target
<1> QED
  BY <1>1 DEF LeadsTo

(* What a place says of a VM that no step touches goes on to hold. *)
LEMMA PlaceStays ==
  ASSUME TypeInv, NEW v \in VM, NEW r \in Req, req[r].vm = v, Busy(r), Untouched(v),
         req'[r] = req[r], Place(v, req[r])
  PROVE  Place(v, req[r])'
<1>1. row'[v] = row[v] /\ log'[v] = log[v] /\ row[v] \in Row \cup {Nil} /\ Tasks(v)' = Tasks(v)
  BY Typed DEF Untouched
<1>2. /\ Blank(v)' <=> Blank(v)
      /\ Ending(v)' <=> Ending(v)
      /\ \A vm \in Row : /\ LeadsTo(v, vm)' <=> LeadsTo(v, vm)
                         /\ Halted(v, vm)' <=> Halted(v, vm)
  BY SameHosts DEF Untouched
<1>3. row[v] # Nil => /\ LeadsTo(v, row[v])' <=> LeadsTo(v, row[v])
                      /\ Halted(v, row[v])' <=> Halted(v, row[v])
  <2> DEFINE vm == row[v]
  <2>1. row'[v] = vm
    BY <1>1
  <2>2. row[v] # Nil => vm \in Row
    BY <1>1
  <2> QED
    BY <1>2, <2>1, <2>2 DEF LeadsTo, Halted
<1>4. ASSUME req[r].pc = "save"
      PROVE  LET new == Edited(req[r].op, req[r].arg, row[v])
             IN row[v] # Nil => (LeadsTo(v, new)' <=> LeadsTo(v, new))
  <2> SUFFICES ASSUME row[v] # Nil
               PROVE  LET new == Edited(req[r].op, req[r].arg, row[v])
                      IN LeadsTo(v, new)' <=> LeadsTo(v, new)
    OBVIOUS
  <2> DEFINE new == Edited(req[r].op, req[r].arg, row[v])
  <2>1. new \in Row
    BY <1>1, <1>4, EditedFields DEF TypeInv, Prepared, Editing
  <2>2. new' = new
    BY <1>1 DEF Edited
  <2> QED
    BY <1>2, <2>1, <2>2 DEF LeadsTo
<1>5. Reading(v, req[r])' <=> Reading(v, req[r])
  BY <1>1, <1>3 DEF Reading
<1>6. Final(v)' <=> Final(v)
  BY <1>1, <1>2, <1>3 DEF Final
<1>7. LET q == req[r]
      IN /\ (q.pc \in {"get", "put", "power", "halt"} => Reading(v, q))'
         /\ (q.pc = "save" => /\ row[v] # Nil /\ q.local = row[v] /\ row[v].status # "creating"
                              /\ \/ q.op = "migrate" /\ q.arg # row[v].host
                                 \/ LeadsTo(v, Edited(q.op, q.arg, row[v]))
                              /\ q.op \in Setting \cup Power => row[v].status # "error")'
         /\ (q.pc \in {"log", "reread"} => Final(v))'
  BY <1>1, <1>4, <1>5, <1>6 DEF Place
<1> QED
  BY <1>1, <1>2, <1>3, <1>7 DEF Place

LEMMA UntouchedStays ==
  ASSUME TypeInv, NEW v \in VM, Untouched(v)
  PROVE  /\ Mirrors(v) => Mirrors(v)'
         /\ Explained(v) => Explained(v)'
         /\ Unused(v) => Unused(v)'
<1>1. /\ row'[v] = row[v] /\ log'[v] = log[v] /\ On(v)' = On(v)
      /\ \A r \in On(v) : req'[r] = req[r] /\ r \in Req /\ req[r].vm = v /\ Busy(r)
  BY DEF Untouched, On
<1>2. Blank(v)' <=> Blank(v)
  BY SameHosts DEF Untouched
<1>3. Final(v)' <=> Final(v)
  <2>1. Ending(v)' <=> Ending(v)
    BY SameHosts DEF Untouched
  <2>2. row[v] # Nil => (LeadsTo(v, row[v])' <=> LeadsTo(v, row[v]))
    <3> DEFINE vm == row[v]
    <3>1. row[v] # Nil => vm \in Row
      BY Typed
    <3> QED
      BY <1>1, <3>1, SameHosts DEF Untouched, LeadsTo
  <2> QED
    BY <1>1, <2>1, <2>2 DEF Final
<1>4. ASSUME Mirrors(v)
      PROVE  Mirrors(v)'
  <2>1. \A r \in On(v) : Place(v, req[r])'
    BY <1>1, <1>4, PlaceStays DEF Mirrors
  <2> QED
    BY <1>1, <1>3, <1>4, <2>1 DEF Mirrors
<1>5. \A op : Explains(op, v)' <=> Explains(op, v)
  BY <1>1 DEF Explains
<1>6. ASSUME Explained(v)
      PROVE  Explained(v)'
  BY <1>1, <1>6 DEF Explained, Explains
<1> QED
  BY <1>1, <1>2, <1>4, <1>6 DEF Unused

(* A step that touches v only is a matter of v. *)
LEMMA StepOn ==
  ASSUME TypeInv, MirrorInv, LogInv, NEW v \in VM, \A w \in VM \ {v} : Untouched(w),
         v \in used', used \subseteq used', disturbed \subseteq disturbed',
         unlogged \subseteq unlogged',
         v \notin disturbed' => Mirrors(v)',
         v \notin disturbed' \cup unlogged' => Explained(v)'
  PROVE  MirrorInv' /\ LogInv'
<1>1. ASSUME NEW w \in VM, w \notin used'
      PROVE  Unused(w)'
  BY <1>1, UntouchedStays DEF MirrorInv
<1>2. ASSUME NEW w \in VM, w \notin disturbed'
      PROVE  Mirrors(w)'
  BY <1>2, UntouchedStays DEF MirrorInv
<1>3. ASSUME NEW w \in VM, w \notin disturbed' \cup unlogged'
      PROVE  Explained(w)'
  BY <1>3, UntouchedStays DEF LogInv
<1> QED
  BY <1>1, <1>2, <1>3 DEF MirrorInv, LogInv

(* A step that touches no VM it leaves in order. *)
LEMMA StepOnNone ==
  ASSUME TypeInv, MirrorInv, LogInv,
         \A w \in VM : w \notin disturbed' \/ w \notin used => Untouched(w),
         used' = used, disturbed \subseteq disturbed', unlogged \subseteq unlogged'
  PROVE  MirrorInv' /\ LogInv'
<1>1. ASSUME NEW w \in VM, w \notin used'
      PROVE  Unused(w)'
  BY <1>1, UntouchedStays DEF MirrorInv
<1>2. ASSUME NEW w \in VM, w \notin disturbed'
      PROVE  Mirrors(w)'
  BY <1>2, UntouchedStays DEF MirrorInv
<1>3. ASSUME NEW w \in VM, w \notin disturbed' \cup unlogged'
      PROVE  Explained(w)'
  BY <1>3, UntouchedStays DEF LogInv
<1> QED
  BY <1>1, <1>2, <1>3 DEF MirrorInv, LogInv

-----------------------------------------------------------------------------
(* The steps of a handler. *)

(* A call to a host adds at most its operation. *)
LEMMA AskTasks ==
  ASSUME NEW t, NEW a \in Answer, Ask(t, a), NEW w \in VM
  PROVE  /\ t.vm # w => Tasks(w)' = Tasks(w)
         /\ t.vm = w /\ a = "accepted" => Accepts(t) /\ Tasks(w)' = Tasks(w) \cup {t}
         /\ a \in {"notfound", "refused"} => Tasks(w)' = Tasks(w)
         /\ a = "notfound" => ~Present(t) /\ t.kind # "create"
<1>1. \/ UNCHANGED pending
      \/ pending' = pending \cup {t}
  BY DEF Ask
<1> QED
  BY <1>1 DEF Ask, Tasks

LEMMA Elsewhere ==
  ASSUME TypeInv, NEW r \in Req, Handle(r), NEW w \in VM, w # req[r].vm
  PROVE  Untouched(w)
<1>1. HandlerStep(r)
  BY HandleShape
<1>2. row'[w] = row[w] /\ Busy(r) /\ \A q \in Req \ {r} : req'[q] = req[q]
  BY <1>1 DEF HandlerStep
<1>3. Busy(r)' => req'[r].vm = req[r].vm
  BY <1>1 DEF HandlerStep, GoesOn, Busy
<1>4. On(w)' = On(w) /\ \A q \in On(w) : req'[q] = req[q]
  BY <1>2, <1>3 DEF On, Busy
<1>5. inst' = inst
  BY DEF Handle, Insert, Post, CreateFailed, CreateAccepted, Reread, Get, Put, PowerCall, Save,
         Halt, Destroy, Erase, LogOperation, incusVars
<1>6. log'[w] = log[w]
  <2>1. log' \in {log, [log EXCEPT ![req[r].vm] = req[r].op]}
    BY DEF Handle, Insert, Post, CreateFailed, CreateAccepted, Reread, Get, Put, PowerCall, Save,
           Halt, Destroy, Erase, LogOperation
  <2> QED
    BY <2>1, Typed
<1>7. Tasks(w)' = Tasks(w)
  <2>1. CASE pending' = pending
    BY <2>1 DEF Tasks
  <2>2. ASSUME NEW h, NEW kind, NEW s, NEW a \in Answer, Ask(Operation(h, req[r].vm, kind, s), a)
        PROVE  Tasks(w)' = Tasks(w)
    BY <2>2, AskTasks DEF Operation
  <2>3. CASE Post(r) \/ Put(r) \/ PowerCall(r) \/ Halt(r) \/ Destroy(r)
    BY <2>2, <2>3 DEF Post, Put, PowerCall, Halt, Destroy
  <2>4. CASE Insert(r) \/ CreateFailed(r) \/ CreateAccepted(r) \/ Reread(r) \/ Get(r) \/ Save(r)
             \/ Erase(r) \/ LogOperation(r)
    BY <2>1, <2>4 DEF Insert, CreateFailed, CreateAccepted, Reread, Get, Save, Erase,
                      LogOperation, incusVars
  <2> QED
    BY <2>3, <2>4 DEF Handle
<1> QED
  BY <1>2, <1>4, <1>5, <1>6, <1>7 DEF Untouched

(* The only handler on v ... *)
LEMMA OnlyHandler ==
  ASSUME TypeInv, MirrorInv, NEW r \in Req, Busy(r), req[r].vm \notin disturbed
  PROVE  On(req[r].vm) = {r} /\ Place(req[r].vm, req[r])
<1>1. req[r].vm \in VM /\ r \in On(req[r].vm)
  BY BusyVM DEF On
<1> QED
  BY <1>1 DEF MirrorInv, Mirrors

(* ... answers ... *)
LEMMA Answers ==
  ASSUME NEW v \in VM, NEW r \in Req, On(v) = {r}, ~Busy(r)',
         \A q \in Req \ {r} : req'[q] = req[q]
  PROVE  /\ Final(v)' => Mirrors(v)'
         /\ (log'[v] # Nil => Explains(log[v], v)') => Explained(v)'
<1>1. On(v)' = {}
  BY DEF On, Busy
<1> QED
  BY <1>1 DEF Mirrors, Explained

(* ... or goes on. *)
LEMMA Goes ==
  ASSUME NEW v \in VM, NEW r \in Req, On(v) = {r}, Busy(r)', req'[r].vm = v,
         \A q \in Req \ {r} : req'[q] = req[q]
  PROVE  /\ Place(v, req[r])' => Mirrors(v)'
         /\ req'[r].pc # "log" /\ (log'[v] # Nil => Explains(log[v], v)') => Explained(v)'
         /\ req'[r].pc = "log" /\ Explains(req[r].op, v)' => Explained(v)'
<1>1. On(v)' = {r}
  BY DEF On, Busy
<1> QED
  BY <1>1 DEF Mirrors, Explained

LEMMA GotoFields ==
  ASSUME TypeInv, NEW r \in Req, NEW pc \in Pc, Goto(r, pc)
  PROVE  /\ req'[r].pc = pc /\ req'[r].vm = req[r].vm /\ req'[r].op = req[r].op
         /\ req'[r].arg = req[r].arg /\ req'[r].local = req[r].local /\ req'[r].set = req[r].set
<1>1. req[r] \in Request /\ req' = [req EXCEPT ![r] = [req[r] EXCEPT !.pc = pc]]
  BY Typed DEF Goto
<1>2. req'[r] = [req[r] EXCEPT !.pc = pc]
  BY <1>1, Typed
<1> QED
  BY <1>1, <1>2 DEF Request

LEMMA GoOnFields ==
  ASSUME TypeInv, NEW r \in Req, NEW pc \in Pc, GoOn(r, pc)
  PROVE  req'[r].pc = pc /\ req'[r].vm = req[r].vm /\ req'[r].op = req[r].op
<1>1. req'[r] = [Idle EXCEPT !.op = req[r].op, !.vm = req[r].vm, !.pc = pc]
  BY Typed DEF GoOn
<1> QED
  BY <1>1 DEF Idle

LEMMA AnsweredFields ==
  ASSUME TypeInv, NEW r \in Req, NEW a, Answered(r, a)
  PROVE  ~Busy(r)'
<1>1. req'[r] = [Idle EXCEPT !.reply = a]
  BY Typed DEF Answered
<1> QED
  BY <1>1 DEF Idle, Busy

LEMMA FinalStays ==
  ASSUME TypeInv, NEW v \in VM, row'[v] = row[v], Tasks(v)' = Tasks(v),
         \A h \in Host : inst'[h][v] = inst[h][v]
  PROVE  Final(v)' <=> Final(v)
<1> DEFINE vm == row[v]
<1>1. row[v] # Nil => (LeadsTo(v, row[v])' <=> LeadsTo(v, row[v]))
  <2>1. row[v] # Nil => vm \in Row
    BY Typed
  <2> QED
    BY <2>1, SameHosts DEF LeadsTo
<1>2. Ending(v)' <=> Ending(v)
  BY SameHosts
<1> QED
  BY <1>1, <1>2 DEF Final

(* What has to be said of a step of r: its VM, unless disturbed, is again  *)
(* in order.                                                               *)
Kept(v) == /\ v \notin disturbed' => Mirrors(v)'
           /\ v \notin disturbed' \cup unlogged' => Explained(v)'

(* What is known before it. *)
Serves(r, v) ==
  /\ v \in VM /\ v = req[r].vm /\ On(v) = {r} /\ Busy(r) /\ Place(v, req[r]) /\ Prepared(req[r])
  /\ v \notin unlogged => Explained(v)
  /\ inst' = inst /\ \A q \in Req \ {r} : req'[q] = req[q]

LEMMA ServesHandler ==
  ASSUME TypeInv, MirrorInv, LogInv, NEW r \in Req, Handle(r), req[r].vm \notin disturbed
  PROVE  Serves(r, req[r].vm)
<1>1. HandlerStep(r)
  BY HandleShape
<1>2. Busy(r) /\ \A q \in Req \ {r} : req'[q] = req[q]
  BY <1>1 DEF HandlerStep
<1>3. inst' = inst
  BY DEF Handle, Insert, Post, CreateFailed, CreateAccepted, Reread, Get, Put, PowerCall, Save,
         Halt, Destroy, Erase, LogOperation, incusVars
<1> QED
  BY <1>2, <1>3, BusyVM, OnlyHandler DEF Serves, LogInv, TypeInv

(* A handler that returns and has changed nothing of a VM in order. *)
LEMMA LeavesAsIs ==
  ASSUME TypeInv, NEW r \in Req, NEW v, Serves(r, v), ~Busy(r)', Final(v), req[r].pc # "log",
         row' = row, log' = log, Tasks(v)' = Tasks(v), unlogged' = unlogged
  PROVE  Kept(v)
<1>1. v \in VM /\ On(v) = {r} /\ \A q \in Req \ {r} : req'[q] = req[q]
  BY DEF Serves
<1>2. Final(v)'
  BY <1>1, FinalStays DEF Serves
<1>3. Explained(v) => (log'[v] # Nil => Explains(log[v], v)')
  BY <1>1 DEF Explained, Explains
<1> QED
  BY <1>1, <1>2, <1>3, Answers DEF Kept, Serves

(* A handler that goes on, not to its log entry, and has written nothing. *)
LEMMA GoesOnWith ==
  ASSUME TypeInv, NEW r \in Req, NEW v, Serves(r, v), Busy(r)', req'[r].vm = v,
         Place(v, req[r])', req[r].pc # "log", req'[r].pc # "log",
         row' = row, log' = log, unlogged' = unlogged
  PROVE  Kept(v)
<1>1. v \in VM /\ On(v) = {r} /\ \A q \in Req \ {r} : req'[q] = req[q]
  BY DEF Serves
<1>2. Explained(v) => (log'[v] # Nil => Explains(log[v], v)')
  BY <1>1 DEF Explained, Explains
<1> QED
  BY <1>1, <1>2, Goes DEF Kept, Serves

(* The rows and instances of a place are what their types say. *)
LEMMA RowOf ==
  ASSUME TypeInv, NEW v \in VM, row[v] # Nil
  PROVE  /\ row[v] \in Row /\ row[v].host \in Host /\ row[v].set \in [Setting -> Val]
         /\ row[v].status \in Status
         /\ \A h \in Host : inst[h][v] \in Instance \cup {Nil}
         /\ Target(row[v]) # Nil /\ Target(row[v]) \in Instance
<1>1. row[v] \in Row
  BY Typed
<1>2. Target(row[v]) \in Instance
  BY <1>1 DEF Target, Instance, Row
<1> QED
  BY <1>1, <1>2, Typed, NilIsNothing DEF Row

(* Create. *)
LEMMA InsertKept ==
  ASSUME TypeInv, NEW r \in Req, NEW v, Serves(r, v), Insert(r)
  PROVE  Kept(v)
<1>0. v \in VM /\ v = req[r].vm /\ req[r].pc = "insert" /\ Place(v, req[r])
      /\ inst' = inst /\ pending' = pending /\ log' = log
  BY DEF Serves, Insert, incusVars
<1>1. CASE Disturb(v)
  BY <1>1 DEF Disturb, Kept
<1>2. CASE row' = SaveRow(v, req[r].local) /\ Goto(r, "post")
  <2>1. row'[v] = req[r].local
    BY <1>0, <1>2, Typed DEF SaveRow
  <2>2. req'[r].pc = "post" /\ req'[r].vm = v /\ req'[r].op = req[r].op
        /\ req'[r].local = req[r].local
    BY <1>0, <1>2, GotoFields DEF Pc
  <2>3. Blank(v)' /\ log'[v] = Nil
    BY <1>0, SameHosts DEF Place, Tasks
  <2>4. Place(v, req[r])'
    BY <1>0, <2>1, <2>2, <2>3 DEF Place
  <2> QED
    BY <2>2, <2>3, <2>4, Goes DEF Kept, Serves, Busy
<1> QED
  BY <1>0, <1>1, <1>2 DEF Insert

LEMMA PostKept ==
  ASSUME TypeInv, NEW r \in Req, NEW v, Serves(r, v), Post(r)
  PROVE  Kept(v)
<1>0. /\ v \in VM /\ v = req[r].vm /\ req[r].pc = "post" /\ Place(v, req[r])
      /\ inst' = inst /\ log' = log /\ row' = row /\ unlogged' = unlogged
      /\ req[r].local \in Row
  BY DEF Serves, Post, Prepared, Editing
<1>1. /\ row[v] = req[r].local /\ Blank(v) /\ log[v] = Nil /\ req[r].op = "create"
      /\ row[v].status = "creating" /\ row[v].set = Fresh /\ row[v] # Nil
  BY <1>0, NilIsNothing DEF Place
<1> DEFINE t == Operation(row[v].host, v, "create", Fresh)
<1>2. PICK a \in Answer : /\ Ask(t, a)
                          /\ GoOn(r, IF a = "accepted" THEN "settle" ELSE "fail")
                          /\ IF a = "lost" THEN Disturb(v) ELSE UNCHANGED disturbed
  BY <1>0, <1>1 DEF Post
<1>3. t \in Task /\ t.vm = v /\ t.kind = "create" /\ t.host = row[v].host /\ t.set = Fresh
  BY <1>0, <1>1, LifecycleAssumption, NilIsNothing
     DEF Operation, Task, Row, Fresh, LifecycleAssumption
<1> HIDE DEF t
<1>4. CASE a = "lost"
  BY <1>2, <1>4 DEF Kept, Disturb
<1>5. CASE a = "accepted"
  <2>1. req'[r].pc = "settle" /\ req'[r].vm = v /\ req'[r].op = "create"
    BY <1>0, <1>1, <1>2, <1>5, GoOnFields DEF Pc
  <2>2. Tasks(v)' = {t}
    BY <1>0, <1>1, <1>2, <1>3, <1>5, AskTasks DEF Blank
  <2>3. \A h \in Host : inst[h][v] = Nil
    BY <1>1 DEF Blank, NoInstance
  <2>4. row[v].host \in Host
    BY <1>0, <1>1, RowOf
  <2>5. Target(row[v]) = [set |-> Fresh, running |-> FALSE]
    BY <1>1 DEF Target
  <2>6. Brings(t, inst[row[v].host][v], Target(row[v]))
    BY <1>3, <2>3, <2>4, <2>5 DEF Brings
  <2>7. LeadsTo(v, row[v])'
    BY <1>0, <1>1, <1>3, <2>2, <2>3, <2>4, <2>6 DEF LeadsTo, OnlyOn, Brings, Target
  <2>8. Place(v, req[r])'
    BY <1>0, <1>1, <2>1, <2>7 DEF Place
  <2> QED
    BY <1>0, <2>1, <2>8, GoesOnWith DEF Busy
<1>6. CASE a \in {"notfound", "refused"}
  <2>1. req'[r].pc = "fail" /\ req'[r].vm = v /\ req'[r].op = "create"
    BY <1>0, <1>1, <1>2, <1>6, GoOnFields DEF Pc
  <2>2. Blank(v)'
    BY <1>0, <1>1, <1>2, <1>6, AskTasks, SameHosts
  <2>3. Place(v, req[r])'
    BY <1>0, <1>1, <2>1, <2>2 DEF Place
  <2> QED
    BY <1>0, <2>1, <2>3, GoesOnWith DEF Busy
<1> QED
  BY <1>4, <1>5, <1>6 DEF Answer

LEMMA CreateFailedKept ==
  ASSUME TypeInv, NEW r \in Req, NEW v, Serves(r, v), CreateFailed(r)
  PROVE  Kept(v)
<1>0. v \in VM /\ v = req[r].vm /\ req[r].pc = "fail" /\ Place(v, req[r])
      /\ inst' = inst /\ pending' = pending /\ log' = log /\ ~Busy(r)'
  BY AnsweredFields DEF Serves, CreateFailed, incusVars
<1>1. CASE Disturb(v)
  BY <1>1 DEF Disturb, Kept
<1>2. CASE row' = SetStatus(v, "error")
  <2>1. row[v] # Nil /\ Blank(v) /\ log[v] = Nil /\ row[v] \in Row
    BY <1>0, RowOf DEF Place
  <2>2. row'[v] = [row[v] EXCEPT !.status = "error"]
    BY <1>0, <1>2, <2>1, Typed DEF SetStatus
  <2>3. row'[v] \in Row /\ row'[v].status = "error"
    BY <2>1, <2>2 DEF Row, Status
  <2>4. Blank(v)'
    BY <1>0, <2>1, SameHosts DEF Tasks
  <2>5. Final(v)' /\ row'[v] # Nil
    BY <2>3, <2>4, NilIsNothing DEF Final, LeadsTo
  <2> QED
    BY <1>0, <2>1, <2>5, Answers DEF Kept, Serves
<1> QED
  BY <1>0, <1>1, <1>2 DEF CreateFailed

LEMMA CreateAcceptedKept ==
  ASSUME TypeInv, NEW r \in Req, NEW v, Serves(r, v), CreateAccepted(r)
  PROVE  Kept(v)
<1>0. v \in VM /\ v = req[r].vm /\ req[r].pc = "settle" /\ Place(v, req[r])
      /\ inst' = inst /\ pending' = pending /\ log' = log
  BY DEF Serves, CreateAccepted, incusVars
<1>1. CASE Disturb(v)
  BY <1>1 DEF Disturb, Kept
<1>2. CASE row' = SetStatus(v, "stopped") /\ Goto(r, "log")
  <2>1. /\ row[v] # Nil /\ LeadsTo(v, row[v]) /\ row[v].status = "creating"
        /\ row[v] \in Row /\ req[r].op = "create"
    BY <1>0, RowOf DEF Place
  <2>2. PICK new : new = [row[v] EXCEPT !.status = "stopped"] /\ row' = [row EXCEPT ![v] = new]
    BY <1>2, <2>1 DEF SetStatus
  <2>3. /\ row'[v] = new /\ new \in Row /\ new.status = "stopped"
        /\ new.host = row[v].host /\ new.set = row[v].set /\ new # Nil
    BY <1>0, <2>1, <2>2, Typed, NilIsNothing DEF Row, Status
  <2>4. LeadsTo(v, new)
    BY <1>0, <2>1, <2>3, SameLead
  <2>5. LeadsTo(v, new)'
    BY <1>0, <2>3, <2>4, SameHosts DEF Tasks
  <2>6. Final(v)'
    BY <2>3, <2>5 DEF Final, LeadsTo
  <2>7. req'[r].pc = "log" /\ req'[r].vm = v /\ req'[r].op = "create"
    BY <1>0, <1>2, <2>1, GotoFields DEF Pc
  <2>8. Place(v, req[r])' /\ Explains(req[r].op, v)'
    BY <2>3, <2>6, <2>7 DEF Place, Explains
  <2> QED
    BY <2>7, <2>8, Goes DEF Kept, Serves, Busy
<1> QED
  BY <1>0, <1>1, <1>2 DEF CreateAccepted

LEMMA RereadKept ==
  ASSUME TypeInv, NEW r \in Req, NEW v, Serves(r, v), Reread(r)
  PROVE  Kept(v)
<1>1. req[r].pc = "reread" /\ ~Busy(r)' /\ row' = row /\ log' = log /\ unlogged' = unlogged
      /\ Tasks(v)' = Tasks(v)
  BY AnsweredFields DEF Reread, Tasks, incusVars
<1>2. Final(v)
  BY <1>1 DEF Serves, Place
<1> QED
  BY <1>1, <1>2, LeavesAsIs

(* The operations on a VM that exists. *)

(* What a handler knows that has its rows and has not called the host. *)
LEMMA ReadingFacts ==
  ASSUME TypeInv, NEW v \in VM, NEW q, Reading(v, q)
  PROVE  /\ q.local = row[v] /\ row[v] # Nil /\ Tasks(v) = {} /\ Final(v)
         /\ row[v].status = "error" => \A h \in Host : inst[h][v] = Nil
         /\ row[v].status # "error" => /\ inst[row[v].host][v] = Target(row[v])
                                       /\ OnlyOn(row[v].host, v)
BY DEF Reading, Final, LeadsTo, Blank, NoInstance

LEMMA GetKept ==
  ASSUME TypeInv, NEW r \in Req, NEW v, Serves(r, v), Get(r)
  PROVE  Kept(v)
<1> DEFINE i == inst[req[r].local.host][v]
<1>0. /\ v \in VM /\ v = req[r].vm /\ req[r].pc = "get" /\ Reading(v, req[r]) /\ row' = row
      /\ log' = log /\ unlogged' = unlogged /\ inst' = inst /\ pending' = pending
      /\ req[r].op \in Setting
  BY DEF Serves, Get, Place, Prepared, incusVars
<1>1. Tasks(v)' = Tasks(v)
  BY <1>0 DEF Tasks
<1>2. CASE Answered(r, "failed")
  BY <1>0, <1>1, <1>2, AnsweredFields, ReadingFacts, LeavesAsIs
<1>3. CASE i # Nil /\ req' = [req EXCEPT ![r].pc = "put",
                                         ![r].set = EditedSet(req[r].op, req[r].arg, i.set)]
  <2>1. PICK x : /\ x = EditedSet(req[r].op, req[r].arg, i.set)
                 /\ req' = [req EXCEPT ![r].pc = "put", ![r].set = x]
    BY <1>3
  <2>2. req' = [req EXCEPT ![r] = [req[r] EXCEPT !.pc = "put", !.set = x]]
    BY <2>1, Typed
  <2>3. req'[r] = [req[r] EXCEPT !.pc = "put", !.set = x] /\ req[r] \in Request
    BY <2>2, Typed
  <2>4. /\ req'[r].pc = "put" /\ req'[r].vm = v /\ req'[r].op = req[r].op
        /\ req'[r].arg = req[r].arg /\ req'[r].local = req[r].local /\ req'[r].set = x
    BY <1>0, <2>3 DEF Request
  <2>5. row[v].status # "error" /\ i.set = row[v].set
    <3>1. /\ req[r].local = row[v] /\ row[v] # Nil
          /\ row[v].status = "error" => \A h \in Host : inst[h][v] = Nil
          /\ row[v].status # "error" => inst[row[v].host][v] = Target(row[v])
      BY <1>0, ReadingFacts
    <3>2. row[v].host \in Host
      BY <1>0, <3>1, RowOf
    <3> QED
      BY <1>3, <3>1, <3>2 DEF Target
  <2>6. Reading(v, req[r])'
    <3>1. LeadsTo(v, row[v])'
      <4>1. row[v] \in Row /\ LeadsTo(v, row[v])
        BY <1>0, RowOf DEF Reading
      <4> QED
        BY <1>0, <1>1, <4>1, SameHosts DEF LeadsTo
    <3> QED
      BY <1>0, <1>1, <2>4, <3>1 DEF Reading
  <2>7. Place(v, req[r])'
    BY <1>0, <2>1, <2>4, <2>5, <2>6 DEF Place, EditedSet
  <2> QED
    BY <1>0, <2>4, <2>7, GoesOnWith DEF Busy
<1> QED
  BY <1>0, <1>2, <1>3 DEF Get

LEMMA PutKept ==
  ASSUME TypeInv, NEW r \in Req, NEW v, Serves(r, v), Put(r)
  PROVE  Kept(v)
<1>0. /\ v \in VM /\ v = req[r].vm /\ req[r].pc = "put" /\ Reading(v, req[r]) /\ row' = row
      /\ log' = log /\ unlogged' = unlogged /\ inst' = inst
      /\ req[r].op \in Setting /\ req[r].set \in [Setting -> Val] /\ row[v].status # "error"
      /\ req[r].set = EditedSet(req[r].op, req[r].arg, row[v].set)
      /\ req[r].arg \in Args(req[r].op)
  BY DEF Serves, Put, Place, Prepared, Editing
<1>1. /\ req[r].local = row[v] /\ row[v] # Nil /\ Tasks(v) = {} /\ Final(v)
      /\ inst[row[v].host][v] = Target(row[v]) /\ OnlyOn(row[v].host, v)
  BY <1>0, ReadingFacts
<1> DEFINE t == Operation(row[v].host, v, "update", req[r].set)
<1>2. PICK a \in Answer : /\ Ask(t, a)
                          /\ IF a = "accepted" THEN Goto(r, "save") ELSE Answered(r, "failed")
                          /\ IF a = "lost" THEN Disturb(v) ELSE UNCHANGED disturbed
  BY <1>0, <1>1 DEF Put
<1>3. /\ t \in Task /\ t.vm = v /\ t.kind = "update" /\ t.host = row[v].host
      /\ t.set = req[r].set
  BY <1>0, <1>1, RowOf, NilIsNothing DEF Operation, Task
<1> HIDE DEF t
<1>4. CASE a = "lost"
  BY <1>2, <1>4 DEF Kept, Disturb
<1>5. CASE a = "accepted"
  <2>1. /\ req'[r].pc = "save" /\ req'[r].vm = v /\ req'[r].op = req[r].op
        /\ req'[r].arg = req[r].arg /\ req'[r].local = row[v]
    BY <1>0, <1>1, <1>2, <1>5, GotoFields DEF Pc
  <2>2. Tasks(v)' = {t}
    BY <1>0, <1>1, <1>2, <1>3, <1>5, AskTasks
  <2>3. PICK new : new = Edited(req[r].op, req[r].arg, row[v])
    OBVIOUS
  <2>4. /\ new \in Row /\ new.status = row[v].status /\ new.host = row[v].host
        /\ new.set = req[r].set
    BY <1>0, <1>1, <2>3, RowOf, EditedFields DEF Op, Setting, Power
  <2>5. inst[row[v].host][v] # Nil /\ inst[row[v].host][v].running = (row[v].status = "running")
    BY <1>0, <1>1, RowOf DEF Target
  <2>6. Brings(t, inst[row[v].host][v], Target(new))
    BY <1>3, <2>4, <2>5 DEF Brings, Target
  <2>7. LeadsTo(v, new)'
    BY <1>0, <1>1, <1>3, <2>2, <2>4, <2>6, RowOf DEF LeadsTo, OnlyOn, Brings, Target
  <2>8. row[v].status # "creating"
    BY <1>0 DEF Reading
  <2>9. Place(v, req[r])'
    BY <1>0, <1>1, <2>1, <2>3, <2>7, <2>8 DEF Place, LeadsTo, Edited
  <2> QED
    BY <1>0, <2>1, <2>9, GoesOnWith DEF Busy
<1>6. CASE a \in {"notfound", "refused"}
  BY <1>0, <1>1, <1>2, <1>6, AskTasks, AnsweredFields, LeavesAsIs
<1> QED
  BY <1>4, <1>5, <1>6 DEF Answer

LEMMA PowerKept ==
  ASSUME TypeInv, NEW r \in Req, NEW v, Serves(r, v), PowerCall(r)
  PROVE  Kept(v)
<1>0. /\ v \in VM /\ v = req[r].vm /\ req[r].pc = "power" /\ Reading(v, req[r]) /\ row' = row
      /\ log' = log /\ unlogged' = unlogged /\ inst' = inst
      /\ req[r].op \in Power /\ req[r].arg \in Args(req[r].op)
  BY DEF Serves, PowerCall, Place, Prepared, Editing
<1>1. req[r].local = row[v] /\ row[v] # Nil /\ Tasks(v) = {} /\ Final(v)
  BY <1>0, ReadingFacts
<1> DEFINE kind == IF req[r].op = "reboot" THEN "restart" ELSE req[r].op
           t    == Operation(row[v].host, v, kind, Nil)
<1>2. PICK a \in Answer : /\ Ask(t, a)
                          /\ IF a = "accepted" THEN Goto(r, "save") ELSE Answered(r, "failed")
                          /\ IF a = "lost" THEN Disturb(v) ELSE UNCHANGED disturbed
  BY <1>0, <1>1 DEF PowerCall
<1>3. /\ t \in Task /\ t.vm = v /\ t.kind = kind /\ t.host = row[v].host
      /\ t.kind \in {"start", "stop", "restart"}
  BY <1>0, <1>1, RowOf DEF Operation, Task, Power
<1> HIDE DEF t
<1>4. CASE a = "lost"
  BY <1>2, <1>4 DEF Kept, Disturb
<1>5. CASE a = "accepted"
  <2>1. /\ req'[r].pc = "save" /\ req'[r].vm = v /\ req'[r].op = req[r].op
        /\ req'[r].arg = req[r].arg /\ req'[r].local = row[v]
    BY <1>0, <1>1, <1>2, <1>5, GotoFields DEF Pc
  <2>2. Tasks(v)' = {t} /\ Accepts(t)
    BY <1>0, <1>1, <1>2, <1>3, <1>5, AskTasks
  <2>3. inst[row[v].host][v] # Nil
    BY <1>3, <2>2 DEF Accepts, Present
  <2>4. /\ row[v].status # "error" /\ inst[row[v].host][v] = Target(row[v])
        /\ OnlyOn(row[v].host, v)
    BY <1>0, <1>1, <2>3, RowOf, ReadingFacts
  <2>5. PICK new : new = Edited(req[r].op, req[r].arg, row[v])
    OBVIOUS
  <2>6. /\ new \in Row /\ new.status = StatusAfter(req[r].op) /\ new.host = row[v].host
        /\ new.set = row[v].set
    BY <1>0, <1>1, <2>5, RowOf, EditedFields DEF Op, Setting, Power
  <2>7. Target(new) = [set |-> row[v].set, running |-> req[r].op # "stop"]
    BY <1>0, <2>6 DEF Target, StatusAfter, Power
  <2>8. inst[row[v].host][v].set = row[v].set
    BY <2>4 DEF Target
  <2>9. Brings(t, inst[row[v].host][v], Target(new))
    BY <1>0, <1>3, <2>3, <2>7, <2>8 DEF Brings, Power
  <2>10. new.status # "error" /\ row[v].status # "creating"
    BY <1>0, <2>6 DEF StatusAfter, Reading
  <2>11. LeadsTo(v, new)'
    BY <1>0, <1>1, <1>3, <2>2, <2>4, <2>6, <2>9, <2>10, RowOf DEF LeadsTo, OnlyOn, Brings, Target
  <2>12. Place(v, req[r])'
    BY <1>0, <1>1, <2>1, <2>4, <2>5, <2>10, <2>11 DEF Place, LeadsTo, Edited
  <2> QED
    BY <1>0, <2>1, <2>12, GoesOnWith DEF Busy
<1>6. CASE a \in {"notfound", "refused"}
  BY <1>0, <1>1, <1>2, <1>6, AskTasks, AnsweredFields, LeavesAsIs
<1> QED
  BY <1>4, <1>5, <1>6 DEF Answer

LEMMA SaveKept ==
  ASSUME TypeInv, NEW r \in Req, NEW v, Serves(r, v), Save(r)
  PROVE  Kept(v)
<1>0. /\ v \in VM /\ v = req[r].vm /\ req[r].pc = "save" /\ Place(v, req[r])
      /\ inst' = inst /\ pending' = pending /\ log' = log
      /\ req[r].op \in Op \ {"create", "delete"} /\ req[r].arg \in Args(req[r].op)
  BY DEF Serves, Save, Prepared, Editing, incusVars
<1>1. row[v] # Nil /\ req[r].local = row[v] /\ row[v].status # "creating" /\ row[v] \in Row
  BY <1>0, RowOf DEF Place
<1>2. PICK new : new = Edited(req[r].op, req[r].arg, row[v])
  OBVIOUS
<1>3. CASE Disturb(v)
  BY <1>3 DEF Disturb, Kept
<1>4. CASE /\ row' = SaveRow(v, new) /\ GoOn(r, "log")
           /\ ~(req[r].op = "migrate" /\ req[r].arg # row[v].host)
  <2>1. new \in Row /\ new # Nil
        /\ new.status = IF req[r].op \in Power THEN StatusAfter(req[r].op) ELSE row[v].status
    BY <1>0, <1>1, <1>2, EditedFields, NilIsNothing
  <2>2. row'[v] = new
    BY <1>0, <1>4, Typed DEF SaveRow
  <2>3. LeadsTo(v, new)
    BY <1>0, <1>2, <1>4 DEF Place
  <2>4. LeadsTo(v, new)'
    BY <1>0, <2>1, <2>3, SameHosts DEF Tasks
  <2>5. new.status # "creating"
    BY <1>1, <2>1 DEF StatusAfter
  <2>6. Final(v)'
    BY <2>1, <2>2, <2>4, <2>5 DEF Final, LeadsTo
  <2>7. req'[r].pc = "log" /\ req'[r].vm = v /\ req'[r].op = req[r].op
    BY <1>0, <1>4, GoOnFields DEF Pc
  <2>8. Place(v, req[r])'
    BY <2>6, <2>7 DEF Place
  <2>9. Explains(req[r].op, v)'
    BY <1>0, <2>1, <2>2, <2>7 DEF Explains, StatusAfter, Power
  <2> QED
    BY <2>7, <2>8, <2>9, Goes DEF Kept, Serves, Busy
<1> QED
  BY <1>0, <1>1, <1>2, <1>3, <1>4 DEF Save

(* Delete. *)
LEMMA HaltKept ==
  ASSUME TypeInv, NEW r \in Req, NEW v, Serves(r, v), Halt(r)
  PROVE  Kept(v)
<1>0. /\ v \in VM /\ v = req[r].vm /\ req[r].pc = "halt" /\ Reading(v, req[r]) /\ row' = row
      /\ log' = log /\ unlogged' = unlogged /\ inst' = inst /\ req[r].op = "delete"
  BY DEF Serves, Halt, Place
<1>1. /\ req[r].local = row[v] /\ row[v] # Nil /\ Tasks(v) = {} /\ row[v].status # "creating"
      /\ row[v].status = "error" => \A h \in Host : inst[h][v] = Nil
      /\ row[v].status # "error" => /\ inst[row[v].host][v] = Target(row[v])
                                    /\ OnlyOn(row[v].host, v)
  BY <1>0, ReadingFacts DEF Reading
<1> DEFINE t == Operation(row[v].host, v, "stop", Nil)
<1>2. PICK a \in Answer : /\ Ask(t, a)
                          /\ IF a = "lost" THEN Disturb(v) ELSE UNCHANGED disturbed
  BY <1>0, <1>1 DEF Halt
<1>3. t.vm = v /\ t.kind = "stop" /\ t.host = row[v].host
  BY DEF Operation
<1> HIDE DEF t
<1>4. CASE a = "lost"
  BY <1>2, <1>4 DEF Kept, Disturb
<1>5. CASE a # "lost"
  <2>1. req'[r].pc = "destroy" /\ req'[r].vm = v /\ req'[r].op = "delete" /\ req'[r].local = row[v]
    BY <1>0, <1>1, GotoFields DEF Pc, Halt
  <2>2. \/ Tasks(v)' = {}
        \/ Tasks(v)' = {t} /\ Accepts(t)
    BY <1>0, <1>1, <1>2, <1>3, <1>5, AskTasks DEF Answer
  <2>3. row[v].host \in Host /\ Target(row[v]) # Nil
    BY <1>0, <1>1, RowOf
  <2>4. Accepts(t) => inst[row[v].host][v] # Nil
    BY <1>3 DEF Accepts, Present
  <2>5. Halted(v, row[v])'
    <3>1. CASE row[v].status = "error"
      <4>1. Blank(v)'
        BY <1>0, <1>1, <2>2, <2>3, <2>4, <3>1 DEF Blank, NoInstance
      <4> QED
        BY <1>0, <3>1, <4>1 DEF Halted
    <3>2. CASE row[v].status # "error"
      BY <1>0, <1>1, <1>3, <2>2, <2>3, <3>2 DEF Halted, OnlyOn
    <3> QED
      BY <3>1, <3>2
  <2>6. Place(v, req[r])'
    BY <1>0, <1>1, <2>1, <2>5 DEF Place
  <2> QED
    BY <1>0, <2>1, <2>6, GoesOnWith DEF Busy
<1> QED
  BY <1>4, <1>5

LEMMA DestroyKept ==
  ASSUME TypeInv, NEW r \in Req, NEW v, Serves(r, v), Destroy(r)
  PROVE  Kept(v)
<1>0. /\ v \in VM /\ v = req[r].vm /\ req[r].pc = "destroy" /\ row' = row
      /\ log' = log /\ unlogged' = unlogged /\ inst' = inst /\ req[r].op = "delete"
      /\ row[v] # Nil /\ req[r].local = row[v] /\ Halted(v, row[v]) /\ row[v].status # "creating"
  BY DEF Serves, Destroy, Place
<1> DEFINE t == Operation(row[v].host, v, "destroy", Nil)
<1>1. PICK a \in Answer :
        /\ Ask(t, a)
        /\ IF MayErase(a, row[v].status) THEN GoOn(r, "erase") ELSE Answered(r, "failed")
        /\ IF a \in {"refused", "lost"} THEN Disturb(v) ELSE UNCHANGED disturbed
  BY <1>0 DEF Destroy
<1>2. t.vm = v /\ t.kind = "destroy" /\ t.host = row[v].host /\ row[v].host \in Host
  BY <1>0, RowOf DEF Operation
<1> HIDE DEF t
<1>3. CASE a \in {"refused", "lost"}
  BY <1>1, <1>3 DEF Kept, Disturb
<1>4. CASE a \in {"accepted", "notfound"}
  <2>1. req'[r].pc = "erase" /\ req'[r].vm = v /\ req'[r].op = "delete"
    BY <1>0, <1>1, <1>4, GoOnFields DEF Pc, MayErase
  <2>2. CASE a = "accepted"
    <3>1. Tasks(v)' = Tasks(v) \cup {t} /\ inst[row[v].host][v] # Nil
          /\ ~inst[row[v].host][v].running
      BY <1>0, <1>1, <1>2, <2>2, AskTasks DEF Accepts, Present, Running
    <3>2. row[v].status # "error"
      BY <1>0, <1>2, <3>1 DEF Halted, Blank, NoInstance
    <3>3. /\ OnlyOn(row[v].host, v)
          /\ \A u \in Tasks(v) : u.host = row[v].host /\ u.kind = "stop"
      BY <1>0, <3>2 DEF Halted
    <3>4. Ending(v)'
      BY <1>0, <1>2, <3>1, <3>3 DEF Ending, OnlyOn
    <3>5. Place(v, req[r])'
      BY <1>0, <2>1, <3>4 DEF Place
    <3> QED
      BY <1>0, <2>1, <3>5, GoesOnWith DEF Busy
  <2>3. CASE a = "notfound"
    <3>1. Tasks(v)' = Tasks(v) /\ inst[row[v].host][v] = Nil
      BY <1>0, <1>1, <1>2, <2>3, AskTasks DEF Present
    <3>2. Blank(v)
      BY <1>0, <3>1 DEF Halted
    <3>3. Blank(v)'
      BY <1>0, <3>1, <3>2, SameHosts
    <3>4. Ending(v)'
      BY <3>3 DEF Ending, Blank
    <3>5. Place(v, req[r])'
      BY <1>0, <2>1, <3>4 DEF Place
    <3> QED
      BY <1>0, <2>1, <3>5, GoesOnWith DEF Busy
  <2> QED
    BY <1>4, <2>2, <2>3
<1> QED
  BY <1>3, <1>4 DEF Answer

LEMMA EraseKept ==
  ASSUME TypeInv, NEW r \in Req, NEW v, Serves(r, v), Erase(r)
  PROVE  Kept(v)
<1>0. /\ v \in VM /\ v = req[r].vm /\ req[r].pc = "erase" /\ Ending(v) /\ req[r].op = "delete"
      /\ inst' = inst /\ pending' = pending /\ log' = log
  BY DEF Serves, Erase, Place, incusVars
<1>1. CASE Disturb(v)
  BY <1>1 DEF Disturb, Kept
<1>2. CASE row' = [row EXCEPT ![v] = Nil] /\ GoOn(r, "log")
  <2>1. row'[v] = Nil
    BY <1>0, <1>2, Typed
  <2>2. Ending(v)'
    BY <1>0, SameHosts DEF Tasks
  <2>3. Final(v)'
    BY <2>1, <2>2 DEF Final
  <2>4. req'[r].pc = "log" /\ req'[r].vm = v /\ req'[r].op = "delete"
    BY <1>0, <1>2, GoOnFields DEF Pc
  <2>5. Place(v, req[r])' /\ Explains(req[r].op, v)'
    BY <2>1, <2>3, <2>4 DEF Place, Explains
  <2> QED
    BY <2>4, <2>5, Goes DEF Kept, Serves, Busy
<1> QED
  BY <1>0, <1>1, <1>2 DEF Erase

(* The last write of every handler. *)
LEMMA LogKept ==
  ASSUME TypeInv, NEW r \in Req, NEW v, Serves(r, v), LogOperation(r)
  PROVE  Kept(v)
<1>0. /\ v \in VM /\ v = req[r].vm /\ req[r].pc = "log" /\ Final(v) /\ row' = row
      /\ inst' = inst /\ pending' = pending
      /\ v \notin unlogged => Explains(req[r].op, v)
  BY DEF Serves, LogOperation, Place, Explained, incusVars
<1>1. Final(v)'
  BY <1>0, FinalStays DEF Tasks
<1>2. CASE unlogged' = unlogged \cup {v} /\ Answered(r, "failed")
  BY <1>1, <1>2, AnsweredFields, Answers DEF Kept, Serves
<1>3. CASE /\ log' = [log EXCEPT ![v] = req[r].op] /\ unlogged' = unlogged
           /\ IF req[r].op = "create" THEN Goto(r, "reread") ELSE Answered(r, "ok")
  <2>1. log'[v] = req[r].op
    BY <1>0, <1>3, Typed
  <2>2. v \notin unlogged => Explains(log[v], v)'
    BY <1>0, <2>1 DEF Explains
  <2>3. CASE req[r].op = "create" /\ Goto(r, "reread")
    <3>1. req'[r].pc = "reread" /\ req'[r].vm = v /\ req'[r].op = "create"
      BY <1>0, <2>3, GotoFields DEF Pc
    <3>2. Place(v, req[r])'
      BY <1>1, <3>1 DEF Place
    <3> QED
      BY <1>3, <2>2, <3>1, <3>2, Goes DEF Kept, Serves, Busy
  <2>4. CASE Answered(r, "ok")
    BY <1>1, <1>3, <2>2, <2>4, AnsweredFields, Answers DEF Kept, Serves
  <2> QED
    BY <1>3, <2>3, <2>4
<1> QED
  BY <1>0, <1>2, <1>3 DEF LogOperation

LEMMA HandleMirror ==
  ASSUME TypeInv, MirrorInv, LogInv, NEW r \in Req, Handle(r)
  PROVE  MirrorInv' /\ LogInv'
<1>1. Busy(r) /\ used' = used
  BY HandleShape DEF HandlerStep
<1>2. PICK v \in VM : v = req[r].vm /\ v \in used
  BY <1>1, BusyVM
<1>3. disturbed \subseteq disturbed' /\ unlogged \subseteq unlogged'
  BY DEF Handle, Insert, Post, CreateFailed, CreateAccepted, Reread, Get, Put, PowerCall, Save,
         Halt, Destroy, Erase, LogOperation, Disturb
<1>4. \A w \in VM \ {v} : Untouched(w)
  BY <1>2, Elsewhere
<1>5. Kept(v)
  <2>1. CASE v \in disturbed
    BY <1>3, <2>1 DEF Kept
  <2>2. CASE v \notin disturbed
    <3>1. Serves(r, v)
      BY <1>2, <2>2, ServesHandler
    <3> QED
      BY <3>1, InsertKept, PostKept, CreateFailedKept, CreateAcceptedKept, RereadKept, GetKept,
         PutKept, PowerKept, SaveKept, HaltKept, DestroyKept, EraseKept, LogKept DEF Handle
  <2> QED
    BY <2>1, <2>2
<1> QED
  BY <1>1, <1>2, <1>3, <1>4, <1>5, StepOn DEF Kept

-----------------------------------------------------------------------------
(* Requests that begin. *)

LEMMA BeginCreateMirror ==
  ASSUME TypeInv, MirrorInv, LogInv, NEW r \in Req, BeginCreate(r)
  PROVE  MirrorInv' /\ LogInv'
<1>1. PICK v \in VM \ used, h \in hosts, u \in User \cup {Nil},
           p \in Candidates :
        /\ req' = [req EXCEPT ![r] =
             [Idle EXCEPT !.op = "create", !.vm = v, !.pc = "insert",
                !.local = [host |-> h, owner |-> u, set |-> Fresh, port |-> p,
                           status |-> "creating"]]]
        /\ used' = used \cup {v}
  BY DEF BeginCreate
<1>2. /\ req'[r].op = "create" /\ req'[r].vm = v /\ req'[r].pc = "insert"
      /\ req'[r].local.status = "creating" /\ req'[r].local.set = Fresh
      /\ \A q \in Req \ {r} : req'[q] = req[q]
  BY <1>1, Typed DEF Idle
<1>3. /\ UNCHANGED <<inst, pending, row, log, disturbed, unlogged>> /\ ~Busy(r)
  BY DEF BeginCreate, Arrives, incusVars
<1>4. On(v) = {}
  BY <1>1, BusyVM DEF On
<1>5. On(v)' = {r}
  BY <1>2, <1>4 DEF On, Busy
<1>6. ASSUME NEW w \in VM \ {v}
      PROVE  Untouched(w)
  <2>1. On(w)' = On(w) /\ r \notin On(w)
    BY <1>2, <1>3 DEF On, Busy
  <2> QED
    BY <1>2, <1>3, <2>1 DEF Untouched, Tasks, On
<1>7. Blank(v) /\ log[v] = Nil /\ row[v] = Nil
  BY <1>1 DEF MirrorInv, Unused, TypeInv, RowsUsed
<1>8. Blank(v)'
  BY <1>3, <1>7, SameHosts DEF Tasks
<1>9. Place(v, req[r])'
  BY <1>2, <1>3, <1>7, <1>8 DEF Place
<1>10. Mirrors(v)'
  BY <1>5, <1>9 DEF Mirrors
<1>11. Explained(v)'
  BY <1>2, <1>3, <1>5, <1>7 DEF Explained
<1> QED
  BY <1>1, <1>3, <1>6, <1>10, <1>11, StepOn

LEMMA BeginMirror ==
  ASSUME TypeInv, MirrorInv, LogInv, NEW r \in Req, Begin(r)
  PROVE  MirrorInv' /\ LogInv'
<1>1. PICK op \in Ops \ {"create"}, v \in VM : \E arg \in Args(op), actor \in Callers(op) :
        /\ Admits(actor, op, arg, v)
        /\ req' = [req EXCEPT ![r] =
             [Idle EXCEPT !.op = op, !.vm = v, !.arg = arg, !.local = row[v],
                !.pc = IF HostKnown(op, arg, v) THEN FirstCall(op) ELSE "erase"]]
        /\ alone' = IF On(v) = {} THEN alone \cup {r} ELSE alone \ On(v)
        /\ disturbed' = IF Quiet(v) THEN disturbed ELSE disturbed \cup {v}
  BY DEF Begin
<1>2. PICK arg \in Args(op), actor \in Callers(op) :
        /\ Admits(actor, op, arg, v)
        /\ req' = [req EXCEPT ![r] =
             [Idle EXCEPT !.op = op, !.vm = v, !.arg = arg, !.local = row[v],
                !.pc = IF HostKnown(op, arg, v) THEN FirstCall(op) ELSE "erase"]]
  BY <1>1
<1>3. row[v] # Nil /\ v \in used /\ row[v] \in Row
  BY <1>2, RowOf DEF Admits, Found, TypeInv, RowsUsed
<1>4. /\ req'[r].op = op /\ req'[r].vm = v /\ req'[r].arg = arg /\ req'[r].local = row[v]
      /\ req'[r].pc = IF HostKnown(op, arg, v) THEN FirstCall(op) ELSE "erase"
      /\ \A q \in Req \ {r} : req'[q] = req[q]
  BY <1>2, Typed DEF Idle
<1>5. /\ UNCHANGED <<inst, pending, row, log, used, unlogged>> /\ ~Busy(r)
      /\ disturbed \subseteq disturbed'
  BY <1>1 DEF Begin, Arrives, incusVars
<1>6. ASSUME NEW w \in VM \ {v}
      PROVE  Untouched(w)
  <2>1. On(w)' = On(w) /\ r \notin On(w)
    BY <1>4, <1>5 DEF On, Busy
  <2> QED
    BY <1>4, <1>5, <2>1 DEF Untouched, Tasks, On
<1>7. ASSUME v \notin disturbed'
      PROVE  Mirrors(v)' /\ (v \notin unlogged => Explained(v)')
  <2>1. Quiet(v) /\ v \notin disturbed
    BY <1>1, <1>5, <1>7
  <2>2. On(v) = {} /\ Tasks(v) = {}
    BY <2>1 DEF Quiet, Tasks
  <2>3. row[v].status # "creating" /\ LeadsTo(v, row[v])
    BY <1>3, <2>1, <2>2 DEF MirrorInv, Mirrors, Final
  <2>4. op \in Op \ {"create"}
    BY LifecycleAssumption DEF LifecycleAssumption
  <2>5. req'[r].pc \in {"get", "power", "halt", "save", "erase"}
    BY <1>4 DEF FirstCall
  <2>6. On(v)' = {r}
    BY <1>4, <2>2, <2>5 DEF On, Busy
  <2>7. LeadsTo(v, row[v])' /\ Tasks(v)' = {}
    <3>1. Tasks(v)' = Tasks(v) /\ \A h \in Host : inst'[h][v] = inst[h][v]
      BY <1>5 DEF Tasks
    <3> QED
      BY <1>3, <1>5, <2>2, <2>3, <3>1, SameHosts DEF LeadsTo
  <2>8. Reading(v, req[r])'
    BY <1>3, <1>4, <1>5, <2>3, <2>7 DEF Reading
  <2>9. req'[r].pc \in {"halt", "erase"} => op = "delete"
    BY <1>2, <1>4 DEF FirstCall, Admits, ErrorRecord
  <2>10. ASSUME req'[r].pc = "erase"
         PROVE  Ending(v)'
    <3>1. row[v].status = "error"
      BY <1>2, <1>4, <2>10 DEF FirstCall, Admits, ErrorRecord
    <3>2. Blank(v)'
      BY <1>5, <2>7, <3>1 DEF LeadsTo
    <3> QED
      BY <3>2 DEF Blank, Ending
  <2>11. ASSUME req'[r].pc = "save", ~(op = "migrate" /\ arg # row[v].host)
         PROVE  LeadsTo(v, Edited(op, arg, row[v]))'
    <3>1. op \in {"assign", "migrate"}
      BY <1>4, <2>4, <2>11 DEF FirstCall, Op
    <3>2. PICK new : new = Edited(op, arg, row[v])
      OBVIOUS
    <3>3. /\ new \in Row /\ new.status = row[v].status /\ new.host = row[v].host
          /\ new.set = row[v].set
      BY <1>3, <2>4, <2>11, <3>1, <3>2, EditedFields DEF Setting, Power
    <3>4. LeadsTo(v, new)
      BY <1>3, <2>3, <3>3, SameLead
    <3>5. LeadsTo(v, new)'
      BY <1>5, <3>3, <3>4, SameHosts DEF Tasks
    <3> QED
      BY <1>5, <3>2, <3>5 DEF LeadsTo, Edited
  <2>12. Place(v, req[r])'
    <3>1. req'[r].pc = "save" =>
            \/ op = "migrate" /\ arg # row'[v].host
            \/ LeadsTo(v, Edited(req[r].op, req[r].arg, row[v]))'
      BY <1>4, <1>5, <2>11 DEF LeadsTo, Edited
    <3>2. req'[r].pc = "save" => req'[r].op \notin Setting \cup Power
      BY <1>4 DEF FirstCall, Setting, Power
    <3> QED
      BY <1>3, <1>4, <1>5, <2>3, <2>5, <2>8, <2>9, <2>10, <3>1, <3>2 DEF Place
  <2>13. Mirrors(v)'
    BY <2>6, <2>12 DEF Mirrors
  <2>14. v \notin unlogged => Explained(v)'
    BY <1>5, <2>1, <2>2, <2>5, <2>6 DEF LogInv, Explained, Explains
  <2> QED
    BY <2>13, <2>14
<1> QED
  BY <1>3, <1>5, <1>6, <1>7, StepOn

-----------------------------------------------------------------------------
(* The daemons. *)

(* A step of the daemon towards what v is to be. *)
Advances(v) ==
  /\ Tasks(v) # {}
  /\ Ending(v) => Ending(v)'
  /\ \A vm \in Row : /\ LeadsTo(v, vm) => LeadsTo(v, vm)'
                     /\ Halted(v, vm) => Halted(v, vm)'

(* While nothing else changes, every place goes on to hold. *)
LEMMA AdvancesKeep ==
  ASSUME TypeInv, NEW v \in VM, Advances(v), UNCHANGED <<row, log, req>>
  PROVE  /\ Mirrors(v) => Mirrors(v)'
         /\ Explained(v) => Explained(v)'
<1>1. On(v)' = On(v)
  BY DEF On, Busy
<1>2. row[v] # Nil => /\ LeadsTo(v, row[v]) => LeadsTo(v, row[v])'
                      /\ Halted(v, row[v]) => Halted(v, row[v])'
  <2> DEFINE vm == row[v]
  <2>1. row[v] # Nil => vm \in Row
    BY Typed
  <2> QED
    BY <2>1 DEF Advances, LeadsTo, Halted
<1>3. Final(v) => Final(v)'
  BY <1>2 DEF Final, Advances
<1>4. ASSUME NEW r \in On(v), Place(v, req[r])
      PROVE  Place(v, req[r])'
  <2>1. req[r].pc \notin {"insert", "post", "fail", "get", "put", "power", "halt"}
    BY <1>4 DEF Place, Reading, Blank, Advances
  <2>2. ASSUME req[r].pc = "save", LeadsTo(v, Edited(req[r].op, req[r].arg, row[v])),
               row[v] # Nil
        PROVE  LeadsTo(v, Edited(req[r].op, req[r].arg, row[v]))'
    <3>1. PICK new : new = Edited(req[r].op, req[r].arg, row[v])
      OBVIOUS
    <3>2. new \in Row
      BY <2>2, <3>1, RowOf, EditedFields DEF TypeInv, Prepared, Editing, On
    <3>3. LeadsTo(v, new) /\ LeadsTo(v, new)'
      BY <2>2, <3>1, <3>2 DEF Advances
    <3> QED
      BY <3>1, <3>3 DEF LeadsTo, Edited
  <2> QED
    BY <1>2, <1>3, <1>4, <2>1, <2>2 DEF Place, Advances
<1>5. Mirrors(v) => Mirrors(v)'
  BY <1>1, <1>3, <1>4 DEF Mirrors
<1>6. Explained(v) => Explained(v)'
  BY <1>1 DEF Explained, Explains
<1> QED
  BY <1>5, <1>6

(* Running an operation advances its VM. *)
LEMMA RunAdvances ==
  ASSUME TypeInv, NEW t \in pending, RunOperation(t)
  PROVE  Advances(t.vm)
<1>1. /\ t \in Task /\ t.host \in Host /\ t.vm \in VM
      /\ t.kind \in {"create", "update", "start", "stop", "restart", "destroy"}
  BY Typed DEF Task
<1> DEFINE i == inst[t.host][t.vm]
<1>2. PICK v \in VM : v = t.vm
  BY <1>1
<1>3. /\ t \in Tasks(v) /\ Tasks(v)' = Tasks(v) \ {t}
      /\ inst'[t.host][v] = Result(t)
      /\ \A h \in Host \ {t.host} : inst'[h][v] = inst[h][v]
      /\ Possible(t) /\ i \in Instance \cup {Nil}
  BY <1>1, <1>2, Typed DEF RunOperation, Tasks
<1>4. /\ t.kind = "create" => i = Nil /\ Result(t) = [set |-> t.set, running |-> FALSE]
      /\ t.kind = "update" => i # Nil /\ Result(t) = [set |-> t.set, running |-> i.running]
      /\ t.kind = "start" => i # Nil /\ ~i.running /\ Result(t) = [set |-> i.set, running |-> TRUE]
      /\ t.kind = "restart" => i # Nil /\ Result(t) = [set |-> i.set, running |-> TRUE]
      /\ t.kind = "stop" => i # Nil /\ i.running /\ Result(t) = [set |-> i.set, running |-> FALSE]
      /\ t.kind = "destroy" => i # Nil /\ ~i.running /\ Result(t) = Nil
  BY <1>1, <1>3 DEF Possible, Result, Present, Running, Instance
<1>5. ASSUME NEW vm \in Row, LeadsTo(v, vm)
      PROVE  LeadsTo(v, vm)'
  <2>1. vm.status # "error" /\ OnlyOn(vm.host, v)
    BY <1>3, <1>5 DEF LeadsTo, Blank
  <2>2. Tasks(v) = {t} /\ t.host = vm.host /\ Brings(t, inst[vm.host][v], Target(vm))
    BY <1>3, <1>5, <2>1 DEF LeadsTo
  <2>3. i = inst[vm.host][v]
    BY <1>2, <2>2
  <2>4. PICK goal : goal = Target(vm)
    OBVIOUS
  <2>5. Brings(t, i, goal)
    BY <2>2, <2>3, <2>4
  <2> HIDE DEF i
  <2>6. Result(t) = goal
    <3>1. CASE t.kind = "create"
      BY <1>4, <2>5, <3>1 DEF Brings
    <3>2. CASE t.kind = "update"
      BY <1>4, <2>5, <3>2 DEF Brings
    <3>3. CASE t.kind = "stop"
      BY <1>4, <2>5, <3>3 DEF Brings
    <3>4. CASE t.kind = "start"
      BY <1>4, <2>5, <3>4 DEF Brings
    <3>5. CASE t.kind = "restart"
      BY <1>4, <2>5, <3>5 DEF Brings
    <3>6. t.kind # "destroy"
      BY <2>5 DEF Brings
    <3> QED
      BY <1>1, <3>1, <3>2, <3>3, <3>4, <3>5, <3>6
  <2>7. Result(t) = Target(vm)
    BY <2>4, <2>6
  <2> QED
    BY <1>3, <2>1, <2>2, <2>7 DEF LeadsTo, OnlyOn, Target
<1>6. ASSUME NEW vm \in Row, Halted(v, vm)
      PROVE  Halted(v, vm)'
  <2>1. vm.status # "error" /\ OnlyOn(vm.host, v) /\ t.kind = "stop" /\ t.host = vm.host
        /\ \A u \in Tasks(v) : u.host = vm.host /\ u.kind = "stop"
    BY <1>3, <1>6 DEF Halted, Blank
  <2>2. Result(t) # Nil
    <3>1. Result(t) = [set |-> i.set, running |-> FALSE] /\ i \in Instance
      BY <1>3, <1>4, <2>1
    <3>2. Result(t) \in Instance
      BY <3>1 DEF Instance
    <3> QED
      BY <3>2, NilIsNothing
  <2> QED
    BY <1>3, <2>1, <2>2 DEF Halted, OnlyOn
<1>7. ASSUME Ending(v)
      PROVE  Ending(v)'
  <2>1. t.kind \in {"stop", "destroy"} /\ \A u \in Tasks(v) : u.kind \in {"stop", "destroy"}
    BY <1>3, <1>7 DEF Ending
  <2>2. i # Nil
    BY <1>4, <2>1
  <2>3. PICK h \in Host : OnlyOn(h, v) /\ ~inst[h][v].running /\ \A u \in Tasks(v) : u.host = h
    BY <1>1, <1>2, <1>7, <2>2 DEF Ending, NoInstance
  <2>4. t.host = h /\ t.kind = "destroy"
    BY <1>2, <1>3, <1>4, <2>1, <2>3
  <2>5. NoInstance(v)'
    BY <1>3, <1>4, <2>3, <2>4 DEF NoInstance, OnlyOn
  <2> QED
    BY <1>3, <2>1, <2>5 DEF Ending
<1>8. Advances(v)
  BY <1>3, <1>5, <1>6, <1>7 DEF Advances
<1> QED
  BY <1>2, <1>8

(* So does its failure, when that does no harm. *)
LEMMA FailAdvances ==
  ASSUME TypeInv, NEW t \in pending, FailOperation(t), Harmless(t)
  PROVE  Advances(t.vm)
<1>1. /\ t \in Task /\ t.host \in Host /\ t.vm \in VM
      /\ t.kind \in {"create", "update", "start", "stop", "restart", "destroy"}
  BY Typed DEF Task
<1> DEFINE i == inst[t.host][t.vm]
<1>2. PICK v \in VM : v = t.vm
  BY <1>1
<1>3. /\ t \in Tasks(v) /\ Tasks(v)' = Tasks(v) \ {t} /\ inst' = inst
      /\ i \in Instance \cup {Nil}
  BY <1>1, <1>2, Typed DEF FailOperation, Tasks
<1>4. /\ t.kind \in {"start", "stop", "destroy"}
      /\ t.kind = "start" => i # Nil /\ i.running
      /\ t.kind = "stop" => i = Nil \/ ~i.running
      /\ t.kind = "destroy" => i = Nil
  BY <1>1 DEF Harmless, Present, Running
<1>5. ASSUME NEW vm \in Row, LeadsTo(v, vm)
      PROVE  LeadsTo(v, vm)'
  <2>1. vm.status # "error" /\ OnlyOn(vm.host, v)
    BY <1>3, <1>5 DEF LeadsTo, Blank
  <2>2. Tasks(v) = {t} /\ t.host = vm.host /\ Brings(t, inst[vm.host][v], Target(vm))
    BY <1>3, <1>5, <2>1 DEF LeadsTo
  <2>3. i \in Instance /\ i = Target(vm)
    BY <1>2, <1>3, <1>4, <2>2 DEF Brings, Instance
  <2> QED
    BY <1>2, <1>3, <2>1, <2>2, <2>3 DEF LeadsTo, OnlyOn, Target
<1>6. ASSUME NEW vm \in Row, Halted(v, vm)
      PROVE  Halted(v, vm)'
  BY <1>3, <1>6 DEF Halted, Blank, OnlyOn
<1>7. ASSUME Ending(v)
      PROVE  Ending(v)'
  <2>1. CASE NoInstance(v)
    BY <1>3, <1>7, <2>1 DEF Ending, NoInstance
  <2>2. CASE ~NoInstance(v)
    <3>1. PICK h \in Host : /\ OnlyOn(h, v) /\ inst[h][v] # Nil /\ ~inst[h][v].running
                            /\ \A u \in Tasks(v) : u.host = h
                            /\ \E u \in Tasks(v) : u.kind = "destroy"
      BY <1>7, <2>2 DEF Ending
    <3>2. t.kind # "destroy"
      BY <1>2, <1>3, <1>4, <3>1
    <3> QED
      BY <1>3, <1>7, <3>1, <3>2 DEF Ending, OnlyOn
  <2> QED
    BY <2>1, <2>2
<1>8. Advances(v)
  BY <1>3, <1>5, <1>6, <1>7 DEF Advances
<1> QED
  BY <1>2, <1>8

LEMMA DaemonMirror ==
  ASSUME TypeInv, MirrorInv, LogInv, RunOp \/ FailOp
  PROVE  MirrorInv' /\ LogInv'
<1>0. UNCHANGED <<row, log, req, used, unlogged>> /\ disturbed \subseteq disturbed'
  BY DEF RunOp, FailOp, auxVars, Disturb
<1>1. PICK t \in pending :
        /\ pending' = pending \ {t} /\ \A v \in VM \ {t.vm} : \A h \in Host : inst'[h][v] = inst[h][v]
        /\ t.vm \in disturbed' \/ Advances(t.vm)
  <2>1. CASE RunOp
    <3>1. PICK t \in pending : RunOperation(t)
      BY <2>1 DEF RunOp
    <3>2. t.host \in Host /\ t.vm \in VM
      BY Typed DEF Task
    <3>3. \A v \in VM \ {t.vm} : \A h \in Host : inst'[h][v] = inst[h][v]
      BY <3>1, <3>2, Typed DEF RunOperation
    <3> QED
      BY <3>1, <3>3, RunAdvances DEF RunOperation
  <2>2. CASE FailOp
    <3>1. PICK t \in pending : /\ FailOperation(t)
                               /\ IF Harmless(t) THEN UNCHANGED disturbed ELSE Disturb(t.vm)
      BY <2>2 DEF FailOp
    <3> QED
      BY <3>1, FailAdvances DEF FailOperation, Disturb
  <2> QED
    BY <2>1, <2>2
<1>2. PICK v \in VM : v = t.vm
  BY Typed DEF Task
<1>3. ASSUME NEW w \in VM \ {v}
      PROVE  Untouched(w)
  <2>1. Tasks(w)' = Tasks(w)
    BY <1>1, <1>2 DEF Tasks
  <2>2. On(w)' = On(w)
    BY <1>0 DEF On, Busy
  <2> QED
    BY <1>0, <1>1, <1>2, <2>1, <2>2 DEF Untouched
<1>4. v \in used
  BY <1>2 DEF MirrorInv, Unused, Blank, Tasks
<1>5. v \notin disturbed' => Mirrors(v)' /\ (v \notin unlogged => Explained(v)')
  BY <1>0, <1>1, <1>2, AdvancesKeep DEF MirrorInv, LogInv
<1> QED
  BY <1>0, <1>3, <1>4, <1>5, StepOn

-----------------------------------------------------------------------------
(* The invariant. *)

LEMMA StepMirror == TypeInv /\ MirrorInv /\ LogInv /\ [Next]_vars => MirrorInv' /\ LogInv'
<1> SUFFICES ASSUME TypeInv, MirrorInv, LogInv, [Next]_vars
             PROVE  MirrorInv' /\ LogInv'
  OBVIOUS
<1>1. ASSUME NEW r \in Req, BeginCreate(r) \/ Begin(r) \/ Handle(r)
      PROVE  MirrorInv' /\ LogInv'
  BY <1>1, BeginCreateMirror, BeginMirror, HandleMirror
<1>2. ASSUME NEW r \in Req, RefuseCreate(r) \/ Refuse(r)
      PROVE  MirrorInv' /\ LogInv'
  <2>1. /\ req'[r].pc = "idle" /\ (\A q \in Req \ {r} : req'[q] = req[q]) /\ ~Busy(r)
        /\ UNCHANGED <<inst, pending, row, log, used, disturbed, unlogged>>
    <3>1. CASE RefuseCreate(r)
      BY <3>1, Typed DEF RefuseCreate, Idle, auxVars, incusVars
    <3>2. CASE Refuse(r)
      BY <3>2, Typed DEF Refuse, Idle, auxVars, incusVars
    <3> QED
      BY <1>2, <3>1, <3>2
  <2>2. ASSUME NEW w \in VM
        PROVE  Untouched(w)
    <3>1. On(w)' = On(w) /\ r \notin On(w)
      BY <2>1 DEF On, Busy
    <3> QED
      BY <2>1, <3>1 DEF Untouched, Tasks, On
  <2> QED
    BY <2>1, <2>2, StepOnNone
<1>3. CASE RunOp \/ FailOp
  BY <1>3, DaemonMirror
<1>4. CASE Crash
  <2>1. /\ req' = [r \in Req |-> Idle] /\ UNCHANGED <<inst, pending, row, log, used>>
        /\ disturbed' = disturbed \cup {req[r].vm : r \in {q \in Req : Busy(q)}}
        /\ unlogged \subseteq unlogged'
    BY <1>4 DEF Crash, incusVars
  <2>2. ASSUME NEW w \in VM, w \notin disturbed' \/ w \notin used
        PROVE  Untouched(w)
    <3>1. On(w) = {}
      BY <2>1, <2>2, BusyVM DEF On
    <3>2. On(w)' = {}
      BY <2>1 DEF On, Busy, Idle
    <3> QED
      BY <2>1, <3>1, <3>2 DEF Untouched, Tasks
  <2> QED
    BY <2>1, <2>2, StepOnNone
<1>5. CASE Unregister \/ UNCHANGED vars
  <2>1. UNCHANGED <<inst, pending, row, log, req, used, disturbed, unlogged>>
    BY <1>5 DEF Unregister, vars, auxVars, incusVars
  <2>2. ASSUME NEW w \in VM
        PROVE  Untouched(w)
    BY <2>1 DEF Untouched, Tasks, On, Busy
  <2> QED
    BY <2>1, <2>2, StepOnNone
<1> QED
  BY <1>1, <1>2, <1>3, <1>4, <1>5 DEF Next

LEMMA InitMirror == Init => MirrorInv /\ LogInv
<1> SUFFICES ASSUME Init
             PROVE  MirrorInv /\ LogInv
  OBVIOUS
<1>1. PICK h \in Host, up \in BOOLEAN,
           p \in [Existing -> RemotePortStart .. (RemotePortStart + Cardinality(Existing) - 1)] :
        /\ row = [v \in VM |->
             IF v \in Existing
             THEN [host |-> h, owner |-> Nil, set |-> Fresh, port |-> p[v],
                   status |-> IF up THEN "running" ELSE "stopped"]
             ELSE Nil]
        /\ inst = [g \in Host |-> [v \in VM |->
             IF g = h /\ v \in Existing THEN [set |-> Fresh, running |-> up] ELSE Nil]]
  BY DEF Init
<1>2. /\ pending = {} /\ used = Existing /\ \A v \in VM : log[v] = Nil
      /\ \A v \in VM : On(v) = {} /\ Tasks(v) = {}
  BY DEF Init, On, Busy, Idle, Tasks
<1>3. ASSUME NEW v \in VM, v \notin Existing
      PROVE  Blank(v) /\ row[v] = Nil
  BY <1>1, <1>2, <1>3 DEF Blank, NoInstance
<1>4. ASSUME NEW v \in VM
      PROVE  Final(v)
  <2>1. CASE v \notin Existing
    BY <1>3, <2>1 DEF Final, Ending, Blank
  <2>2. CASE v \in Existing
    <3>1. /\ row[v] = [host |-> h, owner |-> Nil, set |-> Fresh, port |-> p[v],
                       status |-> IF up THEN "running" ELSE "stopped"]
          /\ inst[h][v] = [set |-> Fresh, running |-> up]
          /\ OnlyOn(h, v)
      BY <1>1, <2>2 DEF OnlyOn
    <3>2. /\ row[v].host = h /\ row[v].status # "error" /\ row[v].status # "creating"
          /\ row[v].set = Fresh /\ up = (row[v].status = "running")
      BY <3>1
    <3>3. LeadsTo(v, row[v])
      BY <1>2, <3>1, <3>2 DEF LeadsTo, Target
    <3>4. row[v] # Nil
      <4>1. Fresh \in [Setting -> Val] /\ p[v] \in Nat
        BY <2>2, LifecycleAssumption DEF Fresh
      <4>2. row[v] \in Row
        BY <3>1, <4>1 DEF Row, Status
      <4> QED
        BY <4>2, NilIsNothing
    <3> QED
      BY <3>2, <3>3, <3>4 DEF Final
  <2> QED
    BY <2>1, <2>2
<1> QED
  BY <1>2, <1>3, <1>4 DEF MirrorInv, Mirrors, Unused, LogInv, Explained

(* What VMService's handlers know of the row, the hosts and the log at each *)
(* of their places is true in every run, for the undisturbed VMs.           *)
THEOREM Invariance == Spec => [](TypeInv /\ MirrorInv /\ LogInv)
<1>1. Init => TypeInv /\ MirrorInv /\ LogInv
  BY InitTypeInv, InitMirror
<1>2. TypeInv /\ MirrorInv /\ LogInv /\ [Next]_vars => TypeInv' /\ MirrorInv' /\ LogInv'
  BY StepTypeInv, StepMirror
<1> QED
  BY <1>1, <1>2, PTL DEF Spec

(* Although no handler waits for an operation it starts, the table gives   *)
(* the settings and the power state of the hosts whenever nothing is in    *)
(* progress on a VM that nothing has disturbed.                            *)
THEOREM TableMirrorsAlways == Spec => []TableMirrorsHosts
<1>1. TypeInv /\ MirrorInv => TableMirrorsHosts
  <2> SUFFICES ASSUME MirrorInv, NEW v \in VM \ disturbed, Quiet(v)
               PROVE  IF row[v] = Nil \/ row[v].status = "error"
                      THEN \A h \in Host : inst[h][v] = Nil
                      ELSE /\ row[v].status # "creating"
                           /\ inst[row[v].host][v] =
                                [set |-> row[v].set, running |-> row[v].status = "running"]
                           /\ \A h \in Host \ {row[v].host} : inst[h][v] = Nil
    BY DEF TableMirrorsHosts
  <2>1. Tasks(v) = {} /\ Final(v)
    BY DEF Quiet, Tasks, MirrorInv, Mirrors
  <2>2. CASE row[v] = Nil
    BY <2>1, <2>2 DEF Final, Ending, NoInstance
  <2>3. CASE row[v] # Nil /\ row[v].status = "error"
    BY <2>1, <2>3 DEF Final, LeadsTo, Blank, NoInstance
  <2>4. CASE row[v] # Nil /\ row[v].status # "error"
    BY <2>1, <2>4 DEF Final, LeadsTo, OnlyOn, Target
  <2> QED
    BY <2>2, <2>3, <2>4
<1> QED
  BY <1>1, Invariance, PTL

(* logOperation comes after everything else a handler does: the newest     *)
(* entry of a VM is true of its row when nothing is in progress.           *)
THEOREM LogExplainsAlways == Spec => []LogExplainsTable
<1>1. LogInv => LogExplainsTable
  BY DEF LogInv, Explained, Explains, LogExplainsTable, Quiet
<1> QED
  BY <1>1, Invariance, PTL

(* The half of CreatingEnds that needs no fairness: a row says "creating"  *)
(* only while its create is between the INSERT and the UPDATE of its       *)
(* status, unless something has disturbed the VM.  No edit, no power       *)
(* action and no late write of a stale struct ever puts it back.           *)
CreatingIsServed ==
  \A v \in VM \ disturbed : row[v] # Nil /\ row[v].status = "creating" =>
    \E r \in On(v) : req[r].op = "create" /\ req[r].pc \in {"post", "settle", "fail"}

(* VMService.Create's row says "creating" no longer than Create runs.      *)
THEOREM CreatingIsServedAlways == Spec => []CreatingIsServed
<1>1. TypeInv /\ MirrorInv => CreatingIsServed
  <2> SUFFICES ASSUME TypeInv, MirrorInv, NEW v \in VM \ disturbed,
                      row[v] # Nil, row[v].status = "creating"
               PROVE  \E r \in On(v) :
                        req[r].op = "create" /\ req[r].pc \in {"post", "settle", "fail"}
    BY DEF CreatingIsServed
  <2>1. ~Final(v) /\ Mirrors(v)
    BY DEF Final, MirrorInv
  <2>2. PICK r \in On(v) : Place(v, req[r])
    BY <2>1 DEF Mirrors
  <2>3. req[r].pc \in Pc \ {"idle"}
    BY DEF On, Busy, TypeInv, TypeOK, Request
  <2> QED
    BY <2>1, <2>2, <2>3 DEF Place, Reading, Pc
<1> QED
  BY <1>1, Invariance, PTL
=============================================================================
