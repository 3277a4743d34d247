----------------------------- MODULE VMLifecycle -----------------------------
(***************************************************************************)
(* The virtual machines of the backend: VMService                          *)
(* (internal/service/vm_service.go) over the instances table, the Incus    *)
(* daemons and the operation log.                                          *)
(*                                                                         *)
(* Gin serves each HTTP request in a goroutine of its own and no lock is   *)
(* taken around a handler, so requests interleave at every database and    *)
(* Incus call.  A request reads the whole row into a Go struct, talks to   *)
(* the host, and writes the whole struct back (gorm Save), so what it      *)
(* writes may be stale.  Reads of the instance row and of its host row are *)
(* one step: as long as a host row only disappears, every outcome of the   *)
(* two reads is one of the joint read, taken at the first when both        *)
(* succeed and at the second when the host is missing.  (A deleted host's  *)
(* row comes back only from the Save of a HostService.Update that overlaps *)
(* the deletion.  HostRegistry has that Save; it is left out here.)        *)
(***************************************************************************)
EXTENDS IncusHost

CONSTANTS Req,             \* goroutines serving requests
          User, Admin,     \* who calls: the users, and any administrator
          InitialVal,      \* the settings a VM is created with
          RemotePortStart, \* provision.RemotePortStart, 30900 by default
          FRPSConfigured,  \* FRPS_SERVER_ADDR and FRPS_TOKEN are set
          Existing,        \* VMs in the table when the server starts
          Ops,             \* the operations a run exercises
          MaxBacklog       \* bound: no request comes in while as many operations
                           \* are pending on the hosts

Power == {"start", "stop", "reboot"}
Op    == Setting \cup Power \cup {"create", "delete", "assign", "migrate"}

Status == {"creating", "stopped", "running", "error"}

Row == [host : Host, owner : User \cup {Nil}, set : [Setting -> Val],
        port : Nat, status : Status]

ASSUME LifecycleAssumption ==
  /\ Ops \subseteq Op
  /\ Existing \subseteq VM /\ IsFiniteSet(Existing)
  /\ InitialVal \in Val
  /\ RemotePortStart \in Nat /\ MaxBacklog \in Nat
  /\ FRPSConfigured \in BOOLEAN
  /\ Admin \notin User
  /\ Nil \notin Row \cup Instance \cup Host \cup User \cup Val \cup [Setting -> Val]

VARIABLES
  row,      \* the instances table: row[v] is v's row, or Nil
  hosts,    \* the hosts table
  log,      \* the newest operation_logs action of each VM, or Nil
  req,      \* the requests being served
  used,     \* uuids a create has drawn
  \* Auxiliary variables: they record the past and guard no action.
  chosen,   \* the port a VM's create chose (0 before)
  seen,     \* the rows in the table when a VM's create chose its port
  alone,    \* requests whose VM no other request has worked on meanwhile
  disturbed,\* VMs that met an overlap, a failure, a crash or a migration
  unlogged  \* VMs some change of which was not written to the log

incusVars == <<inst, pending>>
auxVars   == <<chosen, seen, alone, disturbed, unlogged>>
vars      == <<incusVars, row, hosts, log, req, used, auxVars>>

Pc == {"idle", "insert", "post", "settle", "fail", "get", "put", "power", "save",
       "halt", "destroy", "erase", "log", "reread"}

Reply == {"none", "ok", "failed", "notfound"}

Request == [op : Op \cup {Nil}, vm : VM \cup {Nil}, pc : Pc,
            arg : Val \cup User \cup Host \cup {Nil},
            local : Row \cup {Nil},              \* the Go struct vm
            set : [Setting -> Val] \cup {Nil},   \* what GET returned, edited
            reply : Reply]

Idle == [op |-> Nil, vm |-> Nil, pc |-> "idle", arg |-> Nil, local |-> Nil,
         set |-> Nil, reply |-> "none"]

Fresh == [c \in Setting |-> InitialVal]

Init ==
  /\ \E h \in Host, up \in BOOLEAN,
        p \in [Existing -> RemotePortStart .. (RemotePortStart + Cardinality(Existing) - 1)] :
       /\ \A v, w \in Existing : p[v] = p[w] => v = w
       /\ row = [v \in VM |->
            IF v \in Existing
            THEN [host |-> h, owner |-> Nil, set |-> Fresh, port |-> p[v],
                  status |-> IF up THEN "running" ELSE "stopped"]
            ELSE Nil]
       /\ inst = [g \in Host |-> [v \in VM |->
            IF g = h /\ v \in Existing THEN [set |-> Fresh, running |-> up] ELSE Nil]]
       /\ chosen = [v \in VM |-> IF v \in Existing THEN p[v] ELSE 0]
  /\ pending = {}
  /\ hosts = Host
  /\ log = [v \in VM |-> Nil]
  /\ req = [r \in Req |-> Idle]
  /\ used = Existing
  /\ seen = [v \in VM |-> {}]
  /\ alone = {}
  /\ disturbed = {}
  /\ unlogged = {}

-----------------------------------------------------------------------------
(* Operators the handlers are built from. *)

Busy(r)     == req[r].pc # "idle"
Arrives(r)  == ~Busy(r) /\ Cardinality(pending) < MaxBacklog
On(v)       == {r \in Req : Busy(r) /\ req[r].vm = v}
InTable     == {v \in VM : row[v] # Nil}
Quiet(v)    == On(v) = {} /\ \A t \in pending : t.vm # v

(* GetByID and GetByIDForOwner: does the caller find the row? *)
Found(actor, v) == row[v] # Nil /\ (actor = Admin \/ row[v].owner = actor)

(* Mutation of NextPort: the lowest port no row has. *)
NextPortFirstFree(p) ==
  /\ \A v \in InTable : p # row[v].port
  /\ \A q \in RemotePortStart .. (p - 1) : \E v \in InTable : q = row[v].port

(* Mutation of Candidates: every VM takes a second port. *)
CandidatesInPairs == {RemotePortStart} \cup {row[v].port + 2 : v \in InTable}

Candidates == {RemotePortStart} \cup {row[v].port + 1 : v \in InTable}

(* nextSSHRemotePort: RemotePortStart while no row reaches it, else MAX+1. *)
NextPort(p) ==
  /\ p >= RemotePortStart
  /\ \A v \in InTable : p > row[v].port

(* Mutation of EditedSet: a limit left empty is stored empty. *)
EditedSetEmpty(op, arg, s) == [s EXCEPT ![op] = arg]

(* A limit left empty in the request keeps its value. *)
EditedSet(op, arg, s) == IF arg = Nil THEN s ELSE [s EXCEPT ![op] = arg]

(* Mutations of StatusAfter: the action's own name; "running" whatever it   *)
(* is; a reboot that leaves "stopped".                                      *)
StatusAfterIsName(op) == op
StatusAfterRuns(op) == "running"
StatusAfterRebootStops(op) == IF op = "start" THEN "running" ELSE "stopped"

(* The status applyAction gives the struct, whatever the host makes of it. *)
StatusAfter(op) == IF op = "stop" THEN "stopped" ELSE "running"

(* Mutation of Edited: a setting sent to the host and not saved. *)
EditedForgetsSetting(op, arg, vm) ==
  CASE op \in Setting -> vm
    [] op = "assign"  -> [vm EXCEPT !.owner = arg]
    [] op = "migrate" -> [vm EXCEPT !.host = arg]
    [] OTHER          -> [vm EXCEPT !.status = StatusAfter(op)]

(* The struct a handler saves, from the one it read. *)
Edited(op, arg, vm) ==
  CASE op \in Setting -> [vm EXCEPT !.set = EditedSet(op, arg, vm.set)]
    [] op = "assign"  -> [vm EXCEPT !.owner = arg]
    [] op = "migrate" -> [vm EXCEPT !.host = arg]
    [] OTHER          -> [vm EXCEPT !.status = StatusAfter(op)]

(* Mutation of FirstCall: a deletion that forgets the host. *)
FirstCallNoHost(op) == CASE op \in Setting -> "get"
                         [] op \in Power   -> "power"
                         [] op = "delete"  -> "erase"
                         [] OTHER          -> "save"

(* Where a request goes once it has its rows. *)
FirstCall(op) == CASE op \in Setting -> "get"
                   [] op \in Power   -> "power"
                   [] op = "delete"  -> "halt"
                   [] OTHER          -> "save"

(* gorm's Save: UPDATE of every column, and INSERT when no row was there. *)
SaveRow(v, vm) == [row EXCEPT ![v] = vm]

(* Mutations of SetStatus: written with Save, which inserts a missing row;  *)
(* the failure of a create not recorded.                                    *)
SetStatusBySave(v, s) ==
  [row EXCEPT ![v] = IF @ # Nil THEN [@ EXCEPT !.status = s]
                     ELSE [host |-> CHOOSE h \in Host : TRUE, owner |-> Nil, set |-> Fresh,
                           port |-> chosen[v], status |-> s]]

SetStatusNoError(v, s) ==
  IF row[v] = Nil \/ s = "error" THEN row ELSE [row EXCEPT ![v].status = s]

(* UPDATE instances SET status = s WHERE id = v: nothing when v is gone. *)
SetStatus(v, s) == IF row[v] = Nil THEN row ELSE [row EXCEPT ![v].status = s]

(* A statement that fails may still have been committed. *)
MaybeWritten(table) == "dbfail" \in Events /\ row' \in {row, table}

Goto(r, pc) == req' = [req EXCEPT ![r].pc = pc]

(* The next step needs no more of the request than its VM. *)
GoOn(r, pc) ==
  req' = [req EXCEPT ![r] = [Idle EXCEPT !.op = req[r].op, !.vm = req[r].vm, !.pc = pc]]

(* The handler returns: its struct is gone and the client has its answer. *)
Answered(r, answer) ==
  /\ req' = [req EXCEPT ![r] = [Idle EXCEPT !.reply = answer]]
  /\ alone' = alone \ {r}

Disturb(v) == disturbed' = disturbed \cup {v}

-----------------------------------------------------------------------------
(* Create. *)

(* Lines 76-117: configuration, host row, port and struct. *)
BeginCreate(r) ==
  /\ Arrives(r) /\ "create" \in Ops
  /\ FRPSConfigured
  /\ \E v \in VM \ used, h \in hosts, u \in User \cup {Nil}, p \in Candidates :
       /\ NextPort(p)
       /\ req' = [req EXCEPT ![r] =
            [Idle EXCEPT !.op = "create", !.vm = v, !.pc = "insert",
               !.local = [host |-> h, owner |-> u, set |-> Fresh, port |-> p,
                          status |-> "creating"]]]
       /\ used' = used \cup {v}
       /\ chosen' = [chosen EXCEPT ![v] = p]
       /\ seen' = [seen EXCEPT ![v] = InTable]
  /\ alone' = alone \cup {r}
  /\ UNCHANGED <<incusVars, row, hosts, log, disturbed, unlogged>>

(* Lines 76-82: no frps configuration, or no such host. *)
RefuseCreate(r) ==
  /\ ~Busy(r) /\ "create" \in Ops
  /\ ~FRPSConfigured \/ hosts # Host
  /\ req' = [req EXCEPT ![r] = [Idle EXCEPT !.op = "create", !.reply = "failed"]]
  /\ UNCHANGED <<incusVars, row, hosts, log, used, auxVars>>

(* Line 119. *)
Insert(r) ==
  /\ req[r].pc = "insert"
  /\ LET v == req[r].vm
     IN \/ /\ row' = SaveRow(v, req[r].local)
           /\ Goto(r, "post")
           /\ UNCHANGED <<alone, disturbed>>
        \/ /\ MaybeWritten(SaveRow(v, req[r].local))
           /\ Answered(r, "failed")
           /\ Disturb(v)
  /\ UNCHANGED <<incusVars, hosts, log, used, chosen, seen, unlogged>>

(* Line 123. *)
Post(r) ==
  /\ req[r].pc = "post"
  /\ \E a \in Answer :
       /\ Ask(Operation(req[r].local.host, req[r].vm, "create", Fresh), a)
       /\ GoOn(r, IF a = "accepted" THEN "settle" ELSE "fail")
       /\ IF a = "lost" THEN Disturb(req[r].vm) ELSE UNCHANGED disturbed
  /\ UNCHANGED <<inst, row, hosts, log, used, chosen, seen, alone, unlogged>>

(* Lines 138-141: the error of the UPDATE is dropped. *)
CreateFailed(r) ==
  /\ req[r].pc = "fail"
  /\ LET table == SetStatus(req[r].vm, "error")
     IN \/ row' = table /\ UNCHANGED disturbed
        \/ MaybeWritten(table) /\ Disturb(req[r].vm)
  /\ Answered(r, "failed")
  /\ UNCHANGED <<incusVars, hosts, log, used, chosen, seen, unlogged>>

(* Lines 143-145. *)
CreateAccepted(r) ==
  /\ req[r].pc = "settle"
  /\ LET table == SetStatus(req[r].vm, "stopped")
     IN \/ /\ row' = table
           /\ Goto(r, "log")
           /\ UNCHANGED <<alone, disturbed>>
        \/ /\ MaybeWritten(table)
           /\ Answered(r, "failed")
           /\ Disturb(req[r].vm)
  /\ UNCHANGED <<incusVars, hosts, log, used, chosen, seen, unlogged>>

(* Lines 150-153: the answer carries the row as it is now. *)
Reread(r) ==
  /\ req[r].pc = "reread"
  /\ \/ row[req[r].vm] # Nil /\ Answered(r, "ok")
     \/ (row[req[r].vm] = Nil \/ "dbfail" \in Events) /\ Answered(r, "failed")
  /\ UNCHANGED <<incusVars, row, hosts, log, used, chosen, seen, disturbed, unlogged>>

-----------------------------------------------------------------------------
(* The operations on a VM that exists. *)

Args(op) == CASE op \in {"config", "disk"} -> Val
              [] op = "network" -> Val \cup {Nil}
              [] op = "assign"  -> User
              [] op = "migrate" -> Host
              [] OTHER          -> {Nil}

Callers(op) == IF op \in Power THEN User \cup {Admin} ELSE {Admin}

(* The host row the handler looks up; AssignOwner looks none up. *)
HostKnown(op, arg, v) ==
  op = "assign" \/ (IF op = "migrate" THEN arg ELSE row[v].host) \in hosts

(* Delete goes on without the host when the VM never came to be. *)
ErrorRecord(op, v) == op = "delete" /\ row[v].status = "error"

Admits(actor, op, arg, v) ==
  Found(actor, v) /\ (HostKnown(op, arg, v) \/ ErrorRecord(op, v))

Begin(r) ==
  /\ Arrives(r)
  /\ \E op \in Ops \ {"create"}, v \in VM : \E arg \in Args(op), actor \in Callers(op) :
       /\ Admits(actor, op, arg, v)
       /\ req' = [req EXCEPT ![r] =
            [Idle EXCEPT !.op = op, !.vm = v, !.arg = arg, !.local = row[v],
               !.pc = IF HostKnown(op, arg, v) THEN FirstCall(op) ELSE "erase"]]
       /\ alone' = IF On(v) = {} THEN alone \cup {r} ELSE alone \ On(v)
       /\ disturbed' = IF Quiet(v) THEN disturbed ELSE disturbed \cup {v}
  /\ UNCHANGED <<incusVars, row, hosts, log, used, chosen, seen, unlogged>>

(* gorm.ErrRecordNotFound, of the VM or of the host, is answered with 404. *)
Refuse(r) ==
  /\ ~Busy(r)
  /\ \E op \in Ops \ {"create"}, v \in VM : \E arg \in Args(op), actor \in Callers(op) :
       \E answer \in {"notfound", "failed"} :
         /\ IF answer = "notfound" THEN ~Admits(actor, op, arg, v) ELSE "dbfail" \in Events
         /\ req' = [req EXCEPT ![r] =
              [Idle EXCEPT !.op = op, !.vm = v, !.reply = answer]]
  /\ UNCHANGED <<incusVars, row, hosts, log, used, auxVars>>

(* Mutation of Get: the struct takes the host's settings over. *)
GetRefreshing(r) ==
  /\ req[r].pc = "get"
  /\ LET i == inst[req[r].local.host][req[r].vm]
     IN /\ i # Nil
        /\ req' = [req EXCEPT ![r].pc = "put", ![r].local.set = i.set,
                              ![r].set = EditedSet(req[r].op, req[r].arg, i.set)]
  /\ UNCHANGED <<incusVars, row, hosts, log, used, auxVars>>

(* UpdateInstanceConfig, ResizeRootDisk, UpdateNetworkLimits: GET, edit ... *)
Get(r) ==
  /\ req[r].pc = "get"
  /\ LET i == inst[req[r].local.host][req[r].vm]
     IN \/ /\ i # Nil
           /\ req' = [req EXCEPT ![r].pc = "put",
                                 ![r].set = EditedSet(req[r].op, req[r].arg, i.set)]
           /\ UNCHANGED alone
        \/ /\ i = Nil \/ Events \cap {"reject", "lost"} # {}
           /\ Answered(r, "failed")
  /\ UNCHANGED <<incusVars, row, hosts, log, used, chosen, seen, disturbed, unlogged>>

(* ... and PUT the whole configuration back. *)
Put(r) ==
  /\ req[r].pc = "put"
  /\ \E a \in Answer :
       /\ Ask(Operation(req[r].local.host, req[r].vm, "update", req[r].set), a)
       /\ IF a = "accepted"
          THEN Goto(r, "save") /\ UNCHANGED alone
          ELSE Answered(r, "failed")
       /\ IF a = "lost" THEN Disturb(req[r].vm) ELSE UNCHANGED disturbed
  /\ UNCHANGED <<inst, row, hosts, log, used, chosen, seen, unlogged>>

(* Mutations of PowerCall: an instance that is missing is no error, as for *)
(* Delete; it is built anew.                                               *)
PowerCallLenient(r) ==
  /\ req[r].pc = "power"
  /\ LET kind == IF req[r].op = "reboot" THEN "restart" ELSE req[r].op
     IN \E a \in Answer :
       /\ Ask(Operation(req[r].local.host, req[r].vm, kind, Nil), a)
       /\ IF a \in {"accepted", "notfound"}
          THEN Goto(r, "save") /\ UNCHANGED alone
          ELSE Answered(r, "failed")
       /\ IF a = "lost" THEN Disturb(req[r].vm) ELSE UNCHANGED disturbed
  /\ UNCHANGED <<inst, row, hosts, log, used, chosen, seen, unlogged>>

PowerCallRebuilds(r) ==
  /\ req[r].pc = "power"
  /\ LET missing == inst[req[r].local.host][req[r].vm] = Nil
         kind == IF req[r].op = "reboot" THEN "restart" ELSE req[r].op
     IN /\ Ask(Operation(req[r].local.host, req[r].vm, IF missing THEN "create" ELSE kind,
                         IF missing THEN req[r].local.set ELSE Nil), "accepted")
        /\ Goto(r, "save")
  /\ UNCHANGED <<inst, row, hosts, log, used, auxVars>>

(* applyAction, lines 338-353. *)
PowerCall(r) ==
  /\ req[r].pc = "power"
  /\ LET kind == IF req[r].op = "reboot" THEN "restart" ELSE req[r].op
     IN \E a \in Answer :
       /\ Ask(Operation(req[r].local.host, req[r].vm, kind, Nil), a)
       /\ IF a = "accepted"
          THEN Goto(r, "save") /\ UNCHANGED alone
          ELSE Answered(r, "failed")
       /\ IF a = "lost" THEN Disturb(req[r].vm) ELSE UNCHANGED disturbed
  /\ UNCHANGED <<inst, row, hosts, log, used, chosen, seen, unlogged>>

(* Every other handler ends in Save (209, 233, 263, 284, 306, 355) and      *)
(* logOperation.                                                            *)
Save(r) ==
  /\ req[r].pc = "save"
  /\ LET v     == req[r].vm
         table == SaveRow(v, Edited(req[r].op, req[r].arg, req[r].local))
     IN \/ /\ row' = table
           /\ GoOn(r, "log")
           /\ UNCHANGED alone
           /\ IF req[r].op = "migrate" /\ req[r].arg # req[r].local.host
              THEN Disturb(v) ELSE UNCHANGED disturbed
        \/ /\ MaybeWritten(table)
           /\ Answered(r, "failed")
           /\ Disturb(v)
  /\ UNCHANGED <<incusVars, hosts, log, used, chosen, seen, unlogged>>

-----------------------------------------------------------------------------
(* Delete. *)

(* Line 175: a forced stop, whatever comes of it. *)
Halt(r) ==
  /\ req[r].pc = "halt"
  /\ \E a \in Answer :
       /\ Ask(Operation(req[r].local.host, req[r].vm, "stop", Nil), a)
       /\ IF a = "lost" THEN Disturb(req[r].vm) ELSE UNCHANGED disturbed
  /\ Goto(r, "destroy")
  /\ UNCHANGED <<inst, row, hosts, log, used, chosen, seen, alone, unlogged>>

(* Lines 176-184: which outcomes of DELETE let the row be deleted. *)
MayErase(answer, status) == answer \in {"accepted", "notfound"} \/ status = "error"

Destroy(r) ==
  /\ req[r].pc = "destroy"
  /\ \E a \in Answer :
       /\ Ask(Operation(req[r].local.host, req[r].vm, "destroy", Nil), a)
       /\ IF MayErase(a, req[r].local.status)
          THEN GoOn(r, "erase") /\ UNCHANGED alone
          ELSE Answered(r, "failed")
       /\ IF a \in {"refused", "lost"} THEN Disturb(req[r].vm) ELSE UNCHANGED disturbed
  /\ UNCHANGED <<inst, row, hosts, log, used, chosen, seen, unlogged>>

(* Lines 187-189. *)
Erase(r) ==
  /\ req[r].pc = "erase"
  /\ LET table == [row EXCEPT ![req[r].vm] = Nil]
     IN \/ /\ row' = table
           /\ GoOn(r, "log")
           /\ UNCHANGED <<alone, disturbed>>
        \/ /\ MaybeWritten(table)
           /\ Answered(r, "failed")
           /\ Disturb(req[r].vm)
  /\ UNCHANGED <<incusVars, hosts, log, used, chosen, seen, unlogged>>

-----------------------------------------------------------------------------
(* logOperation, the last write of every handler: its failure fails the    *)
(* request, after everything else has been done.                           *)
LogOperation(r) ==
  /\ req[r].pc = "log"
  /\ LET entry == [log EXCEPT ![req[r].vm] = req[r].op]
     IN \/ /\ log' = entry
           /\ IF req[r].op = "create"
              THEN Goto(r, "reread") /\ UNCHANGED alone
              ELSE Answered(r, "ok")
           /\ UNCHANGED unlogged
        \/ /\ "dbfail" \in Events /\ log' \in {log, entry}
           /\ Answered(r, "failed")
           /\ unlogged' = unlogged \cup {req[r].vm}
  /\ UNCHANGED <<incusVars, row, hosts, used, chosen, seen, disturbed>>

-----------------------------------------------------------------------------
(* The environment. *)

(* An accepted operation runs, or fails, on its host. *)
RunOp ==
  /\ \E t \in pending : RunOperation(t)
  /\ UNCHANGED <<row, hosts, log, req, used, auxVars>>

FailOp ==
  /\ \E t \in pending :
       /\ FailOperation(t)
       /\ IF Harmless(t) THEN UNCHANGED disturbed ELSE Disturb(t.vm)
  /\ UNCHANGED <<row, hosts, log, req, used, chosen, seen, alone, unlogged>>

(* The process dies with the requests it serves, and is started again. *)
Crash ==
  /\ "crash" \in Events
  /\ LET cut == {req[r].vm : r \in {q \in Req : Busy(q)}}
     IN /\ cut # {}
        /\ disturbed' = disturbed \cup cut
        /\ unlogged' = unlogged \cup cut
  /\ req' = [r \in Req |-> Idle]
  /\ alone' = {}
  /\ UNCHANGED <<incusVars, row, hosts, log, used, chosen, seen>>

(* HostService.Delete: nothing asks whether VMs are on the host. *)
Unregister ==
  /\ "unregister" \in Events
  /\ \E h \in hosts : hosts' = hosts \ {h}
  /\ UNCHANGED <<incusVars, row, log, req, used, auxVars>>

Handle(r) ==
  \/ Insert(r) \/ Post(r) \/ CreateFailed(r) \/ CreateAccepted(r) \/ Reread(r)
  \/ Get(r) \/ Put(r) \/ PowerCall(r) \/ Save(r)
  \/ Halt(r) \/ Destroy(r) \/ Erase(r) \/ LogOperation(r)

Next ==
  \/ \E r \in Req : BeginCreate(r) \/ RefuseCreate(r) \/ Begin(r) \/ Refuse(r) \/ Handle(r)
  \/ RunOp \/ FailOp \/ Crash \/ Unregister

Spec == Init /\ [][Next]_vars

(* Every database call returns and every Incus call ends within the http   *)
(* client's 15 s, so a request being served goes on.  Nothing is assumed   *)
(* of the daemons' operations or of the requests to come.                  *)
FairSpec == Spec /\ \A r \in Req : WF_vars(Handle(r))

-----------------------------------------------------------------------------
(* What the service promises. *)

(* Every variable keeps its type: above all, no handler stores a value in  *)
(* the table that is not a row, by way of a stale or half-built struct.    *)
TypeOK ==
  /\ IncusTypeOK
  /\ row \in [VM -> Row \cup {Nil}]
  /\ hosts \in SUBSET Host
  /\ log \in [VM -> Op \cup {Nil}]
  /\ req \in [Req -> Request]
  /\ used \in SUBSET VM
  /\ chosen \in [VM -> Nat]
  /\ seen \in [VM -> SUBSET VM]
  /\ alone \in SUBSET Req
  /\ disturbed \in SUBSET VM
  /\ unlogged \in SUBSET VM

(* nextSSHRemotePort's MAX+1 does what it is for: a VM's ssh port is above *)
(* the port of every VM that was in the table when it was chosen, whatever *)
(* is deleted, written back or raced since.  (Two creates that read MAX    *)
(* together may still choose the same port: neither is in the table yet.)  *)
PortsRise ==
  \A v \in VM : \A w \in seen[v] :
    row[v] # Nil /\ row[w] # Nil => row[v].port > row[w].port

(* Ports do not run away: however creates race, fail and are deleted, they *)
(* use up at most one port each.  nextSSHRemotePort, which knows no end of *)
(* the ports, is safe from it for 65535 - RemotePortStart VMs.             *)
PortsKeepPace ==
  \A v \in VM : row[v] # Nil => row[v].port < RemotePortStart + Cardinality(used)

(* A VM is in one place: through migrations, which move the row only, lost *)
(* calls, operations that run late and deletions that go wrong, no two     *)
(* hosts ever have an instance of the same VM.                             *)
OneInstance ==
  \A v \in VM : \A g, h \in Host : inst[g][v] # Nil /\ inst[h][v] # Nil => g = h

(* The table tells the truth about the hosts: when nothing is in progress  *)
(* on a VM that met no overlap, failure, crash or migration, its row gives *)
(* the settings and the power state Incus has, a row in error or no row at *)
(* all means no instance on any host, and no row is left in "creating",    *)
(* although no handler ever waits for an operation it started.             *)
TableMirrorsHosts ==
  \A v \in VM \ disturbed : Quiet(v) =>
    IF row[v] = Nil \/ row[v].status = "error"
    THEN \A h \in Host : inst[h][v] = Nil
    ELSE /\ row[v].status # "creating"
         /\ inst[row[v].host][v] = [set |-> row[v].set, running |-> row[v].status = "running"]
         /\ \A h \in Host \ {row[v].host} : inst[h][v] = Nil

(* The operation log explains the table: the newest entry of a VM that met *)
(* no overlap, failure or crash agrees with its row, so a "destroy" is the *)
(* last word on a VM and a power action names the status the row shows.    *)
LogExplainsTable ==
  \A v \in VM \ (disturbed \cup unlogged) : Quiet(v) /\ log[v] # Nil =>
    /\ log[v] = "delete" <=> row[v] = Nil
    /\ log[v] \in {"start", "reboot"} => row[v].status = "running"
    /\ log[v] \in {"create", "stop"}  => row[v].status = "stopped"

(* No lost update without an overlap: when no other request worked on the  *)
(* VM since a request read the row, its whole-row Save changes nothing but *)
(* the field it was asked to change, and brings no deleted row back.       *)
NoLostUpdate ==
  [][\A r \in alone :
       req[r].pc = "save" /\ req'[r] # req[r] =>
         /\ row[req[r].vm] # Nil
         /\ row' \in {row, SaveRow(req[r].vm,
                                  Edited(req[r].op, req[r].arg, row[req[r].vm]))}]_vars

(* A VM is gone when a create drew its uuid, it has no row, and no request *)
(* still holds a struct of it to write.                                    *)
Gone(v) ==
  /\ v \in used /\ row[v] = Nil
  /\ \A r \in On(v) : req[r].pc \in {"fail", "settle", "erase", "log", "reread"}

(* A VM that is gone stays gone: requests that come later, a retried       *)
(* delete, late operations of the daemon, a crash or the tail of a create  *)
(* that was overtaken by its delete never bring the row back.              *)
GoneForGood == [][\A v \in VM : Gone(v) => Gone(v)']_vars

(* As long as nothing gets in its way a VM is what users take it for, the  *)
(* object of AtomicVM: although a handler reads the row, calls the host    *)
(* and writes the row in separate steps, each change of the row is one     *)
(* operation on the VM as it was at that moment, a VM whose create failed  *)
(* is never started or edited, and a deleted one is not created again.     *)
Object == INSTANCE AtomicVM WITH
  vm      <- [v \in VM |-> IF v \in disturbed THEN Nil ELSE row[v]],
  born    <- disturbed \cup (used \ {req[r].vm : r \in {q \in Req : req[q].pc = "insert"}}),
  givenUp <- disturbed

ObjectSpec == Object!Spec

(* A VM does not stay in "creating": once its create is being served the   *)
(* row reaches another status or disappears, unless a failure, a crash or  *)
(* an overlapping request hits it.                                         *)
CreatingEnds ==
  \A v \in VM : (row[v] # Nil /\ row[v].status = "creating") ~>
    (row[v] = Nil \/ row[v].status # "creating" \/ v \in disturbed)

(* "vm not found", the handlers' answer to gorm.ErrRecordNotFound          *)
(* (internal/handler/admin_vm_handler.go:69): an administrator who gets it *)
(* for a deletion had asked for a VM that does not exist.                  *)
NotFoundMeansGone ==
  [][\A r \in Req :
       req'[r].op = "delete" /\ req'[r].reply = "notfound" /\ req'[r] # req[r] =>
         row[req'[r].vm] = Nil]_vars
=============================================================================
