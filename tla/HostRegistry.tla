---------------------------- MODULE HostRegistry ----------------------------
(***************************************************************************)
(* The hosts of the backend: HostService (internal/service/                *)
(* host_service.go) over the hosts table, and the cache of HTTP clients    *)
(* that incus.Manager keeps behind an RWMutex (internal/incus/manager.go). *)
(*                                                                         *)
(* A client is made from a host's address and certificate and outlives     *)
(* them: it must be dropped when they change.  The table and the cache are *)
(* written by different statements of different requests, getOrCreate-     *)
(* Client takes the lock three times, and nothing holds it across a call,  *)
(* so requests interleave at every line below.                             *)
(***************************************************************************)
EXTENDS Naturals, FiniteSets

CONSTANTS Host,      \* the uuids hosts may get
          Endpoint,  \* address, certificate and key of a daemon
          Unusable,  \* endpoints whose certificate and key do not parse
          Req,       \* goroutines serving requests
          Existing,  \* hosts in the table when the server first starts
          Nil,
          Ops,       \* the operations a run exercises
          Asks,      \* the statuses updates ask for, Nil for none
          Events     \* the faults a run lets happen

Op == {"create", "update", "delete", "sync", "use"}

(* "dbfail": a statement fails, committed or not.  "alias": a request      *)
(* spells the uuid in its URL otherwise than uuid.String() does.           *)
Faults == {"dbfail", "alias", "crash"}

Status == {"online", "offline", "maintenance"}

(* Name and resources are left out: nothing reads them again. *)
Row == [end : Endpoint, status : Status]

ASSUME RegistryAssumption ==
  /\ Unusable \subseteq Endpoint /\ Existing \subseteq Host
  /\ Ops \subseteq Op /\ Events \subseteq Faults
  /\ Asks \subseteq Status \cup {Nil}
  /\ Nil \notin Endpoint \cup Host \cup Status \cup Row

VARIABLES row,       \* the hosts table
          client,    \* Manager.clients: the endpoint a host's client talks to
          req,       \* the requests being served
          used,      \* uuids drawn so far
          disturbed  \* auxiliary: hosts whose requests overlapped or failed
                     \* since the server started

vars == <<row, client, req, used, disturbed>>

Pc == {"idle", "save", "drop", "lookup", "register", "fetch", "call",
       "apply", "offline", "answer"}

Request == [op : Op \cup {Nil}, host : Host \cup {Nil}, pc : Pc,
            local : Row \cup {Nil},          \* the Go struct host
            asked : Status \cup {Nil},       \* the status of an update's body
            moved : BOOLEAN,                 \* its body changes the endpoint
            using : Endpoint \cup {Nil},     \* the *hostClient in hand, or nil
            reply : {"none", "ok", "failed", "notfound"}]

Idle == [op |-> Nil, host |-> Nil, pc |-> "idle", local |-> Nil, asked |-> Nil,
         moved |-> FALSE, using |-> Nil, reply |-> "none"]

(* LoadRegisteredHosts registers the hosts of a table in no particular     *)
(* order and stops at the first that is unusable; main only logs that.     *)
Loaded(table) ==
  LET known == {h \in Host : table[h] # Nil}
      good  == {h \in known : table[h].end \notin Unusable}
  IN {[h \in Host |-> IF h \in done THEN table[h].end ELSE Nil] :
        done \in IF good = known THEN {known} ELSE SUBSET good}

Init ==
  /\ row \in [Host -> {Nil} \cup {[end |-> e, status |-> "offline"] :
                                    e \in Endpoint}]
  /\ \A h \in Host : row[h] # Nil <=> h \in Existing
  /\ client \in Loaded(row)
  /\ req = [r \in Req |-> Idle]
  /\ used = Existing
  /\ disturbed = {}

-----------------------------------------------------------------------------
Busy(r) == req[r].pc # "idle"
On(h)   == {r \in Req : Busy(r) /\ req[r].host = h}

Writers == {"update", "delete"}

(* Requests that only read a host's row may share it; a writer may not. *)
Overlaps(op, h) == \E q \in On(h) : op \in Writers \/ req[q].op \in Writers

Disturb(h) == disturbed' = disturbed \cup {h}

Goto(r, pc) == req' = [req EXCEPT ![r].pc = pc]

Answered(r, answer) ==
  req' = [req EXCEPT ![r] = [Idle EXCEPT !.reply = answer]]

(* A failed statement may have been committed.                             *)
Failed(r, table) ==
  /\ "dbfail" \in Events
  /\ row' \in {row, table}
  /\ Answered(r, "failed")
  /\ Disturb(req[r].host)

Starts(r, op, h, request) ==
  /\ ~Busy(r) /\ op \in Ops
  /\ req' = [req EXCEPT ![r] = request]
  /\ IF Overlaps(op, h) THEN Disturb(h) ELSE UNCHANGED disturbed

-----------------------------------------------------------------------------
(* HostService. *)

(* Lines 57-65: the row is inserted before anything is asked of the host.  *)
Create(r) ==
  \E h \in Host \ used, e \in Endpoint :
    LET new == [end |-> e, status |-> "offline"]
    IN /\ Starts(r, "create", h, [Idle EXCEPT !.op = "create", !.host = h, !.pc = "lookup",
                                              !.local = new])
       /\ row' = [row EXCEPT ![h] = new]
       /\ used' = used \cup {h}
       /\ UNCHANGED client

(* Lines 80-99: what is left empty in the body keeps its value. *)
BeginUpdate(r) ==
  \E h \in Host, e \in Endpoint \cup {Nil}, s \in Asks :
    /\ row[h] # Nil
    /\ Starts(r, "update", h,
         [Idle EXCEPT !.op = "update", !.host = h, !.pc = "save", !.asked = s, !.moved = e # Nil,
            !.local = [row[h] EXCEPT !.end = IF e = Nil THEN @ ELSE e,
                                     !.status = IF s = Nil THEN @ ELSE s]])
    /\ UNCHANGED <<row, client, used>>

(* Mutation of AfterSave: the cached client is kept. *)
AfterSaveKeeps(r) == "lookup"

AfterSave(r) == IF req[r].moved THEN "drop" ELSE "lookup"

(* Line 101: gorm's Save, every column, inserting a row that is gone. *)
Save(r) ==
  /\ req[r].pc = "save"
  /\ LET table == [row EXCEPT ![req[r].host] = req[r].local]
     IN \/ /\ row' = table
           /\ Goto(r, AfterSave(r))
           /\ UNCHANGED disturbed
        \/ Failed(r, table)
  /\ UNCHANGED <<client, used>>

(* Mutation of Drop: only an update drops the client. *)
DropAfterUpdate(r) ==
  /\ req[r].pc = "drop"
  /\ IF req[r].op = "delete"
     THEN Answered(r, "ok") /\ UNCHANGED client
     ELSE Goto(r, "lookup") /\ client' = [client EXCEPT ![req[r].host] = Nil]
  /\ UNCHANGED <<row, used, disturbed>>

(* Lines 105-107 and 127, RemoveHost: by the id as the URL spells it. *)
Drop(r) ==
  /\ req[r].pc = "drop"
  /\ \/ /\ client' = [client EXCEPT ![req[r].host] = Nil]
        /\ UNCHANGED disturbed
     \/ /\ "alias" \in Events
        /\ Disturb(req[r].host)
        /\ UNCHANGED client
  /\ IF req[r].op = "delete" THEN Answered(r, "ok") ELSE Goto(r, "lookup")
  /\ UNCHANGED <<row, used>>

(* Lines 119-126. *)
Delete(r) ==
  \E h \in Host :
    /\ row[h] # Nil
    /\ Starts(r, "delete", h, [Idle EXCEPT !.op = "delete", !.host = h, !.pc = "drop"])
    /\ row' = [row EXCEPT ![h] = Nil]
    /\ UNCHANGED <<client, used>>

(* Its DELETE fails, committed or not. *)
DeleteFails(r) ==
  /\ ~Busy(r) /\ "dbfail" \in Events /\ "delete" \in Ops
  /\ \E h \in Host :
       /\ row[h] # Nil
       /\ row' \in {row, [row EXCEPT ![h] = Nil]}
       /\ req' = [req EXCEPT ![r] = [Idle EXCEPT !.reply = "failed"]]
       /\ Disturb(h)
  /\ UNCHANGED <<client, used>>

(* Sync, and a VM handler that has a call to make to the VM's host. *)
Begin(r) ==
  \E op \in {"sync", "use"}, h \in Host :
    /\ row[h] # Nil
    /\ Starts(r, op, h, [Idle EXCEPT !.op = op, !.host = h, !.pc = "lookup", !.local = row[h]])
    /\ UNCHANGED <<row, client, used>>

(* gorm.ErrRecordNotFound, answered with 404. *)
Refuse(r) ==
  /\ ~Busy(r)
  /\ Ops # {"create"}
  /\ \E h \in Host :
       /\ row[h] = Nil
       /\ req' = [req EXCEPT ![r] = [Idle EXCEPT !.reply = "notfound"]]
  /\ UNCHANGED <<row, client, used, disturbed>>

-----------------------------------------------------------------------------
(* Manager.SyncHost, and getOrCreateClient before any call to a host. *)

(* What becomes of a handler whose call to the host failed: Create and     *)
(* Update go on without the snapshot.                                      *)
CallFailed(r) ==
  CASE req[r].op = "sync" -> Goto(r, "offline")
    [] req[r].op = "use"  -> Answered(r, "failed")
    [] OTHER              -> Goto(r, "answer")

(* The client is in hand; the struct is not read again.                    *)
GoCall(r, c) ==
  req' = [req EXCEPT ![r] = [Idle EXCEPT !.op = req[r].op, !.host = req[r].host, !.pc = "call",
                                         !.asked = req[r].asked, !.using = c]]

(* Lines 513-518, under the read lock. *)
Lookup(r) ==
  /\ req[r].pc = "lookup"
  /\ LET c == client[req[r].host]
     IN IF c = Nil THEN Goto(r, "register") ELSE GoCall(r, c)
  /\ UNCHANGED <<row, client, used, disturbed>>

(* Mutation of Register: the client is cached before its keys are parsed. *)
RegisterUnparsed(r) ==
  /\ req[r].pc = "register"
  /\ client' = [client EXCEPT ![req[r].host] = req[r].local.end]
  /\ Goto(r, "fetch")
  /\ UNCHANGED <<row, used, disturbed>>

(* RegisterHost, lines 79-102, with the struct the request has. *)
Register(r) ==
  /\ req[r].pc = "register"
  /\ IF req[r].local.end \in Unusable
     THEN CallFailed(r) /\ UNCHANGED client
     ELSE /\ client' = [client EXCEPT ![req[r].host] = req[r].local.end]
          /\ Goto(r, "fetch")
  /\ UNCHANGED <<row, used, disturbed>>

(* Lines 524-526, under the read lock again: what is there now, or nil. *)
Fetch(r) ==
  /\ req[r].pc = "fetch"
  /\ GoCall(r, client[req[r].host])
  /\ UNCHANGED <<row, client, used, disturbed>>

(* The call to the host answers or fails; with a nil client it panics, and *)
(* gin's recovery answers for the handler.                                 *)
Call(r) ==
  /\ req[r].pc = "call"
  /\ \/ /\ req[r].using # Nil
        /\ IF req[r].op = "use" THEN Answered(r, "ok") ELSE Goto(r, "apply")
     \/ req[r].using # Nil /\ CallFailed(r)
     \/ req[r].using = Nil /\ Answered(r, "failed")
  /\ UNCHANGED <<row, client, used, disturbed>>

(* Mutation of Snapshot: written with Save, which inserts a missing row. *)
SnapshotSaved(r, h) ==
  [row EXCEPT ![h] = [end |-> req[r].using, status |-> "online"]]

(* What applySnapshot leaves of the table: nothing to write on when the    *)
(* row is gone.                                                            *)
Snapshot(r, h) ==
  IF row[h] = Nil THEN row
  ELSE [row EXCEPT ![h].status = "online"]

Apply(r) ==
  /\ req[r].pc = "apply"
  /\ LET table == Snapshot(r, req[r].host)
     IN \/ row' = table /\ Goto(r, "answer") /\ UNCHANGED disturbed
        \/ Failed(r, table)
  /\ UNCHANGED <<client, used>>

(* Lines 138-144. *)
Offline(r) ==
  /\ req[r].pc = "offline"
  /\ LET h == req[r].host
         table == IF row[h] = Nil THEN row ELSE [row EXCEPT ![h].status = "offline"]
     IN \/ row' = table /\ Answered(r, "failed") /\ UNCHANGED disturbed
        \/ Failed(r, table)
  /\ UNCHANGED <<client, used>>

(* Lines 76, 116, 150: the row is read again for the answer. *)
Answer(r) ==
  /\ req[r].pc = "answer"
  /\ Answered(r, IF row[req[r].host] = Nil THEN "notfound" ELSE "ok")
  /\ UNCHANGED <<row, client, used, disturbed>>

-----------------------------------------------------------------------------
(* The process dies and is started again: main loads the table. *)
Restart ==
  /\ "crash" \in Events
  /\ client' \in Loaded(row)
  /\ req' = [r \in Req |-> Idle]
  /\ disturbed' = {}
  /\ UNCHANGED <<row, used>>

Handle(r) ==
  \/ Save(r) \/ Drop(r) \/ Lookup(r) \/ Register(r) \/ Fetch(r) \/ Call(r)
  \/ Apply(r) \/ Offline(r) \/ Answer(r)

Next ==
  \/ \E r \in Req : \/ Create(r) \/ BeginUpdate(r) \/ Delete(r) \/ DeleteFails(r)
                    \/ Begin(r) \/ Refuse(r) \/ Handle(r)
  \/ Restart

Spec == Init /\ [][Next]_vars

-----------------------------------------------------------------------------
(* What the registry promises. *)

TypeOK ==
  /\ row \in [Host -> Row \cup {Nil}]
  /\ client \in [Host -> (Endpoint \ Unusable) \cup {Nil}]
  /\ req \in [Req -> Request]
  /\ used \in SUBSET Host
  /\ disturbed \in SUBSET Host

(* The cache follows the table: a host nobody is working on, whose writers *)
(* overlapped with nothing and failed nowhere since the server started,    *)
(* has no client or one for the endpoint in its row, and a host that was   *)
(* deleted has none.  A restart repairs whatever happened before it.       *)
CacheFollowsTable ==
  \A h \in Host \ disturbed : On(h) = {} /\ client[h] # Nil =>
    row[h] # Nil /\ client[h] = row[h].end

(* Without an overlapping writer every call goes to the endpoint that is   *)
(* registered, never through the nil client that a RemoveHost between the  *)
(* two locks of getOrCreateClient leaves, and the snapshot applied to a    *)
(* host's row came from the endpoint in that row.                          *)
CallsRegisteredEndpoint ==
  \A r \in Req : req[r].pc \in {"call", "apply"} /\ req[r].host \notin disturbed =>
    row[req[r].host] # Nil /\ req[r].using = row[req[r].host].end

(* A deleted host does not come back, whatever syncs, snapshots and        *)
(* restarts were under way: only an update that still holds its struct     *)
(* could insert it again.                                                  *)
Deleted(h) == h \in used /\ row[h] = Nil /\ \A r \in On(h) : req[r].pc # "save"

DeletedStaysDeleted == [][\A h \in Host : Deleted(h) => Deleted(h)']_vars

(* Status "oneof=online offline maintenance" (internal/dto/host.go:29): an *)
(* administrator who sets a host to maintenance, alone, finds it so.       *)
MaintenanceIsKept ==
  [][\A r \in Req :
       (/\ req[r].op = "update" /\ req[r].asked = "maintenance"
        /\ req[r].pc = "answer" /\ req'[r].reply = "ok" /\ req[r].host \notin disturbed)
         => row[req[r].host].status = "maintenance"]_vars
=============================================================================
