------------------------------ MODULE Passwords ------------------------------
(***************************************************************************)
(* The passwords inside the guests: ResetRootPasswordForOwner and          *)
(* UpdateLoginPasswordForOwner (internal/service/vm_service.go), which run *)
(* a command in the VM and, alone among the operations of the backend,     *)
(* wait for the daemon's operation to end (SetUserPassword and             *)
(* waitOperation, internal/incus/manager.go); then the operation log.      *)
(*                                                                         *)
(* The wait asks the daemon for 30 seconds through a client that gives up  *)
(* after 15, and a user may go away.  A command that is left alone runs    *)
(* all the same, whenever the daemon comes to it.                          *)
(***************************************************************************)
EXTENDS OperationLog, FiniteSets

CONSTANTS Account,   \* accounts of the guests: root, or the login user of a VM
          Password,
          Req,       \* goroutines serving requests
          MaxLog,    \* bound: no request is taken in once as many could be logged
          Nil

VARIABLES
  guest,     \* the accounts' passwords
  req,       \* the requests being served
  orphans,   \* commands accepted by a daemon that no request waits for
  \* Auxiliary variables: they record the past and guard no action.
  told,      \* the password the last ok answer named
  doubt,     \* accounts about which users may know no better
  alone,     \* requests that no other command on the account got between
  answered   \* the log entries of the changes answered ok; 0 for one not logged

vars == <<logVars, guest, req, orphans, told, doubt, alone, answered>>

Command == [account : Account, pw : Password]

Request == [account : Account, pw : Password, mark : Nat,
            pc : {"exec", "wait", "stamp", "insert"},
            operation : {"none", "running", "success", "failure"}]

ASSUME PasswordsAssumption == /\ MaxLog \in Nat /\ Nil \notin Request \cup Password

Init ==
  /\ LogInit
  /\ guest \in [Account -> Password] /\ told = guest
  /\ req = [r \in Req |-> Nil]
  /\ orphans = {} /\ doubt = {} /\ alone = {} /\ answered = {}

-----------------------------------------------------------------------------
Busy == {r \in Req : req[r] # Nil}
On(a) == {r \in Busy : req[r].account = a}
Left(a) == {o \in orphans : o.account = a}
At(r, pc) == req[r] # Nil /\ req[r].pc = pc

Doubt(a) == doubt' = doubt \cup {a}

(* The request ends.  Its command, if it still runs, is an orphan. *)
End(r) ==
  /\ req' = [req EXCEPT ![r] = Nil]
  /\ alone' = alone \ {r}
  /\ orphans' = IF req[r].operation = "running"
                THEN orphans \cup {[account |-> req[r].account, pw |-> req[r].pw]}
                ELSE orphans

(* The error says nothing of the password: the old one is the one named. *)
Fail(r) == End(r) /\ UNCHANGED <<told, answered>>

(* The rows of the VM and of its host, and the password: the user's, or    *)
(* one that is generated.                                                  *)
Begin(r) ==
  /\ req[r] = Nil
  /\ Len(place) + Cardinality(Busy) < MaxLog
  /\ \E a \in Account, p \in Password :
       /\ req' = [req EXCEPT ![r] = [account |-> a, pw |-> p, mark |-> 0, pc |-> "exec",
                                     operation |-> "none"]]
       /\ alone' = IF On(a) = {} /\ Left(a) = {} THEN alone \cup {r} ELSE alone \ On(a)
       /\ IF On(a) = {} THEN UNCHANGED doubt ELSE Doubt(a)
  /\ UNCHANGED <<logVars, guest, orphans, told, answered>>

Advance(r, pc, operation) ==
  req' = [req EXCEPT ![r].pc = pc, ![r].operation = operation]

(* POST .../exec: the daemon takes the command on, or refuses it, or the   *)
(* answer is lost.                                                         *)
Exec(r) ==
  /\ At(r, "exec")
  /\ \/ /\ Advance(r, "wait", "running")
        /\ UNCHANGED <<orphans, doubt, alone, told, answered>>
     \/ Fail(r) /\ UNCHANGED doubt
     \/ /\ req' = [req EXCEPT ![r] = Nil]
        /\ alone' = alone \ {r}
        /\ orphans' = orphans \cup {[account |-> req[r].account, pw |-> req[r].pw]}
        /\ Doubt(req[r].account)
        /\ UNCHANGED <<told, answered>>
  /\ UNCHANGED <<logVars, guest>>

(* The daemon runs the command, or cannot.  Its operation is a success     *)
(* whenever the command came to an end: chpasswd may have failed, and      *)
(* nobody looks at its exit code.                                          *)
RunCommand(r) ==
  /\ At(r, "wait") /\ req[r].operation = "running"
  /\ \/ /\ Advance(r, "wait", "success")
        /\ guest' = [guest EXCEPT ![req[r].account] = req[r].pw]
        /\ UNCHANGED <<doubt, alone>>
     \/ /\ Advance(r, "wait", "success")
        /\ Doubt(req[r].account) /\ alone' = alone \ {r}
        /\ UNCHANGED guest
     \/ /\ Advance(r, "wait", "failure")
        /\ UNCHANGED <<guest, doubt, alone>>
  /\ UNCHANGED <<logVars, orphans, told, answered>>

(* Mutation of Succeeded: an operation that has not failed. *)
SucceededYet(operation) == operation # "failure"

Succeeded(operation) == operation = "success"

(* waitOperation's answer has come. *)
WaitOperation(r) ==
  /\ At(r, "wait")
  /\ \/ /\ Succeeded(req[r].operation)
        /\ Advance(r, "stamp", req[r].operation)
        /\ UNCHANGED <<orphans, alone, told, answered>>
     \/ req[r].operation = "failure" /\ Fail(r)
  /\ UNCHANGED <<logVars, guest, doubt>>

(* It has not: after 15 s, or because the user went away. *)
GiveUp(r) ==
  /\ At(r, "wait")
  /\ Fail(r)
  /\ Doubt(req[r].account)
  /\ UNCHANGED <<logVars, guest>>

(* logOperation: created_at is taken from the clock ... *)
StampEntry(r) ==
  /\ At(r, "stamp")
  /\ req' = [req EXCEPT ![r].pc = "insert", ![r].mark = Len(place)]
  /\ UNCHANGED <<logVars, guest, orphans, told, doubt, alone, answered>>

(* Mutation of NewPassword: the answer leaves it out. *)
NewPasswordLeftOut(r) == Nil

(* ... and the entry is inserted, and the new password answered. *)
NewPassword(r) == req[r].pw

LogOperation(r) ==
  /\ At(r, "insert")
  /\ InsertEntry(req[r].mark)
  /\ End(r)
  /\ told' = [told EXCEPT ![req[r].account] = NewPassword(r)]
  /\ answered' = answered \cup {Len(place')}
  /\ doubt' = IF r \in alone THEN doubt \ {req[r].account} ELSE doubt
  /\ UNCHANGED <<reader, guest>>

(* The INSERT fails, done or not: an error, although the password has      *)
(* changed.                                                                *)
LogFails(r) ==
  /\ At(r, "insert")
  /\ InsertEntry(req[r].mark) \/ UNCHANGED place
  /\ Fail(r)
  /\ Doubt(req[r].account)
  /\ UNCHANGED <<reader, guest>>

-----------------------------------------------------------------------------
RunOrphan ==
  /\ \E o \in orphans :
       /\ guest' \in {guest, [guest EXCEPT ![o.account] = o.pw]}
       /\ orphans' = orphans \ {o}
  /\ UNCHANGED <<logVars, req, told, doubt, alone, answered>>

(* The process dies with the requests it serves, and is started again. *)
Crash ==
  /\ Busy # {}
  /\ req' = [r \in Req |-> Nil]
  /\ orphans' = orphans \cup {[account |-> req[r].account, pw |-> req[r].pw] :
                               r \in {q \in Busy : req[q].operation = "running"}}
  /\ doubt' = doubt \cup {req[r].account : r \in Busy}
  /\ alone' = {}
  /\ UNCHANGED <<logVars, guest, told, answered>>

(* An administrator opens the log. *)
OpenLog == Open(answered) /\ UNCHANGED <<guest, req, orphans, told, doubt, alone, answered>>

NextPage == ListOperationLogs /\ UNCHANGED <<guest, req, orphans, told, doubt, alone, answered>>

Next ==
  \/ \E r \in Req : \/ Begin(r) \/ Exec(r) \/ RunCommand(r) \/ WaitOperation(r) \/ GiveUp(r)
                    \/ StampEntry(r) \/ LogOperation(r) \/ LogFails(r)
  \/ RunOrphan \/ Crash \/ OpenLog \/ NextPage

Spec == Init /\ [][Next]_vars

-----------------------------------------------------------------------------
(* What the owner and the administrator can rely on. *)

(* Every variable keeps its type; no ok answer leaves the password out.    *)
TypeOK ==
  /\ LogTypeOK
  /\ guest \in [Account -> Password]
  /\ req \in [Req -> Request \cup {Nil}]
  /\ orphans \in SUBSET Command
  /\ told \in [Account -> Password]
  /\ doubt \in SUBSET Account
  /\ alone \in SUBSET Req
  /\ answered \in SUBSET Nat

(* The password that was named is the one that works: between requests the *)
(* guest has the password of the last ok answer, although requests fail at *)
(* every step and commands run late.  Beyond doubt are the accounts whose  *)
(* requests neither overlapped nor were left without an answer; an ok      *)
(* answer to a request no other command got between settles every doubt.   *)
PasswordKnown ==
  \A a \in Account \ doubt : On(a) = {} => guest[a] = told[a]

(* The log is complete: an administrator who reads it page by page to the  *)
(* first short one has seen every change that was answered ok before,      *)
(* although new entries move the others from page to page meanwhile, and   *)
(* need not come in in the order of their times.                           *)
AuditComplete == reader # NoReader /\ reader.done => reader.due \subseteq reader.seen
=============================================================================
