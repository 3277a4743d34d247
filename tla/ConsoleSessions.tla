--------------------------- MODULE ConsoleSessions ---------------------------
(***************************************************************************)
(* Console sessions: VNCService (internal/service/vnc_service.go), its     *)
(* one-time tokens and its table of active sessions, and the websocket     *)
(* proxy that uses them (internal/handler/vnc_handler.go).  ShellService   *)
(* and the shell proxy are the same code under other names, with state of  *)
(* their own, so each is an instance of this module.                       *)
(*                                                                         *)
(* Tokens and sessions are kept under the :id of the URL as the client     *)
(* spelled it (a Key); the database compares uuids, so several spellings   *)
(* may name one VM (VMOf).  The service's methods run under its mutex and  *)
(* are one step each; the proxy handler and its two copying goroutines     *)
(* interleave.  Everything is in memory: a restarted server is in Init.    *)
(***************************************************************************)
EXTENDS Naturals, FiniteSets

CONSTANTS VM, Key, VMOf, User, Nil,
          Token,   \* bound: uuids in use at a time
          Conn     \* bound: websocket requests at a time

ASSUME ConsoleAssumption ==
  /\ VMOf \in [Key -> VM]
  /\ Nil \notin Token \cup User \cup Key

VARIABLES
  owner,      \* instances.owner_id, changed by AssignOwner at any time
  tokens,     \* VNCService.tokens
  vmSession,  \* VNCService.vmSession
  conn,       \* the websocket requests and their goroutines
  spent       \* auxiliary: tokens redeemed since they were issued

vars == <<owner, tokens, vmSession, conn, spent>>

Entry == [user : User, key : Key, expired : BOOLEAN]

Pc == {"idle", "lookup", "dial", "upgrade", "wait",
       "closeClient", "closeRemote", "release"}

Socket    == {"none", "open", "broken", "closed"}
Goroutine == {"none", "copying", "sending", "done"}
Direction == {"up", "down"}   \* client to backend, backend to client

Connection == [pc : Pc, key : Key \cup {Nil}, token : Token \cup {Nil},
               user : User \cup {Nil},
               client : Socket, remote : Socket,
               proxy : [Direction -> Goroutine],
               errCh : 0..2]

NoProxy == [d \in Direction |-> "none"]

NoConn == [pc |-> "idle", key |-> Nil, token |-> Nil, user |-> Nil,
           client |-> "none", remote |-> "none", proxy |-> NoProxy, errCh |-> 0]

Init ==
  /\ owner \in [VM -> User \cup {Nil}]
  /\ tokens = [t \in Token |-> Nil]
  /\ vmSession = [k \in Key |-> Nil]
  /\ conn = [c \in Conn |-> NoConn]
  /\ spent = {}

InSession(c) == conn[c].pc # "idle"
Ended(c)     == conn[c].pc = "idle" /\ \A d \in Direction : conn[c].proxy[d] \in {"none", "done"}

-----------------------------------------------------------------------------
(* IssueVNCOneTimeToken: the owner check and IssueToken.  A change of owner *)
(* between the two is one right after them.                                *)
Issue(u, k, t) ==
  /\ owner[VMOf[k]] = u
  /\ tokens[t] = Nil /\ \A c \in Conn : conn[c].token # t
  /\ tokens' = [tokens EXCEPT ![t] = [user |-> u, key |-> k, expired |-> FALSE]]
  /\ spent' = spent \ {t}
  /\ UNCHANGED <<owner, vmSession, conn>>

(* A minute passes.  Nothing purges the entry. *)
Expire(t) ==
  /\ tokens[t] # Nil /\ ~tokens[t].expired
  /\ tokens' = [tokens EXCEPT ![t].expired = TRUE]
  /\ UNCHANGED <<owner, vmSession, conn, spent>>

Reassign(v, u) ==
  /\ u # owner[v]
  /\ owner' = [owner EXCEPT ![v] = u]
  /\ UNCHANGED <<tokens, vmSession, conn, spent>>

-----------------------------------------------------------------------------
(* ConsumeToken: the token is gone whatever comes of it. *)

(* Mutations: a session table nobody looks at; a token that is deleted     *)
(* only when the session ends.                                             *)
AdmitsAnyNumber(e, k) == e.key = k /\ ~e.expired

Admits(e, k) == e.key = k /\ ~e.expired /\ vmSession[k] = Nil

AfterUseKept(t) == tokens

AfterUse(t) == [tokens EXCEPT ![t] = Nil]

Consume(c, t, k) ==
  /\ Ended(c)
  /\ tokens[t] # Nil
  /\ tokens' = AfterUse(t)
  /\ IF Admits(tokens[t], k)
     THEN /\ vmSession' = [vmSession EXCEPT ![k] = t]
          /\ conn' = [conn EXCEPT ![c] = [NoConn EXCEPT !.pc = "lookup", !.key = k,
                                           !.token = t, !.user = tokens[t].user]]
          /\ spent' = spent \cup {t}
     ELSE UNCHANGED <<vmSession, conn, spent>>
  /\ UNCHANGED owner

-----------------------------------------------------------------------------
(* Proxy, from the session to the end of its deferred calls. *)

Step(c, from, to) == conn[c].pc = from /\ conn' = [conn EXCEPT ![c].pc = to]

(* OpenVNCForOwner asks the database again whose VM this is. *)
Lookup(c) ==
  /\ Step(c, "lookup",
          IF owner[VMOf[conn[c].key]] = conn[c].user THEN "dial" ELSE "release")
  /\ UNCHANGED <<owner, tokens, vmSession, spent>>

(* The console operation, its secret, the websocket to the host. *)
Dial(c) ==
  /\ conn[c].pc = "dial"
  /\ \/ conn' = [conn EXCEPT ![c] = [@ EXCEPT !.pc = "upgrade", !.remote = "open"]]
     \/ conn' = [conn EXCEPT ![c].pc = "release"]
  /\ UNCHANGED <<owner, tokens, vmSession, spent>>

Upgrade(c) ==
  /\ conn[c].pc = "upgrade"
  /\ \/ conn' = [conn EXCEPT ![c] = [@ EXCEPT !.pc = "wait", !.client = "open",
                                       !.proxy = [d \in Direction |-> "copying"]]]
     \/ conn' = [conn EXCEPT ![c].pc = "closeRemote"]
  /\ UNCHANGED <<owner, tokens, vmSession, spent>>

(* Mutations of Finished: the handler waits for both directions; for none. *)
FinishedBoth(c) == conn[c].errCh = 2
FinishedAtOnce(c) == InSession(c)

(* Line 107: the first error of either direction ends the session. *)
Finished(c) == conn[c].errCh > 0

Receive(c) ==
  /\ conn[c].pc = "wait" /\ Finished(c)
  /\ conn' = [conn EXCEPT ![c] = [@ EXCEPT !.pc = "closeClient", !.errCh = conn[c].errCh - 1]]
  /\ UNCHANGED <<owner, tokens, vmSession, spent>>

(* The deferred calls run in the reverse of the order they were deferred.  *)
Deferred(pc) ==
  CASE pc = "closeClient" -> "closeRemote" [] pc = "closeRemote" -> "release" [] OTHER -> "idle"

(* Mutation of CloseClient: the client connection is left open. *)
CloseClientForgotten(c) ==
  /\ Step(c, "closeClient", Deferred("closeClient"))
  /\ UNCHANGED <<owner, tokens, vmSession, spent>>

CloseClient(c) ==
  /\ conn[c].pc = "closeClient"
  /\ conn' = [conn EXCEPT ![c] = [@ EXCEPT !.pc = Deferred("closeClient"), !.client = "closed"]]
  /\ UNCHANGED <<owner, tokens, vmSession, spent>>

(* Mutation of CloseRemote: the backend console is left open. *)
CloseRemoteForgotten(c) ==
  /\ Step(c, "closeRemote", Deferred("closeRemote"))
  /\ UNCHANGED <<owner, tokens, vmSession, spent>>

CloseRemote(c) ==
  /\ conn[c].pc = "closeRemote"
  /\ conn' = [conn EXCEPT ![c] = [@ EXCEPT !.pc = Deferred("closeRemote"), !.remote = "closed"]]
  /\ UNCHANGED <<owner, tokens, vmSession, spent>>

(* ReleaseSession deletes the key's session, whosever it is. *)
Release(c) ==
  /\ conn[c].pc = "release"
  /\ vmSession' = [vmSession EXCEPT ![conn[c].key] = Nil]
  /\ conn' = [conn EXCEPT ![c] = [@ EXCEPT !.pc = Deferred("release"), !.token = Nil]]
  /\ UNCHANGED <<owner, tokens, spent>>

-----------------------------------------------------------------------------
(* proxyWS, once in each direction. *)

Src(c, d) == IF d = "up" THEN conn[c].client ELSE conn[c].remote
Dst(c, d) == IF d = "up" THEN conn[c].remote ELSE conn[c].client

(* ReadMessage fails on a connection that is not open. *)
ReadFails(c, d) ==
  /\ conn[c].proxy[d] = "copying" /\ Src(c, d) # "open"
  /\ conn' = [conn EXCEPT ![c].proxy[d] = "sending"]
  /\ UNCHANGED <<owner, tokens, vmSession, spent>>

(* A message comes in and cannot be written.  None need ever come.         *)
WriteFails(c, d) ==
  /\ conn[c].proxy[d] = "copying" /\ Src(c, d) = "open" /\ Dst(c, d) # "open"
  /\ conn' = [conn EXCEPT ![c].proxy[d] = "sending"]
  /\ UNCHANGED <<owner, tokens, vmSession, spent>>

(* errCh <- err, on a channel of capacity 2. *)
Send(c, d) ==
  /\ conn[c].proxy[d] = "sending" /\ conn[c].errCh < 2
  /\ conn' = [conn EXCEPT ![c] = [@ EXCEPT !.proxy[d] = "done", !.errCh = conn[c].errCh + 1]]
  /\ UNCHANGED <<owner, tokens, vmSession, spent>>

(* The browser or the host ends its connection, or it breaks. *)
PeerLeaves(c) ==
  /\ \/ conn[c].client = "open" /\ conn' = [conn EXCEPT ![c].client = "broken"]
     \/ conn[c].remote = "open" /\ conn' = [conn EXCEPT ![c].remote = "broken"]
  /\ UNCHANGED <<owner, tokens, vmSession, spent>>

Handler(c) ==
  \/ Lookup(c) \/ Dial(c) \/ Upgrade(c) \/ Receive(c)
  \/ CloseClient(c) \/ CloseRemote(c) \/ Release(c)

Copier(c, d) == ReadFails(c, d) \/ Send(c, d)

Next ==
  \/ \E t \in Token : Expire(t) \/ \E k \in Key : \/ \E u \in User : Issue(u, k, t)
                                                  \/ \E c \in Conn : Consume(c, t, k)
  \/ \E v \in VM, u \in User : Reassign(v, u)
  \/ \E c \in Conn : \/ Handler(c) \/ PeerLeaves(c)
                     \/ \E d \in Direction : Copier(c, d) \/ WriteFails(c, d)

Spec == Init /\ [][Next]_vars

(* The Go scheduler runs every goroutine that can go on, and every call    *)
(* the handler makes returns (the http client gives up after 15 s, the     *)
(* dial when the browser does).  Nobody has to send a message, to leave,   *)
(* or to ask for a token.                                                  *)
FairSpec ==
  /\ Spec
  /\ \A c \in Conn : WF_vars(Handler(c)) /\ \A d \in Direction : WF_vars(Copier(c, d))

-----------------------------------------------------------------------------
(* What the service promises. *)

(* The table, the tokens, the requests and their channels keep their types: *)
(* the error channel never holds more than its two slots.                   *)
TypeOK ==
  /\ owner \in [VM -> User \cup {Nil}]
  /\ tokens \in [Token -> Entry \cup {Nil}]
  /\ vmSession \in [Key -> Token \cup {Nil}]
  /\ conn \in [Conn -> Connection]
  /\ spent \in SUBSET Token

(* The session table is the truth: a key's entry is the token of the one   *)
(* request in session under it, so ReleaseSession, which deletes by key,   *)
(* can only end the caller's own session, and no key stays locked when     *)
(* nobody is in session.                                                   *)
SessionTableExact ==
  \A k \in Key :
    IF vmSession[k] = Nil
    THEN \A c \in Conn : InSession(c) => conn[c].key # k
    ELSE \E c \in Conn :
           /\ InSession(c) /\ conn[c].key = k /\ conn[c].token = vmSession[k]
           /\ \A b \in Conn \ {c} : InSession(b) => conn[b].key # k

(* A token opens at most one session between being issued and being drawn  *)
(* again: one that was redeemed is not in the table.                       *)
OneTime == \A t \in spent : tokens[t] = Nil

(* The promise of ConsoleSlot, kept by the handlers: a key is taken only   *)
(* when nobody has it, and a backend console is open only while its        *)
(* request holds the key (deferred calls close it before the release).     *)
Slot == INSTANCE ConsoleSlot WITH
  holder <- [k \in Key |-> {c \in Conn : InSession(c) /\ conn[c].key = k}],
  live   <- {c \in Conn : conn[c].remote \in {"open", "broken"}}

SlotSpec == Slot!Spec

(* A session whose browser or host has left ends, and its key is free.     *)
SessionEnds ==
  \A c \in Conn :
    (conn[c].pc = "wait" /\ (conn[c].client # "open" \/ conn[c].remote # "open"))
      ~> conn[c].pc = "idle"

(* No goroutine is left behind: once the handler is done waiting, both     *)
(* directions end, although only one of them was waited for.               *)
NoGoroutineLeft == \A c \in Conn : conn[c].pc = "closeClient" ~> Ended(c)

(* "vm already has active vnc session" (internal/service/vnc_service.go:60): *)
(* a VM has at most one session, however its id is spelled.                *)
OneSessionPerVM ==
  \A c, b \in Conn :
    InSession(c) /\ InSession(b) /\ VMOf[conn[c].key] = VMOf[conn[b].key] => c = b
=============================================================================
