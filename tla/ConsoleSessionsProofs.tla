------------------------ MODULE ConsoleSessionsProofs ------------------------
(***************************************************************************)
(* Proofs about ConsoleSessions, for any VMs, spellings, users, tokens and *)
(* websocket requests.                                                     *)
(***************************************************************************)
EXTENDS ConsoleSessions, TLAPS

(* A request in session knows its key, its token and its user.             *)
SessionTyped ==
  \A c \in Conn : InSession(c) =>
    conn[c].key \in Key /\ conn[c].token \in Token /\ conn[c].user \in User

TypeInv == TypeOK /\ SessionTyped

(* The session table, said both ways: the request in session under a key   *)
(* has its token in the table, and an entry has a request in session.      *)
TableInv ==
  /\ \A c \in Conn : InSession(c) => vmSession[conn[c].key] = conn[c].token
  /\ \A k \in Key : vmSession[k] # Nil => \E c \in Conn : InSession(c) /\ conn[c].key = k
  /\ \A b, c \in Conn : InSession(b) /\ InSession(c) /\ conn[b].key = conn[c].key => b = c

(* A backend console is open only between Dial and CloseRemote.            *)
Live(x) == x.remote \in {"open", "broken"}

MayLive(x) == Live(x) => x.pc \in {"upgrade", "wait", "closeClient", "closeRemote"}

LiveInv == \A c \in Conn : MayLive(conn[c])

Inv == TypeInv /\ TableInv /\ LiveInv /\ OneTime

LEMMA NilIsNothing == Nil \notin Token /\ Nil \notin User /\ Nil \notin Key
BY ConsoleAssumption DEF ConsoleAssumption

LEMMA InitInv == Init => Inv
BY DEF Init, Inv, TypeInv, TypeOK, SessionTyped, TableInv, LiveInv, MayLive, Live, OneTime,
       InSession, NoConn, NoProxy, Connection, Pc, Socket, Goroutine, Direction

-----------------------------------------------------------------------------
(* What the steps of one request may do to it. *)

(* A step that leaves the table alone: the request keeps what it holds.    *)
Moves(c) ==
  /\ UNCHANGED <<owner, tokens, vmSession, spent>>
  /\ conn' = [conn EXCEPT ![c] = conn'[c]] /\ conn'[c] \in Connection
  /\ conn'[c].key = conn[c].key /\ conn'[c].token = conn[c].token /\ conn'[c].user = conn[c].user
  /\ conn'[c].pc = "idle" <=> conn[c].pc = "idle"

LEMMA Moved ==
  ASSUME TypeInv, NEW c \in Conn, NEW r \in Connection,
         conn' = [conn EXCEPT ![c] = r],
         UNCHANGED <<owner, tokens, vmSession, spent>>,
         r.key = conn[c].key, r.token = conn[c].token, r.user = conn[c].user,
         r.pc = "idle" <=> conn[c].pc = "idle"
  PROVE  Moves(c) /\ conn'[c] = r
BY DEF TypeInv, TypeOK, Moves

LEMMA HandlerMoves ==
  ASSUME TypeInv, NEW c \in Conn,
         Lookup(c) \/ Dial(c) \/ Upgrade(c) \/ Receive(c) \/ CloseClient(c) \/ CloseRemote(c)
  PROVE  Moves(c)
<1>c. conn[c] \in Connection
  BY DEF TypeInv, TypeOK
<1>1. CASE Lookup(c)
  BY <1>1 DEF Lookup, Step, Pc, TypeInv, TypeOK, Moves, Connection
<1>2. CASE Dial(c)
  <2>1. CASE conn' = [conn EXCEPT ![c] = [@ EXCEPT !.pc = "upgrade", !.remote = "open"]]
    <3> DEFINE r == [conn[c] EXCEPT !.pc = "upgrade", !.remote = "open"]
    <3>1. r \in Connection /\ r.key = conn[c].key /\ r.token = conn[c].token /\ r.user = conn[c].user
          /\ r.pc # "idle"
      BY <1>c DEF Connection, Pc, Socket
    <3>2. conn' = [conn EXCEPT ![c] = r]
      BY <2>1
    <3> QED
      BY <1>2, <3>1, <3>2, Moved DEF Dial
  <2>2. CASE conn' = [conn EXCEPT ![c].pc = "release"]
    BY <1>2, <2>2 DEF Dial, Pc, TypeInv, TypeOK, Moves, Connection
  <2> QED
    BY <1>2, <2>1, <2>2 DEF Dial
<1>3. CASE Upgrade(c)
  <2>1. CASE conn' = [conn EXCEPT ![c] = [@ EXCEPT !.pc = "wait", !.client = "open",
                                            !.proxy = [d \in Direction |-> "copying"]]]
    <3> DEFINE r == [conn[c] EXCEPT !.pc = "wait", !.client = "open",
                                    !.proxy = [d \in Direction |-> "copying"]]
    <3>1. r \in Connection /\ r.key = conn[c].key /\ r.token = conn[c].token /\ r.user = conn[c].user
          /\ r.pc # "idle"
      BY <1>c DEF Connection, Pc, Socket, Goroutine
    <3>2. conn' = [conn EXCEPT ![c] = r]
      BY <2>1
    <3> QED
      BY <1>3, <3>1, <3>2, Moved DEF Upgrade
  <2>2. CASE conn' = [conn EXCEPT ![c].pc = "closeRemote"]
    BY <1>3, <2>2 DEF Upgrade, Pc, TypeInv, TypeOK, Moves, Connection
  <2> QED
    BY <1>3, <2>1, <2>2 DEF Upgrade
<1>4. CASE Receive(c)
  <2> DEFINE r == [conn[c] EXCEPT !.pc = "closeClient", !.errCh = conn[c].errCh - 1]
  <2>e. conn[c].errCh - 1 \in 0..2
    BY <1>4, <1>c DEF Connection, Receive, Finished
  <2>1. r \in Connection /\ r.key = conn[c].key /\ r.token = conn[c].token /\ r.user = conn[c].user
        /\ r.pc # "idle"
    BY <2>e, <1>c DEF Connection, Pc
  <2>2. conn' = [conn EXCEPT ![c] = r]
    BY <1>4 DEF Receive
  <2> HIDE DEF r
  <2> QED
    BY <1>4, <2>1, <2>2, Moved DEF Receive
<1>5. CASE CloseClient(c)
  <2> DEFINE r == [conn[c] EXCEPT !.pc = Deferred("closeClient"), !.client = "closed"]
  <2>1. r \in Connection /\ r.key = conn[c].key /\ r.token = conn[c].token /\ r.user = conn[c].user
        /\ r.pc # "idle"
    BY <1>c DEF Connection, Pc, Socket, Deferred
  <2>2. conn' = [conn EXCEPT ![c] = r]
    BY <1>5 DEF CloseClient
  <2> QED
    BY <1>5, <2>1, <2>2, Moved DEF CloseClient
<1>6. CASE CloseRemote(c)
  <2> DEFINE r == [conn[c] EXCEPT !.pc = Deferred("closeRemote"), !.remote = "closed"]
  <2>1. r \in Connection /\ r.key = conn[c].key /\ r.token = conn[c].token /\ r.user = conn[c].user
        /\ r.pc # "idle"
    BY <1>c DEF Connection, Pc, Socket, Deferred
  <2>2. conn' = [conn EXCEPT ![c] = r]
    BY <1>6 DEF CloseRemote
  <2> QED
    BY <1>6, <2>1, <2>2, Moved DEF CloseRemote
<1> QED
  BY <1>1, <1>2, <1>3, <1>4, <1>5, <1>6

LEMMA CopierMoves ==
  ASSUME TypeInv, NEW c \in Conn, NEW d \in Direction,
         ReadFails(c, d) \/ WriteFails(c, d) \/ Send(c, d) \/ PeerLeaves(c)
  PROVE  Moves(c) /\ conn'[c].pc = conn[c].pc /\ (Live(conn[c])' <=> Live(conn[c]))
<1>c. conn[c] \in Connection
  BY DEF TypeInv, TypeOK
<1>1. CASE ReadFails(c, d) \/ WriteFails(c, d)
  <2> DEFINE r == [conn[c] EXCEPT !.proxy[d] = "sending"]
  <2>1. r \in Connection /\ r.key = conn[c].key /\ r.token = conn[c].token /\ r.user = conn[c].user
        /\ r.pc = conn[c].pc
    BY <1>c DEF Connection, Goroutine
  <2>2. conn' = [conn EXCEPT ![c] = r]
    BY <1>1 DEF ReadFails, WriteFails
  <2>u. UNCHANGED <<owner, tokens, vmSession, spent>>
    BY <1>1 DEF ReadFails, WriteFails
  <2>l. Live(r) <=> Live(conn[c])
    BY <1>c DEF Live, Connection, Socket
  <2> HIDE DEF r
  <2>m. Moves(c) /\ conn'[c] = r
    BY <2>u, <2>1, <2>2, Moved
  <2> QED
    BY <2>m, <2>l, <2>1 DEF Live
<1>2. CASE Send(c, d)
  <2> DEFINE r == [conn[c] EXCEPT !.proxy[d] = "done", !.errCh = conn[c].errCh + 1]
  <2>e. conn[c].errCh + 1 \in 0..2
    BY <1>2, <1>c DEF Connection, Send
  <2>1. r \in Connection /\ r.key = conn[c].key /\ r.token = conn[c].token /\ r.user = conn[c].user
        /\ r.pc = conn[c].pc
    BY <2>e, <1>c DEF Connection, Goroutine
  <2>2. conn' = [conn EXCEPT ![c] = r]
    BY <1>2 DEF Send
  <2>u. UNCHANGED <<owner, tokens, vmSession, spent>>
    BY <1>2 DEF Send
  <2>l. Live(r) <=> Live(conn[c])
    BY <1>c DEF Live, Connection, Socket
  <2> HIDE DEF r
  <2>m. Moves(c) /\ conn'[c] = r
    BY <2>u, <2>1, <2>2, Moved
  <2> QED
    BY <2>m, <2>l, <2>1 DEF Live
<1>3. CASE PeerLeaves(c)
  <2>1. PICK s \in {"client", "remote"} :
            conn[c][s] = "open" /\ conn' = [conn EXCEPT ![c][s] = "broken"]
    BY <1>3 DEF PeerLeaves
  <2> DEFINE r == [conn[c] EXCEPT ![s] = "broken"]
  <2>2. r \in Connection /\ r.key = conn[c].key /\ r.token = conn[c].token /\ r.user = conn[c].user
        /\ r.pc = conn[c].pc
    BY <1>c DEF Connection, Socket
  <2>3. conn' = [conn EXCEPT ![c] = r]
    BY <2>1
  <2>u. UNCHANGED <<owner, tokens, vmSession, spent>>
    BY <1>3 DEF PeerLeaves
  <2>l. Live(r) <=> Live(conn[c])
    BY <1>c, <2>1 DEF Live, Connection, Socket
  <2> HIDE DEF r
  <2>m. Moves(c) /\ conn'[c] = r
    BY <2>u, <2>2, <2>3, Moved
  <2> QED
    BY <2>m, <2>l, <2>2 DEF Live
<1> QED
  BY <1>1, <1>2, <1>3

LEMMA MovesInv ==
  ASSUME Inv, NEW c \in Conn, Moves(c), MayLive(conn[c])'
  PROVE  Inv'
<1>1. \A b \in Conn \ {c} : conn'[b] = conn[b]
  BY DEF Inv, TypeInv, TypeOK, Moves
<1>2. (TypeInv /\ TableInv /\ OneTime)'
  BY DEF Inv, TypeInv, TypeOK, SessionTyped, TableInv, InSession, Moves, OneTime
<1>3. LiveInv'
  BY <1>1 DEF Inv, LiveInv, MayLive, Live
<1> QED
  BY <1>2, <1>3 DEF Inv

LEMMA HandlerLive ==
  ASSUME Inv, NEW c \in Conn,
         Lookup(c) \/ Dial(c) \/ Upgrade(c) \/ Receive(c) \/ CloseClient(c) \/ CloseRemote(c)
  PROVE  MayLive(conn[c])'
<1>c. conn \in [Conn -> Connection] /\ MayLive(conn[c])
  BY DEF Inv, TypeInv, TypeOK, LiveInv
<1>1. CASE Lookup(c)
  BY <1>1, <1>c DEF Lookup, Step, MayLive, Live, Connection
<1>2. CASE Dial(c)
  <2>1. CASE conn' = [conn EXCEPT ![c] = [@ EXCEPT !.pc = "upgrade", !.remote = "open"]]
    <3>1. conn'[c].pc = "upgrade"
      BY <2>1, <1>c DEF Connection
    <3> QED
      BY <3>1 DEF MayLive
  <2>2. CASE conn' = [conn EXCEPT ![c].pc = "release"]
    BY <1>2, <1>c, <2>2 DEF Dial, MayLive, Live, Connection
  <2> QED
    BY <1>2, <2>1, <2>2 DEF Dial
<1>3. CASE Upgrade(c)
  BY <1>3, <1>c DEF Upgrade, MayLive, Live, Connection
<1>4. CASE Receive(c)
  BY <1>4, <1>c DEF Receive, MayLive, Live, Connection
<1>5. CASE CloseClient(c)
  BY <1>5, <1>c DEF CloseClient, Deferred, MayLive, Live, Connection
<1>6. CASE CloseRemote(c)
  BY <1>6, <1>c DEF CloseRemote, Deferred, MayLive, Live, Connection
<1> QED
  BY <1>1, <1>2, <1>3, <1>4, <1>5, <1>6

-----------------------------------------------------------------------------
(* The steps that touch the tables. *)

LEMMA TokensInv ==
  ASSUME Inv,
         \/ \E t \in Token : Expire(t) \/ \E k \in Key, u \in User : Issue(u, k, t)
         \/ \E v \in VM, u \in User : Reassign(v, u)
  PROVE  Inv' /\ UNCHANGED conn
<1> USE NilIsNothing DEF Inv, TypeInv, TypeOK, Entry
<1>0. ASSUME UNCHANGED <<vmSession, conn>>, TypeOK', OneTime'
      PROVE  Inv'
  BY <1>0 DEF SessionTyped, TableInv, LiveInv, MayLive, Live, InSession
<1>1. ASSUME NEW t \in Token, Expire(t)
      PROVE  Inv' /\ UNCHANGED conn
  BY <1>0, <1>1 DEF Expire, OneTime
<1>2. ASSUME NEW t \in Token, NEW k \in Key, NEW u \in User, Issue(u, k, t)
      PROVE  Inv' /\ UNCHANGED conn
  BY <1>0, <1>2 DEF Issue, OneTime
<1>3. ASSUME NEW v \in VM, NEW u \in User, Reassign(v, u)
      PROVE  Inv' /\ UNCHANGED conn
  BY <1>0, <1>3 DEF Reassign, OneTime
<1> QED
  BY <1>1, <1>2, <1>3

(* A redeemed token: the key was free, and the request holds it now.       *)
Takes(c, t, k) ==
  /\ vmSession[k] = Nil /\ vmSession' = [vmSession EXCEPT ![k] = t]
  /\ conn' = [conn EXCEPT ![c] = conn'[c]]
  /\ conn'[c] \in Connection /\ conn'[c].user \in User
  /\ conn'[c].pc = "lookup" /\ conn'[c].key = k /\ conn'[c].token = t /\ conn'[c].remote = "none"

LEMMA ConsumeTakes ==
  ASSUME Inv, NEW c \in Conn, NEW t \in Token, NEW k \in Key, Consume(c, t, k)
  PROVE  /\ (TypeOK /\ OneTime)' /\ conn[c].pc = "idle"
         /\ Takes(c, t, k) \/ UNCHANGED <<vmSession, conn>>
<1> USE NilIsNothing DEF Inv, TypeInv, TypeOK
<1>0. conn[c].pc = "idle" /\ tokens[t] \in Entry /\ tokens' = [tokens EXCEPT ![t] = Nil]
      /\ owner' = owner
  BY DEF Consume, Ended, AfterUse
<1>1. CASE Admits(tokens[t], k)
  <2> DEFINE r == [NoConn EXCEPT !.pc = "lookup", !.key = k, !.token = t, !.user = tokens[t].user]
  <2>c. NoConn \in Connection /\ NoConn.remote = "none"
    BY DEF NoConn, NoProxy, Connection, Pc, Socket, Goroutine
  <2>1. r \in Connection /\ r.user \in User
        /\ r.pc = "lookup" /\ r.key = k /\ r.token = t /\ r.remote = "none"
    BY <1>0, <2>c DEF Entry, Connection, Pc
  <2>2. conn' = [conn EXCEPT ![c] = r] /\ vmSession' = [vmSession EXCEPT ![k] = t]
        /\ spent' = spent \cup {t}
    BY <1>1 DEF Consume
  <2> HIDE DEF r
  <2>3. Takes(c, t, k)
    BY <1>1, <2>1, <2>2 DEF Takes, Admits
  <2>4. TypeOK' /\ OneTime'
    BY <1>0, <2>1, <2>2 DEF OneTime
  <2> QED
    BY <1>0, <2>3, <2>4
<1>2. CASE ~Admits(tokens[t], k)
  BY <1>0, <1>2 DEF Consume, OneTime
<1> QED
  BY <1>1, <1>2

LEMMA ConsumeInv ==
  ASSUME Inv, NEW c \in Conn, NEW t \in Token, NEW k \in Key, Consume(c, t, k)
  PROVE  Inv'
<1>0. /\ (TypeOK /\ OneTime)' /\ conn[c].pc = "idle"
      /\ Takes(c, t, k) \/ UNCHANGED <<vmSession, conn>>
  BY ConsumeTakes
<1>1. CASE UNCHANGED <<vmSession, conn>>
  BY <1>0, <1>1 DEF Inv, TypeInv, SessionTyped, TableInv, LiveInv, MayLive, Live, InSession
<1>2. CASE Takes(c, t, k)
  <2>1. /\ \A b \in Conn \ {c} : conn'[b] = conn[b]
        /\ \A j \in Key : vmSession'[j] = IF j = k THEN t ELSE vmSession[j]
    BY <1>2 DEF Inv, TypeInv, TypeOK, Takes
  <2>2. \A b \in Conn : InSession(b) => conn[b].key # k /\ conn[b].key \in Key
    BY <1>2, NilIsNothing DEF Inv, TypeInv, SessionTyped, TableInv, Takes
  <2>3. SessionTyped' /\ LiveInv'
    BY <1>2, <2>1 DEF Inv, TypeInv, SessionTyped, LiveInv, MayLive, Live, InSession, Takes
  <2>4. TableInv'
    <3>1. \A b \in Conn : InSession(b)' => vmSession'[conn'[b].key] = conn'[b].token
      BY <1>2, <2>1, <2>2 DEF Inv, TableInv, InSession, Takes
    <3>2. \A j \in Key : vmSession'[j] # Nil => \E b \in Conn : InSession(b)' /\ conn'[b].key = j
      BY <1>0, <1>2, <2>1 DEF Inv, TableInv, InSession, Takes
    <3>3. \A a, b \in Conn : InSession(a)' /\ InSession(b)' /\ conn'[a].key = conn'[b].key => a = b
      BY <1>2, <2>1, <2>2 DEF Inv, TableInv, InSession, Takes
    <3> QED
      BY <3>1, <3>2, <3>3 DEF TableInv
  <2> QED
    BY <1>0, <2>3, <2>4 DEF Inv, TypeInv
<1> QED
  BY <1>0, <1>1, <1>2

(* A released key: nobody else was in session under it.                    *)
Gives(c) ==
  /\ conn[c].pc = "release" /\ conn[c].key \in Key
  /\ vmSession' = [vmSession EXCEPT ![conn[c].key] = Nil]
  /\ conn' = [conn EXCEPT ![c] = conn'[c]]
  /\ conn'[c] \in Connection /\ conn'[c].pc = "idle" /\ conn'[c].remote = conn[c].remote

LEMMA ReleaseGives ==
  ASSUME Inv, NEW c \in Conn, Release(c)
  PROVE  Gives(c) /\ (TypeOK /\ OneTime)'
<1> USE DEF Inv, TypeInv, TypeOK
<1>0. conn[c] \in Connection /\ conn[c].key \in Key
  BY DEF Release, SessionTyped, InSession
<1> DEFINE r == [conn[c] EXCEPT !.pc = Deferred("release"), !.token = Nil]
<1>1. r \in Connection /\ r.pc = "idle" /\ r.remote = conn[c].remote
  BY <1>0 DEF Connection, Pc, Deferred
<1>2. conn' = [conn EXCEPT ![c] = r]
  BY DEF Release
<1> HIDE DEF r
<1>3. Gives(c)
  BY <1>0, <1>1, <1>2 DEF Release, Gives
<1> QED
  BY <1>0, <1>1, <1>2, <1>3 DEF Release, OneTime

LEMMA ReleaseInv ==
  ASSUME Inv, NEW c \in Conn, Release(c)
  PROVE  Inv'
<1>0. Gives(c) /\ (TypeOK /\ OneTime)'
  BY ReleaseGives
<1>1. /\ \A b \in Conn \ {c} : conn'[b] = conn[b]
      /\ \A j \in Key : vmSession'[j] = IF j = conn[c].key THEN Nil ELSE vmSession[j]
  BY <1>0 DEF Inv, TypeInv, TypeOK, Gives
<1>2. \A b \in Conn \ {c} : InSession(b) => conn[b].key # conn[c].key /\ conn[b].key \in Key
  BY <1>0 DEF Inv, TypeInv, SessionTyped, TableInv, InSession, Gives
<1>3. SessionTyped' /\ LiveInv'
  BY <1>0, <1>1 DEF Inv, TypeInv, SessionTyped, LiveInv, MayLive, Live, InSession, Gives
<1>4. TableInv'
  BY <1>0, <1>1, <1>2 DEF Inv, TableInv, InSession, Gives
<1> QED
  BY <1>0, <1>3, <1>4 DEF Inv, TypeInv

-----------------------------------------------------------------------------
(* The invariant of every step, and what follows from it. *)

(* Every step of the service is one of these.                              *)
LEMMA NextCases ==
  ASSUME Next
  PROVE  \/ \/ \E t \in Token : Expire(t) \/ \E k \in Key, u \in User : Issue(u, k, t)
            \/ \E v \in VM, u \in User : Reassign(v, u)
         \/ \E c \in Conn, t \in Token, k \in Key : Consume(c, t, k)
         \/ \E c \in Conn : Release(c)
         \/ \E c \in Conn : \/ Lookup(c) \/ Dial(c) \/ Upgrade(c)
                            \/ Receive(c) \/ CloseClient(c) \/ CloseRemote(c)
         \/ \E c \in Conn, d \in Direction :
              ReadFails(c, d) \/ WriteFails(c, d) \/ Send(c, d) \/ PeerLeaves(c)
<1>1. Direction # {}
  BY DEF Direction
<1> QED
  BY <1>1 DEF Next, Handler, Copier

LEMMA NextInv == Inv /\ [Next]_vars => Inv'
<1> SUFFICES ASSUME Inv, [Next]_vars PROVE Inv'
  OBVIOUS
<1>1. CASE \/ \E t \in Token : Expire(t) \/ \E k \in Key, u \in User : Issue(u, k, t)
           \/ \E v \in VM, u \in User : Reassign(v, u)
  BY <1>1, TokensInv
<1>2. ASSUME NEW c \in Conn, NEW t \in Token, NEW k \in Key, Consume(c, t, k)
      PROVE  Inv'
  BY <1>2, ConsumeInv
<1>3. ASSUME NEW c \in Conn, Release(c)
      PROVE  Inv'
  BY <1>3, ReleaseInv
<1>4. ASSUME NEW c \in Conn,
             Lookup(c) \/ Dial(c) \/ Upgrade(c) \/ Receive(c) \/ CloseClient(c) \/ CloseRemote(c)
      PROVE  Inv'
  <2>1. Moves(c)
    BY <1>4, HandlerMoves DEF Inv
  <2>2. MayLive(conn[c])'
    BY <1>4, HandlerLive
  <2> QED
    BY <2>1, <2>2, MovesInv
<1>5. ASSUME NEW c \in Conn, NEW d \in Direction,
             ReadFails(c, d) \/ WriteFails(c, d) \/ Send(c, d) \/ PeerLeaves(c)
      PROVE  Inv'
  <2>1. Moves(c) /\ conn'[c].pc = conn[c].pc /\ (Live(conn[c])' <=> Live(conn[c]))
    BY <1>5, CopierMoves DEF Inv
  <2>2. MayLive(conn[c])'
    BY <2>1 DEF Inv, LiveInv, MayLive
  <2> QED
    BY <2>1, <2>2, MovesInv
<1>6. CASE UNCHANGED vars
  BY <1>6 DEF vars, Inv, TypeInv, TypeOK, SessionTyped, TableInv, LiveInv, MayLive, Live, OneTime,
              InSession
<1> QED
  BY <1>1, <1>2, <1>3, <1>4, <1>5, <1>6, NextCases

(* The inductive invariant holds in every run of the service and its proxies. *)
THEOREM Invariance == Spec => []Inv
BY InitInv, NextInv, PTL DEF Spec

(* Whatever handlers, goroutines and peers do, the tables and the channel  *)
(* of each proxy (its capacity is 2) keep their types.                     *)
THEOREM TypeCorrect == Spec => []TypeOK
<1>1. Inv => TypeOK
  BY DEF Inv, TypeInv
<1> QED
  BY Invariance, <1>1, PTL

(* ReleaseSession deletes by key, but it can only delete the caller's own  *)
(* session; a key is locked exactly while a request is in session.         *)
THEOREM TableIsExact == Spec => []SessionTableExact
<1>1. Inv => SessionTableExact
  <2> SUFFICES ASSUME Inv, NEW k \in Key
               PROVE  IF vmSession[k] = Nil
                      THEN \A c \in Conn : InSession(c) => conn[c].key # k
                      ELSE \E c \in Conn :
                             /\ InSession(c) /\ conn[c].key = k /\ conn[c].token = vmSession[k]
                             /\ \A b \in Conn \ {c} : InSession(b) => conn[b].key # k
    BY DEF SessionTableExact
  <2> QED
    BY NilIsNothing DEF Inv, TypeInv, SessionTyped, TableInv
<1> QED
  BY Invariance, <1>1, PTL

(* A token is redeemed at most once.                                       *)
THEOREM TokensAreOneTime == Spec => []OneTime
<1>1. Inv => OneTime
  BY DEF Inv
<1> QED
  BY Invariance, <1>1, PTL

(* When only one spelling of a VM's id ever comes in (a client that sends  *)
(* back the id it was given), the table by spelling is a table by VM: a VM *)
(* has at most one session.                                                *)
THEOREM OneSessionIfOneSpelling ==
  ASSUME \A j, k \in Key : VMOf[j] = VMOf[k] => j = k
  PROVE  Spec => []OneSessionPerVM
<1>1. Inv => OneSessionPerVM
  BY DEF Inv, TypeInv, SessionTyped, TableInv, OneSessionPerVM
<1> QED
  BY Invariance, <1>1, PTL

-----------------------------------------------------------------------------
(* The handlers implement ConsoleSlot. *)

Holder(k) == {c \in Conn : InSession(c) /\ conn[c].key = k}

Lives == {c \in Conn : conn[c].remote \in {"open", "broken"}}

LEMMA InitSlot == Init => Slot!Init
BY DEF Init, Slot!Init, InSession, NoConn

(* A step that leaves the session table alone opens or closes the backend  *)
(* console of a request in session, or changes nothing the slot shows.     *)
LEMMA MovesSlot ==
  ASSUME Inv, NEW c \in Conn, Moves(c), InSession(c) \/ (Live(conn[c])' <=> Live(conn[c]))
  PROVE  [Slot!Next]_(Slot!slotVars)
<1>1. \A b \in Conn \ {c} : conn'[b] = conn[b]
  BY DEF Inv, TypeInv, TypeOK, Moves
<1>2. \A b \in Conn : (InSession(b)' <=> InSession(b)) /\ conn'[b].key = conn[b].key
  BY <1>1 DEF Moves, InSession
<1>3. [k \in Key |-> {b \in Conn : InSession(b) /\ conn[b].key = k}]'
        = [k \in Key |-> {b \in Conn : InSession(b) /\ conn[b].key = k}]
  <2>1. \A k \in Key : Holder(k)' = Holder(k)
    BY <1>2 DEF Holder
  <2> QED
    BY <2>1 DEF Holder
<1>4. CASE Live(conn[c])' <=> Live(conn[c])
  <2>1. Lives' = Lives
    BY <1>1, <1>4 DEF Lives, Live
  <2> QED
    BY <1>3, <2>1 DEF Lives, Slot!slotVars
<1>5. CASE InSession(c)
  <2>1. Lives' = Lives \cup {c} \/ Lives' = Lives \ {c}
    BY <1>1 DEF Lives
  <2>2. Slot!Holds(c)
    BY <1>5 DEF Slot!Holds, Inv, TypeInv, SessionTyped
  <2>3. Slot!Open(c) \/ Slot!Close(c)
    BY <1>3, <2>1, <2>2 DEF Lives, Slot!Open, Slot!Close
  <2> QED
    BY <2>3 DEF Slot!Next
<1> QED
  BY <1>4, <1>5

LEMMA ConsumeSlot ==
  ASSUME Inv, NEW c \in Conn, NEW t \in Token, NEW k \in Key, Consume(c, t, k)
  PROVE  [Slot!Next]_(Slot!slotVars)
<1>0. conn[c].pc = "idle" /\ (Takes(c, t, k) \/ UNCHANGED <<vmSession, conn>>)
  BY ConsumeTakes
<1>1. CASE UNCHANGED <<vmSession, conn>>
  BY <1>1 DEF Slot!slotVars, InSession
<1>2. CASE Takes(c, t, k)
  <2>1. \A b \in Conn \ {c} : conn'[b] = conn[b]
    BY <1>2 DEF Inv, TypeInv, TypeOK, Takes
  <2>2. \A b \in Conn : InSession(b) => conn[b].key # k
    BY <1>2, NilIsNothing DEF Inv, TypeInv, SessionTyped, TableInv, Takes
  <2>3. \A j \in Key : Holder(j)' = IF j = k THEN {c} ELSE Holder(j)
    BY <1>0, <1>2, <2>1, <2>2 DEF Holder, InSession, Takes
  <2>4. [j \in Key |-> {b \in Conn : InSession(b) /\ conn[b].key = j}]'
          = [[j \in Key |-> {b \in Conn : InSession(b) /\ conn[b].key = j}] EXCEPT ![k] = {c}]
    BY <2>3 DEF Holder
  <2>5. Lives' = Lives
    BY <1>0, <1>2, <2>1 DEF Inv, LiveInv, MayLive, Live, Lives, Takes
  <2>6. Holder(k) = {} /\ ~Slot!Holds(c)
    BY <1>0, <2>2 DEF Holder, Slot!Holds, InSession
  <2>7. Slot!Acquire(c, k)
    BY <2>4, <2>5, <2>6 DEF Slot!Acquire, Holder, Lives
  <2> QED
    BY <2>7 DEF Slot!Next
<1> QED
  BY <1>0, <1>1, <1>2

LEMMA ReleaseSlot ==
  ASSUME Inv, NEW c \in Conn, Release(c)
  PROVE  [Slot!Next]_(Slot!slotVars)
<1>0. PICK k \in Key : k = conn[c].key /\ Gives(c)
  BY ReleaseGives DEF Gives
<1>1. \A b \in Conn \ {c} : conn'[b] = conn[b]
  BY <1>0 DEF Inv, TypeInv, TypeOK, Gives
<1>2. \A b \in Conn \ {c} : InSession(b) => conn[b].key # k
  BY <1>0 DEF Inv, TableInv, InSession, Gives
<1>3. \A j \in Key : Holder(j)' = IF j = k THEN {} ELSE Holder(j)
  BY <1>0, <1>1, <1>2 DEF Holder, InSession, Gives
<1>4. [j \in Key |-> {b \in Conn : InSession(b) /\ conn[b].key = j}]'
        = [[j \in Key |-> {b \in Conn : InSession(b) /\ conn[b].key = j}] EXCEPT ![k] = {}]
  BY <1>3 DEF Holder
<1>5. Lives' = Lives /\ c \notin Lives
  BY <1>0, <1>1 DEF Inv, LiveInv, MayLive, Live, Lives, Gives
<1>6. Holder(k) = {c}
  BY <1>0, <1>2 DEF Holder, InSession, Gives
<1>7. Slot!Release(c, k)
  BY <1>0, <1>4, <1>5, <1>6 DEF Slot!Release, Holder, Lives
<1> QED
  BY <1>7 DEF Slot!Next

LEMMA NextSlot == Inv /\ [Next]_vars => [Slot!Next]_(Slot!slotVars)
<1> SUFFICES ASSUME Inv, [Next]_vars PROVE [Slot!Next]_(Slot!slotVars)
  OBVIOUS
<1>0. ASSUME UNCHANGED conn
      PROVE  [Slot!Next]_(Slot!slotVars)
  BY <1>0 DEF Slot!slotVars, InSession
<1>1. CASE \/ \E t \in Token : Expire(t) \/ \E k \in Key, u \in User : Issue(u, k, t)
           \/ \E v \in VM, u \in User : Reassign(v, u)
  BY <1>0, <1>1, TokensInv
<1>2. ASSUME NEW c \in Conn, NEW t \in Token, NEW k \in Key, Consume(c, t, k)
      PROVE  [Slot!Next]_(Slot!slotVars)
  BY <1>2, ConsumeSlot
<1>3. ASSUME NEW c \in Conn, Release(c)
      PROVE  [Slot!Next]_(Slot!slotVars)
  BY <1>3, ReleaseSlot
<1>4. ASSUME NEW c \in Conn,
             Lookup(c) \/ Dial(c) \/ Upgrade(c) \/ Receive(c) \/ CloseClient(c) \/ CloseRemote(c)
      PROVE  [Slot!Next]_(Slot!slotVars)
  <2>1. InSession(c)
    BY <1>4 DEF InSession, Lookup, Step, Dial, Upgrade, Receive, CloseClient, CloseRemote
  <2>2. Moves(c)
    BY <1>4, HandlerMoves DEF Inv
  <2> QED
    BY <2>1, <2>2, MovesSlot
<1>5. ASSUME NEW c \in Conn, NEW d \in Direction,
             ReadFails(c, d) \/ WriteFails(c, d) \/ Send(c, d) \/ PeerLeaves(c)
      PROVE  [Slot!Next]_(Slot!slotVars)
  <2>1. Moves(c) /\ (Live(conn[c])' <=> Live(conn[c]))
    BY <1>5, CopierMoves DEF Inv
  <2> QED
    BY <2>1, MovesSlot
<1>6. CASE UNCHANGED vars
  BY <1>0, <1>6 DEF vars
<1> QED
  BY <1>1, <1>2, <1>3, <1>4, <1>5, <1>6, NextCases

(* The service and its proxies implement ConsoleSlot: one request at a     *)
(* time under a key, and no backend console open past the release of it.   *)
THEOREM ImplementsSlot == Spec => SlotSpec
BY Invariance, InitSlot, NextSlot, PTL DEF Spec, SlotSpec, Slot!Spec

-----------------------------------------------------------------------------
(* The proxy's goroutines. *)

(* An error in the channel was sent by a goroutine that is done, and the   *)
(* connections are open only while the handler's defers stand.             *)
Drains(x) ==
  /\ x.pc \in {"lookup", "dial", "upgrade"} => x.proxy = NoProxy /\ x.errCh = 0
  /\ x.errCh > 0 => \E d \in Direction : x.proxy[d] = "done"
  /\ x.errCh = 2 => \A d \in Direction : x.proxy[d] = "done"
  /\ x.client = "open" => x.pc \in {"wait", "closeClient"}
  /\ x.remote = "open" => x.pc \in {"upgrade", "wait", "closeClient", "closeRemote"}

DrainInv == \A c \in Conn : Drains(conn[c])

LEMMA OtherConns ==
  ASSUME TypeInv, DrainInv, NEW c \in Conn, conn' = [conn EXCEPT ![c] = conn'[c]], Drains(conn'[c])
  PROVE  DrainInv'
BY DEF TypeInv, TypeOK, DrainInv, Drains

LEMMA HandlerDrains ==
  ASSUME TypeInv, NEW c \in Conn, Handler(c), Drains(conn[c])
  PROVE  conn' = [conn EXCEPT ![c] = conn'[c]] /\ Drains(conn'[c])
<1>0. conn[c] \in Connection /\ conn \in [Conn -> Connection]
  BY DEF TypeInv, TypeOK
<1> USE DEF Drains, Connection
<1>1. CASE Lookup(c)
  BY <1>0, <1>1 DEF Lookup, Step
<1>a. ASSUME NEW x \in Connection, conn' = [conn EXCEPT ![c] = x], Drains(x)
      PROVE  conn' = [conn EXCEPT ![c] = conn'[c]] /\ Drains(conn'[c])
  <2>1. conn'[c] = x
    BY <1>0, <1>a
  <2> QED
    BY <1>a, <2>1
<1>2. CASE Dial(c)
  <2> DEFINE x == [conn[c] EXCEPT !.pc = "upgrade", !.remote = "open"]
             y == [conn[c] EXCEPT !.pc = "release"]
  <2>1. conn' = [conn EXCEPT ![c] = x] \/ conn' = [conn EXCEPT ![c] = y]
    BY <1>2 DEF Dial
  <2>2. conn[c].pc = "dial"
    BY <1>2 DEF Dial
  <2>3. x \in Connection /\ x.errCh = conn[c].errCh /\ x.proxy = conn[c].proxy
        /\ x.client = conn[c].client /\ x.pc = "upgrade"
    BY <1>0 DEF Pc, Socket
  <2>4. y \in Connection /\ y.errCh = conn[c].errCh /\ y.proxy = conn[c].proxy
        /\ y.client = conn[c].client /\ y.remote = conn[c].remote /\ y.pc = "release"
    BY <1>0 DEF Pc
  <2>5. Drains(x) /\ Drains(y)
    <3> HIDE DEF x, y
    <3> QED
      BY <2>2, <2>3, <2>4
  <2> QED
    BY <1>a, <2>1, <2>3, <2>4, <2>5
<1>3. CASE Upgrade(c)
  <2> DEFINE x == [conn[c] EXCEPT !.pc = "wait", !.client = "open",
                                  !.proxy = [d \in Direction |-> "copying"]]
             y == [conn[c] EXCEPT !.pc = "closeRemote"]
  <2>1. conn' = [conn EXCEPT ![c] = x] \/ conn' = [conn EXCEPT ![c] = y]
    BY <1>3 DEF Upgrade
  <2>2. conn[c].pc = "upgrade" /\ conn[c].proxy = NoProxy /\ conn[c].errCh = 0
    BY <1>3 DEF Upgrade
  <2>3. x \in Connection /\ x.errCh = 0 /\ x.pc = "wait"
    BY <1>0, <2>2 DEF Pc, Socket, Goroutine
  <2>4. y \in Connection /\ y.errCh = 0 /\ y.pc = "closeRemote" /\ y.client = conn[c].client
    BY <1>0, <2>2 DEF Pc
  <2>5. Drains(x) /\ Drains(y)
    <3> HIDE DEF x, y
    <3> QED
      BY <2>2, <2>3, <2>4
  <2> QED
    BY <1>a, <2>1, <2>3, <2>4, <2>5
<1>4. CASE Receive(c)
  <2> DEFINE x == [conn[c] EXCEPT !.pc = "closeClient", !.errCh = conn[c].errCh - 1]
  <2>1. conn' = [conn EXCEPT ![c] = x]
    BY <1>4 DEF Receive
  <2>2. conn[c].errCh \in 1..2
    BY <1>0, <1>4 DEF Receive, Finished
  <2>3. conn[c].errCh - 1 \in 0..2 /\ conn[c].errCh - 1 < 2
    BY <2>2
  <2>4. x \in Connection /\ x.errCh < 2 /\ x.proxy = conn[c].proxy /\ x.pc = "closeClient"
    BY <1>0, <2>3 DEF Pc
  <2>5. Drains(x)
    <3> HIDE DEF x
    <3> QED
      BY <2>2, <2>4
  <2> QED
    BY <1>a, <2>1, <2>4, <2>5
<1>5. CASE CloseClient(c) \/ CloseRemote(c)
  <2> DEFINE x == [conn[c] EXCEPT !.pc = "closeRemote", !.client = "closed"]
             y == [conn[c] EXCEPT !.pc = "release", !.remote = "closed"]
  <2>1. \/ conn[c].pc = "closeClient" /\ conn' = [conn EXCEPT ![c] = x]
        \/ conn[c].pc = "closeRemote" /\ conn' = [conn EXCEPT ![c] = y]
    BY <1>5 DEF CloseClient, CloseRemote, Deferred
  <2>2. x \in Connection /\ x.errCh = conn[c].errCh /\ x.proxy = conn[c].proxy
        /\ x.client = "closed" /\ x.remote = conn[c].remote /\ x.pc = "closeRemote"
    BY <1>0 DEF Pc, Socket
  <2>3. y \in Connection /\ y.errCh = conn[c].errCh /\ y.proxy = conn[c].proxy
        /\ y.client = conn[c].client /\ y.remote = "closed" /\ y.pc = "release"
    BY <1>0 DEF Pc, Socket
  <2>4. (conn[c].pc = "closeClient" => Drains(x)) /\ (conn[c].pc = "closeRemote" => Drains(y))
    <3> HIDE DEF x, y
    <3> QED
      BY <2>2, <2>3
  <2> QED
    BY <1>a, <2>1, <2>2, <2>3, <2>4
<1>6. CASE Release(c)
  BY <1>0, <1>6 DEF Release, Deferred
<1> QED
  BY <1>1, <1>2, <1>3, <1>4, <1>5, <1>6 DEF Handler

LEMMA CopierDrains ==
  ASSUME TypeInv, NEW c \in Conn, NEW d \in Direction, Drains(conn[c]),
         ReadFails(c, d) \/ WriteFails(c, d) \/ Send(c, d) \/ PeerLeaves(c)
  PROVE  conn' = [conn EXCEPT ![c] = conn'[c]] /\ Drains(conn'[c])
<1>0. conn[c] \in Connection /\ conn \in [Conn -> Connection]
  BY DEF TypeInv, TypeOK
<1> USE DEF Drains, Connection, Direction
<1>1. CASE ReadFails(c, d) \/ WriteFails(c, d)
  BY <1>0, <1>1 DEF ReadFails, WriteFails, NoProxy
<1>2. CASE Send(c, d)
  BY <1>0, <1>2 DEF Send, NoProxy
<1>3. CASE PeerLeaves(c)
  BY <1>0, <1>3 DEF PeerLeaves
<1> QED
  BY <1>1, <1>2, <1>3

LEMMA StepDrains == Inv /\ DrainInv /\ [Next]_vars => DrainInv'
<1> SUFFICES ASSUME Inv, DrainInv, [Next]_vars PROVE DrainInv'
  OBVIOUS
<1>1. CASE conn' = conn
  BY <1>1 DEF DrainInv, Drains
<1>2. ASSUME NEW c \in Conn, NEW t \in Token, NEW k \in Key, Consume(c, t, k), conn' # conn
      PROVE  DrainInv'
  <2>1. conn' = [conn EXCEPT ![c] = [NoConn EXCEPT !.pc = "lookup", !.key = k,
                                           !.token = t, !.user = tokens[t].user]]
    BY <1>2 DEF Consume
  <2>2. Drains(conn'[c])
    BY <2>1 DEF Drains, NoConn, Inv, TypeInv, TypeOK
  <2>3. conn' = [conn EXCEPT ![c] = conn'[c]]
    BY <2>1 DEF Inv, TypeInv, TypeOK
  <2> QED
    BY <2>2, <2>3, OtherConns DEF Inv
<1>3. ASSUME NEW c \in Conn, Handler(c)
      PROVE  DrainInv'
  BY <1>3, HandlerDrains, OtherConns DEF Inv, DrainInv
<1>4. ASSUME NEW c \in Conn, NEW d \in Direction,
             ReadFails(c, d) \/ WriteFails(c, d) \/ Send(c, d) \/ PeerLeaves(c)
      PROVE  DrainInv'
  BY <1>4, CopierDrains, OtherConns DEF Inv, DrainInv
<1>5. CASE \/ \E t \in Token : Expire(t) \/ \E k \in Key, u \in User : Issue(u, k, t)
           \/ \E v \in VM, u \in User : Reassign(v, u)
           \/ UNCHANGED vars
  BY <1>1, <1>5 DEF Expire, Issue, Reassign, vars
<1> QED
  BY <1>1, <1>2, <1>3, <1>4, <1>5, NextCases DEF Handler

(* What NoGoroutineLeft needs: once the deferred calls have closed the     *)
(* connections, a goroutine still copying reads from one that is not open, *)
(* and one with an error to send never finds the channel full, although    *)
(* the handler has taken one error of the two and will take no more.       *)
CanEnd ==
  \A c \in Conn, d \in Direction :
    /\ conn[c].pc \in {"release", "idle"} => Src(c, d) # "open"
    /\ conn[c].proxy[d] = "sending" => conn[c].errCh < 2

(* Neither proxyWS can be stuck for good once Proxy has run its defers.    *)
THEOREM GoroutinesCanEnd == Spec => []CanEnd
<1>1. Init => DrainInv
  BY DEF Init, DrainInv, Drains, NoConn
<1>2. Inv /\ DrainInv => CanEnd
  <2> SUFFICES ASSUME Inv, DrainInv, NEW c \in Conn, NEW d \in Direction
               PROVE  /\ conn[c].pc \in {"release", "idle"} => Src(c, d) # "open"
                      /\ conn[c].proxy[d] = "sending" => conn[c].errCh < 2
    BY DEF CanEnd
  <2>1. conn[c].errCh \in 0..2
    BY DEF Inv, TypeInv, TypeOK, Connection
  <2> QED
    BY <2>1 DEF DrainInv, Drains, Src
<1> QED
  BY <1>1, <1>2, Invariance, StepDrains, PTL DEF Spec
=============================================================================
