--------------------------- MODULE AccountsProofs ---------------------------
(***************************************************************************)
(* Proofs about Accounts, for any users, passwords and clients, any life   *)
(* of a token and any delay of a request.                                  *)
(***************************************************************************)
EXTENDS Accounts, TLAPS

(* What each place in a request says of its fields. *)
Prepared(c) ==
  req[c] # Nil =>
    /\ req[c].op = "login"  => req[c].local # Nil /\ token[c] = Nil
    /\ req[c].op # "login"  => token[c] # Nil /\ token[c].role \in RequireRoles(req[c].op)
    /\ req[c].op = "create" => req[c].edit \in Row

(* An update that was not overtaken holds the row as it is. *)
Current(c) ==
  req[c] # Nil /\ req[c].op = "update" /\ req[c].local # Nil =>
    c \in overtaken \/ users[req[c].user] = req[c].local

(* The chain from the row over the login and the token to the request,     *)
(* each link with its delay.                                               *)
Timely(c) ==
  /\ matched[c] # Nil => matched[c] <= now
  /\ token[c] # Nil => matched[c] # Nil /\ token[c].exp <= matched[c] + MaxDelay + Expire
  /\ req[c] # Nil =>
       /\ req[c].stamp <= now /\ now <= req[c].stamp + MaxDelay
       /\ req[c].op = "login" => matched[c] # Nil /\ req[c].stamp <= matched[c]
       /\ req[c].op # "login" => req[c].stamp < token[c].exp

Sound(c) == Prepared(c) /\ Current(c) /\ Timely(c)

Inv == TypeOK /\ \A c \in Client : Sound(c)

LEMMA NilIsNothing ==
  /\ Nil \notin Row /\ Nil \notin Token /\ Nil \notin Person /\ Nil \notin Request /\ Nil \notin Nat
  /\ Nil \notin Role /\ Nil \notin Status /\ Nil \notin Password
BY AccountsAssumption DEF AccountsAssumption

LEMMA Constants == /\ Expire \in Nat /\ MaxDelay \in Nat
                   /\ Root \in User /\ AdminPassword \in Password
BY AccountsAssumption DEF AccountsAssumption

(* Who the client is taken for is a matter of its token and its request. *)
LEMMA SameIdentity ==
  ASSUME NEW c \in Client, token'[c] = token[c], req'[c] = req[c]
  PROVE  Identity(c)' = Identity(c)
BY DEF Identity, Serving

(* While it stays, the last match stays or is now. *)
LEMMA MatchKept ==
  ASSUME NEW c \in Client, Observe, Identity(c)' = Identity(c)
  PROVE  matched'[c] = now' \/ matched'[c] = matched[c]
BY DEF Observe

(* An edited row is a row. *)
LEMMA EditedType ==
  ASSUME NEW e \in Edit, NEW row \in Row
  PROVE  Edited(e, row) \in Row
BY DEF Edit, Row, Edited, Keep

(* A login or a token is of a user that exists. *)
LEMMA ObserveType ==
  ASSUME Observe, now' \in Nat, matched \in [Client -> Nat \cup {Nil}]
  PROVE  matched' \in [Client -> Nat \cup {Nil}]
<1>1. \A c \in Client : matched'[c] \in {now', matched[c], Nil}
  BY DEF Observe
<1>2. matched' = [c \in Client |-> matched'[c]]
  BY DEF Observe
<1> QED
  BY <1>1, <1>2

(* A client that a step leaves alone stays sound. *)
LEMMA Frame ==
  ASSUME Inv, Observe, NEW d \in Client,
         token'[d] = token[d], req'[d] = req[d],
         now' \in Nat, now <= now',
         req[d] # Nil => now' <= req[d].stamp + MaxDelay,
         d \in overtaken => d \in overtaken',
         req[d] # Nil /\ req[d].op = "update" /\ req[d].local # Nil =>
           d \in overtaken' \/ users'[req[d].user] = users[req[d].user]
  PROVE  Sound(d)'
<1>1. matched'[d] = now' \/ matched'[d] = matched[d]
  BY SameIdentity, MatchKept
<1>2. Prepared(d)'
  BY DEF Inv, Sound, Prepared
<1>3. Current(d)'
  BY DEF Inv, Sound, Current
<1>4. Timely(d)'
  <2>1. matched[d] \in Nat \cup {Nil} /\ now \in Nat
    BY DEF Inv, TypeOK
  <2>2. token[d] # Nil => token[d].exp \in Nat
    BY DEF Inv, TypeOK, Token
  <2>3. req[d] # Nil => req[d].stamp \in Nat
    BY DEF Inv, TypeOK, Request
  <2>4. Timely(d)
    BY DEF Inv, Sound
  <2> QED
    BY <1>1, <2>1, <2>2, <2>3, <2>4, NilIsNothing, Constants DEF Timely
<1> QED
  BY <1>2, <1>3, <1>4 DEF Sound

(* A client without a request keeps its token, or has none. *)
LEMMA Answered ==
  ASSUME Inv, Observe, NEW c \in Client, req'[c] = Nil, now' = now,
         token'[c] = token[c]
  PROVE  Sound(c)'
<1>1. matched[c] \in Nat \cup {Nil} /\ now \in Nat /\ Timely(c) /\ Prepared(c)
  BY DEF Inv, TypeOK, Sound
<1>2. matched'[c] \in {now', matched[c], Nil}
  BY DEF Observe
<1>3. CASE token[c] = Nil
  BY <1>1, <1>2, <1>3, NilIsNothing DEF Sound, Prepared, Current, Timely
<1>4. CASE token[c] # Nil
  <2>1. Identity(c)' = Identity(c)
    BY <1>4 DEF Identity
  <2>2. token[c].exp \in Nat
    BY <1>4 DEF Inv, TypeOK, Token
  <2>3. matched'[c] = now' \/ matched'[c] = matched[c]
    BY <2>1, MatchKept
  <2> QED
    BY <1>1, <1>4, <2>2, <2>3, NilIsNothing, Constants DEF Sound, Prepared, Current, Timely
<1> QED
  BY <1>3, <1>4

-----------------------------------------------------------------------------
(* A step of one client. *)

LEMMA Others ==
  ASSUME Inv, Observe, NEW c \in Client, now' = now,
         \A d \in Client \ {c} : token'[d] = token[d] /\ req'[d] = req[d],
         \A d \in Client \ {c} : d \in overtaken => d \in overtaken',
         \A d \in Client \ {c} : req[d] # Nil /\ req[d].op = "update" /\ req[d].local # Nil =>
           d \in overtaken' \/ users'[req[d].user] = users[req[d].user],
         Sound(c)'
  PROVE  \A d \in Client : Sound(d)'
<1> SUFFICES ASSUME NEW d \in Client, d # c PROVE Sound(d)'
  OBVIOUS
<1>1. now \in Nat /\ Timely(d)
  BY DEF Inv, TypeOK, Sound
<1>2. req[d] # Nil => now <= req[d].stamp + MaxDelay
  BY <1>1 DEF Timely
<1> QED
  BY <1>1, <1>2, Frame

(* A statement, and the answer. *)
LEMMA WriteInv ==
  ASSUME Inv, Observe, NEW c \in Client, NEW u \in User, NEW row \in Row, Write(c, u, row)
  PROVE  Inv'
<1>1. TypeOK /\ req' = [req EXCEPT ![c] = Nil] /\ token' = token /\ now' = now /\ up' = up
  BY DEF Inv, Write
<1>2. users' \in [User -> Row \cup {Nil}] /\ \A v \in User \ {u} : users'[v] = users[v]
  BY <1>1 DEF TypeOK, Write
<1>3. TypeOK'
  <2>1. req' \in [Client -> Request \cup {Nil}] /\ now' \in Nat /\ overtaken' \in SUBSET Client
    BY <1>1 DEF TypeOK, Write
  <2>2. matched' \in [Client -> Nat \cup {Nil}]
    BY <1>1, ObserveType DEF TypeOK
  <2> QED
    BY <1>1, <1>2, <2>1, <2>2 DEF TypeOK
<1>4. Sound(c)'
  <2>1. req'[c] = Nil
    BY <1>1 DEF TypeOK
  <2> QED
    BY <1>1, <2>1, Answered
<1>5. \A d \in Client \ {c} : token'[d] = token[d] /\ req'[d] = req[d]
  BY <1>1 DEF TypeOK
<1>6. \A d \in Client \ {c} :
        /\ d \in overtaken => d \in overtaken'
        /\ req[d] # Nil /\ req[d].local # Nil =>
             d \in overtaken' \/ users'[req[d].user] = users[req[d].user]
  <2> SUFFICES ASSUME NEW d \in Client \ {c}
               PROVE  /\ d \in overtaken => d \in overtaken'
                      /\ req[d] # Nil /\ req[d].local # Nil =>
                           d \in overtaken' \/ users'[req[d].user] = users[req[d].user]
    OBVIOUS
  <2>1. CASE users' = users
    BY <2>1 DEF Write
  <2>2. CASE users' # users
    <3>1. req[d] # Nil => req[d].user \in User
      BY <1>1 DEF TypeOK, Request
    <3>2. overtaken' = (overtaken \cup {e \in Client : req[e] # Nil /\ req[e].user = u
                                                         /\ req[e].local # Nil}) \ {c}
      BY <2>2 DEF Write
    <3> QED
      BY <1>2, <3>1, <3>2
  <2> QED
    BY <2>1, <2>2
<1>7. \A d \in Client \ {c} : d \in overtaken => d \in overtaken'
  BY <1>6
<1>8. \A d \in Client \ {c} : req[d] # Nil /\ req[d].local # Nil =>
                               d \in overtaken' \/ users'[req[d].user] = users[req[d].user]
  BY <1>6
<1>9. \A d \in Client : Sound(d)'
  BY <1>1, <1>4, <1>5, <1>7, <1>8, Others
<1> QED
  BY <1>3, <1>9 DEF Inv

(* The client's request and token change, the table does not. *)
LEMMA RequestInv ==
  ASSUME Inv, Observe, NEW c \in Client, NEW t, NEW r \in Request \cup {Nil},
         t \in Token \cup {Nil},
         token' = [token EXCEPT ![c] = t], req' = [req EXCEPT ![c] = r],
         now' = now, up' = up, users' = users,
         overtaken' = overtaken \/ overtaken' = overtaken \ {c},
         Sound(c)'
  PROVE  Inv'
<1>1. TypeOK
  BY DEF Inv
<1>2. TypeOK'
  <2>1. /\ token' \in [Client -> Token \cup {Nil}] /\ req' \in [Client -> Request \cup {Nil}]
        /\ now' \in Nat /\ overtaken' \in SUBSET Client
    BY <1>1 DEF TypeOK
  <2>2. matched' \in [Client -> Nat \cup {Nil}]
    BY <1>1, ObserveType DEF TypeOK
  <2> QED
    BY <1>1, <2>1, <2>2 DEF TypeOK
<1>3. \A d \in Client \ {c} : token'[d] = token[d] /\ req'[d] = req[d]
  BY <1>1 DEF TypeOK
<1>4. \A d \in Client : Sound(d)'
  BY <1>3, Others
<1> QED
  BY <1>2, <1>4 DEF Inv

LEMMA LeaveInv ==
  ASSUME Inv, Observe, NEW c \in Client, Leave(c)
  PROVE  Inv'
<1>1. TypeOK
  BY DEF Inv
<1>2. req'[c] = Nil /\ token' = [token EXCEPT ![c] = token[c]]
  BY <1>1 DEF TypeOK, Leave
<1>3. Sound(c)'
  BY <1>2, Answered DEF Leave
<1>4. token[c] \in Token \cup {Nil}
  BY <1>1 DEF TypeOK
<1> QED
  BY <1>2, <1>3, <1>4, RequestInv DEF Leave

LEMMA LoginInv ==
  ASSUME Inv, Observe, NEW c \in Client, Login(c)
  PROVE  Inv'
<1>1. TypeOK
  BY DEF Inv
<1>2. PICK u \in User, pw \in Password :
        /\ MayLogin(users[u], pw)
        /\ req' = [req EXCEPT ![c] = [op |-> "login", user |-> u, edit |-> NoEdit,
                                      stamp |-> now, local |-> users[u]]]
  BY DEF Login
<1> DEFINE r == [op |-> "login", user |-> u, edit |-> NoEdit, stamp |-> now, local |-> users[u]]
<1>3. users[u] \in Row /\ users[u].status = "active"
  BY <1>1, <1>2 DEF TypeOK, MayLogin, Active
<1>4. r \in Request
  BY <1>1, <1>3 DEF TypeOK, Request, Op, Edit, NoEdit
<1>5. req'[c] = r /\ token'[c] = Nil /\ users' = users /\ now' = now
  BY <1>1, <1>2 DEF TypeOK, Login
<1>6. matched'[c] = now
  <2>1. Identity(c)' = [user |-> u, role |-> users[u].role, pw |-> users[u].pw]
    BY <1>4, <1>5, NilIsNothing DEF Identity, Serving
  <2>2. users'[u] = [role |-> users[u].role, status |-> "active", pw |-> users[u].pw]
    BY <1>3, <1>5 DEF Row
  <2>3. Identity(c)' # Nil
    BY <1>3, <2>1, NilIsNothing DEF Person, Row
  <2>4. Matches(Identity(c))'
    BY <2>1, <2>2, <2>3 DEF Matches
  <2> QED
    BY <1>5, <2>4 DEF Observe
<1>7. Sound(c)'
  BY <1>1, <1>3, <1>4, <1>5, <1>6, NilIsNothing, Constants
  DEF Sound, Prepared, Current, Timely, TypeOK
<1> QED
  BY <1>2, <1>4, <1>7, RequestInv DEF Login

LEMMA SignTokenInv ==
  ASSUME Inv, Observe, NEW c \in Client, SignToken(c)
  PROVE  Inv'
<1> DEFINE t == [user |-> req[c].user, role |-> req[c].local.role, pw |-> req[c].local.pw,
                 exp |-> now + Expire]
<1>1. TypeOK /\ Prepared(c) /\ Timely(c)
  BY DEF Inv, Sound
<1>2. req[c] \in Request /\ req[c] # Nil /\ req[c].op = "login"
  BY <1>1 DEF SignToken, Serving, TypeOK
<1>3. req[c].local \in Row /\ req[c].user \in User /\ token[c] = Nil
  BY <1>1, <1>2 DEF Request, Prepared
<1>4. t \in Token
  BY <1>1, <1>3, Constants DEF TypeOK, Token, Row
<1>5. req'[c] = Nil /\ token'[c] = t /\ now' = now
  BY <1>1 DEF TypeOK, SignToken
<1>6. Identity(c)' = Identity(c)
  <2>1. Identity(c) = [user |-> t.user, role |-> t.role, pw |-> t.pw]
    BY <1>2, <1>3 DEF Identity, Serving
  <2>2. Identity(c)' = [user |-> t.user, role |-> t.role, pw |-> t.pw]
    BY <1>4, <1>5, NilIsNothing DEF Identity
  <2> QED
    BY <2>1, <2>2
<1>7. matched'[c] = now \/ matched'[c] = matched[c]
  BY <1>5, <1>6, MatchKept
<1>8. Sound(c)'
  <2>1. matched[c] \in Nat /\ now \in Nat /\ req[c].stamp \in Nat
    BY <1>1, <1>2 DEF TypeOK, Timely, Request
  <2>2. now <= req[c].stamp + MaxDelay /\ req[c].stamp <= matched[c] /\ matched[c] <= now
    BY <1>1, <1>2, <2>1, NilIsNothing DEF Timely
  <2>3. matched'[c] \in Nat /\ matched'[c] <= now /\ req[c].stamp <= matched'[c]
    BY <1>7, <2>1, <2>2
  <2>4. t.exp <= matched'[c] + MaxDelay + Expire
    BY <2>1, <2>2, <2>3, Constants
  <2>5. matched'[c] # Nil
    BY <2>3, NilIsNothing
  <2> QED
    BY <1>5, <2>3, <2>4, <2>5 DEF Sound, Prepared, Current, Timely
<1> QED
  BY <1>4, <1>8, RequestInv DEF SignToken

LEMMA JWTAuthInv ==
  ASSUME Inv, Observe, NEW c \in Client, JWTAuth(c)
  PROVE  Inv'
<1>1. TypeOK /\ Timely(c)
  BY DEF Inv, Sound
<1>2. PICK op \in Op \ {"login"}, u \in User : \E e \in Asks(op, u) :
        /\ token[c].role \in RequireRoles(op)
        /\ req' = [req EXCEPT ![c] = [op |-> op, user |-> u, edit |-> e, stamp |-> now,
                                      local |-> Nil]]
  BY DEF JWTAuth
<1>3. PICK e \in Asks(op, u) :
        /\ token[c].role \in RequireRoles(op)
        /\ req' = [req EXCEPT ![c] = [op |-> op, user |-> u, edit |-> e, stamp |-> now,
                                      local |-> Nil]]
  BY <1>2
<1> DEFINE r == [op |-> op, user |-> u, edit |-> e, stamp |-> now, local |-> Nil]
<1>4. e \in Edit
  BY AccountsAssumption DEF AccountsAssumption, Asks
<1>5. op = "create" => e \in Row
  BY <1>4 DEF Asks, Edit, Row, Status
<1>6. r \in Request
  BY <1>1, <1>4 DEF TypeOK, Request
<1>7. /\ req'[c] = r /\ token'[c] = token[c] /\ token[c] \in Token /\ now < token[c].exp
      /\ token' = [token EXCEPT ![c] = token[c]] /\ now' = now
  BY <1>1, <1>3 DEF TypeOK, JWTAuth, ParseToken
<1>8. matched'[c] = now \/ matched'[c] = matched[c]
  <2>1. Identity(c)' = Identity(c)
    BY <1>7, NilIsNothing DEF Identity
  <2> QED
    BY <1>7, <2>1, MatchKept
<1>9. Sound(c)'
  <2>1. Prepared(c)'
    BY <1>3, <1>5, <1>7, NilIsNothing DEF Prepared
  <2>2. Current(c)'
    BY <1>7 DEF Current
  <2>3. Timely(c)'
    <3>1. matched[c] \in Nat /\ now \in Nat /\ token[c].exp \in Nat
      BY <1>1, <1>7, NilIsNothing DEF TypeOK, Timely, Token
    <3>2. matched[c] <= now /\ token[c].exp <= matched[c] + MaxDelay + Expire
      BY <1>1, <1>7, <3>1, NilIsNothing DEF Timely
    <3> QED
      BY <1>7, <1>8, <3>1, <3>2, NilIsNothing, Constants DEF Timely
  <2> QED
    BY <2>1, <2>2, <2>3 DEF Sound
<1> QED
  BY <1>3, <1>6, <1>7, <1>9, RequestInv DEF JWTAuth

LEMMA GetByIDInv ==
  ASSUME Inv, Observe, NEW c \in Client, GetByID(c)
  PROVE  Inv'
<1>1. TypeOK /\ Prepared(c) /\ Timely(c)
  BY DEF Inv, Sound
<1>2. /\ req[c] \in Request /\ req[c].op = "update" /\ req[c] # Nil
      /\ req[c].user \in User /\ users[req[c].user] \in Row
  BY <1>1 DEF TypeOK, GetByID, Serving, Request
<1> DEFINE r == [req[c] EXCEPT !.local = users[req[c].user]]
<1>3. r \in Request
  BY <1>2 DEF Request
<1>4. /\ req' = [req EXCEPT ![c] = r] /\ token' = [token EXCEPT ![c] = token[c]]
      /\ token[c] \in Token \cup {Nil}
  BY <1>1 DEF TypeOK, GetByID
<1>5. req'[c] = r /\ token'[c] = token[c] /\ token[c] # Nil /\ users' = users /\ now' = now
  BY <1>1, <1>2, <1>4 DEF TypeOK, GetByID, Prepared
<1>6. matched'[c] = now \/ matched'[c] = matched[c]
  <2>1. Identity(c)' = Identity(c)
    BY <1>5 DEF Identity
  <2> QED
    BY <1>5, <2>1, MatchKept
<1>7. Sound(c)'
  <2>1. /\ r.op = "update" /\ r.user = req[c].user /\ r.stamp = req[c].stamp
        /\ r.local = users[req[c].user]
    BY <1>2 DEF Request
  <2>2. Prepared(c)'
    BY <1>1, <1>2, <1>5, <2>1 DEF Prepared
  <2>3. Current(c)'
    BY <1>5, <2>1 DEF Current
  <2>4. Timely(c)'
    <3>1. /\ matched[c] \in Nat \cup {Nil} /\ now \in Nat /\ req[c].stamp \in Nat
          /\ token[c].exp \in Nat
      BY <1>1, <1>2, <1>5 DEF TypeOK, Token, Request
    <3> QED
      BY <1>1, <1>2, <1>5, <1>6, <2>1, <3>1, NilIsNothing, Constants DEF Timely
  <2> QED
    BY <2>2, <2>3, <2>4 DEF Sound
<1> QED
  BY <1>3, <1>4, <1>7, RequestInv DEF GetByID

LEMMA ServeInv ==
  ASSUME Inv, Observe, NEW c \in Client, Serve(c)
  PROVE  Inv'
<1>1. TypeOK /\ Prepared(c)
  BY DEF Inv, Sound
<1>2. req[c] # Nil => req[c].user \in User /\ req[c].edit \in Edit /\ req[c].local \in Row \cup {Nil}
  BY <1>1 DEF TypeOK, Request
<1>3. CASE Create(c)
  BY <1>1, <1>2, <1>3, WriteInv DEF Create, Serving, Prepared
<1>4. CASE Save(c)
  BY <1>2, <1>4, WriteInv, EditedType DEF Save, Serving
<1>5. CASE UpdateColumn(c)
  <2>1. users[req[c].user] \in Row
    BY <1>1, <1>2, <1>5 DEF TypeOK, UpdateColumn, Serving
  <2> QED
    BY <1>2, <1>5, <2>1, WriteInv, EditedType DEF UpdateColumn, Serving
<1> QED
  BY <1>3, <1>4, <1>5, SignTokenInv, GetByIDInv, LeaveInv DEF Serve

LEMMA TickInv ==
  ASSUME Inv, Observe, Tick
  PROVE  Inv'
<1>1. TypeOK /\ now' \in Nat /\ now <= now'
  BY DEF Inv, TypeOK, Tick
<1>2. ASSUME NEW d \in Client PROVE Sound(d)'
  <2>1. req[d] # Nil => now' <= req[d].stamp + MaxDelay
    <3> SUFFICES ASSUME req[d] # Nil PROVE now' <= req[d].stamp + MaxDelay
      OBVIOUS
    <3>1. req[d].stamp \in Nat /\ now \in Nat
      BY <1>1 DEF TypeOK, Request
    <3> QED
      BY <3>1, Constants DEF Tick
  <2> QED
    BY <1>1, <2>1, Frame DEF Tick
<1>3. TypeOK'
  <2>1. matched' \in [Client -> Nat \cup {Nil}]
    BY <1>1, ObserveType DEF TypeOK
  <2> QED
    BY <1>1, <2>1 DEF TypeOK, Tick
<1> QED
  BY <1>2, <1>3 DEF Inv

LEMMA StartInv ==
  ASSUME Inv, Observe, Start
  PROVE  Inv'
<1>1. TypeOK /\ now' = now /\ now \in Nat
  BY DEF Inv, TypeOK, Start
<1>2. users[Root] # Nil => users' = users
  BY <1>1 DEF TypeOK, Start, SeedAdmin
<1>3. \A u \in User \ {Root} : users'[u] = users[u]
  BY <1>1 DEF TypeOK, Start
<1>4. ASSUME NEW d \in Client PROVE Sound(d)'
  <2>1. Sound(d)
    BY DEF Inv
  <2>2. req[d] # Nil => now' <= req[d].stamp + MaxDelay
    BY <1>1, <2>1 DEF Sound, Timely
  <2>3. req[d] # Nil /\ req[d].op = "update" /\ req[d].local # Nil =>
          d \in overtaken \/ users'[req[d].user] = users[req[d].user]
    <3>1. req[d] # Nil => req[d].user \in User
      BY <1>1 DEF TypeOK, Request
    <3> QED
      BY <1>2, <1>3, <2>1, <3>1 DEF Sound, Current
  <2> QED
    BY <1>1, <2>2, <2>3, Frame DEF Start
<1>5. TypeOK'
  <2>1. matched' \in [Client -> Nat \cup {Nil}]
    BY <1>1, ObserveType DEF TypeOK
  <2>2. SeedAdmin \in Row \cup {Nil}
    BY <1>1, Constants DEF TypeOK, SeedAdmin, Row, Role, Status
  <2>3. users' \in [User -> Row \cup {Nil}]
    BY <1>1, <2>2, Constants DEF TypeOK, Start
  <2>4. up' \in BOOLEAN
    BY DEF Start
  <2> QED
    BY <1>1, <2>1, <2>3, <2>4 DEF TypeOK, Start
<1> QED
  BY <1>4, <1>5 DEF Inv

LEMMA CrashInv ==
  ASSUME Inv, Observe, Crash
  PROVE  Inv'
<1>1. TypeOK /\ now' = now /\ now \in Nat
  BY DEF Inv, TypeOK, Crash
<1>2. ASSUME NEW d \in Client PROVE Sound(d)'
  <2>1. req'[d] = Nil /\ token'[d] = token[d]
    BY DEF Crash
  <2> QED
    BY <1>1, <2>1, Answered
<1>3. TypeOK'
  <2>1. matched' \in [Client -> Nat \cup {Nil}]
    BY <1>1, ObserveType DEF TypeOK
  <2> QED
    BY <1>1, <2>1 DEF TypeOK, Crash
<1> QED
  BY <1>2, <1>3 DEF Inv

LEMMA InitInv == Init => Inv
<1> SUFFICES ASSUME Init PROVE Inv
  OBVIOUS
<1>1. TypeOK
  BY DEF Init, TypeOK
<1>2. ASSUME NEW c \in Client PROVE Sound(c)
  <2>1. req[c] = Nil /\ token[c] = Nil /\ matched[c] = Nil
    BY DEF Init
  <2> QED
    BY <2>1 DEF Sound, Prepared, Current, Timely
<1> QED
  BY <1>1, <1>2 DEF Inv

LEMMA StepInv ==
  ASSUME Inv, [Next]_vars
  PROVE  Inv'
<1>1. CASE UNCHANGED vars
  BY <1>1 DEF vars, Inv, TypeOK, Sound, Prepared, Current, Timely
<1>2. CASE Next
  BY <1>2, TickInv, StartInv, CrashInv, LoginInv, JWTAuthInv, ServeInv DEF Next, Step
<1> QED
  BY <1>1, <1>2

LEMMA Invariance == Spec => []Inv
BY InitInv, StepInv, PTL DEF Spec

-----------------------------------------------------------------------------
(* The theorems. *)

(* Every row, token and request is well-formed, for any accounts: no field *)
(* is stored empty.                                                        *)
THEOREM TypeCorrect == Spec => []TypeOK
<1>1. Inv => TypeOK
  BY DEF Inv
<1> QED
  BY <1>1, Invariance, PTL

(* AccessEnds: the chain of Timely, from the row to the request.           *)
THEOREM AccessEndsInTime == Spec => []AccessEnds
<1>1. Inv => AccessEnds
  <2> SUFFICES ASSUME Inv, NEW c \in Client, req[c] # Nil, req[c].op # "login"
               PROVE  Fresh(c, req[c].stamp, Expire + MaxDelay)
    BY DEF AccessEnds
  <2>1. TypeOK /\ Prepared(c) /\ Timely(c)
    BY DEF Inv, Sound
  <2>2. req[c].stamp \in Nat /\ token[c].exp \in Nat /\ matched[c] \in Nat
    BY <2>1 DEF TypeOK, Request, Token, Prepared, Timely
  <2> QED
    BY <2>1, <2>2, Constants, NilIsNothing DEF Fresh, Prepared, Timely
<1> QED
  BY <1>1, Invariance, PTL

(* Only Create, Save and UpdateColumn change the table of a running server.*)
LEMMA Writers ==
  ASSUME Inv, Next, up, users' # users
  PROVE  \E c \in Client : /\ req[c] # Nil /\ req'[c] = Nil /\ req[c].op \in AdminOp
                           /\ Create(c) \/ Save(c) \/ UpdateColumn(c)
<1>1. PICK c \in Client : Create(c) \/ Save(c) \/ UpdateColumn(c)
  BY DEF Next, Step, Tick, Start, Crash, Login, JWTAuth, Serve, SignToken, GetByID, Leave
<1>2. req[c] # Nil /\ req[c].op \in AdminOp
  BY <1>1 DEF Create, Save, UpdateColumn, Serving, AdminOp
<1>3. req'[c] = Nil
  BY <1>1 DEF Inv, TypeOK, Create, Save, UpdateColumn, Write
<1> QED
  BY <1>1, <1>2, <1>3

(* OnlyAdminsWrite: a request that writes was admitted at most MaxDelay    *)
(* ago, with a token whose role RequireRoles let through.                  *)
THEOREM AdminsWriteAlone == Spec => OnlyAdminsWrite
<1>1. Inv /\ [Next]_vars =>
        [up /\ users' # users =>
           \E c \in Client : /\ req[c] # Nil /\ req'[c] = Nil
                             /\ req[c].op \in AdminOp
                             /\ token[c].role = "admin"
                             /\ Fresh(c, now, Expire + MaxDelay + MaxDelay)]_vars
  <2> SUFFICES ASSUME Inv, Next, up, users' # users
               PROVE  \E c \in Client : /\ req[c] # Nil /\ req'[c] = Nil
                                        /\ req[c].op \in AdminOp
                                        /\ token[c].role = "admin"
                                        /\ Fresh(c, now, Expire + MaxDelay + MaxDelay)
    BY DEF vars
  <2>1. PICK c \in Client : req[c] # Nil /\ req'[c] = Nil /\ req[c].op \in AdminOp
    BY Writers
  <2>2. TypeOK /\ Prepared(c) /\ Timely(c)
    BY DEF Inv, Sound
  <2>3. token[c] # Nil /\ token[c].role = "admin"
    BY <2>1, <2>2 DEF Prepared, RequireRoles, AdminOp
  <2>4. /\ req[c].stamp \in Nat /\ token[c].exp \in Nat /\ matched[c] \in Nat
        /\ now \in Nat
    BY <2>1, <2>2, <2>3 DEF TypeOK, Request, Token, Timely
  <2>5. Fresh(c, now, Expire + MaxDelay + MaxDelay)
    BY <2>1, <2>2, <2>3, <2>4, Constants, NilIsNothing DEF Fresh, Timely, AdminOp
  <2> QED
    BY <2>1, <2>3, <2>5
<1> QED
  BY <1>1, Invariance, PTL DEF Spec, OnlyAdminsWrite

(* What a statement of c does to the row of u, when it changes it. *)
LEMMA Changed ==
  ASSUME Inv, NEW c \in Client, NEW u \in User, NEW v \in User, NEW row,
         Write(c, v, row), users'[u] # users[u]
  PROVE  u = v /\ users'[u] = row
BY DEF Inv, TypeOK, Write

(* ChangesAreAsked: an update that was not overtaken holds the row.        *)
THEOREM ChangesAskedAlways == Spec => ChangesAreAsked
<1>1. Inv /\ [Next]_vars =>
        [\A u \in User :
           users[u] # Nil /\ users'[u] # users[u] =>
             \E c \in Client :
               /\ req[c] # Nil /\ req[c].user = u
               /\ \/ c \in overtaken
                  \/ \A field \in DOMAIN NoEdit :
                       users'[u][field] \in {users[u][field], req[c].edit[field]}]_vars
  <2> SUFFICES ASSUME Inv, Next, NEW u \in User, users[u] # Nil, users'[u] # users[u]
               PROVE  \E c \in Client :
                        /\ req[c] # Nil /\ req[c].user = u
                        /\ \/ c \in overtaken
                           \/ \A field \in DOMAIN NoEdit :
                                users'[u][field] \in {users[u][field], req[c].edit[field]}
    BY DEF vars
  <2>1. TypeOK
    BY DEF Inv
  <2>2. ~Start
    BY <2>1, Constants DEF TypeOK, Start, SeedAdmin
  <2>3. PICK c \in Client : Create(c) \/ Save(c) \/ UpdateColumn(c)
    BY <2>2 DEF Next, Step, Tick, Crash, Login, JWTAuth, Serve, SignToken, GetByID, Leave
  <2>4. req[c] # Nil /\ req[c].user \in User /\ req[c].edit \in Edit
    BY <2>1, <2>3 DEF Create, Save, UpdateColumn, Serving, TypeOK, Request
  <2>5. ~Create(c)
    BY <2>4, Changed DEF Create
  <2>6. CASE c \in overtaken
    <3>1. req[c].user = u
      BY <2>3, <2>4, <2>5, Changed DEF Save, UpdateColumn
    <3> QED
      BY <2>4, <2>6, <3>1
  <2>7. CASE c \notin overtaken
    <3>1. req[c].user = u /\ users'[u] = Edited(req[c].edit, users[u])
      <4>1. CASE Save(c)
        <5>1. users[req[c].user] = req[c].local
          BY <2>7, <4>1 DEF Inv, Sound, Current, Save, Serving
        <5> QED
          BY <2>4, <4>1, <5>1, Changed DEF Save
      <4>2. CASE UpdateColumn(c)
        BY <2>4, <4>2, Changed DEF UpdateColumn
      <4> QED
        BY <2>3, <2>5, <4>1, <4>2
    <3>2. \A field \in DOMAIN NoEdit :
            users'[u][field] \in {users[u][field], req[c].edit[field]}
      BY <3>1 DEF Edited, Keep, NoEdit
    <3> QED
      BY <2>4, <3>1, <3>2
  <2> QED
    BY <2>6, <2>7
<1> QED
  BY <1>1, Invariance, PTL DEF Spec, ChangesAreAsked
=============================================================================
