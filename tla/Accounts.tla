------------------------------ MODULE Accounts ------------------------------
(***************************************************************************)
(* Who may do what: the users table (internal/service/user_service.go),    *)
(* the tokens drawn from it (auth_service.go), the middleware that admits  *)
(* requests by these tokens alone (internal/middleware), and the first     *)
(* administrator (internal/database).                                      *)
(*                                                                         *)
(* A token is a signed copy of a row as it was when its owner logged in.   *)
(* Nobody asks the table again before it expires, so what an administrator *)
(* changes about a user takes its time to be true of the user's requests.  *)
(* Times are those of the one server's clock; its secret outlives it, and  *)
(* with the secret the tokens.                                             *)
(***************************************************************************)
EXTENDS Naturals

CONSTANTS User,          \* usernames: unique, never changed, rows never deleted
          Root,          \* ADMIN_USERNAME
          Password,      \* with their hashes
          AdminPassword, \* ADMIN_PASSWORD
          Client,        \* holders of a token, each with one request at a time
          Expire,        \* JWT_EXPIRE_HOURS
          MaxDelay,      \* no request is served for longer
          MaxTime,       \* bound: the clock stops here
          Asked,         \* the changes of each user that a run's requests ask for
          Nil

VARIABLES now,
          up,        \* the server runs
          users,     \* the users table: users[u] is u's row, or Nil
          token,     \* the token each client holds
          req,       \* the request each client waits for
          \* Auxiliary variables: they record the past and guard no action.
          matched,   \* when the row was last as the client's token says
          overtaken  \* clients whose update read a row that was changed since

vars == <<now, up, users, token, req, matched, overtaken>>

Role   == {"admin", "user"}
Status == {"active", "disabled"}

Row == [role : Role, status : Status, pw : Password]

(* pw is not in a token: it is the password the login was made with.       *)
Token == [user : User, role : Role, pw : Password, exp : Nat]

Person == [user : User, role : Role, pw : Password]

AdminOp == {"create", "update", "disable", "reset"}
Op      == AdminOp \cup {"login", "use"}

(* The fields a request asks to set; Nil is a field left empty.            *)
Edit == [role : Role \cup {Nil}, status : Status \cup {Nil}, pw : Password \cup {Nil}]

NoEdit == [role |-> Nil, status |-> Nil, pw |-> Nil]

Request == [op : Op, user : User, edit : Edit, stamp : Nat,
            local : Row \cup {Nil}]   \* the Go struct user

ASSUME AccountsAssumption ==
  /\ Root \in User /\ AdminPassword \in Password
  /\ Expire \in Nat /\ MaxDelay \in Nat /\ MaxTime \in Nat
  /\ Asked \in [User -> SUBSET Edit]
  /\ Nil \notin Row \cup Token \cup Person \cup Request
  /\ Nil \notin Password \cup Role \cup Status \cup Nat

Init ==
  /\ now = 0
  /\ up = FALSE
  /\ users = [u \in User |-> Nil]
  /\ token = [c \in Client |-> Nil]
  /\ req = [c \in Client |-> Nil]
  /\ matched = [c \in Client |-> Nil]
  /\ overtaken = {}

Tick ==
  /\ now < MaxTime
  /\ \A c \in Client : req[c] # Nil => now < req[c].stamp + MaxDelay
  /\ now' = now + 1
  /\ UNCHANGED <<up, users, token, req, overtaken>>

-----------------------------------------------------------------------------
(* The table. *)

Active(row) == row # Nil /\ row.status = "active"

Serving(c, op) == req[c] # Nil /\ req[c].op = op

Keep(asked, field) == IF asked = Nil THEN field ELSE asked

(* Mutations of Edited: a field left empty is stored; only the request's   *)
(* fields and the defaults of a new row are.                               *)
EditedBlank(edit, row)  == [role |-> edit.role, status |-> edit.status, pw |-> row.pw]
EditedAfresh(edit, row) == [role |-> Keep(edit.role, "user"),
                            status |-> Keep(edit.status, "active"),
                            pw |-> Keep(edit.pw, row.pw)]

Edited(edit, row) == [role |-> Keep(edit.role, row.role),
                      status |-> Keep(edit.status, row.status),
                      pw |-> Keep(edit.pw, row.pw)]

(* One statement of c, on u's row; an error may come back for a statement  *)
(* that was committed.  The updates that have read the row are overtaken.  *)
Write(c, u, row) ==
  /\ users' \in {users, [users EXCEPT ![u] = row]}
  /\ req' = [req EXCEPT ![c] = Nil]
  /\ overtaken' = (IF users' = users THEN overtaken
                   ELSE overtaken \cup {d \in Client : req[d] # Nil /\ req[d].user = u
                                                         /\ req[d].local # Nil}) \ {c}
  /\ UNCHANGED <<now, up, token>>

(* The handler returns an error, or has nothing to write. *)
Leave(c) ==
  /\ req[c] # Nil
  /\ req' = [req EXCEPT ![c] = Nil]
  /\ overtaken' = overtaken \ {c}
  /\ UNCHANGED <<now, up, users, token>>

(* Mutation of SeedAdmin: whatever happened to the administrator's row, it *)
(* is made anew.                                                           *)
SeedAdminAnew == [role |-> "admin", status |-> "active", pw |-> AdminPassword]

(* SeedAdmin looks for the username, and for nothing else in the row. *)
SeedAdmin == IF users[Root] # Nil THEN users[Root]
             ELSE [role |-> "admin", status |-> "active", pw |-> AdminPassword]

(* main: no request is served before SeedAdmin, whose failure is the end   *)
(* of the process.                                                         *)
Start ==
  /\ ~up
  /\ users' \in {users, [users EXCEPT ![Root] = SeedAdmin]}
  /\ up' \in {FALSE, users'[Root] # Nil}
  /\ UNCHANGED <<now, token, req, overtaken>>

Crash ==
  /\ up /\ up' = FALSE
  /\ req' = [c \in Client |-> Nil]
  /\ overtaken' = {}
  /\ UNCHANGED <<now, users, token>>

-----------------------------------------------------------------------------
(* Login. *)

(* Mutation of MayLogin: the status is not looked at. *)
MayLoginAny(row, pw) == row # Nil /\ row.pw = pw

MayLogin(row, pw) == Active(row) /\ row.pw = pw

(* The row is read; status and password are judged on what was read.  A    *)
(* client that logs in lets go of its token: two tokens are two clients.   *)
Login(c) ==
  /\ up /\ req[c] = Nil
  /\ \E u \in User, pw \in Password :
       /\ MayLogin(users[u], pw)
       /\ req' = [req EXCEPT ![c] = [op |-> "login", user |-> u, edit |-> NoEdit,
                                     stamp |-> now, local |-> users[u]]]
  /\ token' = [token EXCEPT ![c] = Nil]
  /\ UNCHANGED <<now, up, users, overtaken>>

(* bcrypt has taken its time. *)
SignToken(c) ==
  /\ Serving(c, "login")
  /\ token' = [token EXCEPT ![c] =
       [user |-> req[c].user, role |-> req[c].local.role, pw |-> req[c].local.pw,
        exp |-> now + Expire]]
  /\ req' = [req EXCEPT ![c] = Nil]
  /\ overtaken' = overtaken \ {c}
  /\ UNCHANGED <<now, up, users>>

-----------------------------------------------------------------------------
(* The middleware: JWTAuth and RequireRoles. *)

(* Mutation of ParseToken: the time of expiry is not looked at. *)
ParseTokenUnexpired(t) == t # Nil

ParseToken(t) == t # Nil /\ now < t.exp

(* Mutation of RequireRoles: the routes of one group for every group. *)
RequireRolesUser(op) == Role

RequireRoles(op) == IF op \in AdminOp THEN {"admin"} ELSE Role

(* What the bodies of the administrator's requests may ask for. *)
Asks(op, u) ==
  {e \in Asked[u] :
     CASE op = "create"  -> e.role # Nil /\ e.status = "active" /\ e.pw # Nil
       [] op = "update"  -> e.pw = Nil
       [] op = "disable" -> e = [NoEdit EXCEPT !.status = "disabled"]
       [] op = "reset"   -> e.role = Nil /\ e.status = Nil /\ e.pw # Nil
       [] OTHER          -> e = NoEdit}

JWTAuth(c) ==
  /\ up /\ req[c] = Nil
  /\ ParseToken(token[c])
  /\ \E op \in Op \ {"login"} : \E u \in User : \E e \in Asks(op, u) :
       /\ token[c].role \in RequireRoles(op)
       /\ op = "use" => u = token[c].user
       /\ req' = [req EXCEPT ![c] = [op |-> op, user |-> u, edit |-> e, stamp |-> now,
                                     local |-> Nil]]
  /\ UNCHANGED <<now, up, users, token, overtaken>>

-----------------------------------------------------------------------------
(* The administrator's operations. *)

(* The username's index is unique. *)
Create(c) ==
  /\ Serving(c, "create")
  /\ users[req[c].user] = Nil
  /\ Write(c, req[c].user, req[c].edit)

(* Update reads the whole row ... *)
GetByID(c) ==
  /\ Serving(c, "update")
  /\ req[c].local = Nil /\ users[req[c].user] # Nil
  /\ req' = [req EXCEPT ![c].local = users[req[c].user]]
  /\ UNCHANGED <<now, up, users, token, overtaken>>

(* ... and writes the whole row back. *)
Save(c) ==
  /\ Serving(c, "update")
  /\ req[c].local # Nil
  /\ Write(c, req[c].user, Edited(req[c].edit, req[c].local))

(* Disable and ResetPassword: UPDATE of one column, WHERE id. *)
UpdateColumn(c) ==
  /\ Serving(c, "disable") \/ Serving(c, "reset")
  /\ users[req[c].user] # Nil
  /\ Write(c, req[c].user, Edited(req[c].edit, users[req[c].user]))

Serve(c) == \/ SignToken(c) \/ Create(c) \/ GetByID(c) \/ Save(c)
            \/ UpdateColumn(c) \/ Leave(c)

(* Whom the client's token, or the login it waits for, takes it for. *)
Identity(c) ==
  IF token[c] # Nil
    THEN [user |-> token[c].user, role |-> token[c].role, pw |-> token[c].pw]
    ELSE IF Serving(c, "login")
      THEN [user |-> req[c].user, role |-> req[c].local.role, pw |-> req[c].local.pw]
      ELSE Nil

Matches(id) ==
  id # Nil /\ users[id.user] = [role |-> id.role, status |-> "active", pw |-> id.pw]

Observe ==
  matched' = [c \in Client |-> IF Matches(Identity(c))' THEN now'
                               ELSE IF Identity(c)' = Identity(c) THEN matched[c] ELSE Nil]

Step == \/ Tick \/ Start \/ Crash
        \/ \E c \in Client : Login(c) \/ JWTAuth(c) \/ Serve(c)

Next == Step /\ Observe

Spec == Init /\ [][Next]_vars

-----------------------------------------------------------------------------
(* What the service promises. *)

(* A field is never stored empty, a token never signed from no row. *)
TypeOK ==
  /\ now \in Nat
  /\ up \in BOOLEAN
  /\ users \in [User -> Row \cup {Nil}]
  /\ token \in [Client -> Token \cup {Nil}]
  /\ req \in [Client -> Request \cup {Nil}]
  /\ matched \in [Client -> Nat \cup {Nil}]
  /\ overtaken \in SUBSET Client

(* At t, it was less than d since the row was as c's token says: active,   *)
(* with its role and the password of its login.                            *)
Fresh(c, t, d) == matched[c] # Nil /\ t < matched[c] + d

(* Access ends: a request is admitted only if, less than a token's life    *)
(* and a login's ago, its user was active with the token's role and the    *)
(* password it was drawn with.  So a Disable, a demotion or a reset of the *)
(* password shuts out every token there is, and every login that had read  *)
(* the row before, through crashes and however they overlap.               *)
AccessEnds ==
  \A c \in Client :
    req[c] # Nil /\ req[c].op # "login" =>
      Fresh(c, req[c].stamp, Expire + MaxDelay)

(* The table is the administrators': beside SeedAdmin, a row changes only  *)
(* by a request of somebody who was an active administrator less than a    *)
(* token's life, a login's and a request's ago.                            *)
OnlyAdminsWrite ==
  [][up /\ users' # users =>
       \E c \in Client : /\ req[c] # Nil /\ req'[c] = Nil
                         /\ req[c].op \in AdminOp
                         /\ token[c].role = "admin"
                         /\ Fresh(c, now, Expire + MaxDelay + MaxDelay)]_vars

(* Changes are asked for: without an overlap, a row changes only in what   *)
(* the request that writes it was asked to change, although Update writes  *)
(* the whole row: a Disable or a reset is not undone, and a restart does   *)
(* not give the administrator's row its first password back.               *)
ChangesAreAsked ==
  [][\A u \in User :
       users[u] # Nil /\ users'[u] # users[u] =>
         \E c \in Client :
           /\ req[c] # Nil /\ req[c].user = u
           /\ \/ c \in overtaken
              \/ \A field \in DOMAIN NoEdit :
                   users'[u][field] \in {users[u][field], req[c].edit[field]}]_vars
=============================================================================
