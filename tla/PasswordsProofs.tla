--------------------------- MODULE PasswordsProofs ---------------------------
(***************************************************************************)
(* Proofs about Passwords and the OperationLog below it, for any accounts, *)
(* passwords and requests and any size of a page.                          *)
(***************************************************************************)
EXTENDS Passwords, TLAPS

(* What the place in the handler says of the daemon's operation. *)
Prepared(r) ==
  req[r] # Nil =>
    /\ req[r].pc = "exec" => req[r].operation = "none"
    /\ req[r].pc \in {"stamp", "insert"} => req[r].operation = "success"
    /\ req[r].mark <= Len(place)

TypeInv == TypeOK /\ \A r \in Req : Prepared(r)

(* The password the account has while r is served. *)
Set(r) == req[r].operation = "success" => guest[req[r].account] = req[r].pw
Unset(r) == req[r].operation # "success" => guest[req[r].account] = told[req[r].account]

(* An account beyond doubt has one request and no orphan. *)
Sure(a) ==
  /\ Left(a) = {}
  /\ \A r, s \in On(a) : r = s
  /\ \A r \in On(a) : Set(r) /\ Unset(r)
  /\ On(a) = {} => guest[a] = told[a]

(* A request nothing got between is the only one, and has no orphan. *)
Lone(r) ==
  /\ req[r] # Nil
  /\ On(req[r].account) = {r}
  /\ Left(req[r].account) = {}
  /\ Set(r)

KnownInv == /\ \A a \in Account \ doubt : Sure(a)
            /\ \A r \in alone : Lone(r)

(* Entries only move down: what is to be shown and was not is below the    *)
(* pages read.                                                             *)
Below == \A i \in reader.due \ reader.seen : Offset(reader.page) < place[i]

LogInv ==
  /\ \A i \in Entries : place[i] \in Entries
  /\ answered \subseteq Entries
  /\ reader # NoReader =>
       /\ reader.due \subseteq Entries
       /\ IF reader.done THEN reader.due \subseteq reader.seen ELSE Below

-----------------------------------------------------------------------------
(* Lemmas about the log. *)

LEMMA InsertLength ==
  ASSUME place \in Seq(Nat), NEW m \in Nat, m <= Len(place), InsertEntry(m)
  PROVE  /\ place' \in Seq(Nat) /\ Len(place') = Len(place) + 1
         /\ \A i \in Entries : place'[i] \in {place[i], place[i] + 1}
         /\ place'[Len(place) + 1] \in 1 .. (Len(place) + 1)
<1>1. PICK k \in 1 .. (Len(place) + 1 - m) :
        place' = Append([i \in Entries |-> IF place[i] < k THEN place[i] ELSE place[i] + 1], k)
  BY DEF InsertEntry
<1> DEFINE s == [i \in Entries |-> IF place[i] < k THEN place[i] ELSE place[i] + 1]
<1>2. s \in Seq(Nat) /\ Len(s) = Len(place)
  <2>1. \A i \in Entries : place[i] \in Nat
    BY DEF Entries
  <2>2. \A i \in Entries : s[i] \in Nat
    BY <2>1
  <2>3. s \in [1..Len(place) -> Nat]
    BY <2>2 DEF Entries
  <2> QED
    BY <2>3
<1>3. k \in Nat /\ k <= Len(place) + 1 /\ k >= 1
  BY <1>1
<1>4. place' = Append(s, k)
  BY <1>1
<1>5. /\ place' \in Seq(Nat) /\ Len(place') = Len(place) + 1
      /\ place'[Len(place) + 1] = k /\ \A i \in 1..Len(place) : place'[i] = s[i]
  <2> HIDE DEF s
  <2> QED
    BY <1>2, <1>3, <1>4
<1>6. \A i \in Entries : place'[i] \in {place[i], place[i] + 1}
  BY <1>5 DEF Entries
<1>7. place'[Len(place) + 1] \in 1 .. (Len(place) + 1)
  BY <1>3, <1>5
<1> QED
  BY <1>5, <1>6, <1>7

LEMMA NextOffset ==
  ASSUME NEW p \in Nat \ {0}
  PROVE  Offset(p + 1) = Offset(p) + PageSize /\ Offset(p) \in Nat
<1>1. PageSize \in Nat
  BY PageSizeAssumption DEF PageSizeAssumption
<1>2. p - 1 \in Nat /\ p = (p - 1) + 1
  OBVIOUS
<1>3. \A n \in Nat : (n + 1) * PageSize = n * PageSize + PageSize /\ n * PageSize \in Nat
  BY <1>1
<1> QED
  BY <1>2, <1>3 DEF Offset

LEMMA FirstOffset == Offset(1) = 0
BY PageSizeAssumption DEF PageSizeAssumption, Offset

(* An insertion leaves what is below below. *)
LEMMA InsertLogInv ==
  ASSUME LogTypeOK, LogInv, NEW m \in Nat, m <= Len(place), InsertEntry(m),
         reader' = reader, answered' \subseteq answered \cup {Len(place')}
  PROVE  LogInv' /\ LogTypeOK'
<1>1. /\ place' \in Seq(Nat) /\ Len(place') = Len(place) + 1
      /\ \A i \in Entries : place'[i] \in {place[i], place[i] + 1}
      /\ place'[Len(place) + 1] \in 1 .. (Len(place) + 1)
  BY InsertLength DEF LogTypeOK
<1>2. Len(place) \in Nat /\ \A i \in Entries : place[i] \in Nat
  BY DEF LogTypeOK, Entries
<1>3. Entries' = Entries \cup {Len(place) + 1}
  BY <1>1, <1>2 DEF Entries
<1>4. \A i \in Entries' : place'[i] \in Entries'
  <2>1. \A i \in Entries : place'[i] \in Entries'
    <3>1. \A i \in Entries : place[i] \in 1..Len(place)
      BY DEF LogInv, Entries
    <3>2. Entries' = 1 .. (Len(place) + 1)
      BY <1>1 DEF Entries
    <3> QED
      BY <1>1, <1>2, <3>1, <3>2
  <2>2. place'[Len(place) + 1] \in Entries'
    BY <1>1 DEF Entries
  <2> QED
    BY <1>3, <2>1, <2>2
<1>5. answered' \subseteq Entries'
  BY <1>1, <1>2, <1>3 DEF LogInv
<1>6. reader # NoReader /\ ~reader.done => Below'
  <2> SUFFICES ASSUME reader # NoReader, ~reader.done, NEW i \in reader.due \ reader.seen
               PROVE  Offset(reader.page) < place'[i]
    BY DEF Below, Offset
  <2>1. Offset(reader.page) < place[i] /\ i \in Entries
    BY DEF LogInv, Below
  <2>2. Offset(reader.page) \in Nat
    BY NextOffset DEF LogTypeOK
  <2> QED
    BY <1>1, <1>2, <2>1, <2>2
<1>7. LogTypeOK'
  BY <1>1 DEF LogTypeOK
<1> QED
  BY <1>3, <1>4, <1>5, <1>6, <1>7 DEF LogInv

(* A page: it shows the places after its offset, and the short one all of  *)
(* them.                                                                   *)
LEMMA PageLogInv ==
  ASSUME LogTypeOK, LogInv, ListOperationLogs, answered' = answered
  PROVE  LogInv' /\ LogTypeOK'
<1>1. /\ place' = place /\ reader # NoReader /\ ~reader.done
      /\ reader.page \in Nat \ {0} /\ reader.due \subseteq Entries /\ Below
  BY DEF ListOperationLogs, LogTypeOK, LogInv
<1>2. /\ reader' # NoReader => reader'.due = reader.due
      /\ reader'.page = reader.page + 1
      /\ reader'.seen = reader.seen \cup Rows(reader.page)
      /\ reader'.done = IsShort(reader.page)
      /\ reader'.due = reader.due
  BY <1>1 DEF ListOperationLogs, LogTypeOK
<1>3. Entries' = Entries
  BY <1>1 DEF Entries
<1>4. Offset(reader.page + 1) = Offset(reader.page) + PageSize /\ Offset(reader.page) \in Nat
  BY <1>1, NextOffset
<1>5. PageSize \in Nat /\ Len(place) \in Nat /\ \A i \in Entries : place[i] \in 1..Len(place)
  BY PageSizeAssumption DEF PageSizeAssumption, LogTypeOK, LogInv, Entries
<1>6. \A i \in reader.due \ reader'.seen :
        Offset(reader.page) + PageSize < place[i] /\ place[i] <= Len(place)
  BY <1>1, <1>2, <1>4, <1>5 DEF Rows, Below
<1>7. IF reader'.done THEN reader'.due \subseteq reader'.seen ELSE Below'
  <2>1. CASE reader'.done
    <3>1. Len(place) < Offset(reader.page) + PageSize
      BY <1>2, <2>1 DEF IsShort
    <3>2. \A i \in reader.due \ reader'.seen : FALSE
      BY <1>1, <1>4, <1>5, <1>6, <3>1
    <3> QED
      BY <1>2, <2>1, <3>2
  <2>2. CASE ~reader'.done
    <3>1. Below' = (\A i \in reader'.due \ reader'.seen : Offset(reader'.page) < place'[i])
      BY DEF Below, Offset
    <3> QED
      BY <1>1, <1>2, <1>4, <1>6, <2>2, <3>1
  <2> QED
    BY <2>1, <2>2
<1>8. LogTypeOK'
  <2>1. Rows(reader.page) \subseteq Nat /\ IsShort(reader.page) \in BOOLEAN
    BY DEF Rows, Entries, IsShort
  <2>2. reader \in [page : Nat \ {0}, due : SUBSET Nat, seen : SUBSET Nat, done : BOOLEAN]
    BY <1>1 DEF LogTypeOK
  <2>3. reader.page + 1 \in Nat \ {0} /\ reader.seen \cup Rows(reader.page) \subseteq Nat
    BY <1>1, <2>1, <2>2
  <2>4. reader' = [page |-> reader.page + 1, due |-> reader.due,
                   seen |-> reader.seen \cup Rows(reader.page), done |-> IsShort(reader.page)]
    BY <2>2 DEF ListOperationLogs
  <2> QED
    BY <1>1, <2>1, <2>2, <2>3, <2>4 DEF LogTypeOK
<1> QED
  BY <1>1, <1>2, <1>3, <1>7, <1>8 DEF LogInv

LEMMA OpenLogInv ==
  ASSUME LogTypeOK, LogInv, Open(answered), answered' = answered
  PROVE  LogInv' /\ LogTypeOK'
<1>1. /\ place' = place
      /\ reader' = [page |-> 1, due |-> answered, seen |-> {}, done |-> FALSE]
  BY DEF Open
<1>2. Entries' = Entries /\ answered \subseteq Entries /\ Entries \subseteq Nat
  BY <1>1 DEF Entries, LogInv
<1>3. Below'
  <2>1. Below' = (\A i \in answered : Offset(1) < place[i])
    BY <1>1 DEF Below, Offset
  <2>2. \A i \in answered : 0 < place[i]
    BY <1>2 DEF LogInv, LogTypeOK, Entries
  <2> QED
    BY <2>1, <2>2, FirstOffset
<1> QED
  BY <1>1, <1>2, <1>3 DEF LogInv, LogTypeOK

-----------------------------------------------------------------------------
(* Lemmas about the requests. *)

LEMMA Served ==
  ASSUME TypeInv, NEW r \in Req, req[r] # Nil
  PROVE  /\ req[r] \in Request /\ Nil \notin Request /\ Prepared(r)
         /\ req[r].account \in Account /\ req[r].pw \in Password
         /\ [account |-> req[r].account, pw |-> req[r].pw] \in Command
<1>1. Nil \notin Request
  BY PasswordsAssumption DEF PasswordsAssumption
<1>2. req[r] \in Request
  BY DEF TypeInv, TypeOK
<1> QED
  BY <1>1, <1>2 DEF TypeInv, Request, Command

(* A request that ends leaves its command at the most. *)
LEMMA EndOfRequest ==
  ASSUME TypeInv, NEW r \in Req, req[r] # Nil, End(r)
  PROVE  /\ req' \in [Req -> Request \cup {Nil}] /\ req'[r] = Nil
         /\ \A q \in Req \ {r} : req'[q] = req[q]
         /\ alone' = alone \ {r} /\ alone' \in SUBSET Req
         /\ orphans' \in SUBSET Command /\ orphans \subseteq orphans'
         /\ \A o \in orphans' \ orphans : o.account = req[r].account
         /\ req[r].operation # "running" => orphans' = orphans
BY Served DEF End, TypeInv, TypeOK

LEMMA AdvanceOfRequest ==
  ASSUME TypeInv, NEW r \in Req, req[r] # Nil,
         NEW pc \in {"exec", "wait", "stamp", "insert"},
         NEW op \in {"none", "running", "success", "failure"}, Advance(r, pc, op)
  PROVE  /\ req' \in [Req -> Request \cup {Nil}] /\ req'[r] # Nil
         /\ \A q \in Req \ {r} : req'[q] = req[q]
         /\ req'[r].account = req[r].account /\ req'[r].pw = req[r].pw
         /\ req'[r].mark = req[r].mark /\ req'[r].pc = pc /\ req'[r].operation = op
<1>1. req[r] \in Request /\ Nil \notin Request /\ req \in [Req -> Request \cup {Nil}]
  BY Served DEF TypeInv, TypeOK
<1>2. PICK new : /\ new = [req[r] EXCEPT !.pc = pc, !.operation = op]
                 /\ req' = [req EXCEPT ![r] = new]
  BY <1>1 DEF Advance
<1>3. new = [account |-> req[r].account, pw |-> req[r].pw, mark |-> req[r].mark,
             pc |-> pc, operation |-> op]
  BY <1>1, <1>2 DEF Request
<1>4. req[r].account \in Account /\ req[r].pw \in Password /\ req[r].mark \in Nat
  BY <1>1 DEF Request
<1>5. new \in Request
  BY <1>3, <1>4 DEF Request
<1> QED
  BY <1>1, <1>2, <1>3, <1>5

(* What is left to say of the types when the request r takes a step. *)
LEMMA RequestTypes ==
  ASSUME TypeInv, NEW r \in Req,
         \A q \in Req \ {r} : req'[q] = req[q],
         req' \in [Req -> Request \cup {Nil}],
         LogTypeOK', Len(place) <= Len(place'), Len(place) \in Nat, Len(place') \in Nat,
         guest' \in [Account -> Password], orphans' \in SUBSET Command,
         told' \in [Account -> Password], doubt' \in SUBSET Account,
         alone' \in SUBSET Req, answered' \in SUBSET Nat,
         Prepared(r)'
  PROVE  TypeInv'
<1>1. ASSUME NEW q \in Req, q # r, req[q] # Nil
      PROVE  Prepared(q)'
  <2>1. req[q] \in Request /\ Prepared(q)
    BY <1>1, Served
  <2>2. req[q].mark \in Nat
    BY <2>1 DEF Request
  <2> QED
    BY <1>1, <2>1, <2>2 DEF Prepared
<1>2. \A q \in Req : Prepared(q)'
  BY <1>1 DEF Prepared
<1> QED
  BY <1>2 DEF TypeInv, TypeOK


-----------------------------------------------------------------------------
(* Every step keeps the types and the invariant of the log. *)

LEMMA BeginTypes ==
  ASSUME TypeInv, LogInv, NEW r \in Req, Begin(r)
  PROVE  TypeInv' /\ LogInv'
<1>1. PICK a \in Account, p \in Password :
        /\ req' = [req EXCEPT ![r] = [account |-> a, pw |-> p, mark |-> 0, pc |-> "exec",
                                      operation |-> "none"]]
        /\ alone' = IF On(a) = {} /\ Left(a) = {} THEN alone \cup {r} ELSE alone \ On(a)
        /\ IF On(a) = {} THEN UNCHANGED doubt ELSE Doubt(a)
  BY DEF Begin
<1>2. TypeOK /\ UNCHANGED <<place, reader, guest, orphans, told, answered>>
  BY DEF TypeInv, Begin, logVars
<1> DEFINE new == [account |-> a, pw |-> p, mark |-> 0, pc |-> "exec", operation |-> "none"]
<1>3. new \in Request
  BY DEF Request
<1>4. Len(place) \in Nat
  BY <1>2 DEF TypeOK, LogTypeOK
<1>5. req' \in [Req -> Request \cup {Nil}] /\ req'[r] = new
      /\ \A q \in Req \ {r} : req'[q] = req[q]
  BY <1>1, <1>2, <1>3 DEF TypeOK
<1>6. Prepared(r)'
  BY <1>2, <1>4, <1>5 DEF Prepared
<1>7. LogTypeOK' /\ LogInv'
  BY <1>2 DEF LogTypeOK, LogInv, Below, Entries, Offset, TypeOK
<1>8. alone' \in SUBSET Req /\ doubt' \in SUBSET Account
  BY <1>1, <1>2 DEF TypeOK, Doubt
<1> QED
  BY <1>2, <1>4, <1>5, <1>6, <1>7, <1>8, RequestTypes DEF TypeOK

(* The steps of a request that leave the log alone. *)
LEMMA QuietTypes ==
  ASSUME TypeInv, LogInv, NEW r \in Req, req[r] # Nil,
         UNCHANGED <<logVars, told, answered>>,
         guest' \in [Account -> Password], doubt' \in SUBSET Account,
         \/ End(r)
         \/ /\ \E pc \in {"wait", "stamp"}, op \in {"running", "success", "failure"} :
                 Advance(r, pc, op) /\ (pc = "stamp" => op = "success")
            /\ orphans' = orphans /\ alone' \in SUBSET alone
         \/ /\ req' = [req EXCEPT ![r] = Nil]
            /\ orphans' \in SUBSET Command /\ alone' \in SUBSET alone
  PROVE  TypeInv' /\ LogInv'
<1>1. TypeOK /\ UNCHANGED <<place, reader, told, answered>> /\ Prepared(r)
  BY DEF TypeInv, logVars
<1>2. Len(place) \in Nat
  BY <1>1 DEF TypeOK, LogTypeOK
<1>3. LogTypeOK' /\ LogInv'
  BY <1>1 DEF LogTypeOK, LogInv, Below, Entries, Offset, TypeOK
<1>4. /\ req' \in [Req -> Request \cup {Nil}] /\ \A q \in Req \ {r} : req'[q] = req[q]
      /\ orphans' \in SUBSET Command /\ alone' \in SUBSET Req /\ Prepared(r)'
  <2>1. CASE End(r)
    BY <2>1, EndOfRequest DEF Prepared
  <2>2. ASSUME NEW pc \in {"wait", "stamp"}, NEW op \in {"running", "success", "failure"},
               Advance(r, pc, op), pc = "stamp" => op = "success",
               orphans' = orphans, alone' \in SUBSET alone
        PROVE  <1>4
    <3>1. /\ req' \in [Req -> Request \cup {Nil}] /\ req'[r] # Nil
          /\ \A q \in Req \ {r} : req'[q] = req[q]
          /\ req'[r].mark = req[r].mark /\ req'[r].pc = pc /\ req'[r].operation = op
      BY <2>2, AdvanceOfRequest
    <3>2. Prepared(r)'
      BY <1>1, <2>2, <3>1 DEF Prepared
    <3> QED
      BY <1>1, <2>2, <3>1, <3>2 DEF TypeOK
  <2>3. CASE /\ req' = [req EXCEPT ![r] = Nil]
             /\ orphans' \in SUBSET Command /\ alone' \in SUBSET alone
    BY <1>1, <2>3 DEF Prepared, TypeOK
  <2> QED
    BY <2>1, <2>2, <2>3
<1> QED
  BY <1>1, <1>2, <1>3, <1>4, RequestTypes DEF TypeOK


LEMMA StampTypes ==
  ASSUME TypeInv, LogInv, NEW r \in Req, StampEntry(r)
  PROVE  TypeInv' /\ LogInv'
<1>1. /\ TypeOK /\ Prepared(r) /\ req[r] # Nil /\ req[r].pc = "stamp"
      /\ UNCHANGED <<place, reader, guest, orphans, told, doubt, alone, answered>>
  BY DEF TypeInv, StampEntry, At, logVars
<1>2. Len(place) \in Nat
  BY <1>1 DEF TypeOK, LogTypeOK
<1>3. LogTypeOK' /\ LogInv'
  BY <1>1 DEF LogTypeOK, LogInv, Below, Entries, Offset, TypeOK
<1>4. req[r] \in Request /\ Nil \notin Request
  BY <1>1, Served
<1>5. PICK new : /\ new = [req[r] EXCEPT !.pc = "insert", !.mark = Len(place)]
                 /\ req' = [req EXCEPT ![r] = new]
  BY <1>1, <1>4 DEF StampEntry, TypeOK
<1>6. new = [account |-> req[r].account, pw |-> req[r].pw, mark |-> Len(place),
             pc |-> "insert", operation |-> req[r].operation]
  BY <1>4, <1>5 DEF Request
<1>7. /\ req[r].account \in Account /\ req[r].pw \in Password
      /\ req[r].operation \in {"none", "running", "success", "failure"}
  BY <1>4 DEF Request
<1>8. new \in Request
  BY <1>2, <1>6, <1>7 DEF Request
<1>9. req' \in [Req -> Request \cup {Nil}] /\ req'[r] = new
      /\ \A q \in Req \ {r} : req'[q] = req[q]
  BY <1>1, <1>5, <1>8 DEF TypeOK
<1>10. Prepared(r)'
  BY <1>1, <1>2, <1>6, <1>9 DEF Prepared
<1> QED
  BY <1>1, <1>2, <1>3, <1>9, <1>10, RequestTypes DEF TypeOK

(* The entry may be inserted. *)
LEMMA InsertTypes ==
  ASSUME TypeInv, LogInv, NEW r \in Req, At(r, "insert"), End(r),
         InsertEntry(req[r].mark) \/ UNCHANGED place,
         UNCHANGED <<reader, guest>>,
         told' \in [Account -> Password], doubt' \in SUBSET Account,
         answered' \subseteq answered \/ (InsertEntry(req[r].mark) /\ answered' = answered \cup {Len(place')}),
         answered \subseteq answered'
  PROVE  TypeInv' /\ LogInv'
<1>1. TypeOK /\ LogTypeOK /\ Prepared(r) /\ req[r] # Nil /\ UNCHANGED <<reader, guest>>
  BY DEF TypeInv, TypeOK, At
<1>2. req[r] \in Request
  BY <1>1, Served
<1>3. req[r].mark \in Nat /\ req[r].mark <= Len(place) /\ Len(place) \in Nat
  BY <1>1, <1>2 DEF Request, Prepared, LogTypeOK
<1>4. LogTypeOK' /\ LogInv' /\ Len(place') \in Nat /\ Len(place) <= Len(place')
      /\ answered' \in SUBSET Nat
  <2>1. CASE InsertEntry(req[r].mark)
    <3>1. place' \in Seq(Nat) /\ Len(place') = Len(place) + 1
      BY <1>1, <1>3, <2>1, InsertLength DEF LogTypeOK
    <3>2. answered' \subseteq answered \cup {Len(place')}
      OBVIOUS
    <3>3. LogTypeOK' /\ LogInv'
      BY <1>1, <1>3, <2>1, <3>2, InsertLogInv
    <3> QED
      BY <1>1, <1>3, <3>1, <3>2, <3>3 DEF TypeOK
  <2>2. CASE UNCHANGED place /\ answered' \subseteq answered
    <3>1. answered' = answered
      BY <2>2
    <3> QED
      BY <1>1, <1>3, <2>2, <3>1 DEF LogTypeOK, LogInv, Below, Entries, Offset, TypeOK
  <2> QED
    BY <2>1, <2>2
<1>5. /\ req' \in [Req -> Request \cup {Nil}] /\ req'[r] = Nil
      /\ \A q \in Req \ {r} : req'[q] = req[q]
      /\ alone' \in SUBSET Req /\ orphans' \in SUBSET Command
  BY <1>1, EndOfRequest
<1>6. Prepared(r)'
  BY <1>5 DEF Prepared
<1> QED
  BY <1>1, <1>3, <1>4, <1>5, <1>6, RequestTypes DEF TypeOK

(* The steps that leave every request alone. *)
LEMMA OtherTypes ==
  ASSUME TypeInv, LogInv, RunOrphan \/ OpenLog \/ NextPage \/ UNCHANGED vars
  PROVE  TypeInv' /\ LogInv'
<1>1. /\ TypeOK /\ LogTypeOK /\ UNCHANGED <<place, req, told, doubt, alone, answered>>
      /\ guest' \in [Account -> Password] /\ orphans' \in SUBSET Command
  <2>1. CASE RunOrphan
    <3>1. PICK o \in orphans : /\ guest' \in {guest, [guest EXCEPT ![o.account] = o.pw]}
                               /\ orphans' = orphans \ {o}
      BY <2>1 DEF RunOrphan
    <3>2. o.account \in Account /\ o.pw \in Password
      BY DEF TypeInv, TypeOK, Command
    <3> QED
      BY <2>1, <3>1, <3>2 DEF RunOrphan, TypeInv, TypeOK, logVars
  <2>2. CASE OpenLog
    BY <2>2 DEF OpenLog, Open, TypeInv, TypeOK
  <2>3. CASE NextPage
    BY <2>3 DEF NextPage, ListOperationLogs, TypeInv, TypeOK
  <2>4. CASE UNCHANGED vars
    BY <2>4 DEF vars, logVars, TypeInv, TypeOK
  <2> QED
    BY <2>1, <2>2, <2>3, <2>4
<1>2. LogTypeOK' /\ LogInv'
  <2>1. CASE OpenLog
    BY <1>1, <2>1, OpenLogInv DEF OpenLog
  <2>2. CASE NextPage
    BY <1>1, <2>2, PageLogInv DEF NextPage
  <2>3. CASE RunOrphan \/ UNCHANGED vars
    <3>1. UNCHANGED <<place, reader, answered>>
      BY <2>3 DEF RunOrphan, vars, logVars
    <3> QED
      BY <1>1, <3>1 DEF LogTypeOK, LogInv, Below, Entries, Offset
  <2> QED
    BY <2>1, <2>2, <2>3
<1>3. \A q \in Req : Prepared(q)'
  BY <1>1 DEF Prepared, TypeInv
<1> QED
  BY <1>1, <1>2, <1>3 DEF TypeInv, TypeOK

LEMMA CrashTypes ==
  ASSUME TypeInv, LogInv, Crash
  PROVE  TypeInv' /\ LogInv'
<1>1. /\ TypeOK /\ LogTypeOK /\ UNCHANGED <<place, reader, guest, told, answered>>
      /\ req' = [r \in Req |-> Nil] /\ alone' = {}
  BY DEF TypeInv, TypeOK, Crash, logVars
<1>2. LogTypeOK' /\ LogInv'
  BY <1>1 DEF LogTypeOK, LogInv, Below, Entries, Offset
<1>3. orphans' \in SUBSET Command /\ doubt' \in SUBSET Account
  <2>1. \A r \in Busy : /\ req[r].account \in Account
                        /\ [account |-> req[r].account, pw |-> req[r].pw] \in Command
    BY Served DEF Busy
  <2> QED
    BY <1>1, <2>1 DEF Crash, TypeOK
<1>4. \A q \in Req : Prepared(q)'
  BY <1>1 DEF Prepared
<1> QED
  BY <1>1, <1>2, <1>3, <1>4 DEF TypeInv, TypeOK


LEMMA TypeStep == TypeInv /\ LogInv /\ [Next]_vars => TypeInv' /\ LogInv'
<1> SUFFICES ASSUME TypeInv, LogInv, [Next]_vars
             PROVE  TypeInv' /\ LogInv'
  OBVIOUS
<1>0. TypeOK
  BY DEF TypeInv
<1>1. ASSUME NEW r \in Req, Exec(r)
      PROVE  TypeInv' /\ LogInv'
  <2>1. req[r] # Nil /\ UNCHANGED <<logVars, told, answered>> /\ guest' = guest
    BY <1>1 DEF Exec, At, Fail
  <2>2. doubt' \in SUBSET Account /\ guest' \in [Account -> Password]
    BY <1>0, <1>1, <2>1, Served DEF Exec, Doubt, TypeOK
  <2>3. \/ Advance(r, "wait", "running") /\ orphans' = orphans /\ alone' = alone
        \/ End(r)
        \/ /\ req' = [req EXCEPT ![r] = Nil] /\ alone' = alone \ {r}
           /\ orphans' \in SUBSET Command
    BY <1>0, <1>1, <2>1, Served DEF Exec, Fail, TypeOK
  <2> QED
    BY <2>1, <2>2, <2>3, QuietTypes
<1>2. ASSUME NEW r \in Req, RunCommand(r)
      PROVE  TypeInv' /\ LogInv'
  <2>1. /\ req[r] # Nil /\ UNCHANGED <<logVars, told, answered, orphans>>
        /\ req[r].account \in Account /\ req[r].pw \in Password
    BY <1>2, Served DEF RunCommand, At
  <2>2. doubt' \in SUBSET Account /\ guest' \in [Account -> Password]
    BY <1>0, <1>2, <2>1 DEF RunCommand, Doubt, TypeOK
  <2>3. /\ Advance(r, "wait", "success") \/ Advance(r, "wait", "failure")
        /\ alone' \in SUBSET alone
    BY <1>2 DEF RunCommand
  <2> QED
    BY <2>1, <2>2, <2>3, QuietTypes
<1>3. ASSUME NEW r \in Req, WaitOperation(r)
      PROVE  TypeInv' /\ LogInv'
  <2>1. req[r] # Nil /\ UNCHANGED <<logVars, told, answered, guest, doubt>>
    BY <1>3 DEF WaitOperation, At, Fail
  <2>2. \/ Advance(r, "stamp", "success") /\ orphans' = orphans /\ alone' = alone
        \/ End(r)
    BY <1>3 DEF WaitOperation, Succeeded, Fail
  <2> QED
    BY <1>0, <2>1, <2>2, QuietTypes DEF TypeOK
<1>4. ASSUME NEW r \in Req, GiveUp(r)
      PROVE  TypeInv' /\ LogInv'
  <2>1. req[r] # Nil /\ UNCHANGED <<logVars, told, answered, guest>> /\ End(r)
    BY <1>4 DEF GiveUp, At, Fail
  <2>2. doubt' \in SUBSET Account
    BY <1>0, <1>4, <2>1, Served DEF GiveUp, Doubt, TypeOK
  <2> QED
    BY <1>0, <2>1, <2>2, QuietTypes DEF TypeOK
<1>5. ASSUME NEW r \in Req, LogOperation(r)
      PROVE  TypeInv' /\ LogInv'
  <2>1. /\ At(r, "insert") /\ End(r) /\ InsertEntry(req[r].mark)
        /\ UNCHANGED <<reader, guest>> /\ answered' = answered \cup {Len(place')}
    BY <1>5 DEF LogOperation
  <2>2. req[r].account \in Account /\ req[r].pw \in Password
    BY <2>1, Served DEF At
  <2>3. told' \in [Account -> Password] /\ doubt' \in SUBSET Account
    BY <1>0, <1>5, <2>2 DEF LogOperation, NewPassword, TypeOK
  <2> QED
    BY <2>1, <2>3, InsertTypes
<1>6. ASSUME NEW r \in Req, LogFails(r)
      PROVE  TypeInv' /\ LogInv'
  <2>1. /\ At(r, "insert") /\ End(r)
        /\ InsertEntry(req[r].mark) \/ UNCHANGED place
        /\ UNCHANGED <<reader, guest, told, answered>>
    BY <1>6 DEF LogFails, Fail
  <2>2. doubt' \in SUBSET Account /\ told' \in [Account -> Password]
    BY <1>0, <1>6, <2>1, Served DEF LogFails, Doubt, TypeOK, At
  <2> QED
    BY <2>1, <2>2, InsertTypes
<1>7. ASSUME NEW r \in Req, Begin(r) \/ StampEntry(r)
      PROVE  TypeInv' /\ LogInv'
  BY <1>7, BeginTypes, StampTypes
<1>8. ASSUME Crash
      PROVE  TypeInv' /\ LogInv'
  BY <1>8, CrashTypes
<1>9. ASSUME RunOrphan \/ OpenLog \/ NextPage \/ UNCHANGED vars
      PROVE  TypeInv' /\ LogInv'
  BY <1>9, OtherTypes
<1> QED
  BY <1>1, <1>2, <1>3, <1>4, <1>5, <1>6, <1>7, <1>8, <1>9 DEF Next

-----------------------------------------------------------------------------
(* The passwords. *)

(* A step of the request r on the account a, which alone it touches. *)
LEMMA Elsewhere ==
  ASSUME KnownInv, NEW r \in Req, NEW a \in Account,
         req[r] # Nil => req[r].account = a,
         req'[r] # Nil => req'[r].account = a,
         \A q \in Req \ {r} : req'[q] = req[q],
         \A b \in Account \ {a} : guest'[b] = guest[b] /\ told'[b] = told[b],
         \A o \in orphans' \ orphans : o.account = a,
         orphans \subseteq orphans',
         doubt \ {a} \subseteq doubt',
         a \notin doubt' => Sure(a)',
         alone \in SUBSET Req, alone' \subseteq alone \cup {r},
         r \in alone' => Lone(r)',
         \A q \in alone' \ {r} : req[q] # Nil => req[q].account \in Account \ {a}
  PROVE  KnownInv'
<1>1. ASSUME NEW b \in Account, b # a
      PROVE  On(b)' = On(b) /\ Left(b)' = Left(b)
  BY <1>1 DEF On, Left, Busy
<1>2. ASSUME NEW b \in Account \ doubt', b # a
      PROVE  Sure(b)'
  <2>1. Sure(b)
    BY <1>2 DEF KnownInv
  <2>2. On(b)' = On(b) /\ Left(b)' = Left(b) /\ guest'[b] = guest[b] /\ told'[b] = told[b]
    BY <1>1, <1>2
  <2>3. \A q \in On(b) : q # r /\ q \in Req /\ req'[q] = req[q] /\ req[q].account = b
    BY <1>2 DEF On, Busy
  <2> QED
    BY <2>1, <2>2, <2>3 DEF Sure, Set, Unset
<1>3. ASSUME NEW q \in alone', q # r
      PROVE  Lone(q)'
  <2>1. q \in alone /\ Lone(q) /\ req'[q] = req[q]
    BY <1>3 DEF KnownInv
  <2>2. PICK b \in Account \ {a} : b = req[q].account
    BY <1>3, <2>1 DEF Lone
  <2>3. /\ On(b)' = On(b) /\ Left(b)' = Left(b) /\ guest'[b] = guest[b]
    BY <1>1, <2>2
  <2>4. On(b)' = {q} /\ Left(b)' = {}
    BY <2>1, <2>2, <2>3 DEF Lone
  <2> QED
    BY <2>1, <2>2, <2>3, <2>4 DEF Lone, Set
<1> QED
  BY <1>2, <1>3 DEF KnownInv


(* A request that nothing got between is on an account of its own. *)
LEMMA OtherAccounts ==
  ASSUME TypeInv, KnownInv, NEW r \in Req, req[r] # Nil,
         NEW q \in alone, q # r
  PROVE  req[q].account \in Account \ {req[r].account}
<1>1. Lone(q) /\ q \in Req
  BY DEF KnownInv, TypeInv, TypeOK
<1>2. req[q].account \in Account
  BY <1>1, Served DEF Lone
<1>3. r \in Busy /\ r \notin On(req[q].account)
  BY <1>1 DEF Lone, Busy
<1> QED
  BY <1>2, <1>3 DEF On

(* The request ends with its account in doubt. *)
LEMMA EndInDoubt ==
  ASSUME TypeInv, KnownInv, NEW r \in Req, req[r] # Nil,
         req'[r] = Nil, \A q \in Req \ {r} : req'[q] = req[q],
         \A o \in orphans' \ orphans : o.account = req[r].account,
         orphans \subseteq orphans', alone' = alone \ {r},
         doubt' = doubt \cup {req[r].account}, UNCHANGED <<guest, told>>
  PROVE  KnownInv'
<1>1. PICK a \in Account : a = req[r].account
  BY Served
<1>2. alone \in SUBSET Req
  BY DEF TypeInv, TypeOK
<1>3. \A q \in alone' \ {r} : req[q].account \in Account \ {a}
  BY <1>1, OtherAccounts
<1> QED
  BY <1>1, <1>2, <1>3, Elsewhere

(* The request goes on. *)
LEMMA GoesOn ==
  ASSUME TypeInv, KnownInv, NEW r \in Req, req[r] # Nil,
         \A q \in Req \ {r} : req'[q] = req[q],
         req'[r] # Nil, req'[r].account = req[r].account,
         NEW a, a = req[r].account,
         doubt \subseteq doubt', a \notin doubt' => Set(r)' /\ Unset(r)',
         alone' \subseteq alone, r \in alone' => Set(r)',
         \A b \in Account \ {a} : guest'[b] = guest[b],
         UNCHANGED <<orphans, told>>
  PROVE  KnownInv'
<1>1. a \in Account /\ alone \in SUBSET Req
  BY Served DEF TypeInv, TypeOK
<1>2. On(a)' = On(a) /\ r \in On(a) /\ Left(a)' = Left(a)
  BY DEF On, Busy, Left
<1>3. \A q \in alone' \ {r} : req[q].account \in Account \ {a}
  BY OtherAccounts
<1>4. ASSUME a \notin doubt'
      PROVE  Sure(a)'
  <2>1. Sure(a)
    BY <1>1, <1>4 DEF KnownInv
  <2>2. On(a)' = {r} /\ Left(a)' = {}
    BY <1>2, <2>1 DEF Sure
  <2> QED
    BY <1>4, <2>2 DEF Sure
<1>5. ASSUME r \in alone'
      PROVE  Lone(r)'
  <2>1. Lone(r)
    BY <1>5 DEF KnownInv
  <2>2. On(a)' = {r} /\ Left(a)' = {} /\ req'[r].account = a
    BY <1>2, <2>1 DEF Lone
  <2> QED
    BY <1>5, <2>2 DEF Lone
<1> QED
  BY <1>1, <1>3, <1>4, <1>5, Elsewhere

(* The request ends, with no command left, after it has told the truth. *)
LEMMA EndsKnown ==
  ASSUME TypeInv, KnownInv, NEW r \in Req, req[r] # Nil, NEW a, a = req[r].account,
         req'[r] = Nil, \A q \in Req \ {r} : req'[q] = req[q],
         alone' = alone \ {r}, UNCHANGED <<guest, orphans>>,
         \A b \in Account \ {a} : told'[b] = told[b],
         doubt' = doubt \/ (r \in alone /\ doubt' = doubt \ {a}),
         a \notin doubt' => guest[a] = told'[a]
  PROVE  KnownInv'
<1>1. a \in Account /\ alone \in SUBSET Req
  BY Served DEF TypeInv, TypeOK
<1>2. \A q \in alone' \ {r} : req[q].account \in Account \ {a}
  BY OtherAccounts
<1>3. r \in On(a)
  BY DEF On, Busy
<1>4. ASSUME a \notin doubt'
      PROVE  Sure(a)'
  <2>1. Sure(a) \/ (r \in alone /\ Lone(r))
    BY <1>1, <1>4 DEF KnownInv
  <2>2. On(a) = {r} /\ Left(a) = {}
    BY <1>3, <2>1 DEF Sure, Lone
  <2>3. On(a)' = {} /\ Left(a)' = {}
    BY <2>2 DEF On, Busy, Left
  <2>4. guest'[a] = told'[a]
    BY <1>4
  <2> QED
    BY <2>3, <2>4 DEF Sure
<1> QED
  BY <1>1, <1>2, <1>4, Elsewhere

LEMMA BeginKnown ==
  ASSUME TypeInv, KnownInv, NEW r \in Req, Begin(r)
  PROVE  KnownInv'
<1>1. PICK a \in Account, p \in Password :
        /\ req' = [req EXCEPT ![r] = [account |-> a, pw |-> p, mark |-> 0, pc |-> "exec",
                                      operation |-> "none"]]
        /\ alone' = IF On(a) = {} /\ Left(a) = {} THEN alone \cup {r} ELSE alone \ On(a)
        /\ IF On(a) = {} THEN UNCHANGED doubt ELSE Doubt(a)
  BY DEF Begin
<1> DEFINE new == [account |-> a, pw |-> p, mark |-> 0, pc |-> "exec", operation |-> "none"]
<1>2. /\ req[r] = Nil /\ UNCHANGED <<guest, told, orphans>> /\ Nil \notin Request
      /\ alone \in SUBSET Req /\ req \in [Req -> Request \cup {Nil}]
  BY PasswordsAssumption DEF Begin, TypeInv, TypeOK, PasswordsAssumption
<1>3. req'[r] = new /\ \A q \in Req \ {r} : req'[q] = req[q]
  BY <1>1, <1>2
<1>4. new \in Request
  BY DEF Request
<1>5. req'[r] # Nil /\ req'[r].account = a /\ req'[r].operation = "none"
  BY <1>2, <1>3, <1>4
<1>6. On(a)' = On(a) \cup {r} /\ Left(a)' = Left(a)
  <2> HIDE DEF new
  <2> QED
    BY <1>2, <1>3, <1>5 DEF On, Busy, Left
<1>7. ASSUME a \notin doubt'
      PROVE  Sure(a)'
  <2>1. On(a) = {} /\ Sure(a)
    BY <1>1, <1>7 DEF Doubt, KnownInv
  <2>2. guest'[a] = told'[a] /\ Left(a)' = {} /\ On(a)' = {r}
    BY <1>2, <1>6, <2>1 DEF Sure
  <2> HIDE DEF new
  <2> QED
    BY <1>5, <2>2 DEF Sure, Set, Unset
<1>8. r \notin alone
  BY <1>2 DEF KnownInv, Lone
<1>9. ASSUME r \in alone'
      PROVE  Lone(r)'
  <2>1. On(a) = {} /\ Left(a) = {}
    BY <1>1, <1>8, <1>9
  <2>2. On(a)' = {r} /\ Left(a)' = {}
    BY <1>6, <2>1
  <2> HIDE DEF new
  <2> QED
    BY <1>5, <2>2 DEF Lone, Set
<1>10. ASSUME NEW q \in alone' \ {r}
       PROVE  req[q].account \in Account \ {a}
  <2>1. q \in alone /\ Lone(q) /\ q \in Req /\ q \notin On(a)
    BY <1>1, <1>2, <1>10 DEF KnownInv
  <2>2. req[q].account \in Account
    BY <2>1, Served DEF Lone
  <2> QED
    BY <2>1, <2>2 DEF On, Busy, Lone
<1>11. alone' \subseteq alone \cup {r} /\ doubt \subseteq doubt'
  BY <1>1 DEF Doubt
<1> HIDE DEF new
<1> QED
  BY <1>2, <1>3, <1>5, <1>7, <1>9, <1>10, <1>11, Elsewhere


(* The wait: before the command has run the old password works, after it   *)
(* the new one.                                                            *)
LEMMA RequestKnown ==
  ASSUME TypeInv, KnownInv, NEW r \in Req,
         Exec(r) \/ RunCommand(r) \/ WaitOperation(r) \/ GiveUp(r) \/ StampEntry(r)
  PROVE  KnownInv'
<1>0. TypeOK /\ Prepared(r) /\ req[r] # Nil /\ UNCHANGED told
  BY DEF TypeInv, Exec, RunCommand, WaitOperation, GiveUp, StampEntry, At, Fail
<1>1. /\ req[r] \in Request /\ Nil \notin Request
      /\ req[r].account \in Account /\ req[r].pw \in Password
  BY <1>0, Served
<1> DEFINE a == req[r].account
<1>2. a \notin doubt => Set(r) /\ Unset(r)
  BY <1>0, <1>1 DEF KnownInv, Sure, On, Busy
<1>3. r \in alone => Set(r)
  BY DEF KnownInv, Lone
<1>4. ASSUME Fail(r), req[r].operation \in {"none", "failure"}, UNCHANGED <<guest, doubt>>
      PROVE  KnownInv'
  <2>1. /\ req'[r] = Nil /\ \A q \in Req \ {r} : req'[q] = req[q]
        /\ alone' = alone \ {r} /\ orphans' = orphans
    BY <1>0, <1>4, EndOfRequest DEF Fail
  <2>2. a \notin doubt' => guest[a] = told'[a]
    BY <1>0, <1>2, <1>4 DEF Unset
  <2> QED
    BY <1>0, <1>4, <2>1, <2>2, EndsKnown
<1>5. ASSUME NEW pc \in {"wait", "stamp"}, NEW op \in {"running", "success", "failure"},
             Advance(r, pc, op), UNCHANGED orphans, alone' \subseteq alone,
             doubt \subseteq doubt', \A b \in Account \ {a} : guest'[b] = guest[b],
             op = "success" =>
               \/ guest'[a] = req[r].pw
               \/ req[r].operation = "success" /\ guest' = guest
               \/ a \in doubt' /\ r \notin alone',
             op # "success" => req[r].operation # "success" /\ guest' = guest
      PROVE  KnownInv'
  <2>1. /\ req'[r] # Nil /\ \A q \in Req \ {r} : req'[q] = req[q]
        /\ req'[r].account = a /\ req'[r].pw = req[r].pw /\ req'[r].operation = op
    BY <1>0, <1>5, AdvanceOfRequest
  <2>2. a \notin doubt' => Set(r)' /\ Unset(r)'
    BY <1>0, <1>2, <1>5, <2>1 DEF Set, Unset
  <2>3. r \in alone' => Set(r)'
    BY <1>3, <1>5, <2>1 DEF Set
  <2> QED
    BY <1>0, <1>5, <2>1, <2>2, <2>3, GoesOn
<1>6. CASE Exec(r)
  <2>1. guest' = guest /\ req[r].operation = "none"
    BY <1>0, <1>6 DEF Exec, At, Prepared
  <2>2. CASE Advance(r, "wait", "running") /\ UNCHANGED <<orphans, doubt, alone, told, answered>>
    BY <1>5, <2>1, <2>2
  <2>3. CASE Fail(r) /\ UNCHANGED doubt
    BY <1>4, <2>1, <2>3
  <2>4. CASE /\ req' = [req EXCEPT ![r] = Nil]
             /\ alone' = alone \ {r}
             /\ orphans' = orphans \cup {[account |-> req[r].account, pw |-> req[r].pw]}
             /\ Doubt(req[r].account)
    <3>1. req'[r] = Nil /\ \A q \in Req \ {r} : req'[q] = req[q]
      BY <1>0, <2>4 DEF TypeOK
    <3>2. \A o \in orphans' \ orphans : o.account = req[r].account
      BY <2>4
    <3>3. /\ orphans \subseteq orphans' /\ doubt' = doubt \cup {req[r].account}
          /\ alone' = alone \ {r}
      BY <2>4 DEF Doubt
    <3> QED
      BY <1>0, <2>1, <3>1, <3>2, <3>3, EndInDoubt
  <2> QED
    BY <1>6, <2>2, <2>3, <2>4 DEF Exec
<1>7. CASE RunCommand(r)
  <2>1. req[r].operation = "running" /\ UNCHANGED orphans
    BY <1>7 DEF RunCommand
  <2>2. CASE /\ Advance(r, "wait", "success")
             /\ guest' = [guest EXCEPT ![req[r].account] = req[r].pw]
             /\ UNCHANGED <<doubt, alone>>
    <3>1. guest'[a] = req[r].pw /\ \A b \in Account \ {a} : guest'[b] = guest[b]
      BY <1>0, <1>1, <2>2 DEF TypeOK
    <3> QED
      BY <1>5, <2>1, <2>2, <3>1
  <2>3. CASE /\ Advance(r, "wait", "success")
             /\ Doubt(req[r].account) /\ alone' = alone \ {r}
             /\ UNCHANGED guest
    <3>1. doubt \subseteq doubt' /\ a \in doubt' /\ r \notin alone' /\ alone' \subseteq alone
      BY <2>3 DEF Doubt
    <3> QED
      BY <1>5, <2>1, <2>3, <3>1
  <2>4. CASE Advance(r, "wait", "failure") /\ UNCHANGED <<guest, doubt, alone>>
    BY <1>5, <2>1, <2>4
  <2> QED
    BY <1>7, <2>2, <2>3, <2>4 DEF RunCommand
<1>8. CASE WaitOperation(r)
  <2>1. UNCHANGED <<guest, doubt>>
    BY <1>8 DEF WaitOperation
  <2>2. CASE /\ req[r].operation = "success" /\ Advance(r, "stamp", "success")
             /\ UNCHANGED <<orphans, alone>>
    BY <1>5, <2>1, <2>2
  <2>3. CASE req[r].operation = "failure" /\ Fail(r)
    BY <1>4, <2>1, <2>3
  <2> QED
    BY <1>8, <2>2, <2>3 DEF WaitOperation, Succeeded
<1>9. CASE GiveUp(r)
  <2>1. Fail(r) /\ doubt' = doubt \cup {req[r].account} /\ UNCHANGED guest
    BY <1>9 DEF GiveUp, Doubt
  <2>2. /\ req'[r] = Nil /\ \A q \in Req \ {r} : req'[q] = req[q]
        /\ alone' = alone \ {r} /\ orphans \subseteq orphans'
        /\ \A o \in orphans' \ orphans : o.account = req[r].account
    BY <1>0, <2>1, EndOfRequest DEF Fail
  <2> QED
    BY <1>0, <2>1, <2>2, EndInDoubt
<1>10. CASE StampEntry(r)
  <2>1. PICK new : /\ new = [req[r] EXCEPT !.pc = "insert", !.mark = Len(place)]
                   /\ req' = [req EXCEPT ![r] = new]
    BY <1>0, <1>1, <1>10 DEF StampEntry, TypeOK
  <2>2. new = [account |-> req[r].account, pw |-> req[r].pw, mark |-> Len(place),
               pc |-> "insert", operation |-> req[r].operation]
    BY <1>1, <2>1 DEF Request
  <2>3. Len(place) \in Nat
    BY <1>0 DEF TypeOK, LogTypeOK
  <2>4. req[r].operation \in {"none", "running", "success", "failure"}
    BY <1>1 DEF Request
  <2>5. new \in Request
    BY <1>1, <2>2, <2>3, <2>4 DEF Request
  <2>6. req'[r] = new /\ \A q \in Req \ {r} : req'[q] = req[q]
    BY <1>0, <2>1 DEF TypeOK
  <2>7. UNCHANGED <<guest, orphans, told, doubt, alone>>
    BY <1>10 DEF StampEntry
  <2>8. /\ req'[r] # Nil /\ req'[r].account = a /\ req'[r].pw = req[r].pw
        /\ req'[r].operation = req[r].operation
    BY <1>1, <2>2, <2>5, <2>6
  <2>9. (Set(r) => Set(r)') /\ (Unset(r) => Unset(r)')
    BY <2>7, <2>8 DEF Set, Unset
  <2> QED
    BY <1>0, <1>2, <1>3, <2>6, <2>7, <2>8, <2>9, GoesOn
<1> QED
  BY <1>6, <1>7, <1>8, <1>9, <1>10

(* The end: the answer names the password that was set, if it is ok, and   *)
(* says nothing otherwise.                                                 *)
LEMMA LogKnown ==
  ASSUME TypeInv, KnownInv, NEW r \in Req, LogOperation(r) \/ LogFails(r)
  PROVE  KnownInv'
<1>1. /\ TypeOK /\ Prepared(r) /\ req[r] # Nil /\ req[r].pc = "insert" /\ End(r)
      /\ UNCHANGED guest
  BY DEF TypeInv, LogOperation, LogFails, At, Fail
<1>2. req[r].operation = "success" /\ req[r].account \in Account
  BY <1>1, Served DEF Prepared
<1>3. /\ req'[r] = Nil /\ \A q \in Req \ {r} : req'[q] = req[q]
      /\ alone' = alone \ {r} /\ orphans' = orphans
  BY <1>1, <1>2, EndOfRequest
<1>4. CASE LogOperation(r)
  <2>1. /\ told' = [told EXCEPT ![req[r].account] = req[r].pw]
        /\ doubt' = IF r \in alone THEN doubt \ {req[r].account} ELSE doubt
    BY <1>4 DEF LogOperation, NewPassword
  <2>2. /\ told'[req[r].account] = req[r].pw
        /\ \A b \in Account \ {req[r].account} : told'[b] = told[b]
    BY <1>1, <1>2, <2>1 DEF TypeOK
  <2>3. req[r].account \notin doubt => Set(r)
    BY <1>1, <1>2 DEF KnownInv, Sure, On, Busy
  <2>4. r \in alone => Set(r)
    BY DEF KnownInv, Lone
  <2>5. req[r].account \notin doubt' => guest[req[r].account] = told'[req[r].account]
    BY <1>2, <2>1, <2>2, <2>3, <2>4 DEF Set
  <2>6. doubt' = doubt \/ (r \in alone /\ doubt' = doubt \ {req[r].account})
    BY <2>1
  <2> QED
    BY <1>1, <1>3, <2>2, <2>5, <2>6, EndsKnown
<1>5. CASE LogFails(r)
  <2>1. doubt' = doubt \cup {req[r].account} /\ UNCHANGED told
    BY <1>5 DEF LogFails, Doubt, Fail
  <2> QED
    BY <1>1, <1>3, <2>1, EndInDoubt
<1> QED
  BY <1>4, <1>5

(* An account beyond doubt has no orphan. *)
LEMMA OtherKnown ==
  ASSUME TypeInv, KnownInv, RunOrphan \/ Crash \/ OpenLog \/ NextPage \/ UNCHANGED vars
  PROVE  KnownInv'
<1>0. TypeOK
  BY DEF TypeInv
<1>1. CASE RunOrphan
  <2>1. PICK o \in orphans : /\ guest' \in {guest, [guest EXCEPT ![o.account] = o.pw]}
                             /\ orphans' = orphans \ {o}
    BY <1>1 DEF RunOrphan
  <2>2. o.account \in Account /\ UNCHANGED <<req, told, doubt, alone>>
    BY <1>0, <1>1 DEF RunOrphan, TypeOK, Command
  <2>3. ASSUME NEW a \in Account, Left(a) = {}
        PROVE  guest'[a] = guest[a] /\ On(a)' = On(a) /\ Left(a)' = {}
    <3>1. o.account # a
      BY <2>3 DEF Left
    <3> QED
      BY <1>0, <2>1, <2>2, <2>3, <3>1 DEF TypeOK, On, Left, Busy
  <2>4. ASSUME NEW a \in Account \ doubt
        PROVE  Sure(a)'
    <3>1. Sure(a)
      BY <2>4 DEF KnownInv
    <3>2. guest'[a] = guest[a] /\ On(a)' = On(a) /\ Left(a)' = {}
      BY <2>3, <2>4, <3>1 DEF Sure
    <3>3. \A r \in On(a) : req[r].account = a
      BY DEF On
    <3> QED
      BY <2>2, <3>1, <3>2, <3>3 DEF Sure, Set, Unset
  <2>5. ASSUME NEW r \in alone
        PROVE  Lone(r)'
    <3>1. Lone(r) /\ r \in Req
      BY <1>0, <2>5 DEF KnownInv, TypeOK
    <3>2. PICK a \in Account : a = req[r].account
      BY <3>1, Served DEF Lone
    <3>3. guest'[a] = guest[a] /\ On(a)' = {r} /\ Left(a)' = {}
      BY <2>3, <3>1, <3>2 DEF Lone
    <3> QED
      BY <2>2, <3>1, <3>2, <3>3 DEF Lone, Set
  <2> QED
    BY <2>2, <2>4, <2>5 DEF KnownInv
<1>2. CASE Crash
  <2>1. /\ req' = [r \in Req |-> Nil] /\ alone' = {} /\ UNCHANGED <<guest, told>>
        /\ doubt' = doubt \cup {req[r].account : r \in Busy}
        /\ \A o \in orphans' \ orphans : \E r \in Busy : o.account = req[r].account
    BY <1>2 DEF Crash
  <2>2. ASSUME NEW a \in Account \ doubt'
        PROVE  Sure(a)'
    <3>1. Sure(a) /\ On(a) = {}
      BY <2>1, <2>2 DEF KnownInv, On
    <3>2. On(a)' = {} /\ Left(a)' = {}
      BY <2>1, <2>2, <3>1 DEF Sure, On, Busy, Left
    <3> QED
      BY <2>1, <3>1, <3>2 DEF Sure
  <2> QED
    BY <2>1, <2>2 DEF KnownInv
<1>3. CASE OpenLog \/ NextPage \/ UNCHANGED vars
  <2>1. UNCHANGED <<guest, req, orphans, told, doubt, alone>>
    BY <1>3 DEF OpenLog, NextPage, vars
  <2> QED
    BY <2>1 DEF KnownInv, Sure, Lone, Set, Unset, On, Left, Busy
<1> QED
  BY <1>1, <1>2, <1>3

LEMMA KnownStep == TypeInv /\ KnownInv /\ [Next]_vars => KnownInv'
<1> SUFFICES ASSUME TypeInv, KnownInv, [Next]_vars
             PROVE  KnownInv'
  OBVIOUS
<1>1. ASSUME NEW r \in Req, Begin(r)
      PROVE  KnownInv'
  BY <1>1, BeginKnown
<1>2. ASSUME NEW r \in Req,
             Exec(r) \/ RunCommand(r) \/ WaitOperation(r) \/ GiveUp(r) \/ StampEntry(r)
      PROVE  KnownInv'
  BY <1>2, RequestKnown
<1>3. ASSUME NEW r \in Req, LogOperation(r) \/ LogFails(r)
      PROVE  KnownInv'
  BY <1>3, LogKnown
<1>4. CASE RunOrphan \/ Crash \/ OpenLog \/ NextPage \/ UNCHANGED vars
  BY <1>4, OtherKnown
<1> QED
  BY <1>1, <1>2, <1>3, <1>4 DEF Next

-----------------------------------------------------------------------------
LEMMA InitInv == Init => TypeInv /\ LogInv /\ KnownInv
<1> SUFFICES ASSUME Init
             PROVE  TypeInv /\ LogInv /\ KnownInv
  OBVIOUS
<1>1. /\ place = <<>> /\ reader = NoReader /\ req = [r \in Req |-> Nil]
      /\ guest \in [Account -> Password] /\ told = guest
      /\ orphans = {} /\ doubt = {} /\ alone = {} /\ answered = {}
  BY DEF Init, LogInit
<1>2. TypeInv
  BY <1>1 DEF TypeInv, TypeOK, LogTypeOK, Prepared
<1>3. LogInv
  BY <1>1 DEF LogInv, Entries
<1>4. KnownInv
  BY <1>1 DEF KnownInv, Sure, On, Left, Busy
<1> QED
  BY <1>2, <1>3, <1>4

(* The invariant of the log and of the guests' passwords holds in every    *)
(* run of the two handlers, the daemons and the readers of the log.        *)
THEOREM Invariance == Spec => [](TypeInv /\ LogInv /\ KnownInv)
BY InitInv, TypeStep, KnownStep, PTL DEF Spec

(* No answer that is ok leaves the new password out, whatever fails before *)
(* it (NewPassword in SetUserPassword's callers).                          *)
THEOREM TypeCorrect == Spec => []TypeOK
<1>1. TypeInv => TypeOK
  BY DEF TypeInv
<1> QED
  BY <1>1, Invariance, PTL

(* Between requests an account beyond doubt has the password of the last   *)
(* ok answer, for any number of accounts, passwords and requests and with  *)
(* every failure of the daemon, the log and the process.                   *)
THEOREM PasswordKnownAlways == Spec => []PasswordKnown
<1>1. KnownInv => PasswordKnown
  BY DEF KnownInv, Sure, PasswordKnown
<1> QED
  BY <1>1, Invariance, PTL

(* Whoever reads the log to the first short page misses no change that was *)
(* answered before, whatever the size of the page and the entries that come*)
(* in meanwhile.                                                           *)
THEOREM AuditIsComplete == Spec => []AuditComplete
<1>1. LogInv => AuditComplete
  BY DEF LogInv, AuditComplete
<1> QED
  BY <1>1, Invariance, PTL
=============================================================================
