---------------------------- MODULE OperationLog ----------------------------
(***************************************************************************)
(* The operation_logs table, newest entry first, and somebody who reads it *)
(* page by page (SystemService.ListOperationLogs,                          *)
(* internal/service/system_service.go; UserService.List reads the users in *)
(* the same way).                                                          *)
(*                                                                         *)
(* Entries are only inserted.  They are ordered by created_at, which gorm  *)
(* takes from the clock before the INSERT, so an entry need not come in at *)
(* the top: those that were committed since may be newer.  Two entries of  *)
(* the same microsecond, which the query leaves in any order, are left out.*)
(***************************************************************************)
EXTENDS Naturals, Sequences

CONSTANTS PageSize,   \* rows per page, as the answer states it
          NoReader

ASSUME PageSizeAssumption == PageSize \in Nat \ {0}

VARIABLES place,   \* place[i]: the place of the i-th entry inserted, 1 the newest
          reader   \* the pages an administrator is going through, or NoReader

logVars == <<place, reader>>

Entries == 1..Len(place)

LogInit == place = <<>> /\ reader = NoReader

(* The entry is inserted, as the k-th newest; mark entries were in the     *)
(* table when it took its time, and all of these are older.                *)
InsertEntry(mark) ==
  \E k \in 1 .. (Len(place) + 1 - mark) :
    place' = Append([i \in Entries |-> IF place[i] < k THEN place[i] ELSE place[i] + 1], k)

(* Mutation of Offset: the first page is number 0. *)
OffsetFromZero(page) == page * PageSize

Offset(page) == (page - 1) * PageSize

(* ORDER BY created_at DESC OFFSET Offset(page) LIMIT PageSize. *)
Rows(page) == {i \in Entries : Offset(page) < place[i] /\ place[i] <= Offset(page) + PageSize}

(* Fewer rows than asked for. *)
IsShort(page) == Len(place) < Offset(page) + PageSize

(* An administrator starts to read.  due, which is auxiliary, are the      *)
(* entries the pages have to show.                                         *)
Open(due) ==
  /\ reader' = [page |-> 1, due |-> due, seen |-> {}, done |-> FALSE]
  /\ UNCHANGED place

(* One request for the next page; a short page is the last. *)
ListOperationLogs ==
  /\ reader # NoReader /\ ~reader.done
  /\ reader' = [reader EXCEPT !.page = @ + 1,
                              !.seen = @ \cup Rows(reader.page),
                              !.done = IsShort(reader.page)]
  /\ UNCHANGED place

LogTypeOK ==
  /\ place \in Seq(Nat)
  /\ reader \in [page : Nat \ {0}, due : SUBSET Nat, seen : SUBSET Nat, done : BOOLEAN]
                  \cup {NoReader}
=============================================================================
