---------------------------- MODULE MCPasswords ----------------------------
(* Instances of Passwords for TLC. *)
EXTENDS Passwords, TLC

CONSTANTS root, p0, p1, r1, r2

OneAccount   == {root}
TwoPasswords == {p0, p1}
TwoRequests  == {r1, r2}

(* No definition tells two requests, or two passwords, apart. *)
Interchangeable == Permutations(Req) \cup Permutations(Password)
=============================================================================
