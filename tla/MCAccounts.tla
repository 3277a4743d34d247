----------------------------- MODULE MCAccounts -----------------------------
(* Instances of Accounts for TLC. *)
EXTENDS Accounts, TLC

CONSTANTS u0, u1, p0, p1, c1, c2

TwoUsers     == {u0, u1}
TwoPasswords == {p0, p1}
TwoClients   == {c1, c2}

Admin1   == [role |-> "admin", status |-> "active", pw |-> p1]
Demoted  == [NoEdit EXCEPT !.role = "user"]
Enabled  == [NoEdit EXCEPT !.status = "active"]
Disabled == [NoEdit EXCEPT !.status = "disabled"]
Reset    == [NoEdit EXCEPT !.pw = p1]

(* Everything happens to the first administrator, who may create a second. *)
Changes == u0 :> {NoEdit, Demoted, Enabled, Disabled, Reset} @@ u1 :> {NoEdit, Admin1}

(* No definition tells two clients apart. *)
Clients == Permutations(Client)
=============================================================================
