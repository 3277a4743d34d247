-------------------------- MODULE MCConsoleSessions --------------------------
(* Instances of ConsoleSessions for TLC. *)
EXTENDS ConsoleSessions, TLC

CONSTANTS v1, v2, k1, k2, u1, u2, t1, t2, c1, c2

OneVM     == {v1}
TwoVMs    == {v1, v2}
TwoKeys   == {k1, k2}
OneKey    == {k1}
OneUser   == {u1}
TwoUsers  == {u1, u2}
TwoTokens == {t1, t2}
TwoConns  == {c1, c2}

AKeyEach  == k1 :> v1 @@ k2 :> v2
OneVMOneKey == k1 :> v1
Spellings == k1 :> v1 @@ k2 :> v1   \* upper and lower case of one uuid

Interchangeable == Permutations(Token) \cup Permutations(Conn)
=============================================================================
