---------------------------- MODULE MCAuthSessions ----------------------------
(* Instances of AuthSessions for TLC. *)
EXTENDS AuthSessions, TLC
CONSTANTS s1, s2, t1, t2, t3, r1, r2

TwoSessions == {s1, s2}
ThreeTokens == {t1, t2, t3}
TwoRequests == {r1, r2}

\* Rows and requests are interchangeable.
Symmetry == Permutations(Sessions) \union Permutations(Tokens) \union Permutations(Requests)
=============================================================================
