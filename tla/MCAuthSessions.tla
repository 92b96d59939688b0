--------------------------- MODULE MCAuthSessions ---------------------------
(* Two requests in flight, the seeded administrator and one other account. *)
EXTENDS AuthSessions, TLC

CONSTANTS admin, ann, w1, w2, changeme, p1, none

MCUsers == {admin, ann}
MCPasswords == {changeme, p1}
MCWorkers == {w1, w2}
MCMaxBorn == [u \in MCUsers |-> IF u = ann THEN 2 ELSE 1]
MCResets == {<<admin, p1>>}
Symmetry == Permutations(MCWorkers)
=============================================================================
