------------------------------ MODULE MCNodes -------------------------------
(* The local node and two others, one key with two successive secrets.      *)
EXTENDS Nodes

CONSTANTS local, n1, n2, here, k1, s1, s2, w1, w2, none

MCIds == {local, n1}
MCIdsTwo == {local, n1, n2}
MCKeys == {k1}
MCSecrets == {s1, s2}
MCSecret == {s1}
MCWorkers == {w1, w2}
=============================================================================
