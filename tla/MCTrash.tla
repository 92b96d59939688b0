------------------------------ MODULE MCTrash -------------------------------
(* Two requests, two paths of one base name, and two slots of the bin.      *)
EXTENDS Trash, TLC

CONSTANTS p1, p2, w1, w2, none

MCPaths == {p1, p2}
MCHands == Places
MCWorkers == {w1, w2}
Symmetry == Permutations(MCWorkers) \cup Permutations(MCPaths)
=============================================================================
