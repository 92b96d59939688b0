---------------------------- MODULE MCFileCache -----------------------------
(* Three overlapping reads, two contents (so that a content can come back)  *)
(* and two writes, of either table.                                       *)
EXTENDS FileCache, TLC

CONSTANTS r1, r2, r3, old, new

MCReaders == {r1, r2, r3}
MCContents == {old, new}
Symmetry == Permutations(MCReaders) \cup Permutations(MCContents)
=============================================================================
