---------------------------- MODULE MCBTreeIndex ----------------------------
(* BTreeIndex on small instances.                                          *)
EXTENDS BTreeIndex, TLC

\* Record ids are compared for equality only.
RidSymmetry == Permutations(Rid)

Keys3 == 1..3
Keys4 == 1..4
Keys6 == 1..6
Keys9 == 1..9

\* Loads of files sorted by key, and locates in the tree of height three; the first
\* load is not cut short before the nodes are full.
Loads == /\ calls' > calls => op'.entry.key = calls'
         /\ obj'.mode # "r"
         /\ op'.pc = "seek" => calls >= 7
         /\ out'.call # "readForward"
         /\ obj'.mode = "none" => calls = 0 \/ calls >= 5
=============================================================================
