----------------------------- MODULE MCPageFile -----------------------------
(* PageFile on small instances.                                            *)
EXTENDS PageFile, TLC

\* Files, objects and contents other than the zero page are interchangeable.
Symmetry == Permutations(File) \cup Permutations(Handle)
              \cup Permutations(Content \ {Zero})
=============================================================================
