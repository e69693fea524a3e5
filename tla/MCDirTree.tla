------------------------------ MODULE MCDirTree ------------------------------
(* Instances of DirTree for TLC. *)
EXTENDS DirTree, TLC

CONSTANTS root, o1, o2, o3, m1, m2, c1, c2, c3

Perms == Permutations(Objs \ {Root}) \union Permutations(Names) \union Permutations(Cells)

=============================================================================
