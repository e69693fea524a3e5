------------------------------ MODULE MCReaddir ------------------------------
(* An instance of Readdir for TLC. *)
EXTENDS Readdir, TLC

CONSTANTS r1, r2

Perms == Permutations(Readers)

=============================================================================
