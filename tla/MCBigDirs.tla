------------------------------ MODULE MCBigDirs ------------------------------
(* An instance of BigDirs for TLC. *)
EXTENDS BigDirs

CONSTANTS d1, d2, d3

=============================================================================
