------------------------------ MODULE MCCuckoo -------------------------------
(* An instance of Cuckoo for TLC. *)
EXTENDS Cuckoo, TLC

CONSTANTS k1, k2, k3, k4, k5, k6

MCValues == [k \in Keys |-> IF k = k1 THEN {0, 1} ELSE {0}]

Hashed(a1, a2, a3, a4, a5, a6) ==
    LET h == k1 :> a1 @@ k2 :> a2 @@ k3 :> a3 @@ k4 :> a4 @@ k5 :> a5 @@ k6 :> a6
    IN [k \in Keys |-> [f |-> h[k][1], s |-> h[k][2]]]

\* In a table of three buckets: a chain of evictions from the first bucket over the
\* second to the third, with keys whose two buckets are one until it doubles; keys
\* for two buckets only, some of which find no room.
MCHashes ==
    {Hashed(<<0, 1>>, <<0, 3>>, <<1, 4>>, <<1, 2>>, <<3, 0>>, <<2, 5>>),
     Hashed(<<0, 1>>, <<3, 4>>, <<0, 4>>, <<3, 1>>, <<0, 1>>, <<4, 3>>)}

=============================================================================
