------------------------------- MODULE KeyMap --------------------------------
(***************************************************************************)
(* What a key-value table with a fixed room promises its caller: a map     *)
(* from keys to values.  An insert may be refused, and then changes        *)
(* nothing; everything else answers from the map.                          *)
(***************************************************************************)
CONSTANTS Keys, Values, NoValue

VARIABLES
    map,  \* a function on some of Keys, to Values[k]
    out   \* the last answer: [status, value]

With(k, v) == [x \in DOMAIN map \union {k} |-> IF x = k THEN v ELSE map[x]]
Answer(ok, v) == out' = [status |-> IF ok THEN "SUCCESS" ELSE "FAIL", value |-> v]

Init == map = << >> /\ out = [status |-> "SUCCESS", value |-> NoValue]

Insert(k, v) ==
    /\ k \notin DOMAIN map
    /\ \/ map' = With(k, v) /\ Answer(TRUE, NoValue)
       \/ map' = map /\ Answer(FALSE, NoValue)
Update(k, v) ==
    /\ map' = IF k \in DOMAIN map THEN With(k, v) ELSE map
    /\ Answer(k \in DOMAIN map, NoValue)
Query(k) ==
    /\ Answer(k \in DOMAIN map, IF k \in DOMAIN map THEN map[k] ELSE NoValue)
    /\ UNCHANGED map

\* Growing the table, or trying to, is not seen.
Grow ==
    /\ out' \in [status : {"SUCCESS", "no memory"}, value : {NoValue}]
    /\ UNCHANGED map

Next ==
    \/ Grow
    \/ \E k \in Keys : Query(k) \/ \E v \in Values[k] : Insert(k, v) \/ Update(k, v)

Spec == Init /\ [][Next]_<<map, out>>

=============================================================================
