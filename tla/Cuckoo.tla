------------------------------- MODULE Cuckoo --------------------------------
(***************************************************************************)
(* The cuckoo hash table of cuckoo_hash.c: buckets of a few slots, two     *)
(* buckets a key may be in, evictions along a path that was found first    *)
(* and is then executed from its end, and doubling.  The hashes of a key   *)
(* (F_HASH, S_HASH under the two random seeds) are chosen at the start.    *)
(* The table is built as cuckoo_hash.h configures it, with                 *)
(* RESIZE_SAME_OFFSET.  It does not look for a key before it inserts it:   *)
(* callers insert a key once, as the calls kept in comments in inode.c do  *)
(* for new inodes.                                                         *)
(***************************************************************************)
EXTENDS Integers, Sequences, FiniteSets, FiniteSetsExt

CONSTANTS
    Keys,
    Values,                 \* [Keys -> set of values]
    Hashes,                 \* functions [Keys -> [f, s]] the seeds may give
    CUCKOO_HASH_ASSOC_NUM,  \* slots of a bucket, 4
    MAX_EVICTION,           \* longest path of evictions, 16
    RESIZE_FACTOR,          \* 2
    Capacity,               \* capacity at the start
    MaxCapacity,            \* bound on resizing
    INVALID,                \* the empty key
    NoValue

ASSUME CuckooAssumption ==
    /\ {CUCKOO_HASH_ASSOC_NUM, MAX_EVICTION, RESIZE_FACTOR, Capacity, MaxCapacity} \subseteq Nat \ {0}
    /\ Hashes \subseteq [Keys -> [f : Nat, s : Nat]]
    /\ INVALID \notin Keys

VARIABLES
    hash,       \* what the seeds make of the keys
    table,      \* [bucket -> [slot -> [key, value]]]
    capacity,
    entry_num,
    out         \* the last answer

vars == <<hash, table, capacity, entry_num, out>>

Slots == 0 .. CUCKOO_HASH_ASSOC_NUM - 1
Empty == [key |-> INVALID, value |-> NoValue]
EmptyTable(n) == [b \in 0 .. n - 1 |-> [s \in Slots |-> Empty]]
Entry(k, v) == [key |-> k, value |-> v]

F_IDX(k, n) == hash[k].f % n
S_IDX(k, n) == hash[k].s % n

Free(t, b) == {i \in Slots : t[b][i].key = INVALID}
Put(t, at, e) == [t EXCEPT ![at.bucket][at.slot] = e]

\* The first slot free in either of two buckets, the first bucket before the
\* second.
FirstFree(t, b1, b2) ==
    LET i == Min(Free(t, b1) \union Free(t, b2))
    IN [bucket |-> IF i \in Free(t, b1) THEN b1 ELSE b2, slot |-> i]

-----------------------------------------------------------------------------
(* Evictions *)

\* Where find_path goes from a full slot: to the other bucket of its key, there to the
\* first free slot, or to the last one.
Other(t, at) ==
    LET k == t[at.bucket][at.slot].key
        to == IF F_IDX(k, capacity) = at.bucket THEN S_IDX(k, capacity) ELSE F_IDX(k, capacity)
    IN [bucket |-> to,
        slot |-> IF Free(t, to) = {} THEN CUCKOO_HASH_ASSOC_NUM - 1 ELSE Min(Free(t, to))]

\* find_path: from slot to slot, until a bucket has a free one.  A path is a sequence
\* of [pre, next]; it is "open" as long as it ends in a full slot, and "error" when a
\* key is in neither of its buckets.
Extend(t, p) ==
    LET k == t[p.at.bucket][p.at.slot].key
        next == Other(t, p.at)
    IN IF p.at.bucket \notin {F_IDX(k, capacity), S_IDX(k, capacity)} THEN [p EXCEPT !.end = "error"]
       ELSE [at |-> next, nodes |-> Append(p.nodes, [pre |-> p.at, next |-> next]),
             end |-> IF Free(t, next.bucket) = {} THEN "open" ELSE "free"]
Paths(t, bucket, slot) ==
    LET f[n \in 0 .. MAX_EVICTION] ==
            IF n = 0
            THEN [at |-> [bucket |-> bucket, slot |-> slot], nodes |-> <<>>, end |-> "open"]
            ELSE IF f[n - 1].end = "open" THEN Extend(t, f[n - 1]) ELSE f[n - 1]
    IN f
find_path(t, bucket, slot) == Paths(t, bucket, slot)[MAX_EVICTION]

\* execute_path: from the end of the path to its start.  Mutant: from the start.
MutForward(t, nodes) ==
    LET f[n \in 0 .. Len(nodes)] ==
            IF n = 0 THEN t
            ELSE Put(f[n - 1], nodes[n].next,
                     f[n - 1][nodes[n].pre.bucket][nodes[n].pre.slot])
    IN f[Len(nodes)]
Executed(t, nodes) ==
    LET f[n \in 0 .. Len(nodes)] ==
            IF n = 0 THEN t
            ELSE LET node == nodes[Len(nodes) + 1 - n]
                 IN Put(f[n - 1], node.next, f[n - 1][node.pre.bucket][node.pre.slot])
    IN f
execute_path(t, nodes) == Executed(t, nodes)[Len(nodes)]

\* The choice between the path from the first bucket and the one from the second:
\* the shorter, the second one when they are equal; an error counts as long.
Shorter(p1, p2) ==
    IF p1.end = "open" THEN p2
    ELSE IF p2.end = "open" THEN p1
    ELSE IF p1.end = "free" /\ (p2.end = "error" \/ Len(p1.nodes) < Len(p2.nodes)) THEN p1
    ELSE p2

-----------------------------------------------------------------------------
(* The operations *)

Answer(status, v) == out' = [status |-> status, value |-> v]
Found(k) ==
    {at \in [bucket : {F_IDX(k, capacity), S_IDX(k, capacity)}, slot : Slots] :
        table[at.bucket][at.slot].key = k}

\* Which copy cuckoo_update and cuckoo_query meet first.
First(k) ==
    LET found == Found(k)
        f == [bucket |-> F_IDX(k, capacity), slot |-> Min({at.slot : at \in found})]
    IN IF f \in found THEN f ELSE [f EXCEPT !.bucket = S_IDX(k, capacity)]
Stored == {table[b][i].key : b \in DOMAIN table, i \in Slots} \ {INVALID}

Store(t) == table' = t /\ entry_num' = entry_num + 1 /\ Answer("SUCCESS", NoValue)

\* cuckoo_insert: a free slot of one of the two buckets, or the first slot from
\* which there is a path.
cuckoo_insert(k, v) ==
    LET b1 == F_IDX(k, capacity)
        b2 == S_IDX(k, capacity)
        path == [i \in Slots |-> Shorter(find_path(table, b1, i), find_path(table, b2, i))]
        found == {i \in Slots : path[i].end # "open"}
        p == path[Min(found)]
    IN
    /\ k \notin Stored
    /\ IF Free(table, b1) \union Free(table, b2) # {}
       THEN Store(Put(table, FirstFree(table, b1, b2), Entry(k, v)))
       ELSE IF found = {} THEN Answer("FAIL", NoValue) /\ UNCHANGED <<table, entry_num>>
       ELSE IF p.end = "error" THEN Answer("error", NoValue) /\ UNCHANGED <<table, entry_num>>
       ELSE Store(Put(execute_path(table, p.nodes), p.nodes[1].pre, Entry(k, v)))
    /\ UNCHANGED <<hash, capacity>>

cuckoo_update(k, v) ==
    /\ IF Found(k) = {} THEN Answer("FAIL", NoValue) /\ UNCHANGED table
       ELSE Answer("SUCCESS", NoValue) /\ table' = Put(table, First(k), Entry(k, v))
    /\ UNCHANGED <<hash, capacity, entry_num>>

cuckoo_query(k) ==
    /\ IF Found(k) = {} THEN Answer("FAIL", NoValue)
       ELSE LET at == First(k) IN Answer("SUCCESS", table[at.bucket][at.slot].value)
    /\ UNCHANGED <<hash, table, capacity, entry_num>>

\* Where cuckoo_resize may put an entry of bucket b of the old table: where its
\* offset keeps it.  Mutants: it stays in its bucket; it goes to its first bucket.
MutSameBucket(k, b, n) == <<b, b>>
MutFirstBucket(k, b, n) == <<F_IDX(k, n), F_IDX(k, n)>>
NewBuckets(k, b, n) ==
    IF F_IDX(k, capacity) = S_IDX(k, capacity) THEN <<F_IDX(k, n), S_IDX(k, n)>>
    ELSE IF F_IDX(k, capacity) = b THEN <<F_IDX(k, n), F_IDX(k, n)>>
    ELSE <<S_IDX(k, n), S_IDX(k, n)>>

\* The new table once the old one's first entries are in it; << >> when one had
\* no room, or was in neither of its buckets.
AddTo(t, e, b, n) ==
    LET bs == NewBuckets(e.key, b, n) IN
    IF t = << >> \/ e = Empty THEN t
    ELSE IF \/ b \notin {F_IDX(e.key, capacity), S_IDX(e.key, capacity)}
            \/ Free(t, bs[1]) \union Free(t, bs[2]) = {} THEN << >>
    ELSE Put(t, FirstFree(t, bs[1], bs[2]), e)
Rehash(n) ==
    LET f[i \in 0 .. capacity * CUCKOO_HASH_ASSOC_NUM] ==
            IF i = 0 THEN EmptyTable(n)
            ELSE LET b == (i - 1) \div CUCKOO_HASH_ASSOC_NUM
                     s == (i - 1) % CUCKOO_HASH_ASSOC_NUM
                 IN AddTo(f[i - 1], table[b][s], b, n)
    IN f
Rehashed(n) == Rehash(n)[capacity * CUCKOO_HASH_ASSOC_NUM]

\* cuckoo_resize: the allocation may fail, and the old table stays until the new
\* one is complete.
cuckoo_resize ==
    LET n == capacity * RESIZE_FACTOR
        t == Rehashed(n)
    IN
    /\ n <= MaxCapacity
    /\ \/ Answer("no memory", NoValue) /\ UNCHANGED <<table, capacity>>
       \/ IF t = << >> THEN Answer("ENOSPC", NoValue) /\ UNCHANGED <<table, capacity>>
          ELSE Answer("SUCCESS", NoValue) /\ table' = t /\ capacity' = n
    /\ UNCHANGED <<hash, entry_num>>

-----------------------------------------------------------------------------
\* cuckoo_hash_init.
Init ==
    /\ hash \in Hashes
    /\ capacity = Capacity /\ table = EmptyTable(Capacity)
    /\ entry_num = 0 /\ out = [status |-> "SUCCESS", value |-> NoValue]

Next ==
    \/ \E k \in Keys : \E v \in Values[k] : cuckoo_insert(k, v) \/ cuckoo_update(k, v)
    \/ \E k \in Keys : cuckoo_query(k)
    \/ cuckoo_resize

Spec == Init /\ [][Next]_vars

-----------------------------------------------------------------------------
(* Properties *)

\* Every entry is in a bucket its key hashes to, each key once, and entry_num
\* counts them: what find_path relies on ("find path error") and what evictions
\* and doubling could break.
InPlace ==
    /\ \A b \in DOMAIN table, i \in Slots :
        table[b][i].key # INVALID => [bucket |-> b, slot |-> i] \in Found(table[b][i].key)
    /\ \A k \in Stored : Cardinality(Found(k)) = 1
    /\ entry_num = Cardinality(Stored)

\* The table is a map: no eviction and no doubling loses, doubles or changes an
\* entry, and a refused insert changes nothing.
map == [k \in Stored |-> LET at == First(k) IN table[at.bucket][at.slot].value]
Dict == INSTANCE KeyMap
IsMap == Dict!Spec

\* Doubling always finds room for every entry ("resize fail1" to "resize fail3"
\* and "offset error" are unreachable): a bucket of the new table only takes the
\* entries of one old bucket.
ResizeSucceeds == out.status # "ENOSPC"

=============================================================================
