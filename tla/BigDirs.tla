------------------------------- MODULE BigDirs -------------------------------
(***************************************************************************)
(* The big tables of flatfs_sb_info: big_dir_hashtbl, an array of N        *)
(* pointers, big_dir_bitmap, which says what entries are in use, and       *)
(* big_dir_num.  A directory whose small table overflows takes an entry    *)
(* (resize_dir of lba.c, called by ffs_mknod) and gives it back when it is *)
(* removed (remove_dir of dir.c).                                          *)
(*                                                                         *)
(* Directories grow and go concurrently: each operation holds the i_rwsem  *)
(* of its own directories only.  A create that comes from open(2) runs     *)
(* under flatfs_spinlock, taken in the changed lookup_open of namei.c; one *)
(* that comes from mknod(2) does not, and neither does rmdir.  On a kernel *)
(* without SMP the spin lock excludes nobody and vmalloc still sleeps: both*)
(* ways are then what "mknod" is here.  bitmap_set, bitmap_clear, ++ and --*)
(* are plain loads and stores of shared memory, and each load and each     *)
(* store is a step.  big_dir_num is a __u8.                                *)
(*                                                                         *)
(* An entry past the array is past what this module follows: entry N is    *)
(* the bitmap itself, N + 1 is big_dir_num, the ones after it are other    *)
(* memory.  "up" becomes FALSE when one is handed out.                     *)
(***************************************************************************)
EXTENDS Integers, FiniteSets

CONSTANTS
    Dirs,        \* directories
    N,           \* 1 << MIN_DIR_BITS
    MaxMeetings, \* bound: how often operations meet at the shared fields
    None

ASSUME EntryAssumption == N \in Nat \ {0} /\ MaxMeetings \in Nat /\ None \notin Dirs

VARIABLES
    table,       \* the entries of big_dir_hashtbl that are not NULL
    bitmap,      \* big_dir_bitmap
    num,         \* big_dir_num
    big_dir_id,  \* [Dirs -> the entry in the directory's inode, or -1]
    op,          \* [Dirs -> the operation that holds the directory]
    lock,        \* who holds flatfs_spinlock
    met,         \* how often two operations were at the shared fields at once
    up           \* FALSE: the kernel has left defined behaviour

sbVars == <<table, bitmap, num>>
vars == <<sbVars, big_dir_id, op, lock, met, up>>

Entries == 0 .. N - 1
\* What an operation is doing: "load" and "store" are about the bitmap, "num" and
\* "count" about the counter.
Pcs == {"idle", "lock", "find", "search", "alloc", "load", "store", "num", "count", "unlock"}
\* With it, the entry it works on and what it has loaded of the two.
Op == [pc : Pcs, way : {"open", "mknod", "rmdir"},
       pos : -1 .. N, bits : SUBSET Entries, num : 0 .. 255]
IdleOp == [pc |-> "idle", way |-> "open", pos |-> -1, bits |-> {}, num |-> 0]

At(d, pc) == up /\ op[d].pc = pc
Goto(d, pc) == op' = [op EXCEPT ![d].pc = pc]
Become(d, pc, way) ==
    op' = [op EXCEPT ![d] = [pc |-> pc, way |-> way, pos |-> -1, bits |-> {}, num |-> 0]]
\* The operation goes on with the entry e and these loaded values.
Carry(d, pc, way, e, bits, n) ==
    op' = [op EXCEPT ![d] = [pc |-> pc, way |-> way, pos |-> e, bits |-> bits, num |-> n]]

\* An operation relies on what it has read of the bitmap and of the counter until it
\* has stored both.
Inside(d) == op[d].pc \in {"alloc", "load", "store", "num", "count"}
\* Operation d begins to rely on the bitmap.  Two creates from open(2) may not do
\* so at once, for flatfs_spinlock is there to prevent it.
Enters(d, way) ==
    IF \E e \in Dirs \ {d} : Inside(e) /\ ~(way = "open" /\ op[e].way = "open")
    THEN met' = met + 1
    ELSE UNCHANGED met

\* Once operations have met MaxMeetings times, they start one after the other.
Room(d) == met < MaxMeetings \/ \A e \in Dirs \ {d} : op[e].pc = "idle"

-----------------------------------------------------------------------------
(* A create that finds its bucket full *)

Start(d) ==
    /\ At(d, "idle") /\ Room(d)
    /\ big_dir_id[d] = -1
    /\ Become(d, "lock", "open") \/ Become(d, "find", "mknod")
    /\ UNCHANGED <<sbVars, big_dir_id, lock, met, up>>

\* lookup_open around ->create.  Mutants: the lock is not taken; a create that
\* failed leaves before the unlock.
MutNoLock(d) ==
    /\ At(d, "lock")
    /\ Goto(d, "find")
    /\ UNCHANGED <<sbVars, big_dir_id, lock, met, up>>
LockOpen(d) ==
    /\ At(d, "lock")
    /\ lock = None
    /\ lock' = d
    /\ Goto(d, "find")
    /\ UNCHANGED <<sbVars, big_dir_id, met, up>>

MutKeepLock(d) ==
    /\ At(d, "unlock")
    /\ lock' = IF op[d].way = "open" /\ big_dir_id[d] # -1 THEN None ELSE lock
    /\ op' = [op EXCEPT ![d] = IdleOp]
    /\ UNCHANGED <<sbVars, big_dir_id, met, up>>
UnlockOpen(d) ==
    /\ At(d, "unlock")
    /\ lock' = IF op[d].way = "open" THEN None ELSE lock
    /\ op' = [op EXCEPT ![d] = IdleOp]
    /\ UNCHANGED <<sbVars, big_dir_id, met, up>>

\* resize_dir up to vmalloc, which sleeps.  The counter is compared with >, not >=,
\* and find_first_zero_bit searches 1 << MAX_DIR_BITS bits, of which the bitmap has
\* N.
resize_dir(d) ==
    /\ At(d, "find")
    /\ \/ num > N /\ Goto(d, "unlock")
       \/ num <= N /\ Goto(d, "search")
    /\ UNCHANGED <<sbVars, big_dir_id, lock, met, up>>

FirstFree(e) == e \in Entries \ bitmap /\ 0 .. e - 1 \subseteq bitmap
find_first_zero_bit(d) ==
    /\ At(d, "search")
    /\ Enters(d, op[d].way)
    /\ \/ \E e \in Entries : FirstFree(e) /\ Carry(d, "alloc", op[d].way, e, {}, 0) /\ UNCHANGED up
       \/ /\ bitmap = Entries
          /\ op' = [op EXCEPT ![d].pos = N]
          /\ up' = FALSE
    /\ UNCHANGED <<sbVars, big_dir_id, lock>>

\* The new table replaces the pointer of whoever had the entry.
init_big_file_ht(d) ==
    /\ At(d, "alloc")
    /\ table' = table \union {op[d].pos}
    /\ Goto(d, "load")
    /\ UNCHANGED <<bitmap, num, big_dir_id, lock, met, up>>

-----------------------------------------------------------------------------
(* rmdir *)

\* remove_dir on a directory that became big: a table that is there is freed.  A
\* directory that is not in the list of its parent is dropped with its entry taken.
\* A new directory comes in the place of the removed one.
ffs_rmdir(d) ==
    /\ At(d, "idle") /\ Room(d)
    /\ big_dir_id[d] # -1
    /\ \/ /\ big_dir_id[d] \in table
          /\ table' = table \ {big_dir_id[d]}
          /\ Enters(d, "rmdir")
          /\ Carry(d, "load", "rmdir", big_dir_id[d], {}, 0)
       \/ UNCHANGED <<table, met, op>>
    /\ big_dir_id' = [big_dir_id EXCEPT ![d] = -1]
    /\ UNCHANGED <<bitmap, num, lock, up>>

-----------------------------------------------------------------------------
(* The bitmap, then the counter, in resize_dir and in remove_dir *)

LoadBits(d) ==
    /\ At(d, "load")
    /\ Carry(d, "store", op[d].way, op[d].pos, bitmap, 0)
    /\ UNCHANGED <<sbVars, big_dir_id, lock, met, up>>

\* bitmap_set or bitmap_clear.
StoreBits(d) ==
    /\ At(d, "store")
    /\ bitmap' = IF op[d].way = "rmdir" THEN op[d].bits \ {op[d].pos} ELSE op[d].bits \union {op[d].pos}
    /\ Carry(d, "num", op[d].way, op[d].pos, {}, 0)
    /\ UNCHANGED <<table, num, big_dir_id, lock, met, up>>

LoadNum(d) ==
    /\ At(d, "num")
    /\ Carry(d, "count", op[d].way, op[d].pos, {}, num)
    /\ UNCHANGED <<sbVars, big_dir_id, lock, met, up>>

\* big_dir_num++; ffs_mknod goes on with the entry in the directory's inode.
ffs_mknod(d) ==
    /\ At(d, "count") /\ op[d].way # "rmdir"
    /\ num' = (op[d].num + 1) % 256
    /\ big_dir_id' = [big_dir_id EXCEPT ![d] = op[d].pos]
    /\ Become(d, "unlock", op[d].way)
    /\ UNCHANGED <<table, bitmap, lock, met, up>>

\* big_dir_num--.  Mutants: the counter is signed; it is left alone.
MutSigned(d) ==
    /\ At(d, "count") /\ op[d].way = "rmdir"
    /\ num' = op[d].num - 1
    /\ op' = [op EXCEPT ![d] = IdleOp]
    /\ UNCHANGED <<table, bitmap, big_dir_id, lock, met, up>>
MutKeepNum(d) ==
    /\ At(d, "count") /\ op[d].way = "rmdir"
    /\ op' = [op EXCEPT ![d] = IdleOp]
    /\ UNCHANGED <<sbVars, big_dir_id, lock, met, up>>
remove_dir(d) ==
    /\ At(d, "count") /\ op[d].way = "rmdir"
    /\ num' = (op[d].num - 1) % 256
    /\ op' = [op EXCEPT ![d] = IdleOp]
    /\ UNCHANGED <<table, bitmap, big_dir_id, lock, met, up>>

-----------------------------------------------------------------------------

Init ==
    /\ table = {} /\ bitmap = {} /\ num = 0
    /\ big_dir_id = [d \in Dirs |-> -1]
    /\ op = [d \in Dirs |-> IdleOp]
    /\ lock = None
    /\ met = 0 /\ up = TRUE

Step(d) ==
    \/ LockOpen(d) \/ UnlockOpen(d)
    \/ resize_dir(d) \/ find_first_zero_bit(d) \/ init_big_file_ht(d)
    \/ LoadBits(d) \/ StoreBits(d) \/ LoadNum(d) \/ ffs_mknod(d) \/ remove_dir(d)

Next == \E d \in Dirs : Start(d) \/ ffs_rmdir(d) \/ Step(d)

Spec == Init /\ [][Next]_vars

-----------------------------------------------------------------------------
(* Properties *)

\* The state is well typed: the counter is a __u8, and the entry in an inode is one
\* of the array.
TypeOK ==
    /\ table \subseteq Entries /\ bitmap \subseteq Entries
    /\ num \in 0 .. 255
    /\ big_dir_id \in [Dirs -> -1 .. N - 1]
    /\ op \in [Dirs -> Op]
    /\ lock \in Dirs \union {None} /\ met \in Nat

\* d has the entry e, or has allocated its table.
Has(d, e) ==
    \/ big_dir_id[d] = e
    \/ op[d].pc \in {"load", "store", "num", "count"} /\ op[d].way # "rmdir" /\ op[d].pos = e

\* A big directory has a table, marked as used, to itself, as long as no operation
\* outside flatfs_spinlock was at the bitmap together with another (resize_dir of
\* lba.c against itself, over the sleep of vmalloc, and against remove_dir).
OwnTable ==
    met = 0 => \A d \in Dirs, e \in Entries : Has(d, e) =>
        /\ e \in table
        /\ big_dir_id[d] = e => e \in bitmap
        /\ \A c \in Dirs \ {d} : ~Has(c, e)

\* d has stored the bitmap, and not yet the counter.
Late(d) == op[d].pc \in {"num", "count"}

\* big_dir_num, on which resize_dir decides, is the number of entries marked as used
\* whenever nobody is between the stores of the two, and it never passes N, so that
\* the comparison with > refuses nobody: as long as no operation outside
\* flatfs_spinlock was at the shared fields together with another.  Two that meet
\* lose updates of either, so that nothing ties the two together any more.
CountExact ==
    met = 0 /\ (\A d \in Dirs : ~Late(d)) => num = Cardinality(bitmap) % 256 /\ num <= N

\* Only a create that came from open(2), and is past the lock and not yet returned,
\* holds flatfs_spinlock: lookup_open releases it on all ways out, also when
\* resize_dir refuses.
LockReleased ==
    \A d \in Dirs : lock = d => op[d].way = "open" /\ op[d].pc \notin {"idle", "lock"}

=============================================================================
