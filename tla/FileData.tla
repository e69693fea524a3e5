------------------------------ MODULE FileData -------------------------------
(***************************************************************************)
(* The data of regular files: the address space operations of file.c over  *)
(* the generic page cache of the kernel, which calls ffs_get_block_prep to *)
(* learn the device block of a block of a file and whether it is new.      *)
(*                                                                         *)
(* A block, which is also a page, holds U bytes.  A file writes its own    *)
(* mark, so that a byte tells who wrote it.  flatfs allocates nothing: the *)
(* device block follows from the file's slot, is always mapped, and holds  *)
(* what was last written there by any file.                                *)
(*                                                                         *)
(* Steps are interleaved as the kernel's locks allow: i_rwsem makes a write*)
(* to one page, a direct write and a truncation single steps, the page lock*)
(* a read of a page and its writeback.                                     *)
(*                                                                         *)
(* Left out: a copy from the user that is cut short; and the reclaim of    *)
(* the dentry of a file that exists, which evicts the inode without        *)
(* writing its pages (drop_inode is generic_delete_inode) and leaves a     *)
(* file that only a lookup without a dentry could bring back.              *)
(***************************************************************************)
EXTENDS Integers, FiniteSets

CONSTANTS
    Files,           \* inode objects of regular files
    Nobody,          \* who wrote a byte that no file wrote
    Slots,           \* places in the hash tables: (directory, bucket, slot)
    Blocks,          \* block numbers within a file
    U,               \* bytes per block
    DeviceBlocks,    \* block numbers of the device
    GetBlock(_, _),  \* the device block of a file block, from the file's slot
    Overflow,        \* <<bucket, s>>: when all slots of this bucket of a big table are
                     \* used, insert_big_file hands out s
    MaxCalls,        \* bound: how many files are created, written and truncated
    NoSlot

Bytes == 0 .. U - 1
Zero == [u \in Bytes |-> Nobody]
\* Bytes of a file, numbered from its start.
Offsets == {b * U + u : b \in Blocks, u \in Bytes}
Absent == [cached |-> FALSE, dirty |-> FALSE, data |-> Zero]

ASSUME DataAssumption ==
    /\ Blocks \subseteq Nat /\ U \in Nat \ {0}
    /\ Nobody \notin Files /\ NoSlot \notin Slots
    /\ \A s \in Slots, b \in Blocks : GetBlock(s, b) \in DeviceBlocks
    /\ Overflow \subseteq (SUBSET Slots) \X Slots

VARIABLES
    st,        \* [Files -> "free", "live" or "orphan": unlinked and still open]
    slot,      \* [Files -> the slot of the file, or NoSlot]
    used,      \* the slots whose bit is set in the slot bitmap
    size,      \* [Files -> fi->size], in bytes
    i_size,    \* [Files -> inode->i_size], in bytes
    page,      \* [Files -> [Blocks -> page of the file's mapping]]
    device,    \* [DeviceBlocks -> [Bytes -> who wrote the byte]]
    wrote,     \* [Files -> the bytes <<block, byte>> last written through the page cache]
    met,       \* the files that existed beside one with a block of theirs, or
               \* that have a block twice
    calls      \* how many calls there were

nameVars == <<st, slot, used, met>>
vars == <<nameVars, size, i_size, page, device, wrote, calls>>

\* The device block of block b of file f.
Block(f, b) == GetBlock(slot[f], b)
\* ffs_get_block_prep calls a block new by its number against the size in bytes.
BlockIsNew(f, b) == b >= size[f]

Larger(x, y) == IF x >= y THEN x ELSE y

-----------------------------------------------------------------------------
(* Writing *)

\* block_write_begin: what the page holds before the bytes "part" are copied into it.
\* A page that is not in the cache is zeroed around them if the block is new; else it
\* is read from the device, unless they cover it.
block_write_begin(f, b, part) ==
    IF page[f][b].cached THEN page[f][b].data
    ELSE IF BlockIsNew(f, b) \/ part = Bytes THEN Zero
    ELSE device[Block(f, b)]

\* The end of ffs_write_begin: fi->size, even if block_write_begin has failed.
\* Mutant: fi->size is where the last write ended.
MutSizeLast(f, end) == size' = [size EXCEPT ![f] = end]
SizeUpdate(f, end) == size' = [size EXCEPT ![f] = Larger(end, @)]

Counted == calls < MaxCalls /\ calls' = calls + 1
Writing(f) == st[f] # "free" /\ Counted

\* ffs_write_begin, the copy, generic_write_end: bytes from .. to - 1 of block b.
ffs_write(f) ==
    /\ Writing(f)
    /\ \E b \in Blocks, from \in Bytes, to \in 1 .. U :
        LET part == from .. to - 1
            old == block_write_begin(f, b, part)
            end == b * U + to
        IN
        /\ from < to
        /\ page' = [page EXCEPT ![f][b] =
                      [cached |-> TRUE, dirty |-> TRUE,
                       data |-> [u \in Bytes |-> IF u \in part THEN f ELSE old[u]]]]
        /\ SizeUpdate(f, end)
        /\ i_size' = [i_size EXCEPT ![f] = Larger(end, @)]
        /\ wrote' = [wrote EXCEPT ![f] = @ \union ({b} \X part)]
    /\ UNCHANGED <<nameVars, device>>

ffs_write_begin_fails(f) ==
    /\ Writing(f)
    /\ \E o \in Offsets : SizeUpdate(f, o + 1)
    /\ UNCHANGED <<nameVars, i_size, page, device, wrote>>

\* ffs_direct_IO of one block, in generic_file_direct_write: the page is written back
\* and dropped, the device written, i_size set.  fi->size is not.
ffs_direct_IO(f) ==
    /\ Writing(f)
    /\ \E b \in Blocks :
        /\ device' = [device EXCEPT ![Block(f, b)] = [u \in Bytes |-> f]]
        /\ page' = [page EXCEPT ![f][b] = Absent]
        /\ i_size' = [i_size EXCEPT ![f] = Larger((b + 1) * U, @)]
        /\ wrote' = [wrote EXCEPT ![f] = {o \in @ : o[1] # b}]
    /\ UNCHANGED <<nameVars, size>>

-----------------------------------------------------------------------------
(* Writeback, reading, reclaim *)

\* ffs_writepage and ffs_writepages: the part of the page past i_size is zeroed first;
\* a page that lies past i_size is not written.
ffs_writepage(f, b) ==
    LET kept == [u \in Bytes |-> IF b * U + u < i_size[f] THEN page[f][b].data[u] ELSE Nobody] IN
    /\ page[f][b].dirty
    /\ device' = IF b * U < i_size[f] THEN [device EXCEPT ![Block(f, b)] = kept] ELSE device
    /\ page' = [page EXCEPT ![f][b] = [cached |-> TRUE, dirty |-> FALSE, data |-> kept]]
    /\ UNCHANGED <<nameVars, size, i_size, wrote, calls>>

\* ffs_readpage of a page below i_size; the block is mapped whether or not it is new.
ffs_readpage(f, b) ==
    /\ st[f] # "free" /\ ~page[f][b].cached
    /\ b * U < i_size[f]
    /\ page' = [page EXCEPT ![f][b] = [cached |-> TRUE, dirty |-> FALSE,
                                       data |-> device[Block(f, b)]]]
    /\ UNCHANGED <<nameVars, size, i_size, device, wrote, calls>>

\* The kernel takes a clean page back.
Reclaim(f, b) ==
    /\ page[f][b].cached /\ ~page[f][b].dirty
    /\ page' = [page EXCEPT ![f][b] = Absent]
    /\ UNCHANGED <<nameVars, size, i_size, device, wrote, calls>>

\* simple_setattr with a new size: the pages past it go, the one at it is zeroed from
\* there on, and neither the device nor fi->size learns of it.
Truncate(f) ==
    /\ Writing(f)
    /\ \E n \in Offsets :
        /\ n # i_size[f]
        /\ i_size' = [i_size EXCEPT ![f] = n]
        /\ page' = [page EXCEPT ![f] = [b \in Blocks |->
                      LET old == page[f][b] IN
                      IF n >= i_size[f] THEN old
                      ELSE IF b * U >= n THEN Absent
                      ELSE [cached |-> old.cached, dirty |-> old.dirty,
                            data |-> [u \in Bytes |-> IF b * U + u < n THEN old.data[u] ELSE Nobody]]]]
        /\ wrote' = [wrote EXCEPT ![f] = {o \in @ : o[1] * U + o[2] < n}]
    /\ UNCHANGED <<nameVars, size, device>>

-----------------------------------------------------------------------------
(* Files come and go *)

\* Two slots, and one slot, that GetBlock does not keep apart.
Touch(s, t) == \E b, c \in Blocks : GetBlock(s, b) = GetBlock(t, c)
Folded(s) == \E b, c \in Blocks : b # c /\ GetBlock(s, b) = GetBlock(s, c)

\* ffs_mknod gives the file a slot whose bit is clear and sets it, or, in a full bucket
\* of a big table, one whose bit it neither asks for nor sets; fi->size is 0.
Create(f) ==
    /\ st[f] = "free" /\ Counted
    /\ \E s \in Slots :
        LET beside == {g \in Files : st[g] # "free" /\ Touch(slot[g], s)} IN
        /\ \/ s \notin used /\ used' = used \union {s}
           \/ (\E full \in SUBSET used : <<full, s>> \in Overflow) /\ UNCHANGED used
        /\ slot' = [slot EXCEPT ![f] = s]
        /\ met' = met \union beside \union {g \in {f} : beside # {} \/ Folded(s)}
    /\ st' = [st EXCEPT ![f] = "live"]
    /\ size' = [size EXCEPT ![f] = 0]
    /\ i_size' = [i_size EXCEPT ![f] = 0]
    /\ UNCHANGED <<page, device, wrote>>

Gone(f) ==
    /\ st' = [st EXCEPT ![f] = "free"]
    /\ slot' = [slot EXCEPT ![f] = NoSlot]
    /\ page' = [page EXCEPT ![f] = [b \in Blocks |-> Absent]]
    /\ wrote' = [wrote EXCEPT ![f] = {}]
    /\ size' = [size EXCEPT ![f] = 0]
    /\ i_size' = [i_size EXCEPT ![f] = 0]
    /\ met' = met \ {f}

\* The last name goes, in ffs_unlink or under a rename: an open file lives on; another
\* is evicted and its pages dropped.
Unlink(f) ==
    /\ st[f] = "live"
    /\ \/ Gone(f)
       \/ /\ st' = [st EXCEPT ![f] = "orphan"]
          /\ UNCHANGED <<slot, page, wrote, size, i_size, met>>
    /\ UNCHANGED <<used, device, calls>>

\* The last close of an unlinked file.
Evict(f) ==
    /\ st[f] = "orphan"
    /\ Gone(f)
    /\ UNCHANGED <<used, device, calls>>

\* The completion of a discard clears the bit of a slot: of a file that was unlinked,
\* open or not, of one that has another name (ffs_unlink does not ask), or, where the
\* record behind b_private was another unlink's, of any file (FileIndex).
SlotCleared(s) ==
    /\ s \in used
    /\ used' = used \ {s}
    /\ UNCHANGED <<st, slot, met, size, i_size, page, device, wrote, calls>>

Init ==
    /\ st = [f \in Files |-> "free"]
    /\ slot = [f \in Files |-> NoSlot]
    /\ used = {} /\ met = {}
    /\ size = [f \in Files |-> 0] /\ i_size = [f \in Files |-> 0]
    /\ page = [f \in Files |-> [b \in Blocks |-> Absent]]
    /\ device = [b \in DeviceBlocks |-> Zero]
    /\ wrote = [f \in Files |-> {}]
    /\ calls = 0

Next ==
    \/ \E f \in Files :
         \/ ffs_write(f) \/ ffs_write_begin_fails(f) \/ ffs_direct_IO(f) \/ Truncate(f)
         \/ Create(f) \/ Unlink(f) \/ Evict(f)
         \/ \E b \in Blocks : ffs_writepage(f, b) \/ ffs_readpage(f, b) \/ Reclaim(f, b)
    \/ \E s \in Slots : SlotCleared(s)

Spec == Init /\ [][Next]_vars

-----------------------------------------------------------------------------
(* Properties *)

\* What a read of byte u of block b of file f returns.
View(f, b, u) == IF page[f][b].cached THEN page[f][b].data[u] ELSE device[Block(f, b)][u]

\* What a file wrote through the page cache is what it reads, in the cache or from
\* the device, whatever it and the other files do, as long as no other file with one
\* of its blocks exists: ffs_get_block_prep never calls a block new that holds such
\* data, and neither an unlinked file's late writeback nor a slot that is cleared or
\* handed out again reaches it.  It is not promised of what was written directly,
\* which fi->size does not count.
ReadBack ==
    \A f \in Files \ met : st[f] # "free" => \A o \in wrote[f] : View(f, o[1], o[2]) = f

=============================================================================
