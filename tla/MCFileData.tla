----------------------------- MODULE MCFileData ------------------------------
(* Instances of FileData for TLC, over the blocks that ffs_get_block_prep     *)
(* computes with the fields of the address scaled down: the slots of a bucket *)
(* of a big directory, and the one that is handed out when it is full.  Block *)
(* 2 of a file lies past its slot's part of the address space (4 GiB into the *)
(* file): for slot 0 of bucket 0 it is the first block of slot 1, for slot 1  *)
(* its own first block again.                                                 *)
EXTENDS FileData, TLC

L == INSTANCE Lba WITH W <- 8, MIN_FILE_BUCKET_BITS <- 1, MAX_FILE_BUCKET_BITS <- 2,
                       MIN_DIR_BITS <- 1, FILE_SLOT_BITS <- 1,
                       DEFAULT_FILE_BLOCK_BITS <- 2, BLOCK_SHIFT <- 1

Place(bucket, sl) == [dir |-> 1, big |-> TRUE, bucket |-> bucket, slot |-> sl]
MCSlots == {Place(0, 0), Place(0, 1), Place(1, 0)}
\* slt is 2 in a full bucket, and 2 | 0 << FILE_SLOT_BITS is slot 0 of bucket 1.
MCOverflow == {<<{Place(0, 0), Place(0, 1)}, Place(1, 0)>>}
\* ffs_get_block_prep for every slot and block, computed once.
BlockTable == [s \in MCSlots, b \in Blocks |-> L!ffs_get_block_prep(s.dir, s.big, s.bucket, s.slot, b)]
MCGetBlock(s, b) == BlockTable[s, b]
MCDeviceBlocks == {BlockTable[s, b] : s \in MCSlots, b \in Blocks}
Perms == Permutations(Files)

=============================================================================
