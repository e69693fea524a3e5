--------------------------------- MODULE Lba ---------------------------------
(***************************************************************************)
(* How lba.c and flatfs_d.h compute block addresses and inode numbers from *)
(* (directory, bucket, slot, block).  An lba_t is W bits wide; the field   *)
(* widths are parameters so that TLC can enumerate a scaled-down address   *)
(* space of the same shape.                                                *)
(***************************************************************************)
EXTENDS Integers, Bitwise

CONSTANTS W, MIN_FILE_BUCKET_BITS, MAX_FILE_BUCKET_BITS, MIN_DIR_BITS,
          FILE_SLOT_BITS, DEFAULT_FILE_BLOCK_BITS, BLOCK_SHIFT

\* x << n on an lba_t: the processor takes the count modulo W and the bits
\* shifted out are lost.
Shl(x, n) == (x * 2 ^ (n % W)) % 2 ^ W

FILE_META_LBA_BASE == 2 ^ (FILE_SLOT_BITS + DEFAULT_FILE_BLOCK_BITS)
BIG_TAG_BASE ==
    2 ^ (MIN_DIR_BITS + MAX_FILE_BUCKET_BITS + FILE_SLOT_BITS + DEFAULT_FILE_BLOCK_BITS)

\* The inode page of a bucket.  "+" binds tighter than "<<" in C, so the bucket
\* number is part of the shift count.
meta_lba(dir, bucket, bits) ==
    (Shl(Shl(dir, bits + bucket), FILE_SLOT_BITS) + FILE_META_LBA_BASE) % 2 ^ W

data_lba(dir, bucket, slot, bits) ==
    Shl(dir, bits + FILE_SLOT_BITS + DEFAULT_FILE_BLOCK_BITS)
    | Shl(bucket, FILE_SLOT_BITS + DEFAULT_FILE_BLOCK_BITS)
    | Shl(slot, DEFAULT_FILE_BLOCK_BITS)

\* compose_lba and compose_big_file_lba with slot 0 and flag 0.
compose_meta(dir, big, bucket) ==
    IF big THEN meta_lba(dir, bucket, MAX_FILE_BUCKET_BITS) | BIG_TAG_BASE
           ELSE meta_lba(dir, bucket, MIN_FILE_BUCKET_BITS)

\* compose_lba and compose_big_file_lba with flag 1.
compose_data(dir, big, bucket, slot) ==
    IF big THEN data_lba(dir, bucket, slot, MAX_FILE_BUCKET_BITS) | BIG_TAG_BASE
           ELSE data_lba(dir, bucket, slot, MIN_FILE_BUCKET_BITS)

\* The device block ffs_get_block_prep maps block iblock of a file to.
ffs_get_block_prep(dir, big, bucket, slot, iblock) ==
    (compose_data(dir, big, bucket, slot) | Shl(iblock, BLOCK_SHIFT)) \div 2 ^ BLOCK_SHIFT

=============================================================================
