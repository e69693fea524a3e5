----------------------------- MODULE MCFileIndex -----------------------------
(* Instances of FileIndex for TLC, over the inode pages that compose_lba gives *)
(* with the fields of the address scaled down.                                 *)
EXTENDS FileIndex, TLC

CONSTANTS
    n1, n2, n3, i1, i2, i3,
    MaxCalls         \* bound on the calls of create, unlink, link and rename

VARIABLE calls

\* n1 and n3 share a bucket of the small table and of the big one, n2 has others.
MCHash == [n \in Names |-> CASE n = n1 -> 0 [] n = n2 -> 1 [] n = n3 -> 2]

\* n1 is shorter than n2 and n3: copied over one of them it leaves a tail.
Tail(s) == s = n2 \/ s = n3 \/ s = "n1 and a tail"
MCStrings == Names \union {NoName, "n1 and a tail"}
MCOverlay(s, n) ==
    IF n = NoName THEN s ELSE IF n = n1 /\ Tail(s) THEN "n1 and a tail" ELSE n

\* Two small buckets, two big ones, eight bucket ids of big tables.  The second
\* bucket of directory 2 and the first of directory 4 have one inode page, and the
\* files of the big table of directory 4 have bucket ids of the small one.
L == INSTANCE Lba WITH W <- 16, MIN_FILE_BUCKET_BITS <- 0, MAX_FILE_BUCKET_BITS <- 1,
                       MIN_DIR_BITS <- 2, FILE_SLOT_BITS <- NS - 1,
                       DEFAULT_FILE_BLOCK_BITS <- 4, BLOCK_SHIFT <- 1
\* The page of every bucket id a file can have, computed once; other ids get page 0,
\* which nobody uses.
HasFiles(d, big, b) ==
    IF big THEN \E bb \in BigBuckets, s \in 0 .. NS : b = big_ino_to_bucket(d, bb, s)
           ELSE b \in Buckets
PageTable == [d \in Dirs, big \in BOOLEAN, b \in BucketIds |->
                IF HasFiles(d, big, b) THEN L!compose_meta(d, big, b) ELSE 0]
MCMetaLba(d, big, b) == PageTable[d, big, b]
AllPages == {PageTable[d, big, b] : d \in Dirs, big \in BOOLEAN, b \in BucketIds}
MCPages == AllPages

\* The run with several slots per bucket follows a directory until it is big.
StillSmall == \A d \in Dirs : ~is_big_dir[d]

\* FileIndex with at most MaxCalls calls that work on names.
Calls == \E d \in Dirs : \/ MknodStart(d) \/ UnlinkStart(d) \/ simple_link(d)
                        \/ \E e \in Dirs : simple_rename(d, e)
Others ==
    \/ \E d \in Dirs :
        \/ MknodSmall(d) \/ MknodResize(d) \/ MknodBig(d) \/ MknodDirty(d)
        \/ UnlinkHeader(d) \/ UnlinkMark(d) \/ UnlinkSubmit(d)
        \/ UnlinkInvalidate(d) \/ UnlinkDrop(d)
    \/ \E p \in Pages : DiscardDone(p) \/ Flush(p) \/ FlushDone(p)
    \/ \E i \in Inodes : DirtyInode(i) \/ Evict(i)
    \/ Remount

MCInit == Init /\ calls = 0
MCNext == \/ Calls /\ calls < MaxCalls /\ calls' = calls + 1
          \/ Others /\ UNCHANGED calls
MCSpec == MCInit /\ [][MCNext]_<<vars, calls>>

Perms == Permutations(Inodes)

=============================================================================
