------------------------------ MODULE FileIndex ------------------------------
(***************************************************************************)
(* The file index of flatfs: the per-directory hash tables of lba.c, the   *)
(* inode pages they are mirrored in, and the operations of inode.c and     *)
(* super.c that create, link, rename, dirty and unlink regular files.      *)
(*                                                                         *)
(* A directory d has a small table of NB buckets of NS slots, and, once a  *)
(* bucket has overflowed, a big table of NBig buckets.  A file lives at    *)
(* (bucket, slot) of one of the two; its raw inode is number "slot" of the *)
(* inode page of that bucket.  Left out: which entry of big_dir_hashtbl a  *)
(* directory gets from resize_dir; every big directory has its own here.   *)
(*                                                                         *)
(* Who runs concurrently: at most one directory operation per directory    *)
(* (the VFS holds the directory's i_rwsem), operations of different        *)
(* directories, ffs_dirty_inode on any inode that is in use (atime, write),*)
(* the flusher writing dirty pages back, and the completion of the I/O.    *)
(* Two operations never work on one file (its own i_rwsem).                *)
(* A step of this module is what happens between two points where one of   *)
(* the others can intervene: a buffer lock, a buffer unlock, a spin lock.  *)
(*                                                                         *)
(* Left out, because nothing reads it: valid_slot_count, valid_slot_num,   *)
(* the "valid" and "size" fields of a raw inode.  Of ffs_lookup, the       *)
(* lookups that find nothing are here; a name ffs_lookup would find on an  *)
(* inode page without having a dentry is not looked up in this module.     *)
(*                                                                         *)
(* Two variables are history, which the code does not keep and no guard    *)
(* reads: "spoiled" and "users" let the properties say which files the     *)
(* code cannot keep its promises to.                                       *)
(*                                                                         *)
(* A definition called Mut... is a wrong variant of the one it precedes,   *)
(* there to show that a property fails when the code is wrong.             *)
(***************************************************************************)
EXTENDS Integers, FiniteSets

CONSTANTS
    Dirs,             \* directories, named by their dir_id
    Names,            \* file names
    Inodes,           \* objects of ffs_inode_cachep
    Pages,            \* block numbers of inode pages
    Strings,          \* what the name field of a raw inode may hold
    Overlay(_, _),    \* a string after memcpy of a name's bytes, without a NUL, over it
    BKDRHash,         \* the hash of a name
    NB,               \* 1 << MIN_FILE_BUCKET_BITS
    NS,               \* 1 << FILE_SLOT_BITS
    NBig,             \* 1 << (MIN_FILE_BUCKET_BITS + MIN_DIR_BITS)
    BUCKETS_PER_BIG_DIR,  \* the mask of big_ino_to_bucket, plus one
    MetaLba(_, _, _), \* the inode page of (directory, is_big_dir, bucket_id)
    SMP,              \* CONFIG_SMP: spin_lock really locks
    BPrivate,         \* b_private of a buffer head points to an ffs_io_end
    StaleBig,         \* what the unset is_big_dir of an ffs_io_end may read
    NoName, Negative, Unhashed

Buckets == 0 .. NB - 1
Slots == 0 .. NS - 1
BigBuckets == 0 .. NBig - 1
BucketIds == -1 .. (NB + BUCKETS_PER_BIG_DIR - 1)

\* A raw inode page: the header's slot bitmap and the string in each raw inode.
PageContent == [bitmap : SUBSET Slots, name : [Slots -> Strings]]

\* struct ffs_io_end without the field nobody writes, is_big_dir.  bigid says
\* whether big_dir_id is the index of a table (and not -1).
IoEnd == [dir : Dirs, bucket : BucketIds, slot : Slots \union {-1}, bigid : BOOLEAN]

\* struct ffs_inode_info.  big_dir_id is -1 exactly where is_big_dir, here
\* "big", is 0.
FileInfo == [dir : Dirs, bucket : BucketIds, slot : Slots \union {-1},
             big : BOOLEAN, valid : BOOLEAN, name : Names \union {NoName}]

ASSUME SizeAssumption ==
    /\ NB \in Nat \ {0} /\ NS \in Nat \ {0} /\ NBig \in Nat \ {0}
    /\ BUCKETS_PER_BIG_DIR \in Nat \ {0}
    /\ Dirs \subseteq Nat /\ Dirs # {}
    /\ BKDRHash \in [Names -> Nat]

ASSUME NameAssumption ==
    /\ NoName \notin Names
    /\ Negative \notin Inodes /\ Unhashed \notin Inodes

ASSUME StringAssumption ==
    /\ NoName \in Strings
    /\ \A s \in Strings, n \in Names \union {NoName} : Overlay(s, n) \in Strings

ASSUME PageAssumption ==
    \A d \in Dirs, big \in BOOLEAN, b \in BucketIds : MetaLba(d, big, b) \in Pages

ASSUME BuildAssumption ==
    SMP \in BOOLEAN /\ BPrivate \in BOOLEAN /\ StaleBig \subseteq BOOLEAN

VARIABLES
    slot_bitmap,     \* [Dirs -> [Buckets -> set bits]], the small tables
    big_bitmap,      \* [Dirs -> [BigBuckets -> set bits]], the big tables
    bkt_lock,        \* the bucket locks that are held
    is_big_dir,      \* [Dirs -> BOOLEAN], of the directory's inode
    fi,              \* [Inodes -> FileInfo], struct ffs_inode_info
    istate,          \* [Inodes -> state of the object]
    dentry,          \* [Dirs -> [Names -> inode, Negative or Unhashed]]
    op,              \* [Dirs -> the operation that holds the directory]
    page,            \* [Pages -> PageContent], the buffer's data
    io,              \* [Pages -> who holds the buffer lock]
    dirty,           \* [Pages -> BOOLEAN], BH_Dirty
    priv,            \* [Pages -> IoEnd], the record behind b_private
    up,              \* FALSE: the kernel has left defined behaviour
    spoiled,         \* history: places of small tables a stray discard may clear
    users            \* history, [Pages -> who wrote or cleared raw inodes of it]

tableVars == <<slot_bitmap, big_bitmap, bkt_lock>>
inodeVars == <<fi, istate, dentry>>
bufVars   == <<page, io, dirty, priv>>
history   == <<spoiled, users>>
vars == <<tableVars, is_big_dir, inodeVars, op, bufVars, up, history>>

-----------------------------------------------------------------------------
(* Helpers *)

\* s is what find_first_zero_bit(bm, n) returns: n when the n bits are set.
find_first_zero_bit(bm, n, s) ==
    /\ s = n \/ s \notin bm
    /\ 0 .. s - 1 \subseteq bm

\* spin_lock on a bucket.  Nothing in flatfs ever unlocks one.
Free(l) == SMP => l \notin bkt_lock
LockedWith(l) == IF SMP THEN bkt_lock \union {l} ELSE bkt_lock

SmallLock(d, b) == <<"small", d, b>>
BigLock(d, b) == <<"big", d, b>>

PageOf(i) == MetaLba(fi[i].dir, fi[i].big, fi[i].bucket)

\* The place of a file in a table, and where a discard record points.
Place(f) == <<f.dir, f.bucket, f.slot>>

\* file_seg = slt | bucket << FILE_SLOT_BITS, where slt may be NS, then
\* ino = file_seg | dir_id << (...), then the two fields taken back from ino.
SegBucket(b, s) == IF s = NS /\ b % 2 = 0 THEN b + 1 ELSE b
big_ino_to_bucket(d, b, s) == (SegBucket(b, s) + d * NBig) % BUCKETS_PER_BIG_DIR
\* Mutant: the slot bits are not masked out of ino.
MutNoSlotMask(s) == s
big_ino_to_slot(s) == s % NS

\* An ffs_inode_info nobody uses: ffs_mknod sets every field before it is read.
UnusedInfo == [dir |-> CHOOSE d \in Dirs : TRUE, bucket |-> -1, slot |-> -1,
               big |-> FALSE, valid |-> FALSE, name |-> NoName]

IdleOp == [pc |-> "idle", name |-> NoName, ino |-> Negative]

\* No operation holds the lock of file i.
NotBusy(i) == \A d \in Dirs : op[d].ino # i

\* File i has a name besides n of directory d.
OtherName(i, d, n) ==
    \E e \in Dirs, m \in Names : dentry[e][m] = i /\ <<e, m>> # <<d, n>>

Op(d, pc) == up /\ op[d].pc = pc
Goto(d, pc) ==
    op' = [op EXCEPT ![d] = [pc |-> pc, name |-> op[d].name, ino |-> op[d].ino]]
Return(d) == op' = [op EXCEPT ![d] = IdleOp]

\* lock_buffer: the step waits until nobody holds the lock.
Unlocked(p) == io[p] = "none"

-----------------------------------------------------------------------------
(* super.c: ffs_dirty_inode, called under mark_inode_dirty.  The buffer     *)
(* lock covers the fill.  An invalid inode leaves the page's data alone,    *)
(* the buffer is marked dirty in any case.                                  *)

\* Page content c after the raw inode of f was filled in.
Filled(c, f) == [bitmap |-> c.bitmap \union {f.slot},
                 name |-> [c.name EXCEPT ![f.slot] = Overlay(@, f.name)]]

ffs_dirty_inode(i) ==
    LET p == PageOf(i) IN
    /\ Unlocked(p)
    /\ page' = IF fi[i].valid
               THEN [page EXCEPT ![p] = Filled(page[p], fi[i])]
               ELSE page
    /\ dirty' = [dirty EXCEPT ![p] = TRUE]
    /\ users' = IF fi[i].valid
                THEN [users EXCEPT ![p] = @ \union {<<fi[i].dir, fi[i].big, fi[i].bucket>>}]
                ELSE users
    /\ UNCHANGED <<io, priv, spoiled>>

-----------------------------------------------------------------------------
(* inode.c: ffs_create / ffs_mknod on a regular file *)

\* get_file_seg and get_big_file_seg find no raw inode called n: the bucket is
\* empty, or no string on its page is n, or the match is at file_seg 0.
FindsNothing(bitmap, b, p, n) ==
    \/ bitmap \intersect Slots = {}
    \/ \A s \in Slots : page[p].name[s] # n
    \/ b = 0 /\ page[p].name[0] = n

\* ffs_lookup leaves a negative dentry for n.
LookupMisses(d, n) ==
    LET b == BKDRHash[n] % NB
        bb == BKDRHash[n] % NBig
    IN
    /\ FindsNothing(slot_bitmap[d][b], b, MetaLba(d, FALSE, b), n)
    /\ is_big_dir[d] =>
         FindsNothing(big_bitmap[d][bb], bb, MetaLba(d, TRUE, bb), n)

\* The VFS has, or ffs_lookup leaves, a negative dentry for n.
NoEntry(d, n) == dentry[d][n] = Negative \/ (dentry[d][n] = Unhashed /\ LookupMisses(d, n))

\* Where the "re_mknod" of ffs_mknod goes for a regular file.  Mutant: to the
\* small table always.
MutStartSmall(d) == "small"
StartPc(d) == IF is_big_dir[d] THEN "big" ELSE "small"

\* flatfs_get_inode hands out an inode object for a name that is not in use.
MknodStart(d) ==
    /\ Op(d, "idle")
    /\ \E n \in Names, i \in Inodes :
        /\ NoEntry(d, n)
        /\ istate[i] = "free"
        /\ istate' = [istate EXCEPT ![i] = "new"]
        /\ op' = [op EXCEPT ![d] = [pc |-> StartPc(d), name |-> n, ino |-> i]]
    /\ UNCHANGED <<tableVars, is_big_dir, fi, dentry, bufVars, up, history>>

\* insert_file: a free slot of the name's bucket, or -1 when there is none.
MknodSmall(d) ==
    LET n == op[d].name
        i == op[d].ino
        b == BKDRHash[n] % NB
    IN
    /\ Op(d, "small")
    /\ Free(SmallLock(d, b))
    /\ bkt_lock' = LockedWith(SmallLock(d, b))
    /\ \E slt \in 0 .. NS :
        /\ find_first_zero_bit(slot_bitmap[d][b], NS, slt)
        /\ \/ /\ slt = NS
              /\ Goto(d, "resize")
              /\ UNCHANGED <<slot_bitmap, fi>>
           \/ /\ slt # NS
              /\ slot_bitmap' = [slot_bitmap EXCEPT ![d][b] = @ \union {slt}]
              /\ fi' = [fi EXCEPT ![i] =
                          [dir |-> d, bucket |-> b, slot |-> slt, big |-> FALSE,
                           valid |-> TRUE, name |-> n]]
              /\ Goto(d, "dirty")
    /\ UNCHANGED <<big_bitmap, is_big_dir, istate, dentry, bufVars, up, history>>

\* resize_dir.  When it fails ffs_mknod returns -1 and nobody puts the new
\* inode.  The bucket locks of the vmalloc'ed table are not initialised, so on
\* an SMP kernel any of them may look held.
MknodResize(d) ==
    LET locks == {BigLock(d, b) : b \in BigBuckets} IN
    /\ Op(d, "resize")
    /\ \/ /\ istate' = [istate EXCEPT ![op[d].ino] = "leaked"]
          /\ Return(d)
          /\ UNCHANGED <<big_bitmap, bkt_lock, is_big_dir>>
       \/ /\ big_bitmap' = [big_bitmap EXCEPT ![d] = [b \in BigBuckets |-> {}]]
          /\ \E S \in IF SMP THEN SUBSET locks ELSE {{}} : bkt_lock' = bkt_lock \union S
          /\ is_big_dir' = [is_big_dir EXCEPT ![d] = TRUE]
          /\ Goto(d, "big")
          /\ UNCHANGED istate
    /\ UNCHANGED <<slot_bitmap, fi, dentry, bufVars, up, history>>

\* insert_big_file: its test for a full bucket, slt == -1, never succeeds.
MknodBig(d) ==
    LET n == op[d].name
        i == op[d].ino
        b == BKDRHash[n] % NBig
    IN
    /\ Op(d, "big")
    /\ Free(BigLock(d, b))
    /\ bkt_lock' = LockedWith(BigLock(d, b))
    /\ \E slt \in 0 .. NS :
        /\ find_first_zero_bit(big_bitmap[d][b], NS, slt)
        /\ big_bitmap' = [big_bitmap EXCEPT ![d][b] = @ \union {slt}]
        /\ fi' = [fi EXCEPT ![i] =
                    [dir |-> d, bucket |-> big_ino_to_bucket(d, b, slt),
                     slot |-> big_ino_to_slot(slt), big |-> TRUE,
                     valid |-> TRUE, name |-> n]]
    /\ Goto(d, "dirty")
    /\ UNCHANGED <<slot_bitmap, is_big_dir, istate, dentry, bufVars, up, history>>

\* mark_inode_dirty and d_instantiate.
MknodDirty(d) ==
    LET i == op[d].ino IN
    /\ Op(d, "dirty")
    /\ ffs_dirty_inode(i)
    /\ dentry' = [dentry EXCEPT ![d][op[d].name] = i]
    /\ istate' = [istate EXCEPT ![i] = "linked"]
    /\ Return(d)
    /\ UNCHANGED <<tableVars, is_big_dir, fi, up>>

-----------------------------------------------------------------------------
(* inode.c: ffs_unlink on a regular file *)

UnlinkStart(d) ==
    /\ Op(d, "idle")
    /\ \E n \in Names :
        /\ dentry[d][n] \in Inodes /\ NotBusy(dentry[d][n])
        /\ op' = [op EXCEPT ![d] = [pc |-> "header", name |-> n,
                                    ino |-> dentry[d][n]]]
    /\ UNCHANGED <<tableVars, is_big_dir, inodeVars, bufVars, up, history>>

\* The record of a discard.  Mutant: bucket_id is not copied and reads 0.
MutNoBucketId(i) ==
    [dir |-> fi[i].dir, bucket |-> 0, slot |-> fi[i].slot, bigid |-> fi[i].big]
init_handler_for_discard(i) ==
    [dir |-> fi[i].dir, bucket |-> fi[i].bucket, slot |-> fi[i].slot, bigid |-> fi[i].big]

\* A discard of file i whose completion may clear the slot of a live file: i has
\* another name; its bucket_id in the big table is also one of the small table; or
\* the record it overwrites is one an unlink in another directory has not submitted.
Stray(d, i) ==
    \/ OtherName(i, d, op[d].name)
    \/ fi[i].big /\ fi[i].bucket \in Buckets
    \/ \E e \in Dirs \ {d} : op[e].pc \in {"mark", "submit"} /\ PageOf(op[e].ino) = PageOf(i)

\* Under the buffer lock: clear the header bit, then init_handler_for_discard
\* writes through b_private.  Where that pointer is NULL the task dies here,
\* with the buffer and the directory locked.
UnlinkHeader(d) ==
    LET i == op[d].ino
        p == PageOf(i)
    IN
    /\ Op(d, "header")
    /\ Unlocked(p)
    /\ page' = [page EXCEPT ![p] = [bitmap |-> @.bitmap \ {fi[i].slot}, name |-> @.name]]
    /\ IF BPrivate
       THEN /\ priv' = [priv EXCEPT ![p] = init_handler_for_discard(i)]
            /\ Goto(d, "mark")
            /\ UNCHANGED io
       ELSE /\ io' = [io EXCEPT ![p] = "oops"]
            /\ Goto(d, "oops")
            /\ UNCHANGED priv
    /\ spoiled' = IF Stray(d, i) THEN spoiled \union {Place(fi[i])} ELSE spoiled
    /\ users' = [users EXCEPT ![p] = @ \union {<<d, fi[i].big, fi[i].bucket>>}]
    /\ UNCHANGED <<tableVars, is_big_dir, inodeVars, dirty, up>>

\* mark_buffer_dirty, after the buffer was unlocked.
UnlinkMark(d) ==
    /\ Op(d, "mark")
    /\ dirty' = [dirty EXCEPT ![PageOf(op[d].ino)] = TRUE]
    /\ Goto(d, "submit")
    /\ UNCHANGED <<tableVars, is_big_dir, inodeVars, page, io, priv, up, history>>

\* submit_bio_for_discard: a buffer that is locked or clean is skipped.
UnlinkSubmit(d) ==
    LET p == PageOf(op[d].ino) IN
    /\ Op(d, "submit")
    /\ \/ /\ Unlocked(p) /\ dirty[p]
          /\ io' = [io EXCEPT ![p] = "discard"]
          /\ dirty' = [dirty EXCEPT ![p] = FALSE]
       \/ /\ ~Unlocked(p) \/ ~dirty[p]
          /\ UNCHANGED <<io, dirty>>
    /\ Goto(d, "invalidate")
    /\ UNCHANGED <<tableVars, is_big_dir, inodeVars, page, priv, up, history>>

\* fi->valid = 0 and the name wiped.  Mutants: valid is kept; both are kept.
MutKeepValid(d) ==
    /\ Op(d, "invalidate")
    /\ fi' = [fi EXCEPT ![op[d].ino].name = NoName]
    /\ Goto(d, "drop")
    /\ UNCHANGED <<tableVars, is_big_dir, istate, dentry, bufVars, up, history>>

MutNoInvalidate(d) ==
    /\ Op(d, "invalidate")
    /\ Goto(d, "drop")
    /\ UNCHANGED <<tableVars, is_big_dir, inodeVars, bufVars, up, history>>

UnlinkInvalidate(d) ==
    LET i == op[d].ino IN
    /\ Op(d, "invalidate")
    /\ fi' = [fi EXCEPT ![i].valid = FALSE, ![i].name = NoName]
    /\ Goto(d, "drop")
    /\ UNCHANGED <<tableVars, is_big_dir, istate, dentry, bufVars, up, history>>

\* inode_dec_link_count, then the VFS's d_delete.  A dentry somebody else uses (an
\* open file, or simple_link's dget) is unhashed and keeps its inode, any other
\* turns negative.  An inode without a name and a user is evicted
\* (generic_delete_inode); one with another name stays, although it is not valid.
UnlinkDrop(d) ==
    LET i == op[d].ino IN
    /\ Op(d, "drop")
    /\ ffs_dirty_inode(i)
    /\ \E used \in BOOLEAN :
        /\ dentry' = [dentry EXCEPT ![d][op[d].name] = IF used THEN Unhashed ELSE Negative]
        /\ \/ OtherName(i, d, op[d].name) /\ UNCHANGED <<istate, fi>>
           \/ /\ ~OtherName(i, d, op[d].name)
              /\ istate' = [istate EXCEPT ![i] = IF used THEN "orphan" ELSE "free"]
              /\ fi' = IF used THEN fi ELSE [fi EXCEPT ![i] = UnusedInfo]
    /\ Return(d)
    /\ UNCHANGED <<tableVars, is_big_dir, up>>

-----------------------------------------------------------------------------
(* inode.c, ffs_dir_inode_ops: .link and .rename are libfs's simple_link and *)
(* simple_rename.  They run under the locks of the directories and files     *)
(* they work on and do nothing to the tables, the pages or the inode's       *)
(* ffs_inode_info, so each is one step.                                      *)

simple_link(d) ==
    /\ Op(d, "idle")
    /\ \E n \in Names, i \in Inodes :
        /\ \E e \in Dirs, m \in Names : dentry[e][m] = i
        /\ NotBusy(i)
        /\ NoEntry(d, n)
        /\ dentry' = [dentry EXCEPT ![d][n] = i]
    /\ UNCHANGED <<tableVars, is_big_dir, fi, istate, op, bufVars, up, history>>

\* The file a rename replaces loses a name in simple_unlink: no discard, fi is left
\* alone.  simple_unlink's dput gives back a reference only simple_link takes: of a
\* dentry that is open and has none, it frees the inode under the open file.
Replaced(j, e, m) ==
    \/ /\ OtherName(j, e, m)
       /\ UNCHANGED <<fi, istate, up>>
    \/ /\ ~OtherName(j, e, m)
       /\ istate' = [istate EXCEPT ![j] = "free"]
       /\ fi' = [fi EXCEPT ![j] = UnusedInfo]
       /\ UNCHANGED up
    \/ /\ ~OtherName(j, e, m)
       /\ istate' = [istate EXCEPT ![j] = "orphan"]
       /\ UNCHANGED <<fi, up>>
    \/ /\ up' = FALSE
       /\ UNCHANGED <<fi, istate>>

\* Name n of directory d becomes m of directory e; a rename between two names of
\* one file is refused before it gets here.
simple_rename(d, e) ==
    /\ Op(d, "idle") /\ Op(e, "idle")
    /\ \E n, m \in Names :
        LET i == dentry[d][n]
            j == dentry[e][m]
        IN
        /\ i \in Inodes /\ NotBusy(i)
        /\ \/ NoEntry(e, m) /\ UNCHANGED <<fi, istate, up>>
           \/ j \in Inodes \ {i} /\ NotBusy(j) /\ Replaced(j, e, m)
        /\ dentry' = [dentry EXCEPT ![d][n] = Unhashed, ![e][m] = i]
    /\ UNCHANGED <<tableVars, is_big_dir, op, bufVars, history>>

-----------------------------------------------------------------------------
(* The completion of a discard request: define_callback_for_discard.        *)

\* Mutant of delete_file: a bucket_id out of range is masked, not refused.
MutMasked(r) ==
    /\ Free(SmallLock(r.dir, r.bucket % NB))
    /\ bkt_lock' = LockedWith(SmallLock(r.dir, r.bucket % NB))
    /\ slot_bitmap' = [slot_bitmap EXCEPT ![r.dir][r.bucket % NB] = @ \ {r.slot}]
    /\ UNCHANGED <<big_bitmap, up>>

\* delete_file and delete_big_file let a bucket_id equal to the size of the
\* array through; it lands on the fields behind the array and on no bucket.
delete_file(r) ==
    /\ IF r.bucket # -1 /\ r.bucket <= NB
       THEN /\ Free(SmallLock(r.dir, r.bucket))
            /\ bkt_lock' = LockedWith(SmallLock(r.dir, r.bucket))
       ELSE UNCHANGED bkt_lock
    /\ slot_bitmap' = IF r.bucket \in Buckets
                      THEN [slot_bitmap EXCEPT ![r.dir][r.bucket] = @ \ {r.slot}]
                      ELSE slot_bitmap
    /\ UNCHANGED <<big_bitmap, up>>

\* big_dir_id is -1 in the record of a file of the small table: the callback
\* then follows a pointer in front of big_dir_hashtbl.
delete_big_file(r) ==
    /\ up' = r.bigid
    /\ IF r.bigid /\ r.bucket # -1 /\ r.bucket <= NBig
       THEN /\ Free(BigLock(r.dir, r.bucket))
            /\ bkt_lock' = LockedWith(BigLock(r.dir, r.bucket))
       ELSE UNCHANGED bkt_lock
    /\ big_bitmap' = IF r.bigid /\ r.bucket \in BigBuckets
                     THEN [big_bitmap EXCEPT ![r.dir][r.bucket] = @ \ {r.slot}]
                     ELSE big_bitmap
    /\ UNCHANGED slot_bitmap

DiscardDone(p) ==
    /\ up
    /\ io[p] = "discard"
    /\ \/ FALSE \in StaleBig /\ delete_file(priv[p])
       \/ TRUE \in StaleBig /\ delete_big_file(priv[p])
    /\ io' = [io EXCEPT ![p] = "none"]
    /\ UNCHANGED <<is_big_dir, inodeVars, op, page, dirty, priv, history>>

-----------------------------------------------------------------------------
(* What runs beside the directory operations *)

\* mark_inode_dirty on a file in use: an atime update, a write, a chmod.
DirtyInode(i) ==
    /\ up
    /\ istate[i] \in {"linked", "orphan"}
    /\ ffs_dirty_inode(i)
    /\ UNCHANGED <<tableVars, is_big_dir, inodeVars, op, up>>

\* The last close of a file without a name.
Evict(i) ==
    /\ up
    /\ istate[i] = "orphan"
    /\ istate' = [istate EXCEPT ![i] = "free"]
    /\ fi' = [fi EXCEPT ![i] = UnusedInfo]
    /\ UNCHANGED <<tableVars, is_big_dir, dentry, op, bufVars, up, history>>

\* The flusher writes a dirty buffer of the block device back.
Flush(p) ==
    /\ up
    /\ Unlocked(p) /\ dirty[p]
    /\ io' = [io EXCEPT ![p] = "flush"]
    /\ dirty' = [dirty EXCEPT ![p] = FALSE]
    /\ UNCHANGED <<tableVars, is_big_dir, inodeVars, op, page, priv, up, history>>

FlushDone(p) ==
    /\ up
    /\ io[p] = "flush"
    /\ io' = [io EXCEPT ![p] = "none"]
    /\ UNCHANGED <<tableVars, is_big_dir, inodeVars, op, page, dirty, priv, up, history>>

-----------------------------------------------------------------------------
(* Mount and unmount *)

EmptyTables ==
    [small |-> [d \in Dirs |-> [b \in Buckets |-> {}]],
     big   |-> [d \in Dirs |-> [b \in BigBuckets |-> {}]]]

\* flatfs_fill_super builds empty tables and reads nothing back.
Init ==
    /\ slot_bitmap = EmptyTables.small
    /\ big_bitmap = EmptyTables.big
    /\ bkt_lock = {}
    /\ is_big_dir = [d \in Dirs |-> FALSE]
    /\ fi = [i \in Inodes |-> UnusedInfo]
    /\ istate = [i \in Inodes |-> "free"]
    /\ dentry = [d \in Dirs |-> [n \in Names |-> Unhashed]]
    /\ op = [d \in Dirs |-> IdleOp]
    /\ page = [p \in Pages |-> [bitmap |-> {}, name |-> [s \in Slots |-> NoName]]]
    /\ io = [p \in Pages |-> "none"]
    /\ dirty = [p \in Pages |-> FALSE]
    /\ priv = [p \in Pages |-> [dir |-> CHOOSE d \in Dirs : TRUE, bucket |-> -1,
                                slot |-> -1, bigid |-> FALSE]]
    /\ up = TRUE
    /\ spoiled = {}
    /\ users = [p \in Pages |-> {}]

\* flatfs_kill_sb and a new flatfs_fill_super.  Unmounting needs every file
\* closed; it drops the dentries and the inodes and writes the pages back.
Remount ==
    /\ up
    /\ \A d \in Dirs : op[d].pc = "idle"
    /\ \A i \in Inodes : istate[i] # "orphan"
    /\ \A p \in Pages : Unlocked(p) /\ ~dirty[p]
    /\ slot_bitmap' = EmptyTables.small
    /\ big_bitmap' = EmptyTables.big
    /\ bkt_lock' = {}
    /\ is_big_dir' = [d \in Dirs |-> FALSE]
    /\ istate' = [i \in Inodes |-> IF istate[i] = "linked" THEN "free" ELSE istate[i]]
    /\ fi' = [i \in Inodes |-> UnusedInfo]
    /\ dentry' = [d \in Dirs |-> [n \in Names |-> Unhashed]]
    /\ spoiled' = {}
    /\ users' = [p \in Pages |-> {}]
    /\ UNCHANGED <<op, bufVars, up>>

DirOp(d) ==
    \/ MknodStart(d) \/ MknodSmall(d) \/ MknodResize(d)
    \/ MknodBig(d) \/ MknodDirty(d)
    \/ UnlinkStart(d) \/ UnlinkHeader(d) \/ UnlinkMark(d) \/ UnlinkSubmit(d)
    \/ UnlinkInvalidate(d) \/ UnlinkDrop(d)
    \/ simple_link(d)
    \/ \E e \in Dirs : simple_rename(d, e)

Next ==
    \/ \E d \in Dirs : DirOp(d)
    \/ \E p \in Pages : DiscardDone(p) \/ Flush(p) \/ FlushDone(p)
    \/ \E i \in Inodes : DirtyInode(i) \/ Evict(i)
    \/ Remount

Spec == Init /\ [][Next]_vars

-----------------------------------------------------------------------------
(* Properties *)

OpPc == {"idle", "small", "resize", "big", "dirty",
         "header", "mark", "submit", "invalidate", "drop", "oops"}

\* The state is well typed: in particular the slot a bitmap of the small table
\* holds is always one of the NS of the bucket.
TypeOK ==
    /\ slot_bitmap \in [Dirs -> [Buckets -> SUBSET Slots]]
    /\ big_bitmap \in [Dirs -> [BigBuckets -> SUBSET (0 .. NS)]]
    /\ is_big_dir \in [Dirs -> BOOLEAN]
    /\ fi \in [Inodes -> FileInfo]
    /\ istate \in [Inodes -> {"free", "new", "linked", "orphan", "leaked"}]
    /\ dentry \in [Dirs -> [Names -> Inodes \union {Negative, Unhashed}]]
    /\ op \in [Dirs -> [pc : OpPc, name : Names \union {NoName},
                        ino : Inodes \union {Negative}]]
    /\ page \in [Pages -> PageContent]
    /\ io \in [Pages -> {"none", "flush", "discard", "oops"}]
    /\ dirty \in [Pages -> BOOLEAN]
    /\ priv \in [Pages -> IoEnd]
    /\ up \in BOOLEAN
    /\ spoiled \subseteq Dirs \X BucketIds \X (Slots \union {-1})
    /\ users \in [Pages -> SUBSET (Dirs \X BOOLEAN \X BucketIds)]

\* i is a file with a name: created, and not on its way out.
Unlinking(i) == \E d \in Dirs : op[d].ino = i /\ op[d].pc \in
                    {"header", "mark", "submit", "invalidate", "drop", "oops"}
Live(i) == istate[i] = "linked" /\ ~Unlinking(i)

\* "Each slot records one inode" (flatfs_d.h:25), of the small tables.  ffs_unlink
\* does not look at i_nlink: it gives the slot away with the first of two names.
OneInodePerSlot ==
    \A i, j \in Inodes :
        Live(i) /\ Live(j) /\ ~fi[i].big /\ ~fi[j].big /\ Place(fi[i]) = Place(fi[j]) => i = j

\* What the code does keep: at a place no stray discard was aimed at, the bit of a
\* live file is set and no other live file has the slot, however late discards
\* complete and whatever happens at other places and in other directories that
\* share its inode page.
SlotExclusive ==
    \A i \in Inodes : Live(i) /\ ~fi[i].big /\ Place(fi[i]) \notin spoiled =>
        /\ fi[i].slot \in slot_bitmap[fi[i].dir][fi[i].bucket]
        /\ \A j \in Inodes \ {i} : Live(j) /\ ~fi[j].big => Place(fi[i]) # Place(fi[j])

\* The raw inode of file i: its header bit and its name.
Agrees(i) ==
    /\ fi[i].slot \in page[PageOf(i)].bitmap
    /\ \E s \in Strings : page[PageOf(i)].name[fi[i].slot] = Overlay(s, fi[i].name)

\* The inode page agrees with the index as long as only the file's own bucket has
\* used the page: the header bit of a live file is set and its name is what was last
\* copied into its raw inode (ffs_dirty_inode against ffs_unlink).
PageAgrees ==
    \A i \in Inodes :
        /\ Live(i) /\ ~fi[i].big /\ Place(fi[i]) \notin spoiled
        /\ users[PageOf(i)] = {<<fi[i].dir, FALSE, fi[i].bucket>>}
        => Agrees(i)

\* A directory that became big never puts a file into its small table again.
SmallOnlyShrinks ==
    [][\A d \in Dirs : is_big_dir[d] =>
          \A b \in Buckets : slot_bitmap'[d][b] \subseteq slot_bitmap[d][b]]_vars

-----------------------------------------------------------------------------
(* Why SlotExclusive holds *)

\* A file of a small table whose slot ffs_unlink has not given away yet.
HasSlot(i) ==
    /\ fi[i].valid /\ ~fi[i].big
    /\ Place(fi[i]) \notin spoiled
    /\ \A d \in Dirs : op[d].ino = i => op[d].pc # "invalidate"

CreatePc == {"small", "resize", "big"}
UnlinkPc == {"header", "mark", "submit", "invalidate", "oops"}

\* What the operation that holds directory d knows of its inode.
OpOK(d) ==
    \/ op[d].pc = "idle" /\ op[d].ino = Negative
    \/ LET i == op[d].ino IN
       /\ op[d].pc # "idle" /\ i \in Inodes /\ op[d].name \in Names
       /\ op[d].pc \in CreatePc => istate[i] = "new" /\ ~fi[i].valid
       /\ op[d].pc = "dirty" => istate[i] = "new" /\ fi[i].valid /\ fi[i].dir = d
       /\ op[d].pc \in UnlinkPc => fi[i].valid \/ Place(fi[i]) \in spoiled
       /\ op[d].pc = "drop" => ~fi[i].valid
       /\ op[d].pc \in UnlinkPc \union {"drop"} =>
            istate[i] = "linked" /\ dentry[d][op[d].name] = i
       /\ op[d].pc \in (UnlinkPc \ {"header"}) \union {"drop"} =>
            ~OtherName(i, d, op[d].name) \/ Place(fi[i]) \in spoiled

OpInv == \A d \in Dirs : OpOK(d)

\* No two operations work on one inode.
OpDistinct ==
    \A d, e \in Dirs : d # e /\ op[d].ino = op[e].ino => op[d].ino = Negative

DentryInv ==
    \A d \in Dirs, n \in Names :
        dentry[d][n] \in Inodes => istate[dentry[d][n]] = "linked"

\* An inode is valid from the moment ffs_mknod has set it up until ffs_unlink
\* invalidates it; one that has a name all the same is at a spoiled place.
ValidInv ==
    \A i \in Inodes :
        /\ fi[i].valid => istate[i] \in {"new", "linked", "orphan"}
        /\ istate[i] = "linked" /\ ~fi[i].valid =>
             \/ Place(fi[i]) \in spoiled
             \/ \E d \in Dirs : op[d].pc = "drop" /\ op[d].ino = i
        /\ fi[i].valid => fi[i].slot \in Slots
        /\ fi[i].valid /\ ~fi[i].big => fi[i].bucket \in Buckets

\* The bit of such a file's slot is set, and the slot is only its own.
SlotSet ==
    \A i \in Inodes : HasSlot(i) => fi[i].slot \in slot_bitmap[fi[i].dir][fi[i].bucket]

SlotUnique ==
    \A i, j \in Inodes : HasSlot(i) /\ HasSlot(j) /\ Place(fi[i]) = Place(fi[j]) => i = j

\* From init_handler_for_discard to the submission the record is the unlinker's, or
\* that of a stray discard.
PrivInv ==
    \A d \in Dirs : op[d].pc \in {"mark", "submit"} =>
        LET i == op[d].ino IN
        \/ /\ priv[PageOf(i)] = init_handler_for_discard(i)
           /\ fi[i].bucket \in Buckets => ~fi[i].big \/ Place(fi[i]) \in spoiled
        \/ Place(priv[PageOf(i)]) \in spoiled

\* A discard in flight for a slot of a small table: its page is the bucket's,
\* the bit is still set, and no file has the slot.
Pending(p) ==
    io[p] = "discard" /\ priv[p].bucket \in Buckets /\ Place(priv[p]) \notin spoiled

DiscardInv ==
    \A p \in Pages : Pending(p) =>
        /\ p = MetaLba(priv[p].dir, FALSE, priv[p].bucket)
        /\ priv[p].slot \in slot_bitmap[priv[p].dir][priv[p].bucket]

DiscardSolo ==
    \A p \in Pages, i \in Inodes :
        Pending(p) /\ HasSlot(i) => Place(fi[i]) # Place(priv[p])

\* The inductive invariant behind SlotExclusive: create, unlink and the
\* completion of discards keep all of it together.
IndexInv ==
    /\ TypeOK
    /\ OpInv
    /\ OpDistinct
    /\ DentryInv
    /\ ValidInv
    /\ SlotSet
    /\ SlotUnique
    /\ PrivInv
    /\ DiscardInv
    /\ DiscardSolo

\* What SmallOnlyShrinks needs besides: an operation that still tries the small
\* table works on a directory that has no big one.
SmallInv == \A d \in Dirs : op[d].pc \in {"small", "resize"} => ~is_big_dir[d]

\* What PageAgrees needs besides.  A file with a name has written to its page, and so
\* has an unlinker that is past the header, for its own directory.
UsedInv ==
    /\ \A i \in Inodes : istate[i] = "linked" =>
         <<fi[i].dir, fi[i].big, fi[i].bucket>> \in users[PageOf(i)]
    /\ \A d \in Dirs : op[d].pc \in {"mark", "submit", "invalidate"} =>
         LET i == op[d].ino IN <<d, fi[i].big, fi[i].bucket>> \in users[PageOf(i)]

\* Between the submission of its discard and fi->valid = 0 the slot of a file can be
\* free, but its own directory, which is busy, has not given it to anyone.
GivenAway ==
    \A d \in Dirs, i \in Inodes :
        LET j == op[d].ino IN
        op[d].pc = "invalidate" /\ fi[j].dir = d /\ ~fi[j].big /\ HasSlot(i) =>
            Place(fi[i]) # Place(fi[j])

=============================================================================
