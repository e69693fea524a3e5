--------------------------- MODULE FileIndexProofs ---------------------------
(***************************************************************************)
(* Proofs about FileIndex: IndexInv is an invariant for every value of the *)
(* constants, and with it TypeOK, SlotExclusive, SmallOnlyShrinks and      *)
(* PageAgrees are properties of Spec.                                      *)
(*                                                                         *)
(* The first lemmas say what a step may do without disturbing a conjunct   *)
(* of IndexInv.  Then there is one lemma per action, named after it.  Each *)
(* first says what the action does to op, fi, istate and dentry, point by  *)
(* point, and then takes the conjuncts of IndexInv one by one.             *)
(***************************************************************************)
EXTENDS FileIndex, TLAPS

USE DEF Goto, Return, Op, Unlocked, tableVars, inodeVars, bufVars, history

\* The ranges of op and istate in TypeOK, and the two halves of IndexInv.
OpType == [pc : OpPc, name : Names \union {NoName}, ino : Inodes \union {Negative}]
IState == {"free", "new", "linked", "orphan", "leaked"}
NamesInv == OpInv /\ OpDistinct /\ DentryInv /\ ValidInv
SlotInv == SlotSet /\ SlotUnique /\ DiscardInv /\ DiscardSolo

\* What ValidInv says of one inode.
ValidAt(i) ==
    /\ fi[i].valid => istate[i] \in {"new", "linked", "orphan"}
    /\ istate[i] = "linked" /\ ~fi[i].valid =>
         \/ Place(fi[i]) \in spoiled
         \/ \E d \in Dirs : op[d].pc = "drop" /\ op[d].ino = i
    /\ fi[i].valid => fi[i].slot \in Slots
    /\ fi[i].valid /\ ~fi[i].big => fi[i].bucket \in Buckets

\* The page of an inode is one of the pages: the inode's fields are in range
\* wherever ffs_get_lba_meta is called.
LEMMA PageOfType ==
    ASSUME TypeOK, NEW i \in Inodes
    PROVE  PageOf(i) \in Pages
BY PageAssumption DEF TypeOK, PageOf, FileInfo

\* The place of a file and that of its discard record.
LEMMA PlaceType ==
    ASSUME NEW f \in FileInfo
    PROVE  Place(f) \in Dirs \X BucketIds \X (Slots \union {-1})
BY DEF FileInfo, Place

LEMMA RecordPlace ==
    ASSUME NEW i
    PROVE  Place(init_handler_for_discard(i)) = Place(fi[i])
BY DEF Place, init_handler_for_discard

\* Two places are equal exactly when directory, bucket and slot are.
LEMMA SamePlace ==
    ASSUME NEW f, NEW g, Place(f) = Place(g)
    PROVE  f.dir = g.dir /\ f.bucket = g.bucket /\ f.slot = g.slot
BY DEF Place

\* An ffs_inode_info nobody uses is well typed and not valid.
LEMMA UnusedOK == UnusedInfo \in FileInfo /\ UnusedInfo.valid = FALSE
BY SizeAssumption DEF UnusedInfo, FileInfo, BucketIds

\* A step that leaves an operation, its inode and the inode's names alone.
LEMMA OpFrame ==
    ASSUME NEW e \in Dirs, OpOK(e), op'[e] = op[e], spoiled \subseteq spoiled',
           op[e].ino \in Inodes =>
             /\ fi'[op[e].ino] = fi[op[e].ino] /\ istate'[op[e].ino] = istate[op[e].ino]
             /\ dentry'[e][op[e].name] = dentry[e][op[e].name]
             /\ \A f \in Dirs, m \in Names : dentry'[f][m] = op[e].ino => dentry[f][m] = op[e].ino
    PROVE  OpOK(e)'
<1>1. CASE op[e].pc = "idle" /\ op[e].ino = Negative
  BY <1>1 DEF OpOK
<1>2. CASE ~(op[e].pc = "idle" /\ op[e].ino = Negative)
  <2>1. op[e].ino \in Inodes
    BY <1>2 DEF OpOK
  <2>2. OtherName(op[e].ino, e, op[e].name)' => OtherName(op[e].ino, e, op[e].name)
    BY <2>1 DEF OtherName
  <2>3. Place(fi[op[e].ino]) \in spoiled => Place(fi'[op[e].ino]) \in spoiled'
    BY <2>1
  <2> QED BY <1>2, <2>1, <2>2, <2>3 DEF OpOK
<1> QED BY <1>1, <1>2

\* A step that leaves an inode and the operation dropping it alone.
LEMMA ValidFrame ==
    ASSUME ValidInv, spoiled \subseteq spoiled',
           \A j \in Inodes :
             \/ /\ fi'[j] = fi[j] /\ istate'[j] = istate[j]
                /\ \A e \in Dirs : op[e].pc = "drop" /\ op[e].ino = j => op'[e] = op[e]
             \/ ValidAt(j)'
    PROVE  ValidInv'
<1> SUFFICES ASSUME NEW j \in Inodes PROVE ValidAt(j)'
  BY DEF ValidInv, ValidAt
<1>1. CASE /\ fi'[j] = fi[j] /\ istate'[j] = istate[j]
           /\ \A e \in Dirs : op[e].pc = "drop" /\ op[e].ino = j => op'[e] = op[e]
  <2>1. ValidAt(j)
    BY DEF ValidInv, ValidAt
  <2> QED BY <1>1, <2>1 DEF ValidAt
<1> QED BY <1>1

\* A step that leaves operations, inodes and names alone.
LEMMA SameNames ==
    ASSUME NamesInv, UNCHANGED <<op, fi, istate, dentry, spoiled>>
    PROVE  NamesInv'
<1> USE DEF NamesInv
<1>1. OpInv'
  BY OpFrame DEF OpInv
<1>2. OpDistinct' /\ DentryInv'
  BY DEF OpDistinct, DentryInv
<1>3. ValidInv'
  BY ValidFrame
<1> QED BY <1>1, <1>2, <1>3

\* A file keeps no slot it did not have.
LEMMA HasFrame ==
    ASSUME NEW j \in Inodes, HasSlot(j)', fi'[j] = fi[j], spoiled \subseteq spoiled',
           \A e \in Dirs : op[e].ino = j /\ op[e].pc = "invalidate" => op'[e] = op[e]
    PROVE  HasSlot(j)
BY DEF HasSlot

\* A step that leaves the small tables alone, gives nobody a slot and starts no
\* discard keeps the four conjuncts about slots.
LEMMA SlotFrame ==
    ASSUME SlotInv, slot_bitmap' = slot_bitmap,
           \A p \in Pages : Pending(p)' => Pending(p) /\ priv'[p] = priv[p],
           \A j \in Inodes : HasSlot(j)' => HasSlot(j) /\ fi'[j] = fi[j]
    PROVE  SlotInv'
<1> USE DEF SlotInv
<1>1. SlotSet'
  BY DEF SlotSet
<1>2. SlotUnique'
  BY DEF SlotUnique
<1>3. DiscardInv'
  BY DEF DiscardInv
<1>4. DiscardSolo'
  <2> SUFFICES ASSUME NEW p \in Pages, NEW j \in Inodes, Pending(p)', HasSlot(j)'
               PROVE  Place(fi'[j]) # Place(priv'[p])
    BY DEF DiscardSolo
  <2>1. Place(fi[j]) # Place(priv[p])
    BY DEF DiscardSolo
  <2> QED BY <2>1
<1> QED BY <1>1, <1>2, <1>3, <1>4

\* A step that starts no discard.
LEMMA PendingFrame ==
    ASSUME NEW p \in Pages, Pending(p)', priv'[p] = priv[p], spoiled \subseteq spoiled',
           io'[p] = "discard" => io[p] = "discard"
    PROVE  Pending(p)
BY DEF Pending

\* What PrivInv says of one operation.
PrivAt(d) ==
    LET i == op[d].ino IN
    \/ /\ priv[PageOf(i)] = init_handler_for_discard(i)
       /\ fi[i].bucket \in Buckets => ~fi[i].big \/ Place(fi[i]) \in spoiled
    \/ Place(priv[PageOf(i)]) \in spoiled

\* A step that leaves the discard records and the unlinks between their header
\* and their submission alone.
LEMMA PrivFrame ==
    ASSUME PrivInv, priv' = priv, spoiled \subseteq spoiled',
           \A e \in Dirs : op'[e].pc \in {"mark", "submit"} =>
             /\ op[e].pc \in {"mark", "submit"} /\ op'[e].ino = op[e].ino
             /\ fi'[op[e].ino] = fi[op[e].ino]
    PROVE  PrivInv'
<1> SUFFICES ASSUME NEW e \in Dirs, op'[e].pc \in {"mark", "submit"}
             PROVE  PrivAt(e)'
  BY DEF PrivInv, PrivAt
<1>1. PrivAt(e)
  BY DEF PrivInv, PrivAt
<1>2. PageOf(op[e].ino)' = PageOf(op[e].ino)
  BY DEF PageOf
<1>3. init_handler_for_discard(op[e].ino)' = init_handler_for_discard(op[e].ino)
  BY DEF init_handler_for_discard
<1> QED BY <1>1, <1>2, <1>3 DEF PrivAt, PageOf, init_handler_for_discard

\* IndexInv after a step, from its parts.
LEMMA Assemble ==
    ASSUME TypeOK', NamesInv', SlotInv', PrivInv'
    PROVE  IndexInv'
BY DEF IndexInv, NamesInv, SlotInv

LEMMA Parts ==
    ASSUME IndexInv
    PROVE  TypeOK /\ NamesInv /\ SlotInv /\ PrivInv
BY DEF IndexInv, NamesInv, SlotInv

\* An operation that is not idle has an inode that is new or linked.
LEMMA OpIno ==
    ASSUME TypeOK, OpInv, NEW d \in Dirs, op[d].pc # "idle"
    PROVE  op[d].ino \in Inodes /\ istate[op[d].ino] \in {"new", "linked"}
<1>1. OpOK(d)
  BY DEF OpInv
<1>2. op[d].pc \in OpPc
  BY DEF TypeOK
<1> QED BY <1>1, <1>2 DEF OpOK, OpPc, CreatePc, UnlinkPc

\* An operation with an inode is not idle.
LEMMA OpBusy ==
    ASSUME TypeOK, OpInv, NEW d \in Dirs, op[d].ino \in Inodes
    PROVE  op[d].pc # "idle" /\ istate[op[d].ino] \in {"new", "linked"}
<1>1. op[d].pc # "idle"
  BY NameAssumption DEF OpInv, OpOK
<1> QED BY <1>1, OpIno

\* The operations of two directories never share an inode.
LEMMA OtherIno ==
    ASSUME OpDistinct, NEW d \in Dirs, NEW e \in Dirs, d # e, op[d].ino \in Inodes
    PROVE  op[e].ino # op[d].ino
BY NameAssumption DEF OpDistinct

\* ffs_dirty_inode keeps the page, the dirty flags and the users well typed, and
\* touches neither the buffer locks nor the discard records.
LEMMA DirtyInodeType ==
    ASSUME TypeOK, ValidInv, NEW i \in Inodes, ffs_dirty_inode(i)
    PROVE  /\ page' \in [Pages -> PageContent]
           /\ dirty' \in [Pages -> BOOLEAN]
           /\ users' \in [Pages -> SUBSET (Dirs \X BOOLEAN \X BucketIds)]
           /\ UNCHANGED <<io, priv, spoiled>>
<1>1. PageOf(i) \in Pages
  BY PageOfType
<1>2. dirty' \in [Pages -> BOOLEAN] /\ UNCHANGED <<io, priv, spoiled>>
  BY <1>1 DEF TypeOK, ffs_dirty_inode
<1>5. users' \in [Pages -> SUBSET (Dirs \X BOOLEAN \X BucketIds)]
  <2>1. <<fi[i].dir, fi[i].big, fi[i].bucket>> \in Dirs \X BOOLEAN \X BucketIds
    BY DEF TypeOK, FileInfo
  <2>2. PICK t : t = <<fi[i].dir, fi[i].big, fi[i].bucket>>
    OBVIOUS
  <2>3. users' = users \/ users' = [users EXCEPT ![PageOf(i)] = @ \union {t}]
    BY <2>2 DEF ffs_dirty_inode
  <2>4. t \in Dirs \X BOOLEAN \X BucketIds
    BY <2>1, <2>2
  <2>5. users \in [Pages -> SUBSET (Dirs \X BOOLEAN \X BucketIds)]
    BY DEF TypeOK
  <2> QED BY <1>1, <2>3, <2>4, <2>5
<1>3. CASE fi[i].valid
  <2>1. fi[i].slot \in Slots /\ fi[i].name \in Names \union {NoName}
    BY <1>3 DEF ValidInv, TypeOK, FileInfo
  <2>2. page[PageOf(i)] \in PageContent
    BY <1>1 DEF TypeOK
  <2>3. Filled(page[PageOf(i)], fi[i]) \in PageContent
    BY <2>1, <2>2, StringAssumption DEF Filled, PageContent
  <2> QED BY <1>1, <1>2, <1>3, <1>5, <2>3 DEF ffs_dirty_inode, TypeOK
<1>4. CASE ~fi[i].valid
  BY <1>2, <1>4, <1>5 DEF ffs_dirty_inode, TypeOK
<1> QED BY <1>3, <1>4

\* Writing a page back, or the end of it, keeps the invariant: no discard
\* begins or ends.
LEMMA FlushStep ==
    ASSUME IndexInv, NEW q \in Pages, Flush(q) \/ FlushDone(q)
    PROVE  IndexInv'
<1>0. TypeOK /\ NamesInv /\ SlotInv /\ PrivInv
  BY Parts
<1>1. TypeOK'
  BY <1>0 DEF TypeOK, Flush, FlushDone
<1>2. UNCHANGED <<slot_bitmap, op, fi, istate, dentry, priv, spoiled>>
  BY DEF Flush, FlushDone
<1>3. \A p \in Pages : io'[p] = "discard" => io[p] = "discard"
  BY <1>0 DEF TypeOK, Flush, FlushDone
<1>4. NamesInv' /\ PrivInv'
  BY <1>0, <1>2, SameNames, PrivFrame
<1>5. SlotInv'
  BY <1>0, <1>2, <1>3, SlotFrame, PendingFrame, HasFrame
<1> QED BY <1>1, <1>4, <1>5, Assemble

\* mark_inode_dirty on a file in use keeps the invariant.
LEMMA DirtyInodeStep ==
    ASSUME IndexInv, NEW i \in Inodes, DirtyInode(i)
    PROVE  IndexInv'
<1>0. TypeOK /\ NamesInv /\ ValidInv /\ SlotInv /\ PrivInv
  BY Parts DEF NamesInv
<1>1. ffs_dirty_inode(i) /\ UNCHANGED <<slot_bitmap, big_bitmap, is_big_dir, op, fi, istate, dentry, up>>
  BY DEF DirtyInode
<1>2. UNCHANGED <<io, priv, spoiled>>
  BY <1>0, <1>1, DirtyInodeType
<1>3. TypeOK'
  BY <1>0, <1>1, <1>2, DirtyInodeType DEF TypeOK
<1>4. NamesInv' /\ PrivInv'
  BY <1>0, <1>1, <1>2, SameNames, PrivFrame
<1>5. SlotInv'
  BY <1>0, <1>1, <1>2, SlotFrame, PendingFrame, HasFrame
<1> QED BY <1>3, <1>4, <1>5, Assemble

\* An unlink that moves on after the header keeps NamesInv.
LEMMA UnlinkMoves ==
    ASSUME TypeOK, NamesInv, NEW d \in Dirs, NEW pc \in {"submit", "invalidate"},
           op[d].pc \in {"mark", "submit"}, Goto(d, pc),
           UNCHANGED <<fi, istate, dentry, spoiled>>
    PROVE  /\ NamesInv'
           /\ op' \in [Dirs -> OpType]
           /\ op'[d].pc = pc /\ op'[d].ino = op[d].ino
           /\ \A e \in Dirs \ {d} : op'[e] = op[e]
<1> USE DEF NamesInv
<1>1. op \in [Dirs -> OpType]
  BY DEF TypeOK, OpType
<1>2. /\ op' \in [Dirs -> OpType]
      /\ op'[d].pc = pc /\ op'[d].ino = op[d].ino /\ op'[d].name = op[d].name
      /\ \A e \in Dirs \ {d} : op'[e] = op[e]
  BY <1>1 DEF OpType, OpPc
<1>3. OpInv'
  <2> SUFFICES ASSUME NEW e \in Dirs PROVE OpOK(e)'
    BY DEF OpInv
  <2>1. OpOK(e)
    BY DEF OpInv
  <2>2. CASE e = d
    BY <2>1, <2>2, <1>2 DEF OpOK, CreatePc, UnlinkPc, OtherName
  <2>3. CASE e # d
    BY <2>1, <2>3, <1>2, OpFrame
  <2> QED BY <2>2, <2>3
<1>4. OpDistinct' /\ DentryInv'
  BY <1>2 DEF OpDistinct, DentryInv
<1>5. \A e \in Dirs : op[e].pc = "drop" => op'[e] = op[e]
  BY <1>2
<1>6. ValidInv'
  BY <1>5, ValidFrame
<1> QED BY <1>2, <1>3, <1>4, <1>6

\* mark_buffer_dirty in ffs_unlink keeps the invariant.
LEMMA MarkStep ==
    ASSUME IndexInv, NEW d \in Dirs, UnlinkMark(d)
    PROVE  IndexInv'
<1>0. TypeOK /\ NamesInv /\ SlotInv /\ PrivInv
  BY Parts
<1>1. /\ op[d].pc = "mark" /\ Goto(d, "submit")
      /\ UNCHANGED <<slot_bitmap, big_bitmap, is_big_dir, fi, istate, dentry, page, io, priv, up, spoiled, users>>
  BY DEF UnlinkMark
<1>2. /\ NamesInv' /\ op' \in [Dirs -> OpType]
      /\ op'[d].pc = "submit" /\ op'[d].ino = op[d].ino
      /\ \A e \in Dirs \ {d} : op'[e] = op[e]
  BY <1>0, <1>1, UnlinkMoves
<1>3. dirty' \in [Pages -> BOOLEAN]
  BY <1>0 DEF UnlinkMark, TypeOK
<1>4. TypeOK'
  BY <1>0, <1>1, <1>2, <1>3 DEF TypeOK, OpType
<1>5. PrivInv'
  BY <1>0, <1>1, <1>2, PrivFrame
<1>6. \A e \in Dirs : op[e].pc = "invalidate" => op'[e] = op[e]
  BY <1>1, <1>2
<1>7. SlotInv'
  BY <1>0, <1>1, <1>6, SlotFrame, PendingFrame, HasFrame
<1> QED BY <1>2, <1>4, <1>5, <1>7, Assemble

\* submit_bio_for_discard keeps the invariant: the discard it starts is a stray one, or
\* for a slot that is set and that only the file being unlinked has.
LEMMA SubmitStep ==
    ASSUME IndexInv, NEW d \in Dirs, UnlinkSubmit(d)
    PROVE  IndexInv'
<1>a. PICK i, p : i = op[d].ino /\ p = PageOf(i)
  OBVIOUS
<1>0. TypeOK /\ NamesInv /\ SlotInv /\ PrivInv /\ OpInv /\ OpDistinct /\ ValidInv
  BY Parts DEF NamesInv
<1>1. /\ op[d].pc = "submit" /\ Goto(d, "invalidate")
      /\ UNCHANGED <<slot_bitmap, big_bitmap, is_big_dir, fi, istate, dentry, page, priv, up, spoiled, users>>
  BY DEF UnlinkSubmit
<1>2. /\ NamesInv' /\ op' \in [Dirs -> OpType]
      /\ op'[d].pc = "invalidate" /\ op'[d].ino = i
      /\ \A e \in Dirs \ {d} : op'[e] = op[e]
  BY <1>a, <1>0, <1>1, UnlinkMoves
<1>3. i \in Inodes /\ p \in Pages /\ (fi[i].valid \/ Place(fi[i]) \in spoiled)
  BY <1>a, <1>0, <1>1, PageOfType DEF OpInv, OpOK, UnlinkPc
<1>4. /\ io' \in [Pages -> {"none", "flush", "discard", "oops"}]
      /\ dirty' \in [Pages -> BOOLEAN]
      /\ \A q \in Pages \ {p} : io'[q] = io[q]
  BY <1>a, <1>0, <1>3 DEF UnlinkSubmit, TypeOK
<1>5. TypeOK'
  BY <1>0, <1>1, <1>2, <1>4 DEF TypeOK, OpType
<1>6. PrivInv'
  BY <1>0, <1>1, <1>2, PrivFrame
<1>7. \A e \in Dirs : op[e].pc = "invalidate" => op'[e] = op[e]
  BY <1>1, <1>2
<1>8. \A j \in Inodes : HasSlot(j)' => HasSlot(j) /\ fi'[j] = fi[j] /\ j # i
  <2> SUFFICES ASSUME NEW j \in Inodes, HasSlot(j)' PROVE HasSlot(j) /\ fi'[j] = fi[j] /\ j # i
    OBVIOUS
  <2>1. j # i
    BY <1>2 DEF HasSlot
  <2> QED BY <2>1, <1>1, <1>7, HasFrame
<1>9. CASE Pending(p)' => Pending(p)
  <2>1. \A q \in Pages : Pending(q)' => Pending(q) /\ priv'[q] = priv[q]
    BY <1>1, <1>4, <1>9 DEF Pending
  <2>2. SlotInv'
    BY <1>0, <1>1, <1>8, <2>1, SlotFrame
  <2> QED BY <1>2, <1>5, <1>6, <2>2, Assemble
<1>10. CASE Pending(p)' /\ ~Pending(p)
  <2>1. priv[p].bucket \in Buckets /\ Place(priv[p]) \notin spoiled
    BY <1>1, <1>10 DEF Pending
  <2>2. PrivAt(d)
    BY <1>0, <1>1 DEF PrivInv, PrivAt
  <2>3. priv[p] = init_handler_for_discard(i) /\ (fi[i].bucket \in Buckets => ~fi[i].big \/ Place(fi[i]) \in spoiled)
    BY <1>a, <2>1, <2>2 DEF PrivAt
  <2>4. Place(priv[p]) = Place(fi[i])
    BY <2>3, RecordPlace
  <2>5. priv[p].dir = fi[i].dir /\ priv[p].bucket = fi[i].bucket /\ priv[p].slot = fi[i].slot
    BY <2>3 DEF init_handler_for_discard
  <2>6. ~fi[i].big /\ fi[i].valid /\ Place(fi[i]) \notin spoiled
    BY <1>3, <2>1, <2>3, <2>4, <2>5
  <2>7. \A e \in Dirs : op[e].ino = i => op[e].pc # "invalidate"
    BY <1>a, <1>0, <1>1, <1>3, OtherIno
  <2>8. HasSlot(i)
    BY <2>6, <2>7 DEF HasSlot
  <2>9. fi[i].slot \in slot_bitmap[fi[i].dir][fi[i].bucket]
    BY <1>0, <1>3, <2>8 DEF SlotInv, SlotSet
  <2>10. fi[i].big = FALSE
    BY <1>0, <1>3, <2>6 DEF TypeOK, FileInfo
  <2>11. p = MetaLba(fi[i].dir, FALSE, fi[i].bucket)
    BY <1>a, <2>10 DEF PageOf
  <2>12. \A q \in Pages : Pending(q)' => Pending(q) \/ q = p
    BY <1>1, <1>4 DEF Pending
  <2>13. SlotSet' /\ SlotUnique'
    BY <1>0, <1>1, <1>8 DEF SlotInv, SlotSet, SlotUnique
  <2>14. DiscardInv'
    <3> SUFFICES ASSUME NEW q \in Pages, Pending(q)'
                 PROVE  /\ q = MetaLba(priv[q].dir, FALSE, priv[q].bucket)
                        /\ priv[q].slot \in slot_bitmap[priv[q].dir][priv[q].bucket]
      BY <1>1 DEF DiscardInv
    <3>1. CASE Pending(q)
      BY <1>0, <3>1 DEF SlotInv, DiscardInv
    <3>2. CASE q = p
      BY <2>5, <2>9, <2>11, <3>2
    <3> QED BY <2>12, <3>1, <3>2
  <2>15. DiscardSolo'
    <3> SUFFICES ASSUME NEW q \in Pages, NEW j \in Inodes, Pending(q)', HasSlot(j)'
                 PROVE  Place(fi[j]) # Place(priv[q])
      BY <1>1 DEF DiscardSolo
    <3>1. HasSlot(j) /\ j # i
      BY <1>8
    <3>2. CASE Pending(q)
      BY <1>0, <3>1, <3>2 DEF SlotInv, DiscardSolo
    <3>3. CASE q = p
      <4>1. Place(fi[j]) # Place(fi[i])
        BY <1>0, <1>3, <2>8, <3>1 DEF SlotInv, SlotUnique
      <4> QED BY <4>1, <2>4, <3>3
    <3> QED BY <2>12, <3>2, <3>3
  <2>16. SlotInv'
    BY <2>13, <2>14, <2>15 DEF SlotInv
  <2> QED BY <1>2, <1>5, <1>6, <2>16, Assemble
<1> QED BY <1>9, <1>10

\* fi->valid = 0 in ffs_unlink keeps the invariant.
LEMMA InvalidateStep ==
    ASSUME IndexInv, NEW d \in Dirs, UnlinkInvalidate(d)
    PROVE  IndexInv'
<1>a. PICK i : i = op[d].ino
  OBVIOUS
<1>0. /\ TypeOK /\ NamesInv /\ SlotInv /\ PrivInv
      /\ OpInv /\ OpDistinct /\ DentryInv /\ ValidInv
      /\ op \in [Dirs -> OpType] /\ fi \in [Inodes -> FileInfo]
  BY Parts DEF NamesInv, TypeOK, OpType
<1>b. /\ i \in Inodes /\ op[d].pc = "invalidate" /\ op[d].name \in Names
      /\ istate[i] = "linked" /\ dentry[d][op[d].name] = i
      /\ ~OtherName(i, d, op[d].name) \/ Place(fi[i]) \in spoiled
  BY <1>a, <1>0 DEF OpInv, OpOK, UnlinkPc, UnlinkInvalidate
<1>c. UNCHANGED <<slot_bitmap, big_bitmap, is_big_dir, istate, dentry, page, io, dirty, priv, up, spoiled, users>>
  BY DEF UnlinkInvalidate
<1>1. /\ fi' \in [Inodes -> FileInfo]
      /\ \A j \in Inodes \ {i} : fi'[j] = fi[j]
      /\ ~fi'[i].valid /\ Place(fi'[i]) = Place(fi[i])
  BY <1>a, <1>0, <1>b DEF FileInfo, Place, UnlinkInvalidate
<1>2. /\ op' \in [Dirs -> OpType]
      /\ op'[d].pc = "drop" /\ op'[d].ino = i /\ op'[d].name = op[d].name
      /\ \A e \in Dirs \ {d} : op'[e] = op[e]
  BY <1>a, <1>0 DEF OpType, OpPc, UnlinkInvalidate
<1>3. TypeOK'
  BY <1>0, <1>c, <1>1, <1>2 DEF TypeOK, OpType
<1>5. \A e \in Dirs \ {d} : op[e].ino # i
  BY <1>a, <1>0, <1>b, OtherIno
<1>6. OpInv'
  <2> SUFFICES ASSUME NEW e \in Dirs PROVE OpOK(e)'
    BY DEF OpInv
  <2>2. CASE e = d
    <3>1. OtherName(i, d, op[d].name)' => OtherName(i, d, op[d].name)
      BY <1>c, <1>2 DEF OtherName
    <3> QED BY <2>2, <3>1, <1>b, <1>c, <1>1, <1>2 DEF OpOK, CreatePc, UnlinkPc
  <2>3. CASE e # d
    <3>1. OpOK(e) /\ op'[e] = op[e]
      BY <1>0, <1>2, <2>3 DEF OpInv
    <3>2. op[e].ino \in Inodes => fi'[op[e].ino] = fi[op[e].ino]
      BY <1>1, <1>5, <2>3
    <3> QED BY <1>c, <3>1, <3>2, OpFrame
  <2> QED BY <2>2, <2>3
<1>7. OpDistinct' /\ DentryInv'
  BY <1>a, <1>0, <1>c, <1>2 DEF OpDistinct, DentryInv
<1>8. ValidInv'
  <2>1. ValidAt(i)'
    BY <1>1, <1>2 DEF ValidAt
  <2>2. \A e \in Dirs : op[e].pc = "drop" => op'[e] = op[e]
    BY <1>b, <1>2
  <2> QED BY <1>0, <1>c, <1>1, <2>1, <2>2, ValidFrame
<1>9. NamesInv'
  BY <1>6, <1>7, <1>8 DEF NamesInv
<1>10. PrivInv'
  <2>1. ASSUME NEW e \in Dirs, op'[e].pc \in {"mark", "submit"}
        PROVE  /\ op[e].pc \in {"mark", "submit"} /\ op'[e].ino = op[e].ino
               /\ fi'[op[e].ino] = fi[op[e].ino]
    <3>1. e # d /\ op'[e] = op[e]
      BY <2>1, <1>2
    <3>2. op[e].ino \in Inodes /\ op[e].ino # i
      BY <2>1, <3>1, <1>0, <1>5, OpIno
    <3> QED BY <2>1, <3>1, <3>2, <1>1
  <2> QED BY <1>0, <1>c, <2>1, PrivFrame
<1>11. \A j \in Inodes : HasSlot(j)' => HasSlot(j) /\ fi'[j] = fi[j]
  <2> SUFFICES ASSUME NEW j \in Inodes, HasSlot(j)' PROVE HasSlot(j) /\ fi'[j] = fi[j]
    OBVIOUS
  <2>1. j # i
    BY <1>1 DEF HasSlot
  <2>2. \A e \in Dirs : op[e].ino = j => op'[e] = op[e]
    BY <1>a, <1>2, <2>1
  <2> QED BY <1>c, <1>1, <2>1, <2>2, HasFrame
<1>12. SlotInv'
  BY <1>0, <1>c, <1>11, SlotFrame, PendingFrame
<1> QED BY <1>3, <1>9, <1>10, <1>12, Assemble

\* The start of ffs_unlink keeps the invariant: no other operation works on the
\* file, and it is valid or at a spoiled place.
LEMMA UnlinkStartStep ==
    ASSUME IndexInv, NEW d \in Dirs, UnlinkStart(d)
    PROVE  IndexInv'
<1>0. /\ TypeOK /\ NamesInv /\ SlotInv /\ PrivInv
      /\ OpInv /\ OpDistinct /\ DentryInv /\ ValidInv
      /\ op \in [Dirs -> OpType]
  BY Parts DEF NamesInv, TypeOK, OpType
<1>1. PICK n \in Names, i \in Inodes :
        /\ dentry[d][n] = i /\ NotBusy(i)
        /\ op' = [op EXCEPT ![d] = [pc |-> "header", name |-> n, ino |-> i]]
  BY DEF UnlinkStart
<1>c. /\ UNCHANGED <<slot_bitmap, big_bitmap, is_big_dir, fi, istate, dentry, page, io, dirty, priv, up, spoiled, users>>
      /\ op[d].pc = "idle"
  BY DEF UnlinkStart
<1>2. /\ op' \in [Dirs -> OpType]
      /\ op'[d].pc = "header" /\ op'[d].ino = i /\ op'[d].name = n
      /\ \A e \in Dirs \ {d} : op'[e] = op[e]
  BY <1>0, <1>1 DEF OpType, OpPc
<1>3. TypeOK'
  BY <1>0, <1>c, <1>2 DEF TypeOK, OpType
<1>4. istate[i] = "linked"
  BY <1>0, <1>1 DEF DentryInv
<1>5. fi[i].valid \/ Place(fi[i]) \in spoiled
  BY <1>0, <1>1, <1>4 DEF ValidInv, NotBusy
<1>6. OpInv'
  <2> SUFFICES ASSUME NEW e \in Dirs PROVE OpOK(e)'
    BY DEF OpInv
  <2>1. CASE e = d
    BY <2>1, <1>1, <1>c, <1>2, <1>4, <1>5 DEF OpOK, CreatePc, UnlinkPc
  <2>2. CASE e # d
    BY <2>2, <1>0, <1>c, <1>2, OpFrame DEF OpInv
  <2> QED BY <2>1, <2>2
<1>7. OpDistinct'
  BY <1>0, <1>1, <1>2 DEF OpDistinct, NotBusy
<1>8. DentryInv'
  BY <1>0, <1>c DEF DentryInv
<1>9. \A e \in Dirs : op[e].pc # "idle" => op'[e] = op[e]
  BY <1>c, <1>2
<1>10. ValidInv'
  BY <1>0, <1>c, <1>9, ValidFrame
<1>11. NamesInv'
  BY <1>6, <1>7, <1>8, <1>10 DEF NamesInv
<1>12. PrivInv'
  BY <1>0, <1>c, <1>2, PrivFrame
<1>13. SlotInv'
  BY <1>0, <1>c, <1>9, SlotFrame, PendingFrame, HasFrame
<1> QED BY <1>3, <1>11, <1>12, <1>13, Assemble

\* init_handler_for_discard keeps the invariant.  A record it overwrites that another
\* unlinker has not submitted makes the new discard a stray one.
LEMMA HeaderStep ==
    ASSUME IndexInv, NEW d \in Dirs, UnlinkHeader(d)
    PROVE  IndexInv'
<1>a. PICK i, p : i = op[d].ino /\ p = PageOf(i)
  OBVIOUS
<1>0. /\ TypeOK /\ NamesInv /\ SlotInv /\ PrivInv
      /\ OpInv /\ OpDistinct /\ DentryInv /\ ValidInv
      /\ op \in [Dirs -> OpType] /\ fi \in [Inodes -> FileInfo]
  BY Parts DEF NamesInv, TypeOK, OpType
<1>b. /\ i \in Inodes /\ p \in Pages /\ op[d].pc = "header" /\ op[d].name \in Names
      /\ istate[i] = "linked" /\ dentry[d][op[d].name] = i
      /\ fi[i].valid \/ Place(fi[i]) \in spoiled
  BY <1>a, <1>0, PageOfType DEF OpInv, OpOK, UnlinkPc, UnlinkHeader
<1>c. UNCHANGED <<slot_bitmap, big_bitmap, is_big_dir, fi, istate, dentry, dirty, up>>
  BY DEF UnlinkHeader
<1>1. /\ op' \in [Dirs -> OpType]
      /\ op'[d].pc \in {"mark", "oops"} /\ op'[d].ino = i /\ op'[d].name = op[d].name
      /\ \A e \in Dirs \ {d} : op'[e] = op[e]
  BY <1>a, <1>0 DEF OpType, OpPc, UnlinkHeader
<1>2. /\ spoiled \subseteq spoiled'
      /\ Stray(d, i) => Place(fi[i]) \in spoiled'
      /\ spoiled' \subseteq spoiled \union {Place(fi[i])}
  BY <1>a DEF UnlinkHeader
<1>3. page' \in [Pages -> PageContent]
  <2>1. page[p] \in PageContent
    BY <1>0, <1>b DEF TypeOK
  <2>2. [bitmap |-> page[p].bitmap \ {fi[i].slot}, name |-> page[p].name] \in PageContent
    BY <2>1 DEF PageContent
  <2> QED BY <1>a, <1>0, <1>b, <2>2 DEF UnlinkHeader, TypeOK
<1>4. /\ priv' \in [Pages -> IoEnd]
      /\ \A q \in Pages \ {p} : priv'[q] = priv[q]
      /\ priv' = priv \/ priv'[p] = init_handler_for_discard(i)
      /\ op'[d].pc = "mark" => priv'[p] = init_handler_for_discard(i)
  <2>1. PICK r : r = init_handler_for_discard(i)
    OBVIOUS
  <2>2. r \in IoEnd
    BY <1>0, <1>b, <2>1 DEF FileInfo, IoEnd, init_handler_for_discard
  <2>3. priv \in [Pages -> IoEnd]
    BY <1>0 DEF TypeOK
  <2>4. \/ priv' = [priv EXCEPT ![p] = r]
        \/ priv' = priv /\ op'[d].pc = "oops"
    BY <1>a, <1>0, <2>1 DEF UnlinkHeader, OpType
  <2> QED BY <1>b, <2>1, <2>2, <2>3, <2>4
<1>5. /\ io' \in [Pages -> {"none", "flush", "discard", "oops"}]
      /\ \A q \in Pages \ {p} : io'[q] = io[q]
      /\ io'[p] # "discard"
  <2>1. io \in [Pages -> {"none", "flush", "discard", "oops"}] /\ io[p] = "none"
    BY <1>a, <1>0 DEF UnlinkHeader, TypeOK
  <2>2. io' = io \/ io' = [io EXCEPT ![p] = "oops"]
    BY <1>a, Zenon DEF UnlinkHeader
  <2> QED BY <1>b, <2>1, <2>2
<1>6. TypeOK'
  <2>1. spoiled' \subseteq Dirs \X BucketIds \X (Slots \union {-1})
    <3>1. fi[i] \in FileInfo
      BY <1>0, <1>b
    <3>2. Place(fi[i]) \in Dirs \X BucketIds \X (Slots \union {-1})
      BY <3>1, PlaceType
    <3>3. spoiled \subseteq Dirs \X BucketIds \X (Slots \union {-1})
      BY <1>0 DEF TypeOK
    <3> QED BY <3>2, <3>3, <1>2
  <2>2. users' \in [Pages -> SUBSET (Dirs \X BOOLEAN \X BucketIds)]
    <3>1. PICK t : t = <<d, fi[i].big, fi[i].bucket>>
      OBVIOUS
    <3>2. t \in Dirs \X BOOLEAN \X BucketIds
      BY <3>1, <1>0, <1>b DEF FileInfo
    <3>3. users' = [users EXCEPT ![p] = @ \union {t}]
      BY <3>1, <1>a DEF UnlinkHeader
    <3>4. users \in [Pages -> SUBSET (Dirs \X BOOLEAN \X BucketIds)]
      BY <1>0 DEF TypeOK
    <3> QED BY <3>2, <3>3, <3>4, <1>b
  <2> QED BY <1>0, <1>c, <1>1, <1>3, <1>4, <1>5, <2>1, <2>2 DEF TypeOK, OpType
<1>7. OpInv'
  <2> SUFFICES ASSUME NEW e \in Dirs PROVE OpOK(e)'
    BY DEF OpInv
  <2>1. CASE e = d
    <3>1. OtherName(i, d, op[d].name)' => Place(fi[i]) \in spoiled'
      <4>1. OtherName(i, d, op[d].name)' => OtherName(i, d, op[d].name)
        BY <1>c, <1>1 DEF OtherName
      <4> QED BY <4>1, <1>2 DEF Stray
    <3> QED BY <2>1, <3>1, <1>b, <1>c, <1>1, <1>2 DEF OpOK, CreatePc, UnlinkPc
  <2>2. CASE e # d
    BY <2>2, <1>0, <1>c, <1>1, <1>2, OpFrame DEF OpInv
  <2> QED BY <2>1, <2>2
<1>8. OpDistinct' /\ DentryInv'
  BY <1>a, <1>0, <1>c, <1>1 DEF OpDistinct, DentryInv
<1>9. \A e \in Dirs : op[e].pc # "header" => op'[e] = op[e]
  BY <1>b, <1>1
<1>10. ValidInv'
  BY <1>0, <1>c, <1>2, <1>9, ValidFrame
<1>11. NamesInv'
  BY <1>7, <1>8, <1>10 DEF NamesInv
<1>12. PrivInv'
  <2> SUFFICES ASSUME NEW e \in Dirs, op'[e].pc \in {"mark", "submit"}
               PROVE  PrivAt(e)'
    BY DEF PrivInv, PrivAt
  <2>1. /\ \A j : PageOf(j)' = PageOf(j)
        /\ \A j : init_handler_for_discard(j)' = init_handler_for_discard(j)
    BY <1>c DEF PageOf, init_handler_for_discard
  <2>2. Place(init_handler_for_discard(i)) = Place(fi[i])
    BY RecordPlace
  <2>3. CASE e = d
    <3>1. priv'[p] = init_handler_for_discard(i)
      BY <2>3, <1>1, <1>4
    <3>2. fi[i].bucket \in Buckets => ~fi[i].big \/ Place(fi[i]) \in spoiled'
      BY <1>2 DEF Stray
    <3>3. op'[e].ino = i
      BY <2>3, <1>1
    <3> QED BY <3>1, <3>2, <3>3, <2>1, <1>a, <1>c DEF PrivAt, PageOf, init_handler_for_discard
  <2>4. CASE e # d
    <3>1. PICK j : j = op[e].ino
      OBVIOUS
    <3>2. op'[e] = op[e] /\ op[e].pc \in {"mark", "submit"} /\ op'[e].ino = j
      BY <1>1, <2>4, <3>1
    <3>3. j \in Inodes /\ PageOf(j) \in Pages
      BY <1>0, <3>1, <3>2, OpIno, PageOfType
    <3>4. PrivAt(e)
      BY <1>0, <3>2 DEF PrivInv, PrivAt
    <3>5. CASE PageOf(j) = p /\ priv'[p] = init_handler_for_discard(i)
      <4>1. Stray(d, i)
        BY <1>a, <2>4, <3>1, <3>2, <3>5 DEF Stray
      <4>2. Place(priv'[PageOf(j)]) \in spoiled'
        BY <4>1, <1>2, <2>2, <3>5
      <4>3. PageOf(j)' = PageOf(j)
        BY <2>1
      <4> QED BY <4>2, <4>3, <3>2 DEF PrivAt, PageOf
    <3>6. CASE ~(PageOf(j) = p /\ priv'[p] = init_handler_for_discard(i))
      <4>1. priv'[PageOf(j)] = priv[PageOf(j)]
        BY <3>3, <3>6, <1>4
      <4>2. \/ /\ priv[PageOf(j)] = init_handler_for_discard(j)
               /\ fi[j].bucket \in Buckets => ~fi[j].big \/ Place(fi[j]) \in spoiled
            \/ Place(priv[PageOf(j)]) \in spoiled
        BY <3>1, <3>4 DEF PrivAt
      <4>3. \/ /\ priv'[PageOf(j)] = init_handler_for_discard(j)
               /\ fi[j].bucket \in Buckets => ~fi[j].big \/ Place(fi[j]) \in spoiled'
            \/ Place(priv'[PageOf(j)]) \in spoiled'
        BY <4>1, <4>2, <1>2
      <4> QED BY <4>3, <3>2, <1>c DEF PrivAt, PageOf, init_handler_for_discard
    <3> QED BY <3>5, <3>6
  <2> QED BY <2>3, <2>4
<1>13. \A q \in Pages : Pending(q)' => Pending(q) /\ priv'[q] = priv[q]
  BY <1>2, <1>4, <1>5 DEF Pending
<1>14. \A j \in Inodes : HasSlot(j)' => HasSlot(j) /\ fi'[j] = fi[j]
  BY <1>c, <1>2, <1>9, HasFrame
<1>15. SlotInv'
  BY <1>0, <1>c, <1>13, <1>14, SlotFrame
<1> QED BY <1>6, <1>11, <1>12, <1>15, Assemble

\* The start of a create keeps the invariant: the inode is nobody's.
LEMMA MknodStartStep ==
    ASSUME IndexInv, NEW d \in Dirs, MknodStart(d)
    PROVE  IndexInv'
<1>0. /\ TypeOK /\ NamesInv /\ SlotInv /\ PrivInv
      /\ OpInv /\ OpDistinct /\ DentryInv /\ ValidInv
      /\ op \in [Dirs -> OpType] /\ istate \in [Inodes -> IState]
      /\ op[d].pc = "idle"
  BY Parts DEF NamesInv, TypeOK, OpType, IState, MknodStart
<1>1. PICK n \in Names, i \in Inodes :
        /\ istate[i] = "free"
        /\ istate' = [istate EXCEPT ![i] = "new"]
        /\ op' = [op EXCEPT ![d] = [pc |-> StartPc(d), name |-> n, ino |-> i]]
  BY DEF MknodStart
<1>2. UNCHANGED <<slot_bitmap, big_bitmap, is_big_dir, fi, dentry, page, io, dirty, priv, up, spoiled, users>>
  BY DEF MknodStart
<1>3. /\ op' \in [Dirs -> OpType]
      /\ op'[d].pc \in {"small", "big"} /\ op'[d].ino = i /\ op'[d].name = n
      /\ \A e \in Dirs \ {d} : op'[e] = op[e]
  BY <1>0, <1>1 DEF OpType, OpPc, StartPc
<1>4. /\ istate' \in [Inodes -> IState]
      /\ istate'[i] = "new"
      /\ \A j \in Inodes \ {i} : istate'[j] = istate[j]
  BY <1>0, <1>1 DEF IState
<1>5. ~fi[i].valid
  BY <1>0, <1>1 DEF ValidInv
<1>6. \A e \in Dirs : op[e].ino # i
  BY <1>0, <1>1, OpBusy
<1>7. TypeOK'
  BY <1>0, <1>2, <1>3, <1>4 DEF TypeOK, OpType, IState
<1>8. OpDistinct'
  BY <1>0, <1>3, <1>6 DEF OpDistinct
<1>9. OpInv'
  <2> SUFFICES ASSUME NEW e \in Dirs PROVE OpOK(e)'
    BY DEF OpInv
  <2>1. CASE e = d
    BY <2>1, <1>2, <1>3, <1>4, <1>5 DEF OpOK, CreatePc, UnlinkPc
  <2>2. CASE e # d
    BY <2>2, <1>0, <1>2, <1>3, <1>4, <1>6, OpFrame DEF OpInv
  <2> QED BY <2>1, <2>2
<1>10. DentryInv'
  BY <1>0, <1>1, <1>2, <1>4 DEF DentryInv
<1>a. \A e \in Dirs : op[e].pc # "idle" => op'[e] = op[e]
  BY <1>0, <1>3
<1>11. ValidInv'
  <2>1. ValidAt(i)'
    BY <1>2, <1>4, <1>5 DEF ValidAt
  <2> QED BY <1>0, <1>2, <1>4, <1>a, <2>1, ValidFrame
<1>12. NamesInv'
  BY <1>8, <1>9, <1>10, <1>11 DEF NamesInv
<1>13. PrivInv'
  BY <1>0, <1>2, <1>3, PrivFrame
<1>14. SlotInv'
  BY <1>0, <1>2, <1>a, SlotFrame, PendingFrame, HasFrame
<1> QED BY <1>7, <1>12, <1>13, <1>14, Assemble

\* What insert_file and insert_big_file have in common: a new inode takes a slot
\* that was free, and no discard in flight is for a free slot.
LEMMA NewFile ==
    ASSUME IndexInv, NEW d \in Dirs, op[d].pc \in CreatePc,
           NEW r \in FileInfo, r.dir = d, r.valid, r.slot \in Slots,
           ~r.big => r.bucket \in Buckets,
           fi' = [fi EXCEPT ![op[d].ino] = r],
           Goto(d, "dirty"),
           slot_bitmap' \in [Dirs -> [Buckets -> SUBSET Slots]],
           big_bitmap' \in [Dirs -> [BigBuckets -> SUBSET (0 .. NS)]],
           \A e \in Dirs, b \in Buckets : slot_bitmap[e][b] \subseteq slot_bitmap'[e][b],
           ~r.big => /\ r.slot \notin slot_bitmap[d][r.bucket]
                     /\ r.slot \in slot_bitmap'[d][r.bucket],
           UNCHANGED <<is_big_dir, istate, dentry, bufVars, up, history>>
    PROVE  IndexInv'
<1>a. PICK i : i = op[d].ino
  OBVIOUS
<1>0. /\ TypeOK /\ NamesInv /\ SlotInv /\ PrivInv
      /\ OpInv /\ OpDistinct /\ DentryInv /\ ValidInv
      /\ op \in [Dirs -> OpType] /\ fi \in [Inodes -> FileInfo]
  BY Parts DEF NamesInv, TypeOK, OpType
<1>b. i \in Inodes /\ op[d].name \in Names /\ istate[i] = "new" /\ ~fi[i].valid
  BY <1>a, <1>0 DEF OpInv, OpOK, CreatePc
<1>1. /\ op' \in [Dirs -> OpType]
      /\ op'[d].pc = "dirty" /\ op'[d].ino = i /\ op'[d].name = op[d].name
      /\ \A e \in Dirs \ {d} : op'[e] = op[e]
  BY <1>a, <1>0 DEF OpType, OpPc
<1>2. /\ fi' \in [Inodes -> FileInfo]
      /\ fi'[i] = r
      /\ \A j \in Inodes \ {i} : fi'[j] = fi[j]
  BY <1>a, <1>0, <1>b
<1>3. UNCHANGED <<is_big_dir, istate, dentry, page, io, dirty, priv, up, spoiled, users>>
  OBVIOUS
<1>4. \A e \in Dirs \ {d} : op[e].ino # i
  BY <1>a, <1>0, <1>b, OtherIno
<1>5. TypeOK'
  BY <1>0, <1>1, <1>2, <1>3 DEF TypeOK, OpType
<1>6. OpDistinct' /\ DentryInv'
  BY <1>a, <1>0, <1>1, <1>3 DEF OpDistinct, DentryInv
<1>7. OpInv'
  <2> SUFFICES ASSUME NEW e \in Dirs PROVE OpOK(e)'
    BY DEF OpInv
  <2>1. CASE e = d
    BY <2>1, <1>b, <1>1, <1>2, <1>3 DEF OpOK, CreatePc, UnlinkPc
  <2>2. CASE e # d
    <3>1. OpOK(e) /\ op'[e] = op[e] /\ (op[e].ino \in Inodes => fi'[op[e].ino] = fi[op[e].ino])
      BY <1>0, <1>1, <1>2, <1>4, <2>2 DEF OpInv
    <3> QED BY <3>1, <1>3, OpFrame
  <2> QED BY <2>1, <2>2
<1>8. \A e \in Dirs : op[e].pc \in {"drop", "invalidate"} => op'[e] = op[e]
  BY <1>1 DEF CreatePc
<1>9. ValidInv'
  <2>1. ValidAt(i)'
    BY <1>b, <1>2, <1>3 DEF ValidAt
  <2> QED BY <1>0, <1>2, <1>3, <1>8, <2>1, ValidFrame
<1>10. NamesInv'
  BY <1>6, <1>7, <1>9 DEF NamesInv
<1>11. PrivInv'
  <2>1. ASSUME NEW e \in Dirs, op'[e].pc \in {"mark", "submit"}
        PROVE  /\ op[e].pc \in {"mark", "submit"} /\ op'[e].ino = op[e].ino
               /\ fi'[op[e].ino] = fi[op[e].ino]
    <3>1. e # d /\ op'[e] = op[e]
      BY <2>1, <1>1
    <3>2. op[e].ino \in Inodes /\ op[e].ino # i
      BY <2>1, <3>1, <1>0, <1>4, OpIno
    <3> QED BY <2>1, <3>1, <3>2, <1>2
  <2> QED BY <1>0, <1>3, <2>1, PrivFrame
<1>12. \A j \in Inodes \ {i} : HasSlot(j)' => HasSlot(j) /\ fi'[j] = fi[j]
  BY <1>2, <1>3, <1>8, HasFrame
<1>13. \A q \in Pages : Pending(q)' => Pending(q) /\ priv'[q] = priv[q]
  BY <1>3, PendingFrame
<1>14. HasSlot(i)' => ~r.big
  BY <1>2 DEF HasSlot
<1>15. ASSUME NEW j \in Inodes, HasSlot(j), ~r.big, Place(fi[j]) = Place(r)
       PROVE  FALSE
  <2>1. fi[j].dir = d /\ fi[j].bucket = r.bucket /\ fi[j].slot = r.slot
    BY <1>15, SamePlace
  <2>2. fi[j].slot \in slot_bitmap[fi[j].dir][fi[j].bucket]
    BY <1>0, <1>15 DEF SlotInv, SlotSet
  <2> QED BY <1>15, <2>1, <2>2
<1>16. SlotSet'
  <2> SUFFICES ASSUME NEW j \in Inodes, HasSlot(j)'
               PROVE  fi'[j].slot \in slot_bitmap'[fi'[j].dir][fi'[j].bucket]
    BY DEF SlotSet
  <2>1. CASE j = i
    BY <2>1, <1>2, <1>14
  <2>2. CASE j # i
    <3>1. HasSlot(j) /\ fi'[j] = fi[j]
      BY <2>2, <1>12
    <3>2. fi[j].dir \in Dirs /\ fi[j].bucket \in Buckets
      BY <1>0, <3>1 DEF FileInfo, ValidInv, HasSlot
    <3>3. fi[j].slot \in slot_bitmap[fi[j].dir][fi[j].bucket]
      BY <1>0, <3>1 DEF SlotInv, SlotSet
    <3> QED BY <3>1, <3>2, <3>3
  <2> QED BY <2>1, <2>2
<1>17. SlotUnique'
  <2> SUFFICES ASSUME NEW j \in Inodes, NEW k \in Inodes, HasSlot(j)', HasSlot(k)', j # k,
                      Place(fi'[j]) = Place(fi'[k])
               PROVE  FALSE
    BY DEF SlotUnique
  <2>1. CASE j = i
    <3>1. HasSlot(k) /\ Place(fi[k]) = Place(r) /\ ~r.big
      BY <2>1, <1>2, <1>12, <1>14
    <3> QED BY <3>1, <1>15
  <2>2. CASE k = i
    <3>1. HasSlot(j) /\ Place(fi[j]) = Place(r) /\ ~r.big
      BY <2>2, <1>2, <1>12, <1>14
    <3> QED BY <3>1, <1>15
  <2>3. CASE j # i /\ k # i
    BY <2>3, <1>0, <1>12 DEF SlotInv, SlotUnique
  <2> QED BY <2>1, <2>2, <2>3
<1>18. \A q \in Pages : Pending(q) =>
          /\ q = MetaLba(priv[q].dir, FALSE, priv[q].bucket)
          /\ priv[q].slot \in slot_bitmap[priv[q].dir][priv[q].bucket]
          /\ priv[q].dir \in Dirs /\ priv[q].bucket \in Buckets
  BY <1>0 DEF SlotInv, DiscardInv, TypeOK, IoEnd, Pending
<1>19. DiscardInv'
  BY <1>3, <1>13, <1>18 DEF DiscardInv
<1>20. DiscardSolo'
  <2> SUFFICES ASSUME NEW q \in Pages, NEW j \in Inodes, Pending(q)', HasSlot(j)'
               PROVE  Place(fi'[j]) # Place(priv[q])
    BY <1>3 DEF DiscardSolo
  <2>0. Pending(q)
    BY <1>13
  <2>1. CASE j = i
    <3> SUFFICES ASSUME Place(r) = Place(priv[q]) PROVE FALSE
      BY <2>1, <1>2
    <3>1. priv[q].dir = d /\ priv[q].bucket = r.bucket /\ priv[q].slot = r.slot
      BY SamePlace
    <3> QED BY <2>0, <2>1, <3>1, <1>14, <1>18
  <2>2. CASE j # i
    <3>1. HasSlot(j) /\ fi'[j] = fi[j]
      BY <2>2, <1>12
    <3> QED BY <2>0, <3>1, <1>0 DEF SlotInv, DiscardSolo
  <2> QED BY <2>1, <2>2
<1>21. SlotInv'
  BY <1>16, <1>17, <1>19, <1>20 DEF SlotInv
<1> QED BY <1>5, <1>10, <1>11, <1>21, Assemble

\* The steps of a create that only move on to the next table.
LEMMA KeepCreating ==
    ASSUME IndexInv, NEW d \in Dirs, op[d].pc \in CreatePc,
           NEW pc \in CreatePc, Goto(d, pc),
           big_bitmap' \in [Dirs -> [BigBuckets -> SUBSET (0 .. NS)]],
           is_big_dir' \in [Dirs -> BOOLEAN],
           UNCHANGED <<slot_bitmap, fi, istate, dentry, bufVars, up, history>>
    PROVE  IndexInv'
<1>0. /\ TypeOK /\ NamesInv /\ SlotInv /\ PrivInv
      /\ OpInv /\ OpDistinct /\ DentryInv /\ ValidInv
      /\ op \in [Dirs -> OpType]
  BY Parts DEF NamesInv, TypeOK, OpType
<1>a. /\ op[d].ino \in Inodes /\ op[d].name \in Names
      /\ istate[op[d].ino] = "new" /\ ~fi[op[d].ino].valid
  BY <1>0 DEF OpInv, OpOK, CreatePc
<1>1. /\ op' \in [Dirs -> OpType]
      /\ op'[d].pc = pc /\ op'[d].ino = op[d].ino /\ op'[d].name = op[d].name
      /\ \A e \in Dirs \ {d} : op'[e] = op[e]
  BY <1>0 DEF OpType, OpPc, CreatePc
<1>2. UNCHANGED <<slot_bitmap, fi, istate, dentry, page, io, dirty, priv, up, spoiled, users>>
  OBVIOUS
<1>3. TypeOK'
  BY <1>0, <1>1, <1>2 DEF TypeOK, OpType
<1>4. OpInv'
  <2> SUFFICES ASSUME NEW e \in Dirs PROVE OpOK(e)'
    BY DEF OpInv
  <2>1. CASE e = d
    BY <2>1, <1>a, <1>1, <1>2 DEF OpOK, CreatePc, UnlinkPc
  <2>2. CASE e # d
    BY <2>2, <1>0, <1>1, <1>2, OpFrame DEF OpInv
  <2> QED BY <2>1, <2>2
<1>5. OpDistinct' /\ DentryInv'
  BY <1>0, <1>1, <1>2 DEF OpDistinct, DentryInv
<1>6. \A e \in Dirs : op[e].pc \in {"drop", "invalidate"} => op'[e] = op[e]
  BY <1>1 DEF CreatePc
<1>7. ValidInv'
  BY <1>0, <1>2, <1>6, ValidFrame
<1>8. NamesInv'
  BY <1>4, <1>5, <1>7 DEF NamesInv
<1>9. PrivInv'
  BY <1>0, <1>1, <1>2, PrivFrame DEF CreatePc
<1>10. SlotInv'
  BY <1>0, <1>2, <1>6, SlotFrame, PendingFrame, HasFrame
<1> QED BY <1>3, <1>8, <1>9, <1>10, Assemble

\* insert_file keeps the invariant, whether the bucket has room or not.
LEMMA MknodSmallStep ==
    ASSUME IndexInv, NEW d \in Dirs, MknodSmall(d)
    PROVE  IndexInv'
<1> DEFINE n == op[d].name
           i == op[d].ino
           b == BKDRHash[n] % NB
<1>0. /\ op[d].pc = "small" /\ op[d].pc \in CreatePc
      /\ slot_bitmap \in [Dirs -> [Buckets -> SUBSET Slots]]
      /\ big_bitmap \in [Dirs -> [BigBuckets -> SUBSET (0 .. NS)]]
      /\ is_big_dir \in [Dirs -> BOOLEAN]
  BY DEF MknodSmall, CreatePc, TypeOK, IndexInv
<1>1. n \in Names
  BY <1>0 DEF IndexInv, OpInv, OpOK
<1>2. b \in Buckets
  BY <1>1, SizeAssumption DEF Buckets
<1>3. PICK slt \in 0 .. NS :
        /\ find_first_zero_bit(slot_bitmap[d][b], NS, slt)
        /\ \/ slt = NS /\ Goto(d, "resize") /\ UNCHANGED <<slot_bitmap, fi>>
           \/ /\ slt # NS
              /\ slot_bitmap' = [slot_bitmap EXCEPT ![d][b] = @ \union {slt}]
              /\ fi' = [fi EXCEPT ![i] =
                          [dir |-> d, bucket |-> b, slot |-> slt, big |-> FALSE,
                           valid |-> TRUE, name |-> n]]
              /\ Goto(d, "dirty")
  BY DEF MknodSmall
<1>4. UNCHANGED <<big_bitmap, is_big_dir, istate, dentry, bufVars, up, history>>
  BY DEF MknodSmall
<1>5. CASE slt = NS
  <2>1. "resize" \in CreatePc
    BY DEF CreatePc
  <2>2. Goto(d, "resize") /\ UNCHANGED <<slot_bitmap, fi>>
    BY <1>3, <1>5
  <2> QED BY <1>0, <1>4, <2>1, <2>2, KeepCreating
<1>6. CASE slt # NS
  <2> DEFINE r == [dir |-> d, bucket |-> b, slot |-> slt, big |-> FALSE,
                   valid |-> TRUE, name |-> n]
  <2>1. slt \in Slots /\ slt \notin slot_bitmap[d][b]
    <3>1. slt \in Slots
      BY <1>6, SizeAssumption DEF Slots
    <3>2. find_first_zero_bit(slot_bitmap[d][b], NS, slt)
      BY <1>3
    <3> QED BY <1>6, <3>1, <3>2 DEF find_first_zero_bit
  <2>2. b \in BucketIds
    BY <1>2, SizeAssumption DEF Buckets, BucketIds
  <2>3. r \in FileInfo
    BY <1>1, <2>1, <2>2 DEF FileInfo
  <2>4. /\ slot_bitmap' = [slot_bitmap EXCEPT ![d][b] = @ \union {slt}]
        /\ fi' = [fi EXCEPT ![i] = r]
        /\ Goto(d, "dirty")
    BY <1>3, <1>6
  <2>5. /\ slot_bitmap' \in [Dirs -> [Buckets -> SUBSET Slots]]
        /\ \A e \in Dirs, c \in Buckets : slot_bitmap[e][c] \subseteq slot_bitmap'[e][c]
        /\ slt \in slot_bitmap'[d][b]
    BY <1>0, <1>2, <2>1, <2>4
  <2>6. /\ r.dir = d /\ r.valid /\ r.slot \in Slots
        /\ ~r.big => r.bucket \in Buckets
        /\ ~r.big => /\ r.slot \notin slot_bitmap[d][r.bucket]
                     /\ r.slot \in slot_bitmap'[d][r.bucket]
    BY <1>2, <2>1, <2>5
  <2>7. big_bitmap' \in [Dirs -> [BigBuckets -> SUBSET (0 .. NS)]]
    BY <1>0, <1>4
  <2> HIDE DEF r
  <2> QED BY <1>0, <1>4, <2>3, <2>4, <2>5, <2>6, <2>7, NewFile
<1> QED BY <1>5, <1>6

\* insert_big_file keeps the invariant.
LEMMA MknodBigStep ==
    ASSUME IndexInv, NEW d \in Dirs, MknodBig(d)
    PROVE  IndexInv'
<1> DEFINE n == op[d].name
           i == op[d].ino
           b == BKDRHash[n] % NBig
<1>0. /\ op[d].pc \in CreatePc
      /\ slot_bitmap \in [Dirs -> [Buckets -> SUBSET Slots]]
      /\ big_bitmap \in [Dirs -> [BigBuckets -> SUBSET (0 .. NS)]]
  BY DEF MknodBig, CreatePc, TypeOK, IndexInv
<1>1. n \in Names
  BY <1>0 DEF IndexInv, OpInv, OpOK, CreatePc
<1>2. b \in BigBuckets
  BY <1>1, SizeAssumption DEF BigBuckets
<1>3. PICK slt \in 0 .. NS :
        /\ big_bitmap' = [big_bitmap EXCEPT ![d][b] = @ \union {slt}]
        /\ fi' = [fi EXCEPT ![i] =
                    [dir |-> d, bucket |-> big_ino_to_bucket(d, b, slt),
                     slot |-> big_ino_to_slot(slt), big |-> TRUE,
                     valid |-> TRUE, name |-> n]]
  BY DEF MknodBig
<1>4. /\ UNCHANGED <<slot_bitmap, is_big_dir, istate, dentry, bufVars, up, history>>
      /\ Goto(d, "dirty")
  BY DEF MknodBig
<1> DEFINE r == [dir |-> d, bucket |-> big_ino_to_bucket(d, b, slt),
                 slot |-> big_ino_to_slot(slt), big |-> TRUE,
                 valid |-> TRUE, name |-> n]
<1>5. big_ino_to_slot(slt) \in Slots
  BY SizeAssumption DEF big_ino_to_slot, Slots
<1>6. big_ino_to_bucket(d, b, slt) \in 0 .. BUCKETS_PER_BIG_DIR - 1
  <2>1. SegBucket(b, slt) + d * NBig \in Nat
    BY <1>2, SizeAssumption DEF SegBucket, BigBuckets
  <2> QED BY <2>1, SizeAssumption DEF big_ino_to_bucket
<1>7. big_ino_to_bucket(d, b, slt) \in BucketIds
  BY <1>6, SizeAssumption DEF BucketIds
<1>8. r \in FileInfo
  BY <1>1, <1>5, <1>7 DEF FileInfo
<1>10. big_bitmap' \in [Dirs -> [BigBuckets -> SUBSET (0 .. NS)]]
  BY <1>0, <1>2, <1>3
<1>11. fi' = [fi EXCEPT ![i] = r]
  BY <1>3
<1>12. r.dir = d /\ r.valid /\ r.slot \in Slots /\ r.big
  BY <1>5
<1>13. /\ slot_bitmap' \in [Dirs -> [Buckets -> SUBSET Slots]]
       /\ \A e \in Dirs, c \in Buckets : slot_bitmap[e][c] \subseteq slot_bitmap'[e][c]
  BY <1>0, <1>4
<1> HIDE DEF r
<1> QED BY <1>0, <1>4, <1>8, <1>10, <1>11, <1>12, <1>13, NewFile

\* resize_dir keeps the invariant, whether it fails or not.
LEMMA MknodResizeStep ==
    ASSUME IndexInv, NEW d \in Dirs, MknodResize(d)
    PROVE  IndexInv'
<1>a. PICK i : i = op[d].ino
  OBVIOUS
<1>0. /\ TypeOK /\ NamesInv /\ SlotInv /\ PrivInv
      /\ OpInv /\ OpDistinct /\ DentryInv /\ ValidInv
      /\ op \in [Dirs -> OpType] /\ istate \in [Inodes -> IState]
  BY Parts DEF NamesInv, TypeOK, OpType, IState
<1>b. /\ op[d].pc = "resize" /\ op[d].pc \in CreatePc
      /\ i \in Inodes /\ istate[i] = "new" /\ ~fi[i].valid
      /\ UNCHANGED <<slot_bitmap, fi, dentry, bufVars, up, history>>
  BY <1>a, <1>0 DEF MknodResize, CreatePc, OpInv, OpOK
<1>1. CASE /\ big_bitmap' = [big_bitmap EXCEPT ![d] = [b \in BigBuckets |-> {}]]
           /\ is_big_dir' = [is_big_dir EXCEPT ![d] = TRUE]
           /\ Goto(d, "big")
           /\ UNCHANGED istate
  <2>1. "big" \in CreatePc
    BY DEF CreatePc
  <2>2. is_big_dir' \in [Dirs -> BOOLEAN]
    BY <1>0, <1>1 DEF TypeOK
  <2>3. big_bitmap' \in [Dirs -> [BigBuckets -> SUBSET (0 .. NS)]]
    BY <1>0, <1>1 DEF TypeOK
  <2> QED BY <1>b, <1>1, <2>1, <2>2, <2>3, KeepCreating
<1>2. CASE /\ istate' = [istate EXCEPT ![i] = "leaked"]
           /\ Return(d)
           /\ UNCHANGED <<big_bitmap, bkt_lock, is_big_dir>>
  <2>1. /\ op' \in [Dirs -> OpType]
        /\ op'[d].pc = "idle" /\ op'[d].ino = Negative
        /\ \A e \in Dirs \ {d} : op'[e] = op[e]
    BY <1>0, <1>2 DEF OpType, OpPc, IdleOp
  <2>2. /\ istate' \in [Inodes -> IState]
        /\ \A j \in Inodes \ {i} : istate'[j] = istate[j]
        /\ istate'[i] = "leaked"
    BY <1>0, <1>b, <1>2 DEF IState
  <2>3. UNCHANGED <<slot_bitmap, fi, dentry, page, io, dirty, priv, up, big_bitmap, is_big_dir, spoiled, users>>
    BY <1>b, <1>2
  <2>4. TypeOK'
    BY <1>0, <2>1, <2>2, <2>3 DEF TypeOK, OpType, IState
  <2>5. \A e \in Dirs \ {d} : op[e].ino # i
    BY <1>a, <1>0, <1>b, OtherIno
  <2>6. OpInv'
    <3> SUFFICES ASSUME NEW e \in Dirs PROVE OpOK(e)'
      BY DEF OpInv
    <3>1. CASE e = d
      BY <3>1, <2>1 DEF OpOK
    <3>2. CASE e # d
      BY <3>2, <1>0, <2>1, <2>2, <2>3, <2>5, OpFrame DEF OpInv
    <3> QED BY <3>1, <3>2
  <2>7. OpDistinct'
    <3> SUFFICES ASSUME NEW e \in Dirs, NEW f \in Dirs, e # f, op'[e].ino = op'[f].ino
                 PROVE  op'[e].ino = Negative
      BY DEF OpDistinct
    <3> QED BY <1>0, <2>1 DEF OpDistinct
  <2>8. DentryInv'
    BY <1>0, <1>b, <2>2, <2>3 DEF DentryInv
  <2>9. \A e \in Dirs : op[e].pc \in {"drop", "invalidate"} => op'[e] = op[e]
    BY <1>b, <2>1
  <2>10. ValidInv'
    <3>1. ValidAt(i)'
      BY <1>b, <2>2, <2>3 DEF ValidAt
    <3> QED BY <1>0, <2>2, <2>3, <2>9, <3>1, ValidFrame
  <2>11. NamesInv'
    BY <2>6, <2>7, <2>8, <2>10 DEF NamesInv
  <2>12. PrivInv'
    BY <1>0, <2>1, <2>3, PrivFrame
  <2>13. SlotInv'
    BY <1>0, <2>3, <2>9, SlotFrame, PendingFrame, HasFrame
  <2> QED BY <2>4, <2>11, <2>12, <2>13, Assemble
<1> QED BY <1>a, <1>1, <1>2 DEF MknodResize


\* The end of ffs_mknod keeps the invariant: the inode gets its first name.
LEMMA MknodDirtyStep ==
    ASSUME IndexInv, NEW d \in Dirs, MknodDirty(d)
    PROVE  IndexInv'
<1>a. PICK i, n : i = op[d].ino /\ n = op[d].name
  OBVIOUS
<1>0. /\ TypeOK /\ NamesInv /\ SlotInv /\ PrivInv
      /\ OpInv /\ OpDistinct /\ DentryInv /\ ValidInv
      /\ op \in [Dirs -> OpType] /\ istate \in [Inodes -> IState]
  BY Parts DEF NamesInv, TypeOK, OpType, IState
<1>b. /\ i \in Inodes /\ n \in Names /\ op[d].pc = "dirty"
      /\ istate[i] = "new" /\ fi[i].valid
  BY <1>a, <1>0 DEF OpInv, OpOK, MknodDirty
<1>1. /\ op' \in [Dirs -> OpType]
      /\ op'[d].pc = "idle" /\ op'[d].ino = Negative
      /\ \A e \in Dirs \ {d} : op'[e] = op[e]
  BY <1>0 DEF OpType, OpPc, IdleOp, MknodDirty
<1>2. /\ istate' \in [Inodes -> IState]
      /\ \A j \in Inodes \ {i} : istate'[j] = istate[j]
      /\ istate'[i] = "linked"
  BY <1>a, <1>0, <1>b DEF MknodDirty, IState
<1>3. /\ dentry' \in [Dirs -> [Names -> Inodes \union {Negative, Unhashed}]]
      /\ dentry'[d][n] = i
      /\ \A e \in Dirs, m \in Names : (e # d \/ m # n) => dentry'[e][m] = dentry[e][m]
  BY <1>a, <1>0, <1>b DEF MknodDirty, TypeOK
<1>4. ffs_dirty_inode(i) /\ UNCHANGED <<slot_bitmap, big_bitmap, is_big_dir, fi, up>>
  BY <1>a DEF MknodDirty
<1>5. /\ page' \in [Pages -> PageContent] /\ dirty' \in [Pages -> BOOLEAN]
      /\ users' \in [Pages -> SUBSET (Dirs \X BOOLEAN \X BucketIds)]
      /\ UNCHANGED <<io, priv, spoiled>>
  BY <1>0, <1>b, <1>4, DirtyInodeType
<1>6. TypeOK'
  BY <1>0, <1>1, <1>2, <1>3, <1>4, <1>5 DEF TypeOK, OpType, IState
<1>7. \A e \in Dirs \ {d} : op[e].ino # i
  BY <1>a, <1>0, <1>b, OtherIno
<1>8. OpInv'
  <2> SUFFICES ASSUME NEW e \in Dirs PROVE OpOK(e)'
    BY DEF OpInv
  <2>1. CASE e = d
    BY <2>1, <1>1 DEF OpOK
  <2>2. CASE e # d
    <3>1. OpOK(e) /\ op'[e] = op[e] /\ op[e].ino # i
      BY <2>2, <1>0, <1>1, <1>7 DEF OpInv
    <3>2. op[e].ino \in Inodes => op[e].name \in Names
      BY <3>1, NameAssumption DEF OpOK
    <3>3. \A f \in Dirs, m \in Names : dentry'[f][m] = op[e].ino => dentry[f][m] = op[e].ino
      BY <3>1, <1>3
    <3> QED BY <2>2, <3>1, <3>2, <3>3, <1>2, <1>3, <1>4, <1>5, OpFrame
  <2> QED BY <2>1, <2>2
<1>9. OpDistinct'
  <2> SUFFICES ASSUME NEW e \in Dirs, NEW f \in Dirs, e # f, op'[e].ino = op'[f].ino
               PROVE  op'[e].ino = Negative
    BY DEF OpDistinct
  <2> QED BY <1>0, <1>1 DEF OpDistinct
<1>10. DentryInv'
  BY <1>0, <1>2, <1>3 DEF DentryInv
<1>11. \A e \in Dirs : op[e].pc \in {"drop", "invalidate"} => op'[e] = op[e]
  BY <1>b, <1>1
<1>12. ValidInv'
  <2>1. fi[i].slot \in Slots /\ (~fi[i].big => fi[i].bucket \in Buckets)
    BY <1>0, <1>b DEF ValidInv
  <2>2. ValidAt(i)'
    BY <1>b, <1>2, <1>4, <2>1 DEF ValidAt
  <2> QED BY <1>0, <1>2, <1>4, <1>5, <1>11, <2>2, ValidFrame
<1>13. NamesInv'
  BY <1>8, <1>9, <1>10, <1>12 DEF NamesInv
<1>14. PrivInv'
  BY <1>0, <1>1, <1>4, <1>5, PrivFrame
<1>15. SlotInv'
  BY <1>0, <1>4, <1>5, <1>11, SlotFrame, PendingFrame, HasFrame
<1> QED BY <1>6, <1>13, <1>14, <1>15, Assemble

\* The end of ffs_unlink keeps the invariant: no dentry of the inode is left, or its
\* place is spoiled.
LEMMA UnlinkDropStep ==
    ASSUME IndexInv, NEW d \in Dirs, UnlinkDrop(d)
    PROVE  IndexInv'
<1>a. PICK i, n : i = op[d].ino /\ n = op[d].name
  OBVIOUS
<1>0. /\ TypeOK /\ NamesInv /\ SlotInv /\ PrivInv
      /\ OpInv /\ OpDistinct /\ DentryInv /\ ValidInv
      /\ op \in [Dirs -> OpType] /\ istate \in [Inodes -> IState]
      /\ fi \in [Inodes -> FileInfo]
  BY Parts DEF NamesInv, TypeOK, OpType, IState
<1>b. /\ i \in Inodes /\ n \in Names /\ op[d].pc = "drop"
      /\ istate[i] = "linked" /\ ~fi[i].valid /\ dentry[d][n] = i
      /\ ~OtherName(i, d, n) \/ Place(fi[i]) \in spoiled
  BY <1>a, <1>0 DEF OpInv, OpOK, UnlinkDrop
<1>1. /\ op' \in [Dirs -> OpType]
      /\ op'[d].pc = "idle" /\ op'[d].ino = Negative
      /\ \A e \in Dirs \ {d} : op'[e] = op[e]
  BY <1>0 DEF OpType, OpPc, IdleOp, UnlinkDrop
<1>2. PICK used \in BOOLEAN :
        /\ dentry' = [dentry EXCEPT ![d][n] = IF used THEN Unhashed ELSE Negative]
        /\ \/ OtherName(i, d, n) /\ UNCHANGED <<istate, fi>>
           \/ /\ ~OtherName(i, d, n)
              /\ istate' = [istate EXCEPT ![i] = IF used THEN "orphan" ELSE "free"]
              /\ fi' = IF used THEN fi ELSE [fi EXCEPT ![i] = UnusedInfo]
  BY <1>a DEF UnlinkDrop
<1>3. /\ istate' \in [Inodes -> IState]
      /\ \A j \in Inodes \ {i} : istate'[j] = istate[j]
      /\ OtherName(i, d, n) => istate'[i] = "linked" /\ fi'[i] = fi[i]
      /\ ~OtherName(i, d, n) => istate'[i] \in {"free", "orphan"}
  BY <1>0, <1>b, <1>2 DEF IState
<1>4. /\ fi' \in [Inodes -> FileInfo]
      /\ \A j \in Inodes \ {i} : fi'[j] = fi[j]
      /\ ~fi'[i].valid
  BY <1>0, <1>b, <1>2, UnusedOK
<1>5. /\ dentry' \in [Dirs -> [Names -> Inodes \union {Negative, Unhashed}]]
      /\ dentry'[d][n] \notin Inodes
      /\ \A e \in Dirs, m \in Names : (e # d \/ m # n) => dentry'[e][m] = dentry[e][m]
  BY <1>0, <1>b, <1>2, NameAssumption DEF TypeOK
<1>6. ffs_dirty_inode(i) /\ UNCHANGED <<slot_bitmap, big_bitmap, is_big_dir, up>>
  BY <1>a DEF UnlinkDrop
<1>7. /\ page' \in [Pages -> PageContent] /\ dirty' \in [Pages -> BOOLEAN]
      /\ users' \in [Pages -> SUBSET (Dirs \X BOOLEAN \X BucketIds)]
      /\ UNCHANGED <<io, priv, spoiled>>
  BY <1>0, <1>b, <1>6, DirtyInodeType
<1>8. TypeOK'
  BY <1>0, <1>1, <1>3, <1>4, <1>5, <1>6, <1>7 DEF TypeOK, OpType, IState
<1>9. \A e \in Dirs \ {d} : op[e].ino # i
  BY <1>a, <1>0, <1>b, OtherIno
<1>10. OpInv'
  <2> SUFFICES ASSUME NEW e \in Dirs PROVE OpOK(e)'
    BY DEF OpInv
  <2>1. CASE e = d
    BY <2>1, <1>1 DEF OpOK
  <2>2. CASE e # d
    <3>1. OpOK(e) /\ op'[e] = op[e] /\ op[e].ino # i
      BY <2>2, <1>0, <1>1, <1>9 DEF OpInv
    <3>2. op[e].ino \in Inodes => op[e].name \in Names
      BY <3>1, NameAssumption DEF OpOK
    <3>3. op[e].ino \in Inodes =>
            \A f \in Dirs, m \in Names : dentry'[f][m] = op[e].ino => dentry[f][m] = op[e].ino
      BY <1>5
    <3> QED BY <2>2, <3>1, <3>2, <3>3, <1>3, <1>4, <1>5, <1>7, OpFrame
  <2> QED BY <2>1, <2>2
<1>11. OpDistinct'
  <2> SUFFICES ASSUME NEW e \in Dirs, NEW f \in Dirs, e # f, op'[e].ino = op'[f].ino
               PROVE  op'[e].ino = Negative
    BY DEF OpDistinct
  <2> QED BY <1>0, <1>1 DEF OpDistinct
<1>12. DentryInv'
  <2> SUFFICES ASSUME NEW e \in Dirs, NEW m \in Names, dentry'[e][m] \in Inodes
               PROVE  istate'[dentry'[e][m]] = "linked"
    BY DEF DentryInv
  <2>1. (e # d \/ m # n) /\ dentry'[e][m] = dentry[e][m]
    BY <1>5
  <2>2. istate[dentry[e][m]] = "linked"
    BY <1>0, <2>1 DEF DentryInv
  <2>3. dentry[e][m] = i => OtherName(i, d, n)
    BY <2>1 DEF OtherName
  <2> QED BY <2>1, <2>2, <2>3, <1>3
<1>13. \A e \in Dirs : op[e].ino # i => op'[e] = op[e]
  BY <1>a, <1>1
<1>14. ValidInv'
  <2>1. ValidAt(i)'
    BY <1>b, <1>3, <1>4, <1>7 DEF ValidAt
  <2>2. \A j \in Inodes \ {i}, e \in Dirs : op[e].ino = j => op'[e] = op[e]
    BY <1>13
  <2> QED BY <1>0, <1>3, <1>4, <1>7, <2>1, <2>2, ValidFrame
<1>15. NamesInv'
  BY <1>10, <1>11, <1>12, <1>14 DEF NamesInv
<1>16. PrivInv'
  <2>1. ASSUME NEW e \in Dirs, op'[e].pc \in {"mark", "submit"}
        PROVE  /\ op[e].pc \in {"mark", "submit"} /\ op'[e].ino = op[e].ino
               /\ fi'[op[e].ino] = fi[op[e].ino]
    <3>1. e # d /\ op'[e] = op[e]
      BY <2>1, <1>1
    <3>2. op[e].ino \in Inodes /\ op[e].ino # i
      BY <2>1, <3>1, <1>0, <1>9, OpIno
    <3> QED BY <2>1, <3>1, <3>2, <1>4
  <2> QED BY <1>0, <1>7, <2>1, PrivFrame
<1>17. \A j \in Inodes : HasSlot(j)' => HasSlot(j) /\ fi'[j] = fi[j]
  <2> SUFFICES ASSUME NEW j \in Inodes, HasSlot(j)' PROVE HasSlot(j) /\ fi'[j] = fi[j]
    OBVIOUS
  <2>1. j # i
    BY <1>4 DEF HasSlot
  <2> QED BY <1>4, <1>7, <1>13, <2>1, HasFrame
<1>18. SlotInv'
  BY <1>0, <1>6, <1>7, <1>17, SlotFrame, PendingFrame
<1> QED BY <1>8, <1>15, <1>16, <1>18, Assemble

\* What simple_link, simple_rename and the last close have in common: no operation
\* moves, and files no operation works on may lose their inode or change their names.
LEMMA NamesMove ==
    ASSUME IndexInv, TypeOK', DentryInv',
           UNCHANGED <<slot_bitmap, op, io, priv, spoiled>>,
           \A j \in Inodes :
             \/ fi'[j] = fi[j] /\ istate'[j] = istate[j]
             \/ NotBusy(j) /\ fi'[j] = fi[j] /\ istate'[j] = "orphan"
             \/ NotBusy(j) /\ ~fi'[j].valid /\ istate'[j] = "free",
           \A e \in Dirs, m \in Names :
             dentry'[e][m] = dentry[e][m] \/ (/\ dentry[e][m] \in Inodes => NotBusy(dentry[e][m])
                                              /\ dentry'[e][m] \in Inodes => NotBusy(dentry'[e][m]))
    PROVE  IndexInv'
<1>0. /\ TypeOK /\ NamesInv /\ SlotInv /\ PrivInv
      /\ OpInv /\ OpDistinct /\ DentryInv /\ ValidInv
  BY Parts DEF NamesInv
<1>1. \A e \in Dirs : op[e].ino \in Inodes =>
        fi'[op[e].ino] = fi[op[e].ino] /\ istate'[op[e].ino] = istate[op[e].ino]
  BY DEF NotBusy
<1>2. OpInv'
  <2> SUFFICES ASSUME NEW e \in Dirs PROVE OpOK(e)'
    BY DEF OpInv
  <2>1. OpOK(e) /\ op'[e] = op[e]
    BY <1>0 DEF OpInv
  <2>2. op[e].ino \in Inodes => op[e].name \in Names
    BY <2>1, NameAssumption DEF OpOK
  <2>3. op[e].ino \in Inodes =>
          \A f \in Dirs, m \in Names : dentry'[f][m] = op[e].ino => dentry[f][m] = op[e].ino
    BY DEF NotBusy
  <2>4. CASE op[e].pc \in UnlinkPc \union {"drop"}
    <3>1. op[e].ino \in Inodes /\ dentry[e][op[e].name] = op[e].ino
      BY <2>1, <2>4 DEF OpOK, UnlinkPc
    <3>2. dentry'[e][op[e].name] = dentry[e][op[e].name]
      BY <2>2, <3>1 DEF NotBusy
    <3> QED BY <2>1, <2>3, <3>2, <1>1, OpFrame
  <2>5. CASE op[e].pc \notin UnlinkPc \union {"drop"}
    BY <2>1, <2>5, <1>1 DEF OpOK
  <2> QED BY <2>4, <2>5
<1>3. OpDistinct'
  BY <1>0 DEF OpDistinct
<1>4. ValidInv'
  <2> SUFFICES ASSUME NEW j \in Inodes PROVE (fi'[j] = fi[j] /\ istate'[j] = istate[j]) \/ ValidAt(j)'
    BY <1>0, ValidFrame
  <2>1. CASE ~(fi'[j] = fi[j] /\ istate'[j] = istate[j]) /\ ~fi'[j].valid
    BY <2>1 DEF ValidAt
  <2>2. CASE ~(fi'[j] = fi[j] /\ istate'[j] = istate[j]) /\ fi'[j] = fi[j] /\ fi[j].valid
    <3>1. istate'[j] = "orphan"
      BY <2>2
    <3>2. fi[j].slot \in Slots /\ (~fi[j].big => fi[j].bucket \in Buckets)
      BY <1>0, <2>2 DEF ValidInv
    <3> QED BY <2>2, <3>1, <3>2 DEF ValidAt
  <2> QED BY <2>1, <2>2
<1>5. NamesInv'
  BY <1>2, <1>3, <1>4 DEF NamesInv
<1>6. PrivInv'
  BY <1>0, <1>1, OpIno, PrivFrame
<1>7. \A j \in Inodes : HasSlot(j)' => HasSlot(j) /\ fi'[j] = fi[j]
  <2> SUFFICES ASSUME NEW j \in Inodes, HasSlot(j)' PROVE HasSlot(j) /\ fi'[j] = fi[j]
    OBVIOUS
  <2>1. fi'[j] = fi[j]
    BY DEF HasSlot
  <2> QED BY <2>1, HasFrame
<1>8. SlotInv'
  BY <1>0, <1>7, SlotFrame, PendingFrame
<1> QED BY <1>5, <1>6, <1>8, Assemble

\* The last close of an unlinked file keeps the invariant.
LEMMA EvictStep ==
    ASSUME IndexInv, NEW i \in Inodes, Evict(i)
    PROVE  IndexInv'
<1>0. /\ TypeOK /\ OpInv /\ DentryInv /\ istate[i] = "orphan"
      /\ fi \in [Inodes -> FileInfo] /\ istate \in [Inodes -> IState]
      /\ UNCHANGED <<slot_bitmap, big_bitmap, is_big_dir, dentry, op, page, io, dirty, priv, up, spoiled, users>>
  BY DEF Evict, IndexInv, TypeOK, IState
<1>1. /\ fi' \in [Inodes -> FileInfo]
      /\ \A j \in Inodes \ {i} : fi'[j] = fi[j]
      /\ ~fi'[i].valid
  BY <1>0, UnusedOK DEF Evict
<1>2. /\ istate' \in [Inodes -> IState]
      /\ \A j \in Inodes \ {i} : istate'[j] = istate[j]
      /\ istate'[i] = "free"
  BY <1>0 DEF Evict, IState
<1>3. TypeOK'
  BY <1>0, <1>1, <1>2 DEF TypeOK, IState
<1>4. DentryInv'
  BY <1>0, <1>2 DEF DentryInv
<1>5. NotBusy(i)
  BY <1>0, OpBusy DEF NotBusy
<1> QED BY <1>0, <1>1, <1>2, <1>3, <1>4, <1>5, NamesMove

\* simple_link keeps the invariant: the file has a name, so it is linked.
LEMMA LinkStep ==
    ASSUME IndexInv, NEW d \in Dirs, simple_link(d)
    PROVE  IndexInv'
<1>0. /\ TypeOK /\ DentryInv
      /\ UNCHANGED <<slot_bitmap, big_bitmap, is_big_dir, fi, istate, op, page, io, dirty, priv, up, spoiled, users>>
  BY DEF simple_link, IndexInv
<1>1. PICK n \in Names, i \in Inodes :
        /\ \E e \in Dirs, m \in Names : dentry[e][m] = i
        /\ NotBusy(i) /\ NoEntry(d, n)
        /\ dentry' = [dentry EXCEPT ![d][n] = i]
  BY DEF simple_link
<1>2. istate[i] = "linked" /\ dentry[d][n] \notin Inodes
  BY <1>0, <1>1, NameAssumption DEF DentryInv, NoEntry
<1>3. /\ dentry' \in [Dirs -> [Names -> Inodes \union {Negative, Unhashed}]]
      /\ dentry'[d][n] = i
      /\ \A e \in Dirs, m \in Names : (e # d \/ m # n) => dentry'[e][m] = dentry[e][m]
  BY <1>0, <1>1 DEF TypeOK
<1>4. TypeOK'
  BY <1>0, <1>3 DEF TypeOK
<1>5. DentryInv'
  BY <1>0, <1>2, <1>3 DEF DentryInv
<1>6. \A e \in Dirs, m \in Names :
        dentry'[e][m] = dentry[e][m] \/ (/\ dentry[e][m] \in Inodes => NotBusy(dentry[e][m])
                                         /\ dentry'[e][m] \in Inodes => NotBusy(dentry'[e][m]))
  BY <1>1, <1>2, <1>3
<1> QED BY <1>0, <1>4, <1>5, <1>6, NamesMove

\* simple_rename keeps the invariant: the file it replaces loses its inode only
\* with its last name.
LEMMA RenameStep ==
    ASSUME IndexInv, NEW d \in Dirs, NEW e \in Dirs, simple_rename(d, e)
    PROVE  IndexInv'
<1>0. /\ TypeOK /\ DentryInv /\ up \in BOOLEAN
      /\ fi \in [Inodes -> FileInfo] /\ istate \in [Inodes -> IState]
      /\ dentry \in [Dirs -> [Names -> Inodes \union {Negative, Unhashed}]]
      /\ UNCHANGED <<slot_bitmap, big_bitmap, is_big_dir, op, page, io, dirty, priv, spoiled, users>>
  BY DEF simple_rename, IndexInv, TypeOK, IState
<1>1. PICK n \in Names, m \in Names, i \in Inodes, j \in Inodes \union {Negative, Unhashed} :
        /\ i = dentry[d][n] /\ j = dentry[e][m]
        /\ i \in Inodes /\ NotBusy(i)
        /\ \/ NoEntry(e, m) /\ UNCHANGED <<fi, istate, up>>
           \/ j \in Inodes \ {i} /\ NotBusy(j) /\ Replaced(j, e, m)
        /\ dentry' = [dentry EXCEPT ![d][n] = Unhashed, ![e][m] = i]
  <2>1. PICK n \in Names, m \in Names :
          /\ dentry[d][n] \in Inodes /\ NotBusy(dentry[d][n])
          /\ \/ NoEntry(e, m) /\ UNCHANGED <<fi, istate, up>>
             \/ /\ dentry[e][m] \in Inodes \ {dentry[d][n]} /\ NotBusy(dentry[e][m])
                /\ Replaced(dentry[e][m], e, m)
          /\ dentry' = [dentry EXCEPT ![d][n] = Unhashed, ![e][m] = dentry[d][n]]
    BY DEF simple_rename
  <2>2. dentry[e][m] \in Inodes \union {Negative, Unhashed}
    BY <1>0
  <2> QED BY <2>1, <2>2
<1>2. <<d, n>> # <<e, m>>
  BY <1>1, NameAssumption DEF NoEntry
<1>3. /\ dentry' \in [Dirs -> [Names -> Inodes \union {Negative, Unhashed}]]
      /\ dentry'[e][m] = i /\ dentry'[d][n] = Unhashed
      /\ \A f \in Dirs, k \in Names :
           <<f, k>> # <<d, n>> /\ <<f, k>> # <<e, m>> => dentry'[f][k] = dentry[f][k]
  <2>1. PICK D : D = [dentry EXCEPT ![d][n] = Unhashed]
    OBVIOUS
  <2>2. dentry' = [D EXCEPT ![e][m] = i]
    BY <1>1, <2>1
  <2>3. /\ D \in [Dirs -> [Names -> Inodes \union {Negative, Unhashed}]]
        /\ D[d][n] = Unhashed
        /\ \A f \in Dirs, k \in Names : (f # d \/ k # n) => D[f][k] = dentry[f][k]
    BY <1>0, <2>1
  <2>4. /\ dentry' \in [Dirs -> [Names -> Inodes \union {Negative, Unhashed}]]
        /\ dentry'[e][m] = i
        /\ \A f \in Dirs, k \in Names : (f # e \/ k # m) => dentry'[f][k] = D[f][k]
    <3>1. i \in Inodes
      BY <1>1
    <3> QED BY <3>1, <2>2, <2>3
  <2> QED BY <1>2, <2>3, <2>4
<1>4. \/ UNCHANGED <<fi, istate>>
      \/ /\ j \in Inodes \ {i} /\ NotBusy(j) /\ ~OtherName(j, e, m)
         /\ \/ istate' = [istate EXCEPT ![j] = "free"] /\ fi' = [fi EXCEPT ![j] = UnusedInfo]
            \/ istate' = [istate EXCEPT ![j] = "orphan"] /\ fi' = fi
  BY <1>1 DEF Replaced
<1>5. up' \in BOOLEAN
  BY <1>0, <1>1 DEF Replaced
<1>6. /\ fi' \in [Inodes -> FileInfo] /\ istate' \in [Inodes -> IState]
      /\ \A k \in Inodes :
           \/ fi'[k] = fi[k] /\ istate'[k] = istate[k]
           \/ /\ k = j /\ k # i /\ NotBusy(k) /\ ~OtherName(k, e, m)
              /\ \/ fi'[k] = fi[k] /\ istate'[k] = "orphan"
                 \/ ~fi'[k].valid /\ istate'[k] = "free"
  BY <1>0, <1>4, UnusedOK DEF IState
<1>7. TypeOK'
  BY <1>0, <1>3, <1>5, <1>6 DEF TypeOK, IState
<1>8. DentryInv'
  <2> SUFFICES ASSUME NEW f \in Dirs, NEW k \in Names, dentry'[f][k] \in Inodes
               PROVE  istate'[dentry'[f][k]] = "linked"
    BY DEF DentryInv
  <2>1. CASE <<f, k>> = <<e, m>>
    <3>1. dentry'[f][k] = i /\ istate[i] = "linked"
      BY <2>1, <1>0, <1>1, <1>3 DEF DentryInv
    <3> QED BY <3>1, <1>1, <1>6
  <2>2. CASE <<f, k>> # <<e, m>>
    <3>1. <<f, k>> # <<d, n>>
      BY <1>3, NameAssumption
    <3>2. dentry'[f][k] = dentry[f][k] /\ istate[dentry[f][k]] = "linked"
      BY <2>2, <3>1, <1>0, <1>3 DEF DentryInv
    <3>3. OtherName(dentry[f][k], e, m)
      BY <2>2 DEF OtherName
    <3> QED BY <3>2, <3>3, <1>6
  <2> QED BY <2>1, <2>2
<1>9. \A f \in Dirs, k \in Names :
        dentry'[f][k] = dentry[f][k] \/ (/\ dentry[f][k] \in Inodes => NotBusy(dentry[f][k])
                                         /\ dentry'[f][k] \in Inodes => NotBusy(dentry'[f][k]))
  <2>1. j \in Inodes => NotBusy(j)
    BY <1>1, NameAssumption DEF NoEntry
  <2> SUFFICES ASSUME NEW f \in Dirs, NEW k \in Names
               PROVE  \/ dentry'[f][k] = dentry[f][k]
                      \/ /\ dentry[f][k] \in Inodes => NotBusy(dentry[f][k])
                         /\ dentry'[f][k] \in Inodes => NotBusy(dentry'[f][k])
    OBVIOUS
  <2>2. CASE <<f, k>> = <<d, n>>
    <3>1. dentry[f][k] = i /\ dentry'[f][k] \notin Inodes
      BY <2>2, <1>1, <1>3, NameAssumption
    <3> QED BY <3>1, <1>1
  <2>3. CASE <<f, k>> = <<e, m>>
    <3>1. dentry[f][k] = j /\ dentry'[f][k] = i
      BY <2>3, <1>1, <1>3
    <3> QED BY <3>1, <2>1, <1>1
  <2> QED BY <2>2, <2>3, <1>3
<1>10. \A k \in Inodes :
         \/ fi'[k] = fi[k] /\ istate'[k] = istate[k]
         \/ NotBusy(k) /\ fi'[k] = fi[k] /\ istate'[k] = "orphan"
         \/ NotBusy(k) /\ ~fi'[k].valid /\ istate'[k] = "free"
  BY <1>6
<1> QED BY <1>0, <1>7, <1>8, <1>9, <1>10, NamesMove

\* The completion of a discard keeps the invariant: the bit it clears is at a spoiled
\* place, or that of no valid file and of no other discard in flight.
LEMMA DiscardDoneStep ==
    ASSUME IndexInv, NEW p \in Pages, DiscardDone(p)
    PROVE  IndexInv'
<1>a. PICK r : r = priv[p]
  OBVIOUS
<1>b. TypeOK /\ NamesInv /\ SlotInv /\ PrivInv /\ ValidInv
  BY Parts DEF NamesInv
<1>0. /\ io[p] = "discard"
      /\ r \in IoEnd
      /\ slot_bitmap \in [Dirs -> [Buckets -> SUBSET Slots]]
      /\ big_bitmap \in [Dirs -> [BigBuckets -> SUBSET (0 .. NS)]]
      /\ io' = [io EXCEPT ![p] = "none"]
      /\ UNCHANGED <<is_big_dir, fi, istate, dentry, op, page, dirty, priv, spoiled, users>>
  BY <1>a, <1>b DEF DiscardDone, TypeOK
<1>1. /\ io' \in [Pages -> {"none", "flush", "discard", "oops"}]
      /\ \A q \in Pages : Pending(q)' => Pending(q) /\ q # p
  BY <1>b, <1>0 DEF TypeOK, Pending
<1>2. /\ slot_bitmap' \in [Dirs -> [Buckets -> SUBSET Slots]]
      /\ big_bitmap' \in [Dirs -> [BigBuckets -> SUBSET (0 .. NS)]]
      /\ up' \in BOOLEAN
      /\ \A e \in Dirs, b \in Buckets, s \in Slots : s \in slot_bitmap[e][b] =>
           \/ s \in slot_bitmap'[e][b]
           \/ r.bucket \in Buckets /\ <<e, b, s>> = Place(r)
  <2>1. r.dir \in Dirs /\ r.bigid \in BOOLEAN
    BY <1>0 DEF IoEnd
  <2>2. CASE delete_file(r)
    <3>1. UNCHANGED <<big_bitmap, up>>
      BY <2>2 DEF delete_file
    <3>2. CASE r.bucket \in Buckets
      <4>1. slot_bitmap' = [slot_bitmap EXCEPT ![r.dir][r.bucket] = @ \ {r.slot}]
        BY <2>2, <3>2 DEF delete_file
      <4>2. slot_bitmap' \in [Dirs -> [Buckets -> SUBSET Slots]]
        BY <1>0, <2>1, <3>2, <4>1
      <4>3. ASSUME NEW e \in Dirs, NEW b \in Buckets, NEW s \in slot_bitmap[e][b],
                   s \notin slot_bitmap'[e][b]
            PROVE  e = r.dir /\ b = r.bucket /\ s = r.slot
        BY <1>0, <2>1, <3>2, <4>1, <4>3
      <4> QED BY <1>b, <1>0, <3>1, <3>2, <4>2, <4>3 DEF TypeOK, Place
    <3>3. CASE r.bucket \notin Buckets
      <4>1. slot_bitmap' = slot_bitmap
        BY <2>2, <3>3 DEF delete_file
      <4> QED BY <1>b, <1>0, <3>1, <4>1 DEF TypeOK
    <3> QED BY <3>2, <3>3
  <2>3. CASE delete_big_file(r)
    <3>1. slot_bitmap' = slot_bitmap /\ up' \in BOOLEAN
      BY <2>1, <2>3 DEF delete_big_file
    <3>2. CASE r.bigid /\ r.bucket \in BigBuckets
      <4>1. big_bitmap' = [big_bitmap EXCEPT ![r.dir][r.bucket] = @ \ {r.slot}]
        BY <2>3, <3>2 DEF delete_big_file
      <4>2. big_bitmap' \in [Dirs -> [BigBuckets -> SUBSET (0 .. NS)]]
        BY <1>0, <2>1, <3>2, <4>1
      <4> QED BY <1>0, <3>1, <4>2
    <3>3. CASE ~(r.bigid /\ r.bucket \in BigBuckets)
      <4>1. big_bitmap' = big_bitmap
        BY <2>3, <3>3 DEF delete_big_file
      <4> QED BY <1>0, <3>1, <4>1
    <3> QED BY <3>2, <3>3
  <2> QED BY <1>a, <2>2, <2>3 DEF DiscardDone
<1>3. TypeOK'
  BY <1>b, <1>0, <1>1, <1>2 DEF TypeOK
<1>4. NamesInv' /\ PrivInv'
  BY <1>b, <1>0, SameNames, PrivFrame
<1>5. \A j \in Inodes : HasSlot(j)' => HasSlot(j)
  BY <1>0, HasFrame
<1>6. SlotUnique'
  BY <1>b, <1>0, <1>5 DEF SlotInv, SlotUnique
<1>7. SlotSet'
  <2> SUFFICES ASSUME NEW j \in Inodes, HasSlot(j)
               PROVE  fi[j].slot \in slot_bitmap'[fi[j].dir][fi[j].bucket]
    BY <1>0, <1>5 DEF SlotSet
  <2>1. fi[j].dir \in Dirs /\ fi[j].bucket \in Buckets /\ fi[j].slot \in Slots
    BY <1>b DEF HasSlot, ValidInv, TypeOK, FileInfo
  <2>2. fi[j].slot \in slot_bitmap[fi[j].dir][fi[j].bucket]
    BY <1>b DEF SlotInv, SlotSet
  <2>3. CASE r.bucket \in Buckets /\ Place(fi[j]) = Place(r)
    <3>1. Pending(p)
      BY <1>a, <1>0, <2>3 DEF Pending, HasSlot
    <3> QED BY <1>a, <1>b, <2>3, <3>1 DEF SlotInv, DiscardSolo
  <2> QED BY <1>2, <2>1, <2>2, <2>3 DEF Place
<1>8. DiscardInv'
  <2> SUFFICES ASSUME NEW q \in Pages, Pending(q)'
               PROVE  /\ q = MetaLba(priv[q].dir, FALSE, priv[q].bucket)
                      /\ priv[q].slot \in slot_bitmap'[priv[q].dir][priv[q].bucket]
    BY <1>0 DEF DiscardInv
  <2>1. Pending(q) /\ q # p
    BY <1>1
  <2>2. /\ q = MetaLba(priv[q].dir, FALSE, priv[q].bucket)
        /\ priv[q].slot \in slot_bitmap[priv[q].dir][priv[q].bucket]
        /\ priv[q].dir \in Dirs /\ priv[q].bucket \in Buckets
    BY <1>b, <2>1 DEF SlotInv, DiscardInv, Pending, TypeOK, IoEnd
  <2>3. priv[q].slot \in Slots
    BY <1>0, <2>2
  <2>4. CASE r.bucket \in Buckets /\ Place(priv[q]) = Place(r)
    <3>1. Pending(p)
      BY <1>a, <1>0, <2>1, <2>4 DEF Pending
    <3>2. priv[q].dir = r.dir /\ priv[q].bucket = r.bucket
      BY <2>4, SamePlace
    <3>3. p = MetaLba(r.dir, FALSE, r.bucket)
      BY <1>a, <1>b, <3>1 DEF SlotInv, DiscardInv
    <3> QED BY <2>1, <2>2, <3>2, <3>3
  <2> QED BY <1>2, <2>2, <2>3, <2>4 DEF Place
<1>9. DiscardSolo'
  <2> SUFFICES ASSUME NEW q \in Pages, NEW j \in Inodes, Pending(q)', HasSlot(j)'
               PROVE  Place(fi[j]) # Place(priv[q])
    BY <1>0 DEF DiscardSolo
  <2> QED BY <1>b, <1>1, <1>5 DEF SlotInv, DiscardSolo
<1>10. SlotInv'
  BY <1>6, <1>7, <1>8, <1>9 DEF SlotInv
<1> QED BY <1>3, <1>4, <1>10, Assemble

\* A fresh mount satisfies the invariant.
LEMMA InitOK ==
    ASSUME Init
    PROVE  IndexInv
<1> USE DEF Init
<1>2. IdleOp \in OpType /\ IdleOp.pc = "idle" /\ IdleOp.ino = Negative
  BY DEF IdleOp, OpType, OpPc
<1>3. [dir |-> CHOOSE d \in Dirs : TRUE, bucket |-> -1, slot |-> -1, bigid |-> FALSE] \in IoEnd
  BY SizeAssumption DEF IoEnd, BucketIds
<1>4. [bitmap |-> {}, name |-> [s \in Slots |-> NoName]] \in PageContent
  BY StringAssumption DEF PageContent
<1>5. /\ slot_bitmap \in [Dirs -> [Buckets -> SUBSET Slots]]
      /\ big_bitmap \in [Dirs -> [BigBuckets -> SUBSET (0 .. NS)]]
  BY DEF EmptyTables
<1>6. fi \in [Inodes -> FileInfo] /\ \A i \in Inodes : ~fi[i].valid
  BY UnusedOK
<1>7. op \in [Dirs -> OpType] /\ \A d \in Dirs : op[d].pc = "idle" /\ op[d].ino = Negative
  BY <1>2
<1>8. TypeOK
  <2>1. /\ is_big_dir \in [Dirs -> BOOLEAN]
        /\ istate \in [Inodes -> {"free", "new", "linked", "orphan", "leaked"}]
        /\ dentry \in [Dirs -> [Names -> Inodes \union {Negative, Unhashed}]]
        /\ io \in [Pages -> {"none", "flush", "discard", "oops"}]
        /\ dirty \in [Pages -> BOOLEAN]
        /\ up \in BOOLEAN
        /\ spoiled = {}
        /\ users \in [Pages -> SUBSET (Dirs \X BOOLEAN \X BucketIds)]
    OBVIOUS
  <2>2. page \in [Pages -> PageContent] /\ priv \in [Pages -> IoEnd]
    BY <1>3, <1>4
  <2> QED BY <1>5, <1>6, <1>7, <2>1, <2>2 DEF TypeOK, OpType
<1>9. OpInv /\ OpDistinct
  BY <1>7 DEF OpInv, OpOK, OpDistinct
<1>10. DentryInv
  BY NameAssumption DEF DentryInv
<1>11. ValidInv /\ SlotSet /\ SlotUnique
  BY <1>6 DEF ValidInv, SlotSet, SlotUnique, HasSlot
<1>12. PrivInv
  BY <1>7 DEF PrivInv
<1>13. \A p \in Pages : ~Pending(p)
  BY DEF Pending
<1>14. DiscardInv /\ DiscardSolo
  BY <1>13 DEF DiscardInv, DiscardSolo
<1> QED BY <1>8, <1>9, <1>10, <1>11, <1>12, <1>14 DEF IndexInv

\* Unmounting and mounting again keeps the invariant.
LEMMA RemountStep ==
    ASSUME IndexInv, Remount
    PROVE  IndexInv'
<1> USE DEF IndexInv, Remount
<1>2. fi' \in [Inodes -> FileInfo] /\ \A i \in Inodes : ~fi'[i].valid
  BY UnusedOK
<1>3. /\ slot_bitmap' \in [Dirs -> [Buckets -> SUBSET Slots]]
      /\ big_bitmap' \in [Dirs -> [BigBuckets -> SUBSET (0 .. NS)]]
  BY DEF EmptyTables
<1>4. /\ istate' \in [Inodes -> {"free", "new", "linked", "orphan", "leaked"}]
      /\ \A i \in Inodes : istate'[i] # "linked"
  BY DEF TypeOK
<1>5. /\ op' = op
      /\ \A d \in Dirs : op[d].pc = "idle" /\ op[d].ino = Negative
  BY DEF OpInv, OpOK
<1>6. TypeOK'
  <2>1. /\ is_big_dir' \in [Dirs -> BOOLEAN]
        /\ dentry' \in [Dirs -> [Names -> Inodes \union {Negative, Unhashed}]]
        /\ spoiled' = {}
        /\ users' \in [Pages -> SUBSET (Dirs \X BOOLEAN \X BucketIds)]
    OBVIOUS
  <2> QED BY <1>2, <1>3, <1>4, <2>1 DEF TypeOK
<1>7. OpInv' /\ OpDistinct'
  BY <1>5 DEF OpInv, OpOK, OpDistinct
<1>8. DentryInv'
  BY NameAssumption DEF DentryInv
<1>9. ValidInv' /\ SlotSet' /\ SlotUnique'
  BY <1>2, <1>4 DEF ValidInv, SlotSet, SlotUnique, HasSlot
<1>10. PrivInv'
  BY <1>5 DEF PrivInv
<1>11. \A p \in Pages : ~Pending(p)'
  BY DEF Pending
<1>12. DiscardInv' /\ DiscardSolo'
  BY <1>11 DEF DiscardInv, DiscardSolo
<1> QED BY <1>6, <1>7, <1>8, <1>9, <1>10, <1>12

\* Every step of flatfs keeps the inductive invariant.
LEMMA NextStep ==
    ASSUME IndexInv, [Next]_vars
    PROVE  IndexInv'
<1>1. CASE UNCHANGED vars
  <2>0. TypeOK /\ NamesInv /\ SlotInv /\ PrivInv
    BY Parts
  <2>1. UNCHANGED <<slot_bitmap, big_bitmap, is_big_dir, fi, istate, dentry, op,
                    page, io, dirty, priv, up, spoiled, users>>
    BY <1>1 DEF vars
  <2>2. TypeOK' /\ NamesInv' /\ PrivInv'
    BY <2>0, <2>1, SameNames, PrivFrame DEF TypeOK
  <2>3. SlotInv'
    BY <2>0, <2>1, SlotFrame, PendingFrame, HasFrame
  <2> QED BY <2>2, <2>3, Assemble
<1>2. ASSUME NEW d \in Dirs, DirOp(d)
      PROVE  IndexInv'
  <2>1. CASE MknodStart(d) \/ MknodSmall(d) \/ MknodResize(d)
    BY <2>1, MknodStartStep, MknodSmallStep, MknodResizeStep
  <2>2. CASE MknodBig(d) \/ MknodDirty(d)
    BY <2>2, MknodBigStep, MknodDirtyStep
  <2>3. CASE UnlinkStart(d) \/ UnlinkHeader(d) \/ UnlinkMark(d)
    BY <2>3, UnlinkStartStep, HeaderStep, MarkStep
  <2>4. CASE UnlinkSubmit(d) \/ UnlinkInvalidate(d) \/ UnlinkDrop(d)
    BY <2>4, SubmitStep, InvalidateStep, UnlinkDropStep
  <2>5. CASE simple_link(d) \/ \E e \in Dirs : simple_rename(d, e)
    BY <2>5, LinkStep, RenameStep
  <2> QED BY <1>2, <2>1, <2>2, <2>3, <2>4, <2>5 DEF DirOp
<1>3. ASSUME NEW p \in Pages, DiscardDone(p) \/ Flush(p) \/ FlushDone(p)
      PROVE  IndexInv'
  BY <1>3, DiscardDoneStep, FlushStep
<1>4. ASSUME NEW i \in Inodes, DirtyInode(i) \/ Evict(i)
      PROVE  IndexInv'
  BY <1>4, DirtyInodeStep, EvictStep
<1>5. CASE Remount
  BY <1>5, RemountStep
<1> QED BY <1>1, <1>2, <1>3, <1>4, <1>5 DEF Next

\* IndexInv holds in every reachable state, whatever the number of directories,
\* names, inodes and buckets, which directories share inode pages, and whether or
\* not spin locks lock and b_private is set.
THEOREM IndexInvariant == Spec => []IndexInv
<1>1. Init => IndexInv
  BY InitOK
<1>2. IndexInv /\ [Next]_vars => IndexInv'
  BY NextStep
<1> QED BY <1>1, <1>2, PTL DEF Spec

\* The state stays well typed: no operation writes past a bitmap or indexes a
\* table with a bucket it does not have.
THEOREM TypeCorrect == Spec => []TypeOK
<1>1. IndexInv => TypeOK
  BY DEF IndexInv
<1> QED BY <1>1, IndexInvariant, PTL

\* A live inode is valid, unless a stray discard was aimed at its place.
LEMMA LiveValid ==
    ASSUME ValidInv, NEW i \in Inodes, Live(i), Place(fi[i]) \notin spoiled
    PROVE  fi[i].valid
BY DEF Live, Unlinking, ValidInv

\* At a place no stray discard was aimed at, the bit of a live file is set and no other
\* live file has the slot (insert_file against the delete_file of a late completion).
THEOREM SlotsExclusive == Spec => []SlotExclusive
<1>1. IndexInv => SlotExclusive
  <2> SUFFICES ASSUME IndexInv PROVE SlotExclusive
    OBVIOUS
  <2>0. ValidInv /\ SlotSet /\ SlotUnique
    BY DEF IndexInv
  <2>1. SUFFICES ASSUME NEW i \in Inodes, Live(i), ~fi[i].big, Place(fi[i]) \notin spoiled
                 PROVE  /\ fi[i].slot \in slot_bitmap[fi[i].dir][fi[i].bucket]
                        /\ \A j \in Inodes \ {i} : Live(j) /\ ~fi[j].big => Place(fi[i]) # Place(fi[j])
    BY DEF SlotExclusive
  <2>2. ASSUME NEW j \in Inodes, Live(j), ~fi[j].big, Place(fi[j]) \notin spoiled
        PROVE  HasSlot(j)
    BY <2>0, <2>2, LiveValid DEF HasSlot, Live, Unlinking
  <2>3. HasSlot(i)
    BY <2>1, <2>2
  <2>4. fi[i].slot \in slot_bitmap[fi[i].dir][fi[i].bucket]
    BY <2>0, <2>3 DEF SlotSet
  <2>5. ASSUME NEW j \in Inodes \ {i}, Live(j), ~fi[j].big, Place(fi[i]) = Place(fi[j])
        PROVE  FALSE
    <3>1. HasSlot(j)
      BY <2>1, <2>2, <2>5
    <3> QED BY <2>0, <2>3, <2>5, <3>1 DEF SlotUnique
  <2> QED BY <2>4, <2>5
<1> QED BY <1>1, IndexInvariant, PTL

\* The steps that neither begin nor continue a create leave SmallInv alone.
LEMMA SmallFrame ==
    ASSUME TypeOK, SmallInv, UNCHANGED is_big_dir,
           \A e \in Dirs : op'[e].pc \in {"small", "resize"} => op'[e].pc = op[e].pc
    PROVE  SmallInv'
BY DEF SmallInv

\* Only a fresh create looks at the small table, and it does so after the test
\* of is_big_dir in ffs_mknod.
LEMMA SmallStep ==
    ASSUME IndexInv, SmallInv, [Next]_vars
    PROVE  SmallInv'
<1>0. TypeOK /\ op \in [Dirs -> OpType] /\ is_big_dir \in [Dirs -> BOOLEAN]
  BY DEF IndexInv, TypeOK, OpType
<1>1. CASE UNCHANGED vars
  BY <1>1 DEF vars, SmallInv
<1>2. ASSUME NEW d \in Dirs, DirOp(d)
      PROVE  SmallInv'
  <2>1. CASE MknodStart(d)
    <3>1. PICK n \in Names, i \in Inodes :
            op' = [op EXCEPT ![d] = [pc |-> StartPc(d), name |-> n, ino |-> i]]
      BY <2>1 DEF MknodStart
    <3>2. UNCHANGED is_big_dir
      BY <2>1 DEF MknodStart
    <3>3. op'[d].pc = StartPc(d) /\ \A e \in Dirs \ {d} : op'[e] = op[e]
      BY <1>0, <3>1
    <3> QED BY <3>2, <3>3 DEF SmallInv, StartPc
  <2>2. CASE MknodSmall(d)
    <3>1. UNCHANGED is_big_dir /\ op[d].pc = "small"
      BY <2>2 DEF MknodSmall
    <3>2. \A e \in Dirs \ {d} : op'[e] = op[e]
      BY <1>0, <2>2 DEF MknodSmall
    <3> QED BY <3>1, <3>2 DEF SmallInv
  <2>3. CASE MknodResize(d)
    <3>1. op'[d].pc \in {"idle", "big"} /\ \A e \in Dirs \ {d} : op'[e] = op[e]
      BY <1>0, <2>3 DEF MknodResize, IdleOp
    <3>2. \A e \in Dirs \ {d} : is_big_dir'[e] = is_big_dir[e]
      BY <1>0, <2>3 DEF MknodResize
    <3> QED BY <3>1, <3>2 DEF SmallInv
  <2>4. CASE MknodBig(d) \/ MknodDirty(d)
    BY <1>0, <2>4, SmallFrame DEF MknodBig, MknodDirty, IdleOp
  <2>5. CASE UnlinkStart(d)
    BY <1>0, <2>5, SmallFrame DEF UnlinkStart
  <2>6. CASE UnlinkHeader(d) \/ UnlinkMark(d) \/ UnlinkSubmit(d) \/ UnlinkInvalidate(d)
    BY <1>0, <2>6, SmallFrame DEF UnlinkHeader, UnlinkMark, UnlinkSubmit, UnlinkInvalidate
  <2>7. CASE UnlinkDrop(d)
    BY <1>0, <2>7, SmallFrame DEF UnlinkDrop, IdleOp
  <2>8. CASE simple_link(d) \/ \E e \in Dirs : simple_rename(d, e)
    BY <2>8 DEF simple_link, simple_rename, SmallInv
  <2> QED BY <1>2, <2>1, <2>2, <2>3, <2>4, <2>5, <2>6, <2>7, <2>8 DEF DirOp
<1>3. ASSUME NEW p \in Pages, DiscardDone(p) \/ Flush(p) \/ FlushDone(p)
      PROVE  SmallInv'
  BY <1>3 DEF DiscardDone, Flush, FlushDone, SmallInv
<1>4. ASSUME NEW i \in Inodes, DirtyInode(i) \/ Evict(i)
      PROVE  SmallInv'
  BY <1>4 DEF DirtyInode, Evict, SmallInv
<1>5. CASE Remount
  BY <1>5 DEF Remount, SmallInv
<1> QED BY <1>1, <1>2, <1>3, <1>4, <1>5 DEF Next

\* No step sets a bit of the small table of a directory that has become big.
LEMMA ShrinkStep ==
    ASSUME IndexInv, SmallInv, [Next]_vars
    PROVE  [\A d \in Dirs : is_big_dir[d] =>
              \A b \in Buckets : slot_bitmap'[d][b] \subseteq slot_bitmap[d][b]]_vars
<1>0. /\ slot_bitmap \in [Dirs -> [Buckets -> SUBSET Slots]]
      /\ is_big_dir \in [Dirs -> BOOLEAN]
  BY DEF IndexInv, TypeOK
<1> SUFFICES ASSUME NEW e \in Dirs, is_big_dir[e], NEW b \in Buckets
             PROVE  slot_bitmap'[e][b] \subseteq slot_bitmap[e][b]
  OBVIOUS
<1>1. CASE UNCHANGED vars
  BY <1>1 DEF vars
<1>2. ASSUME NEW d \in Dirs, DirOp(d)
      PROVE  slot_bitmap'[e][b] \subseteq slot_bitmap[e][b]
  <2>1. CASE MknodSmall(d)
    <3>1. ~is_big_dir[d]
      BY <2>1 DEF SmallInv, MknodSmall
    <3>2. \/ slot_bitmap' = slot_bitmap
          \/ \E c, s : slot_bitmap' = [slot_bitmap EXCEPT ![d][c] = @ \union {s}]
      BY <2>1 DEF MknodSmall
    <3>3. slot_bitmap'[e] = slot_bitmap[e]
      BY <1>0, <3>1, <3>2
    <3> QED BY <3>3
  <2>2. CASE ~MknodSmall(d)
    <3>1. slot_bitmap' = slot_bitmap
      BY <1>2, <2>2 DEF DirOp, MknodStart, MknodResize, MknodBig, MknodDirty, UnlinkStart,
                        UnlinkHeader, UnlinkMark, UnlinkSubmit, UnlinkInvalidate, UnlinkDrop,
                        simple_link, simple_rename
    <3> QED BY <3>1
  <2> QED BY <2>1, <2>2
<1>3. ASSUME NEW p \in Pages, DiscardDone(p)
      PROVE  slot_bitmap'[e][b] \subseteq slot_bitmap[e][b]
  <2>1. \/ slot_bitmap' = slot_bitmap
        \/ /\ priv[p].bucket \in Buckets
           /\ slot_bitmap' = [slot_bitmap EXCEPT ![priv[p].dir][priv[p].bucket] = @ \ {priv[p].slot}]
    BY <1>3 DEF DiscardDone, delete_file, delete_big_file
  <2>2. priv[p].dir \in Dirs
    BY DEF IndexInv, TypeOK, IoEnd
  <2> QED BY <1>0, <2>1, <2>2
<1>4. ASSUME NEW p \in Pages, Flush(p) \/ FlushDone(p)
      PROVE  slot_bitmap' = slot_bitmap
  BY <1>4 DEF Flush, FlushDone
<1>5. ASSUME NEW i \in Inodes, DirtyInode(i) \/ Evict(i)
      PROVE  slot_bitmap' = slot_bitmap
  BY <1>5 DEF DirtyInode, Evict
<1>6. CASE Remount
  BY <1>6 DEF Remount, EmptyTables
<1> QED BY <1>1, <1>2, <1>3, <1>4, <1>5, <1>6 DEF Next

\* Once a directory is big, ffs_mknod never again puts a file into its small
\* table, so that table only drains.
THEOREM SmallTableDrains == Spec => SmallOnlyShrinks
<1>1. Init => SmallInv
  BY DEF Init, SmallInv, IdleOp
<1>2. IndexInv /\ SmallInv /\ [Next]_vars => SmallInv'
  BY SmallStep
<1>3. IndexInv /\ SmallInv /\ [Next]_vars =>
        [\A d \in Dirs : is_big_dir[d] =>
           \A b \in Buckets : slot_bitmap'[d][b] \subseteq slot_bitmap[d][b]]_vars
  BY ShrinkStep
<1> QED BY <1>1, <1>2, <1>3, IndexInvariant, PTL DEF Spec, SmallOnlyShrinks

-----------------------------------------------------------------------------
(* The inode pages.  Besides IndexInv the proof needs who has used a page    *)
(* (UsedInv) and that a slot between its discard and fi->valid = 0 is        *)
(* nobody's (GivenAway).  Four lemmas say where a state comes from.          *)

DropPc == {"header", "mark", "submit", "invalidate", "drop", "oops"}

\* Only an operation of the directory itself moves op[d].
LEMMA OpMoves ==
    ASSUME TypeOK, [Next]_vars, NEW d \in Dirs, op'[d] # op[d]
    PROVE  DirOp(d) /\ ~simple_link(d) /\ ~\E e \in Dirs : simple_rename(d, e)
<1>0. op \in [Dirs -> OpType]
  BY DEF TypeOK, OpType
<1>1. ASSUME NEW e \in Dirs, DirOp(e), e # d PROVE op'[d] = op[d]
  <2>1. CASE MknodStart(e) \/ UnlinkStart(e)
    BY <1>0, <1>1, <2>1 DEF MknodStart, UnlinkStart
  <2>2. CASE MknodSmall(e) \/ MknodBig(e) \/ MknodResize(e) \/ MknodDirty(e)
    BY <1>0, <1>1, <2>2 DEF MknodSmall, MknodBig, MknodResize, MknodDirty
  <2>3. CASE UnlinkHeader(e) \/ UnlinkMark(e) \/ UnlinkSubmit(e)
    BY <1>0, <1>1, <2>3 DEF UnlinkHeader, UnlinkMark, UnlinkSubmit
  <2>4. CASE UnlinkInvalidate(e) \/ UnlinkDrop(e)
    BY <1>0, <1>1, <2>4 DEF UnlinkInvalidate, UnlinkDrop
  <2>5. CASE simple_link(e) \/ \E f \in Dirs : simple_rename(e, f)
    BY <2>5 DEF simple_link, simple_rename
  <2> QED BY <1>1, <2>1, <2>2, <2>3, <2>4, <2>5 DEF DirOp
<1>2. ASSUME NEW p \in Pages, DiscardDone(p) \/ Flush(p) \/ FlushDone(p) PROVE op' = op
  BY <1>2 DEF DiscardDone, Flush, FlushDone
<1>3. ASSUME NEW i \in Inodes, DirtyInode(i) \/ Evict(i) PROVE op' = op
  BY <1>3 DEF DirtyInode, Evict
<1>4. CASE Remount \/ UNCHANGED vars
  BY <1>4 DEF Remount, vars
<1>5. simple_link(d) \/ (\E e \in Dirs : simple_rename(d, e)) => op' = op
  BY DEF simple_link, simple_rename
<1> QED BY <1>1, <1>2, <1>3, <1>4, <1>5 DEF Next

\* An unlink goes on until its drop.
LEMMA UnlinkGoesOn ==
    ASSUME TypeOK, [Next]_vars, NEW d \in Dirs, op[d].pc \in DropPc
    PROVE  \/ op'[d] = op[d]
           \/ op'[d].ino = op[d].ino /\ op'[d].pc \in DropPc
           \/ UnlinkDrop(d)
<1>0. op \in [Dirs -> OpType]
  BY DEF TypeOK, OpType
<1>1. CASE op'[d] # op[d]
  <2>1. DirOp(d) /\ ~simple_link(d) /\ ~\E e \in Dirs : simple_rename(d, e)
    BY <1>1, OpMoves
  <2>2. UnlinkHeader(d) \/ UnlinkMark(d) \/ UnlinkSubmit(d) \/ UnlinkInvalidate(d) \/ UnlinkDrop(d)
    BY <2>1 DEF DirOp, DropPc, MknodStart, MknodSmall, MknodResize, MknodBig, MknodDirty, UnlinkStart
  <2>3. CASE UnlinkHeader(d) \/ UnlinkMark(d) \/ UnlinkSubmit(d) \/ UnlinkInvalidate(d)
    BY <1>0, <2>3 DEF UnlinkHeader, UnlinkMark, UnlinkSubmit, UnlinkInvalidate, DropPc
  <2> QED BY <2>2, <2>3
<1> QED BY <1>1

\* Where the states of an unlink between its header and its fi->valid = 0 come from.
LEMMA UnlinkCameFrom ==
    ASSUME TypeOK, [Next]_vars, NEW d \in Dirs, op'[d].pc \in {"mark", "submit", "invalidate"}
    PROVE  /\ \/ UnlinkHeader(d)
              \/ op[d].pc \in {"mark", "submit", "invalidate"} /\ op'[d].ino = op[d].ino
           /\ op'[d].pc = "invalidate" => op'[d] = op[d] \/ UnlinkSubmit(d)
<1>0. op \in [Dirs -> OpType]
  BY DEF TypeOK, OpType
<1>1. CASE op'[d] # op[d]
  <2>1. DirOp(d) /\ ~simple_link(d) /\ ~\E e \in Dirs : simple_rename(d, e)
    BY <1>1, OpMoves
  <2>2. CASE MknodStart(d) \/ UnlinkStart(d)
    BY <1>0, <2>2 DEF MknodStart, UnlinkStart, StartPc
  <2>3. CASE MknodSmall(d) \/ MknodBig(d) \/ MknodResize(d) \/ MknodDirty(d)
    <3>1. \E pc \in {"dirty", "resize", "big"} : Goto(d, pc) \/ Return(d)
      BY <2>3 DEF MknodSmall, MknodBig, MknodResize, MknodDirty
    <3> QED BY <1>0, <3>1 DEF IdleOp
  <2>4. CASE UnlinkInvalidate(d) \/ UnlinkDrop(d)
    BY <1>0, <2>4 DEF UnlinkInvalidate, UnlinkDrop, IdleOp
  <2>5. CASE UnlinkHeader(d)
    BY <1>0, <2>5 DEF UnlinkHeader
  <2>6. CASE UnlinkMark(d)
    BY <1>0, <2>6 DEF UnlinkMark
  <2>7. CASE UnlinkSubmit(d)
    BY <1>0, <2>7 DEF UnlinkSubmit
  <2> QED BY <2>1, <2>2, <2>3, <2>4, <2>5, <2>6, <2>7 DEF DirOp
<1>2. CASE op'[d] = op[d]
  BY <1>2
<1> QED BY <1>1, <1>2

\* What a step does to the ffs_inode_info and the state of inode i.
InodeMove(i) ==
    \/ fi'[i] = fi[i] /\ istate'[i] = istate[i]
    \/ fi'[i] = fi[i] /\ istate'[i] \in {"new", "orphan", "leaked"}
    \/ ~fi'[i].valid /\ istate'[i] # "linked"
    \/ \E d \in Dirs : MknodDirty(d) /\ op[d].ino = i /\ fi'[i] = fi[i]
    \/ \E d \in Dirs : /\ op[d].pc \in {"small", "big"} /\ op'[d].pc = "dirty"
                       /\ fi'[i].dir = d /\ istate'[i] = "new"
    \/ \E d \in Dirs : /\ UnlinkInvalidate(d) /\ op[d].ino = i
                       /\ ~fi'[i].valid /\ istate'[i] = istate[i]
                       /\ fi'[i].big = fi[i].big /\ Place(fi'[i]) = Place(fi[i])

LEMMA InodeStep ==
    ASSUME IndexInv, [Next]_vars, NEW i \in Inodes
    PROVE  InodeMove(i)
<1>0. /\ TypeOK /\ OpInv /\ op \in [Dirs -> OpType]
      /\ fi \in [Inodes -> FileInfo] /\ istate \in [Inodes -> IState]
  BY DEF IndexInv, TypeOK, OpType, IState
<1> USE DEF InodeMove
<1>1. ASSUME NEW d \in Dirs, DirOp(d) PROVE InodeMove(i)
  <2>0. PICK k : k = op[d].ino
    OBVIOUS
  <2>1. CASE MknodStart(d)
    <3>1. fi' = fi /\ \E j \in Inodes : istate' = [istate EXCEPT ![j] = "new"]
      BY <2>1 DEF MknodStart
    <3> QED BY <1>0, <3>1
  <2>2. CASE MknodSmall(d) \/ MknodBig(d)
    <3>1. /\ op[d].pc \in {"small", "big"} /\ istate' = istate /\ k \in Inodes /\ istate[k] = "new"
      BY <1>0, <2>0, <2>2 DEF MknodSmall, MknodBig, OpInv, OpOK, CreatePc
    <3>2. fi' = fi \/ (op'[d].pc = "dirty" /\ \E f : f.dir = d /\ fi' = [fi EXCEPT ![k] = f])
      <4>1. CASE MknodSmall(d)
        BY <1>0, <2>0, <4>1 DEF MknodSmall
      <4>2. CASE MknodBig(d)
        <5>1. op'[d].pc = "dirty"
          BY <1>0, <4>2 DEF MknodBig
        <5>2. PICK b, s : fi' = [fi EXCEPT ![k] = [dir |-> d, bucket |-> b, slot |-> s, big |-> TRUE,
                                                 valid |-> TRUE, name |-> op[d].name]]
          BY <2>0, <4>2 DEF MknodBig
        <5> QED BY <5>1, <5>2
      <4> QED BY <2>2, <4>1, <4>2
    <3>3. CASE i = k /\ fi' # fi
      BY <1>0, <3>1, <3>2, <3>3
    <3>4. CASE i # k \/ fi' = fi
      BY <1>0, <3>1, <3>2, <3>4
    <3> QED BY <3>3, <3>4
  <2>3. CASE MknodResize(d)
    <3>1. fi' = fi /\ (istate' = istate \/ istate' = [istate EXCEPT ![k] = "leaked"])
      BY <2>0, <2>3 DEF MknodResize
    <3> QED BY <1>0, <3>1
  <2>4. CASE MknodDirty(d)
    <3>1. fi' = fi /\ istate' = [istate EXCEPT ![k] = "linked"]
      BY <2>0, <2>4 DEF MknodDirty
    <3> QED BY <1>0, <2>0, <2>4, <3>1
  <2>5. CASE UnlinkStart(d) \/ UnlinkHeader(d) \/ UnlinkMark(d) \/ UnlinkSubmit(d)
    BY <2>5 DEF UnlinkStart, UnlinkHeader, UnlinkMark, UnlinkSubmit
  <2>6. CASE UnlinkInvalidate(d)
    <3>1. fi' = [fi EXCEPT ![k].valid = FALSE, ![k].name = NoName] /\ istate' = istate
      BY <2>0, <2>6 DEF UnlinkInvalidate
    <3>2. CASE i = k
      <4>1. ~fi'[i].valid /\ fi'[i].big = fi[i].big /\ Place(fi'[i]) = Place(fi[i])
        BY <1>0, <3>1, <3>2 DEF FileInfo, Place
      <4> QED BY <2>0, <2>6, <3>1, <3>2, <4>1
    <3> QED BY <1>0, <3>1, <3>2
  <2>7. CASE UnlinkDrop(d)
    <3>1. \/ UNCHANGED <<fi, istate>>
          \/ istate' = [istate EXCEPT ![k] = "orphan"] /\ fi' = fi
          \/ istate' = [istate EXCEPT ![k] = "free"] /\ fi' = [fi EXCEPT ![k] = UnusedInfo]
      BY <2>0, <2>7 DEF UnlinkDrop
    <3> QED BY <1>0, <3>1, UnusedOK
  <2>8. CASE simple_link(d)
    BY <2>8 DEF simple_link
  <2>9. CASE \E e \in Dirs : simple_rename(d, e)
    <3>1. \E j \in Inodes :
            \/ UNCHANGED <<fi, istate>>
            \/ istate' = [istate EXCEPT ![j] = "orphan"] /\ fi' = fi
            \/ istate' = [istate EXCEPT ![j] = "free"] /\ fi' = [fi EXCEPT ![j] = UnusedInfo]
      BY <2>9 DEF simple_rename, Replaced
    <3> QED BY <1>0, <3>1, UnusedOK
  <2> HIDE DEF InodeMove
  <2> QED BY <1>1, <2>1, <2>2, <2>3, <2>4, <2>5, <2>6, <2>7, <2>8, <2>9 DEF DirOp
<1>2. ASSUME NEW p \in Pages, DiscardDone(p) \/ Flush(p) \/ FlushDone(p) PROVE InodeMove(i)
  BY <1>2 DEF DiscardDone, Flush, FlushDone
<1>3. ASSUME NEW j \in Inodes, DirtyInode(j) \/ Evict(j) PROVE InodeMove(i)
  <2>1. CASE DirtyInode(j)
    BY <2>1 DEF DirtyInode
  <2>2. CASE Evict(j)
    BY <1>0, <2>2, UnusedOK DEF Evict
  <2> QED BY <1>3, <2>1, <2>2
<1>4. CASE Remount
  <2>1. fi'[i] = UnusedInfo /\ istate'[i] # "linked"
    BY <1>0, <1>4 DEF Remount
  <2> QED BY <2>1, UnusedOK
<1>5. CASE UNCHANGED vars
  BY <1>5 DEF vars
<1> HIDE DEF InodeMove
<1> QED BY <1>1, <1>2, <1>3, <1>4, <1>5 DEF Next

\* The history only grows, until the file system is unmounted.
LEMMA HistoryGrows ==
    ASSUME TypeOK, [Next]_vars, ~Remount
    PROVE  spoiled \subseteq spoiled' /\ \A p \in Pages : users[p] \subseteq users'[p]
<1>0. users \in [Pages -> SUBSET (Dirs \X BOOLEAN \X BucketIds)]
  BY DEF TypeOK
<1>1. ASSUME NEW i, ffs_dirty_inode(i)
      PROVE  spoiled \subseteq spoiled' /\ \A p \in Pages : users[p] \subseteq users'[p]
  <2>1. PICK t : t = <<fi[i].dir, fi[i].big, fi[i].bucket>>
    OBVIOUS
  <2>2. spoiled' = spoiled /\ (users' = users \/ users' = [users EXCEPT ![PageOf(i)] = @ \union {t}])
    BY <1>1, <2>1 DEF ffs_dirty_inode
  <2> QED BY <1>0, <2>2
<1>2. ASSUME NEW d \in Dirs, DirOp(d)
      PROVE  spoiled \subseteq spoiled' /\ \A p \in Pages : users[p] \subseteq users'[p]
  <2>1. CASE UnlinkHeader(d)
    <3>1. PICK i, t : i = op[d].ino /\ t = <<d, fi[i].big, fi[i].bucket>>
      OBVIOUS
    <3>2. users' = [users EXCEPT ![PageOf(i)] = @ \union {t}] /\ spoiled \subseteq spoiled'
      BY <2>1, <3>1 DEF UnlinkHeader
    <3> QED BY <1>0, <3>2
  <2>2. CASE MknodDirty(d) \/ UnlinkDrop(d)
    BY <2>2, <1>1 DEF MknodDirty, UnlinkDrop
  <2>3. CASE ~(UnlinkHeader(d) \/ MknodDirty(d) \/ UnlinkDrop(d))
    <3>1. UNCHANGED <<spoiled, users>>
      BY <1>2, <2>3 DEF DirOp, MknodStart, MknodSmall, MknodResize, MknodBig, UnlinkStart,
                        UnlinkMark, UnlinkSubmit, UnlinkInvalidate, simple_link, simple_rename
    <3> QED BY <3>1
  <2> QED BY <2>1, <2>2, <2>3
<1>3. ASSUME NEW p \in Pages, DiscardDone(p) \/ Flush(p) \/ FlushDone(p)
      PROVE  UNCHANGED <<spoiled, users>>
  BY <1>3 DEF DiscardDone, Flush, FlushDone
<1>4. ASSUME NEW i \in Inodes, DirtyInode(i) \/ Evict(i)
      PROVE  UNCHANGED <<spoiled, users>> \/ ffs_dirty_inode(i)
  BY <1>4 DEF DirtyInode, Evict
<1>5. CASE UNCHANGED vars
  BY <1>5 DEF vars
<1> QED BY <1>1, <1>2, <1>3, <1>4, <1>5 DEF Next

\* A file that has a name after a step, and was not just created, had one before it,
\* at the same place.
LEMMA LinkedBefore ==
    ASSUME IndexInv, [Next]_vars, NEW i \in Inodes, istate'[i] = "linked",
           ~\E d \in Dirs : MknodDirty(d) /\ op[d].ino = i
    PROVE  /\ istate[i] = "linked" /\ ~Remount
           /\ fi'[i].big = fi[i].big /\ Place(fi'[i]) = Place(fi[i])
           /\ fi'[i] = fi[i] \/ \E d \in Dirs : UnlinkInvalidate(d) /\ op[d].ino = i
<1>1. InodeMove(i)
  BY InodeStep
<1>2. ~Remount
  BY DEF Remount, IndexInv, TypeOK
<1> QED BY <1>1, <1>2 DEF InodeMove

\* Who has used a page stays known.
LEMMA UsedStep ==
    ASSUME IndexInv, UsedInv, [Next]_vars
    PROVE  UsedInv'
<1>0. TypeOK /\ OpInv /\ IndexInv'
  BY NextStep DEF IndexInv
<1>1. ASSUME NEW i \in Inodes, istate'[i] = "linked"
      PROVE  <<fi'[i].dir, fi'[i].big, fi'[i].bucket>> \in users'[PageOf(i)']
  <2>1. CASE \E d \in Dirs : MknodDirty(d) /\ op[d].ino = i
    <3>1. PICK d \in Dirs : MknodDirty(d) /\ op[d].ino = i
      BY <2>1
    <3>2. fi[i].valid /\ fi' = fi /\ ffs_dirty_inode(i) /\ PageOf(i) \in Pages
      BY <3>1, <1>0, PageOfType DEF MknodDirty, OpInv, OpOK
    <3>3. PICK t : t = <<fi[i].dir, fi[i].big, fi[i].bucket>>
      OBVIOUS
    <3>4. users' = [users EXCEPT ![PageOf(i)] = @ \union {t}]
      BY <3>2, <3>3 DEF ffs_dirty_inode
    <3>5. t \in users'[PageOf(i)]
      BY <3>2, <3>4, <1>0 DEF TypeOK
    <3>6. PageOf(i)' = PageOf(i)
      BY <3>2 DEF PageOf
    <3> QED BY <3>2, <3>3, <3>5, <3>6
  <2>2. CASE ~\E d \in Dirs : MknodDirty(d) /\ op[d].ino = i
    <3>1. /\ istate[i] = "linked" /\ ~Remount
          /\ fi'[i].big = fi[i].big /\ Place(fi'[i]) = Place(fi[i])
      BY <1>1, <2>2, LinkedBefore
    <3>2. fi'[i].dir = fi[i].dir /\ fi'[i].bucket = fi[i].bucket
      BY <3>1, SamePlace
    <3>3. PageOf(i)' = PageOf(i) /\ PageOf(i) \in Pages
      BY <3>1, <3>2, <1>0, PageOfType DEF PageOf
    <3>4. users[PageOf(i)] \subseteq users'[PageOf(i)]
      BY <3>1, <3>3, <1>0, HistoryGrows
    <3>5. <<fi[i].dir, fi[i].big, fi[i].bucket>> \in users[PageOf(i)]
      BY <3>1 DEF UsedInv
    <3> QED BY <3>1, <3>2, <3>3, <3>4, <3>5
  <2> QED BY <2>1, <2>2
<1>2. ASSUME NEW d \in Dirs, op'[d].pc \in {"mark", "submit", "invalidate"}, NEW i, i = op'[d].ino
      PROVE  <<d, fi'[i].big, fi'[i].bucket>> \in users'[PageOf(i)']
  <2>1. CASE UnlinkHeader(d)
    <3>1. i = op[d].ino /\ fi' = fi /\ i \in Inodes /\ PageOf(i) \in Pages
      BY <1>0, <1>2, <2>1, PageOfType, OpIno DEF UnlinkHeader, TypeOK
    <3>2. PICK t : t = <<d, fi[i].big, fi[i].bucket>>
      OBVIOUS
    <3>3. users' = [users EXCEPT ![PageOf(i)] = @ \union {t}]
      BY <2>1, <3>1, <3>2 DEF UnlinkHeader
    <3>4. t \in users'[PageOf(i)]
      BY <3>1, <3>3, <1>0 DEF TypeOK
    <3>5. PageOf(i)' = PageOf(i)
      BY <3>1 DEF PageOf
    <3> QED BY <3>1, <3>2, <3>4, <3>5
  <2>2. CASE ~UnlinkHeader(d)
    <3>1. op[d].pc \in {"mark", "submit", "invalidate"} /\ i = op[d].ino
      BY <1>0, <1>2, <2>2, UnlinkCameFrom
    <3>2. OpOK(d) /\ OpOK(d)'
      BY <1>0 DEF OpInv, IndexInv
    <3>3. i \in Inodes /\ istate[i] = "linked"
      BY <3>1, <3>2 DEF OpOK, UnlinkPc
    <3>4. istate'[i] = "linked"
      BY <1>2, <3>2 DEF OpOK, UnlinkPc
    <3>5. ~\E e \in Dirs : MknodDirty(e) /\ op[e].ino = i
      BY <1>0, <3>3 DEF MknodDirty, OpInv, OpOK
    <3>6. /\ ~Remount
          /\ fi'[i].big = fi[i].big /\ Place(fi'[i]) = Place(fi[i])
      BY <3>3, <3>4, <3>5, LinkedBefore
    <3>7. fi'[i].dir = fi[i].dir /\ fi'[i].bucket = fi[i].bucket
      BY <3>6, SamePlace
    <3>8. PageOf(i)' = PageOf(i) /\ PageOf(i) \in Pages
      BY <3>3, <3>6, <3>7, <1>0, PageOfType DEF PageOf
    <3>9. users[PageOf(i)] \subseteq users'[PageOf(i)]
      BY <3>6, <3>8, <1>0, HistoryGrows
    <3>10. <<d, fi[i].big, fi[i].bucket>> \in users[PageOf(i)]
      BY <3>1 DEF UsedInv
    <3> QED BY <3>6, <3>7, <3>8, <3>9, <3>10
  <2> QED BY <2>1, <2>2
<1>3. \A d \in Dirs : \A i : op'[d].pc \in {"mark", "submit", "invalidate"} /\ i = op'[d].ino =>
         <<d, fi'[i].big, fi'[i].bucket>> \in users'[PageOf(i)']
  BY <1>2
<1> QED BY <1>1, <1>3 DEF UsedInv, PageOf

\* Only insert_file gives a slot away, in the directory that its create holds.
LEMMA SlotBefore ==
    ASSUME IndexInv, [Next]_vars, ~Remount, NEW i \in Inodes, HasSlot(i)'
    PROVE  \/ HasSlot(i) /\ fi'[i] = fi[i]
           \/ fi'[i].dir \in Dirs /\ op'[fi'[i].dir].pc = "dirty"
<1>0. TypeOK /\ spoiled \subseteq spoiled'
  BY HistoryGrows DEF IndexInv
<1>1. InodeMove(i)
  BY InodeStep
<1>2. CASE fi'[i] = fi[i]
  <2>1. ASSUME NEW d \in Dirs, op[d].ino = i, op[d].pc = "invalidate", op'[d] # op[d] PROVE FALSE
    <3>1. DirOp(d) /\ ~simple_link(d) /\ ~\E e \in Dirs : simple_rename(d, e)
      BY <1>0, <2>1, OpMoves
    <3>2. UnlinkInvalidate(d)
      BY <2>1, <3>1 DEF DirOp, MknodStart, MknodSmall, MknodResize, MknodBig, MknodDirty, UnlinkStart,
                        UnlinkHeader, UnlinkMark, UnlinkSubmit, UnlinkDrop
    <3>3. fi' = [fi EXCEPT ![i].valid = FALSE, ![i].name = NoName]
      BY <2>1, <3>2 DEF UnlinkInvalidate
    <3>4. ~fi'[i].valid
      BY <1>0, <3>3 DEF TypeOK, FileInfo
    <3> QED BY <3>4 DEF HasSlot
  <2> QED BY <1>0, <1>2, <2>1, HasFrame
<1>3. CASE fi'[i] # fi[i]
  BY <1>1, <1>3 DEF InodeMove, HasSlot
<1> QED BY <1>2, <1>3

\* A slot whose discard is under way stays nobody's until the file is invalid.
LEMMA GivenStep ==
    ASSUME IndexInv, GivenAway, [Next]_vars
    PROVE  GivenAway'
<1>0. TypeOK /\ OpInv /\ OpDistinct /\ SlotUnique /\ IndexInv'
  BY NextStep DEF IndexInv
<1> SUFFICES ASSUME NEW d \in Dirs, NEW i \in Inodes, NEW j, j = op'[d].ino,
                    op'[d].pc = "invalidate", fi'[j].dir = d, ~fi'[j].big, HasSlot(i)',
                    Place(fi'[i]) = Place(fi'[j])
             PROVE  FALSE
  BY DEF GivenAway
<1>1. fi'[i].dir = d
  BY SamePlace
<1>2. ~Remount
  BY <1>0 DEF Remount
<1>3. HasSlot(i) /\ fi'[i] = fi[i]
  BY <1>1, <1>2, SlotBefore
<1>4. op[d].pc \in {"mark", "submit", "invalidate"} /\ j = op[d].ino
  <2>1. CASE UnlinkHeader(d)
    BY <1>0, <2>1 DEF UnlinkHeader, TypeOK
  <2> QED BY <1>0, <2>1, UnlinkCameFrom
<1>5. OpOK(d) /\ OpOK(d)'
  BY <1>0 DEF OpInv, IndexInv
<1>6. j \in Inodes /\ istate[j] = "linked" /\ (fi[j].valid \/ Place(fi[j]) \in spoiled)
  BY <1>4, <1>5 DEF OpOK, UnlinkPc
<1>7. istate'[j] = "linked"
  BY <1>5 DEF OpOK, UnlinkPc
<1>8. ~\E e \in Dirs : MknodDirty(e) /\ op[e].ino = j
  BY <1>0, <1>6 DEF MknodDirty, OpInv, OpOK
<1>9. fi'[j].big = fi[j].big /\ Place(fi'[j]) = Place(fi[j])
  BY <1>6, <1>7, <1>8, LinkedBefore
<1>10. fi[j].dir = d /\ ~fi[j].big /\ Place(fi[i]) = Place(fi[j])
  BY <1>3, <1>9, SamePlace
<1>11. CASE op[d].pc = "invalidate"
  BY <1>3, <1>4, <1>10, <1>11 DEF GivenAway
<1>12. CASE op[d].pc # "invalidate"
  <2>1. \A e \in Dirs : op[e].ino = j => op[e].pc # "invalidate"
    BY <1>0, <1>4, <1>6, <1>12, OtherIno
  <2>2. HasSlot(j)
    BY <1>3, <1>6, <1>10, <2>1 DEF HasSlot
  <2>3. i = j
    BY <1>0, <1>3, <1>6, <1>10, <2>2 DEF SlotUnique
  <2> QED BY <2>3 DEF HasSlot
<1> QED BY <1>11, <1>12

\* A file that is live after a step at a place that is not spoiled, and was not just
\* created, was live before it.
LEMMA LiveBefore ==
    ASSUME IndexInv, [Next]_vars, NEW i \in Inodes, Live(i)', Place(fi'[i]) \notin spoiled',
           ~\E d \in Dirs : MknodDirty(d) /\ op[d].ino = i
    PROVE  Live(i) /\ fi'[i] = fi[i] /\ Place(fi[i]) \notin spoiled /\ ~Remount
<1>0. /\ TypeOK /\ op \in [Dirs -> OpType] /\ OpInv
      /\ fi \in [Inodes -> FileInfo] /\ istate \in [Inodes -> IState]
  BY DEF IndexInv, TypeOK, OpType, IState
<1>1. istate'[i] = "linked" /\ \A d \in Dirs : op'[d].ino = i => op'[d].pc \notin DropPc
  BY DEF Live, Unlinking, DropPc
<1>2. /\ istate[i] = "linked" /\ ~Remount /\ Place(fi'[i]) = Place(fi[i])
      /\ fi'[i] = fi[i] \/ \E d \in Dirs : UnlinkInvalidate(d) /\ op[d].ino = i
  BY <1>1, LinkedBefore
<1>3. Place(fi[i]) \notin spoiled
  BY <1>0, <1>2, HistoryGrows
<1>4. ASSUME NEW d \in Dirs, op[d].ino = i, op[d].pc \in DropPc PROVE FALSE
  <2>1. UnlinkDrop(d)
    BY <1>0, <1>1, <1>4, UnlinkGoesOn
  <2>2. ~OtherName(i, d, op[d].name)
    BY <1>0, <1>3, <1>4, <2>1 DEF UnlinkDrop, OpInv, OpOK
  <2>3. istate' = [istate EXCEPT ![i] = "orphan"] \/ istate' = [istate EXCEPT ![i] = "free"]
    BY <1>4, <2>1, <2>2 DEF UnlinkDrop
  <2> QED BY <1>0, <1>1, <2>3
<1>5. Live(i)
  BY <1>2, <1>4 DEF Live, Unlinking, DropPc
<1>6. ~\E d \in Dirs : UnlinkInvalidate(d) /\ op[d].ino = i
  BY <1>4 DEF UnlinkInvalidate, DropPc
<1> QED BY <1>2, <1>3, <1>5, <1>6

\* A live file, and one whose create is at its end, has its slot.
LEMMA LiveHasSlot ==
    ASSUME IndexInv, NEW i \in Inodes, ~fi[i].big, Place(fi[i]) \notin spoiled,
           Live(i) \/ \E d \in Dirs : op[d].pc = "dirty" /\ op[d].ino = i
    PROVE  HasSlot(i)
<1>0. ValidInv /\ OpInv /\ OpDistinct
  BY DEF IndexInv
<1>1. CASE Live(i)
  BY <1>0, <1>1, LiveValid DEF HasSlot, Live, Unlinking
<1>2. CASE \E d \in Dirs : op[d].pc = "dirty" /\ op[d].ino = i
  <2>1. PICK d \in Dirs : op[d].pc = "dirty" /\ op[d].ino = i
    BY <1>2
  <2>2. fi[i].valid
    BY <1>0, <2>1 DEF OpInv, OpOK
  <2>3. \A e \in Dirs : op[e].ino = i => op[e].pc # "invalidate"
    BY <1>0, <2>1, OtherIno
  <2> QED BY <2>2, <2>3 DEF HasSlot
<1> QED BY <1>1, <1>2

\* Only the bucket of file i has used its page, or nobody yet.
OwnPage(i) == users[PageOf(i)] \subseteq {<<fi[i].dir, FALSE, fi[i].bucket>>}

\* ffs_dirty_inode writes the raw inode of its own file.
LEMMA DirtyAgrees ==
    ASSUME IndexInv, UsedInv, GivenAway,
           NEW j \in Inodes, ffs_dirty_inode(j), NEW i \in Inodes, HasSlot(i),
           i # j => Agrees(i), fi'[i] = fi[i], OwnPage(i)'
    PROVE  Agrees(i)'
<1>1. /\ page \in [Pages -> PageContent] /\ PageOf(i) \in Pages /\ PageOf(j) \in Pages
      /\ fi[i].slot \in Slots /\ (fi[j].valid => fi[j].slot \in Slots)
      /\ fi[i].big = FALSE /\ fi[j].big \in BOOLEAN
      /\ users \in [Pages -> SUBSET (Dirs \X BOOLEAN \X BucketIds)]
  BY PageOfType DEF IndexInv, TypeOK, ValidInv, HasSlot, FileInfo
<1>2. PageOf(i)' = PageOf(i)
  BY DEF PageOf
<1>3. CASE ~fi[j].valid
  <2>1. page' = page /\ i # j
    BY <1>3 DEF ffs_dirty_inode, HasSlot
  <2> QED BY <2>1, <1>2 DEF Agrees
<1>4. CASE fi[j].valid
  <2>1. PICK c : c = Filled(page[PageOf(j)], fi[j])
    OBVIOUS
  <2>2. page' = [page EXCEPT ![PageOf(j)] = c]
    BY <1>4, <2>1 DEF ffs_dirty_inode
  <2>3. page[PageOf(j)].name \in [Slots -> Strings] /\ page[PageOf(j)].bitmap \in SUBSET Slots
    BY <1>1 DEF PageContent
  <2>4. /\ c.bitmap = page[PageOf(j)].bitmap \union {fi[j].slot}
        /\ c.name = [page[PageOf(j)].name EXCEPT ![fi[j].slot] = Overlay(page[PageOf(j)].name[fi[j].slot], fi[j].name)]
    BY <2>1 DEF Filled
  <2>5. page'[PageOf(j)] = c /\ (PageOf(i) # PageOf(j) => page'[PageOf(i)] = page[PageOf(i)])
    BY <1>1, <2>2
  <2>6. CASE i = j
    <3>1. PICK s : s = page[PageOf(j)].name[fi[j].slot]
      OBVIOUS
    <3>2. s \in Strings
      BY <1>1, <1>4, <2>3, <3>1
    <3>3. c.name[fi[i].slot] = Overlay(s, fi[i].name)
      BY <3>1, <2>3, <2>4, <2>6, <1>1
    <3>4. fi[i].slot \in c.bitmap
      BY <2>4, <2>6
    <3> QED BY <3>2, <3>3, <3>4, <2>5, <2>6, <1>2 DEF Agrees
  <2>7. CASE i # j /\ PageOf(i) # PageOf(j)
    BY <2>5, <2>7, <1>2 DEF Agrees
  <2>8. CASE i # j /\ PageOf(i) = PageOf(j)
    <3>1. PICK t : t = <<fi[j].dir, fi[j].big, fi[j].bucket>>
      OBVIOUS
    <3>2. users' = [users EXCEPT ![PageOf(j)] = @ \union {t}]
      BY <1>4, <3>1 DEF ffs_dirty_inode
    <3>3. t \in users'[PageOf(i)] /\ users[PageOf(i)] \subseteq users'[PageOf(i)]
      BY <1>1, <2>8, <3>2
    <3>4. users'[PageOf(i)] \subseteq {<<fi[i].dir, FALSE, fi[i].bucket>>}
      BY <1>2 DEF OwnPage
    <3>5. fi[j].dir = fi[i].dir /\ ~fi[j].big /\ fi[j].bucket = fi[i].bucket
      BY <3>1, <3>3, <3>4
    <3>6. fi[i].slot # fi[j].slot
      <4> SUFFICES ASSUME fi[i].slot = fi[j].slot PROVE FALSE
        OBVIOUS
      <4>1. Place(fi[i]) = Place(fi[j]) /\ Place(fi[j]) \notin spoiled
        BY <3>5 DEF Place, HasSlot
      <4>2. CASE HasSlot(j)
        BY <2>8, <4>1, <4>2 DEF IndexInv, SlotUnique
      <4>3. CASE ~HasSlot(j)
        <5>1. PICK d \in Dirs : op[d].ino = j /\ op[d].pc = "invalidate"
          BY <1>4, <3>5, <4>1, <4>3 DEF HasSlot
        <5>2. <<d, fi[j].big, fi[j].bucket>> \in users[PageOf(j)]
          BY <5>1 DEF UsedInv
        <5>3. <<d, fi[j].big, fi[j].bucket>> \in {<<fi[i].dir, FALSE, fi[i].bucket>>}
          BY <5>2, <2>8, <3>3, <3>4
        <5>4. d = fi[i].dir
          BY <5>3
        <5> QED BY <3>5, <4>1, <5>1, <5>4 DEF GivenAway
      <4> QED BY <4>2, <4>3
    <3>7. c.name[fi[i].slot] = page[PageOf(i)].name[fi[i].slot]
      BY <3>6, <2>3, <2>4, <2>8, <1>1
    <3> QED BY <3>7, <2>4, <2>5, <2>8, <1>2 DEF Agrees
  <2> QED BY <2>6, <2>7, <2>8
<1> QED BY <1>3, <1>4

\* ffs_unlink clears the header bit of its own file.
LEMMA HeaderAgrees ==
    ASSUME IndexInv, UsedInv, NEW d \in Dirs, UnlinkHeader(d),
           NEW i \in Inodes, HasSlot(i), i # op[d].ino, Agrees(i), OwnPage(i)'
    PROVE  Agrees(i)'
<1>1. PICK j : j = op[d].ino
  OBVIOUS
<1>2. /\ j \in Inodes /\ istate[j] = "linked" /\ (fi[j].valid \/ Place(fi[j]) \in spoiled)
      /\ op[d].pc = "header"
  BY <1>1 DEF IndexInv, OpInv, OpOK, UnlinkPc, UnlinkHeader
<1>3. /\ page \in [Pages -> PageContent] /\ PageOf(i) \in Pages /\ PageOf(j) \in Pages
      /\ users \in [Pages -> SUBSET (Dirs \X BOOLEAN \X BucketIds)]
  BY <1>2, PageOfType DEF IndexInv, TypeOK
<1>4. PICK c : c = [bitmap |-> page[PageOf(j)].bitmap \ {fi[j].slot}, name |-> page[PageOf(j)].name]
  OBVIOUS
<1>5. c.bitmap = page[PageOf(j)].bitmap \ {fi[j].slot} /\ c.name = page[PageOf(j)].name
  BY <1>4
<1>6. page' = [page EXCEPT ![PageOf(j)] = c]
  BY <1>1, <1>3, <1>4 DEF UnlinkHeader
<1>7. page'[PageOf(j)] = c /\ (PageOf(i) # PageOf(j) => page'[PageOf(i)] = page[PageOf(i)])
  BY <1>3, <1>6
<1>8. fi' = fi /\ PageOf(i)' = PageOf(i)
  BY DEF UnlinkHeader, PageOf
<1>9. ASSUME PageOf(i) = PageOf(j), fi[i].slot = fi[j].slot PROVE FALSE
  <2>1. PICK t : t = <<d, fi[j].big, fi[j].bucket>>
    OBVIOUS
  <2>2. users' = [users EXCEPT ![PageOf(j)] = @ \union {t}]
    BY <1>1, <2>1 DEF UnlinkHeader
  <2>3. users[PageOf(i)] \subseteq users'[PageOf(i)]
    BY <1>3, <2>2
  <2>4. users'[PageOf(i)] \subseteq {<<fi[i].dir, FALSE, fi[i].bucket>>}
    BY <1>8 DEF OwnPage
  <2>5. <<fi[j].dir, fi[j].big, fi[j].bucket>> \in users[PageOf(i)]
    BY <1>2, <1>9 DEF UsedInv
  <2>6. fi[j].dir = fi[i].dir /\ ~fi[j].big /\ fi[j].bucket = fi[i].bucket
    BY <2>3, <2>4, <2>5
  <2>7. Place(fi[i]) = Place(fi[j]) /\ Place(fi[j]) \notin spoiled
    BY <1>9, <2>6 DEF Place, HasSlot
  <2>8. \A e \in Dirs : op[e].ino = j => op[e].pc # "invalidate"
    BY <1>1, <1>2, OtherIno DEF IndexInv
  <2>9. HasSlot(j)
    BY <1>2, <2>6, <2>7, <2>8 DEF HasSlot
  <2> QED BY <1>1, <1>2, <2>7, <2>9 DEF IndexInv, SlotUnique
<1> QED BY <1>5, <1>7, <1>8, <1>9 DEF Agrees

\* PageAgrees, also for pages nobody has used.
PageInv ==
    \A i \in Inodes : Live(i) /\ ~fi[i].big /\ Place(fi[i]) \notin spoiled /\ OwnPage(i) => Agrees(i)

\* Every step keeps it.
LEMMA PageStep ==
    ASSUME IndexInv, UsedInv, GivenAway, PageInv, [Next]_vars
    PROVE  PageInv'
<1> SUFFICES ASSUME NEW i \in Inodes, Live(i)', ~fi'[i].big, Place(fi'[i]) \notin spoiled', OwnPage(i)'
             PROVE  Agrees(i)'
  BY DEF PageInv
<1>0. TypeOK
  BY DEF IndexInv
<1>1. CASE \E d \in Dirs : MknodDirty(d) /\ op[d].ino = i
  <2>1. PICK d \in Dirs : MknodDirty(d) /\ op[d].ino = i
    BY <1>1
  <2>2. op[d].pc = "dirty" /\ fi' = fi /\ ffs_dirty_inode(i) /\ spoiled' = spoiled
    BY <2>1 DEF MknodDirty, ffs_dirty_inode
  <2>3. HasSlot(i)
    BY <2>1, <2>2, LiveHasSlot
  <2> QED BY <2>2, <2>3, DirtyAgrees
<1>2. CASE ~\E d \in Dirs : MknodDirty(d) /\ op[d].ino = i
  <2>1. Live(i) /\ fi'[i] = fi[i] /\ Place(fi[i]) \notin spoiled /\ ~Remount
    BY <1>2, LiveBefore
  <2>2. HasSlot(i)
    BY <2>1, LiveHasSlot
  <2>3. PageOf(i)' = PageOf(i) /\ PageOf(i) \in Pages
    BY <1>0, <2>1, PageOfType DEF PageOf
  <2>4. OwnPage(i)
    <3>1. users[PageOf(i)] \subseteq users'[PageOf(i)]
      BY <1>0, <2>1, <2>3, HistoryGrows
    <3> QED BY <2>1, <2>3, <3>1 DEF OwnPage
  <2>5. Agrees(i)
    BY <2>1, <2>4 DEF PageInv
  <2>6. ASSUME page' = page PROVE Agrees(i)'
    BY <2>1, <2>3, <2>5, <2>6 DEF Agrees
  <2>7. ASSUME NEW j \in Inodes, ffs_dirty_inode(j) PROVE Agrees(i)'
    BY <2>1, <2>2, <2>5, <2>7, DirtyAgrees
  <2>8. ASSUME NEW d \in Dirs, DirOp(d) PROVE Agrees(i)'
    <3>1. CASE UnlinkHeader(d)
      <4>1. i # op[d].ino
        BY <3>1, <2>1 DEF UnlinkHeader, Live, Unlinking
      <4> QED BY <4>1, <3>1, <2>2, <2>5, HeaderAgrees
    <3>2. CASE MknodDirty(d) \/ UnlinkDrop(d)
      <4>1. op[d].ino \in Inodes /\ ffs_dirty_inode(op[d].ino)
        BY <3>2 DEF MknodDirty, UnlinkDrop, IndexInv, OpInv, OpOK
      <4> QED BY <4>1, <2>7
    <3>3. CASE ~(UnlinkHeader(d) \/ MknodDirty(d) \/ UnlinkDrop(d))
      <4>1. page' = page
        BY <3>3, <2>8 DEF DirOp, MknodStart, MknodSmall, MknodResize, MknodBig, UnlinkStart,
                          UnlinkMark, UnlinkSubmit, UnlinkInvalidate, simple_link, simple_rename
      <4> QED BY <4>1, <2>6
    <3> QED BY <3>1, <3>2, <3>3
  <2>9. ASSUME NEW p \in Pages, DiscardDone(p) \/ Flush(p) \/ FlushDone(p) PROVE page' = page
    BY <2>9 DEF DiscardDone, Flush, FlushDone
  <2>10. ASSUME NEW j \in Inodes, DirtyInode(j) \/ Evict(j)
         PROVE  page' = page \/ ffs_dirty_inode(j)
    BY <2>10 DEF DirtyInode, Evict
  <2>11. CASE UNCHANGED vars
    BY <2>6, <2>11 DEF vars
  <2> QED BY <2>1, <2>6, <2>7, <2>8, <2>9, <2>10, <2>11 DEF Next
<1> QED BY <1>1, <1>2

\* The raw inode of a live file has its header bit and its name, as long as only its
\* own bucket has used the page and no stray discard was aimed at its place
\* (ffs_dirty_inode against ffs_unlink, with links, renames and late completions).
THEOREM PagesAgree == Spec => []PageAgrees
<1>1. Init => UsedInv /\ GivenAway /\ PageInv
  BY DEF Init, UsedInv, GivenAway, PageInv, Live, IdleOp
<1>2. IndexInv /\ UsedInv /\ [Next]_vars => UsedInv'
  BY UsedStep
<1>3. IndexInv /\ GivenAway /\ [Next]_vars => GivenAway'
  BY GivenStep
<1>4. IndexInv /\ UsedInv /\ GivenAway /\ PageInv /\ [Next]_vars => PageInv'
  BY PageStep
<1>5. PageInv => PageAgrees
  BY DEF PageInv, PageAgrees, OwnPage
<1> QED BY <1>1, <1>2, <1>3, <1>4, <1>5, IndexInvariant, PTL DEF Spec
=============================================================================
