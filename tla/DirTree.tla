------------------------------- MODULE DirTree -------------------------------
(***************************************************************************)
(* The directory tree of flatfs: the array of dir_entry and the doubly     *)
(* linked lists of subdirectories of dir.c, the directory ids of           *)
(* flatfs_d.h, and the directory branches of ffs_mknod and ffs_rmdir.      *)
(*                                                                         *)
(* A directory is known twice: to the VFS as an inode (an element of Objs) *)
(* under a parent, and to flatfs as an id, the index of its dir_entry and  *)
(* of its hash table.  A dir_list_entry is a cell; a cell that was freed   *)
(* keeps its content until kzalloc hands it out again, to any list.        *)
(*                                                                         *)
(* The VFS holds the parent's i_rwsem during mkdir, and the parent's and   *)
(* the victim's during rmdir; operations under different parents run       *)
(* concurrently, and flatfs has no lock of its own here.  A step ends      *)
(* where the code may sleep (an allocation, a buffer); on an SMP kernel    *)
(* get_unused_dir_id is two steps.                                         *)
(*                                                                         *)
(* Left out, because nothing here depends on it: dir_entry_num, rec_len,   *)
(* and the big table that remove_dir releases.                             *)
(***************************************************************************)
EXTENDS Integers, FiniteSets

CONSTANTS
    Objs,            \* inodes of directories
    Root,            \* the inode of the root directory
    NIds,            \* 1 << MAX_DIR_BITS
    Names,           \* names of directories
    Cells,           \* memory for dir_list_entry objects
    NoObj, NoName, Null

Ids == 0 .. NIds - 1
FLATFS_ROOT_INO == 2
ENOINO == 0
NotFound == -1

ASSUME TreeAssumption ==
    /\ NIds \in Nat /\ NIds > FLATFS_ROOT_INO
    /\ Root \in Objs /\ NoObj \notin Objs
    /\ NoName \notin Names /\ Null \notin Cells

VARIABLES
    smp,             \* the kernel runs mkdirs in different parents in parallel
    dir_id_bitmap,   \* the ids in use
    de,              \* [Ids -> dir_entry], dtree_root->de
    cell,            \* [Cells -> dir_list_entry]
    free,            \* the cells that are not allocated
    hashtbl,         \* the ids that have a hash table
    dir,             \* [Objs -> what the VFS knows of the directory]
    op               \* [Objs -> the operation that holds the directory]

treeVars == <<de, cell, free>>
vars == <<smp, dir_id_bitmap, treeVars, hashtbl, dir, op>>

DirEntry == [dir_size : Nat, name : Names \union {NoName},
             head : Cells \union {Null}, tail : Cells \union {Null}]
ListEntry == [de : Ids, last : Cells \union {Null}, next : Cells \union {Null}]
\* A directory is "new" until it has an id, then "filled" until d_instantiate.
VfsDir == [state : {"free", "new", "filled", "live", "dead"}, id : Ids,
           parent : Objs \union {NoObj}, name : Names \union {NoName}]
OpRec == [pc : {"idle", "find", "set", "link", "table", "remove", "victim", "oops"},
          child : Objs \union {NoObj}]

EmptyEntry == [dir_size |-> 0, name |-> NoName, head |-> Null, tail |-> Null]
FreeDir == [state |-> "free", id |-> ENOINO, parent |-> NoObj, name |-> NoName]
IdleOp == [pc |-> "idle", child |-> NoObj]
Goto(o, pc) == op' = [op EXCEPT ![o] = [pc |-> pc, child |-> op[o].child]]

-----------------------------------------------------------------------------
(* Directory ids *)

Unused == Ids \ dir_id_bitmap

\* get_unused_dir_id up to its bitmap_set.  Mutants: an id that is in use may be
\* returned; the test for exhaustion is missing.
MutAnyId(id) == id \in Ids \ {0, 1, FLATFS_ROOT_INO}
MutNoENOINO(id) ==
    \/ id \in Unused /\ \A x \in Unused : id <= x
    \/ Unused = {} /\ id = NIds
find_first_unused(id) ==
    \/ id \in Unused /\ \A x \in Unused : id <= x
    \/ Unused = {} /\ id = ENOINO

-----------------------------------------------------------------------------
(* The list of subdirectories of a dir_entry *)

\* The k-th cell a walk from subdirs->head visits, or Null: the loops go on for
\* at most dir_size cells.
Nth(d) ==
    LET nth[k \in 0 .. de[d].dir_size] ==
          IF k = 0 THEN de[d].head
          ELSE IF nth[k - 1] = Null THEN Null ELSE cell[nth[k - 1]].next
    IN nth

\* The positions on the walk whose entry is one of S.
Hits(d, S) == {k \in 0 .. de[d].dir_size - 1 :
                 Nth(d)[k] # Null /\ cell[Nth(d)[k]].de \in S}

\* flatfs_dir_inode_by_name: the id of the first entry called n.  An entry with
\* the id of the parent counts as none.
flatfs_dir_inode_by_name(d, n) ==
    LET hits == Hits(d, {x \in Ids : de[x].name = n})
        found == cell[Nth(d)[CHOOSE k \in hits : \A j \in hits : k <= j]].de
    IN IF hits = {} \/ found = d THEN NotFound ELSE found

\* insert_dir: append a cell for child id x to the list of d.  The tail may be a
\* freed cell, even the one kzalloc has just returned.
insert_dir(d, x) ==
    \E c \in free :
        LET old == de[d].tail IN
        /\ free' = free \ {c}
        /\ IF de[d].dir_size = 0
           THEN /\ cell' = [cell EXCEPT ![c] = [de |-> x, last |-> Null, next |-> Null]]
                /\ de' = [de EXCEPT ![d] = [dir_size |-> 1, name |-> de[d].name, head |-> c, tail |-> c]]
           ELSE /\ cell' = [b \in Cells |->
                              [de |-> IF b = c THEN x ELSE cell[b].de,
                               last |-> IF b = c THEN old ELSE cell[b].last,
                               next |-> IF b = old THEN c
                                        ELSE IF b = c THEN Null ELSE cell[b].next]]
                /\ de' = [de EXCEPT ![d] = [dir_size |-> de[d].dir_size + 1, name |-> de[d].name,
                                         head |-> de[d].head, tail |-> c]]

\* The unlinking of cell number k of the list of d in remove_dir, for victim x.
\* The test for the last cell compares k with the size of the victim.
Unlinked(d, x, k) ==
    LET c == Nth(d)[k]
        last == cell[c].last
        next == cell[c].next
        isLast == k = de[x].dir_size - 1
    IN
    /\ cell' = [b \in Cells |->
                  IF b = c THEN [de |-> cell[b].de, last |-> Null, next |-> Null]
                  ELSE [de |-> cell[b].de,
                        last |-> IF b = next /\ ~isLast THEN last ELSE cell[b].last,
                        next |-> IF b = last /\ k # 0 THEN next ELSE cell[b].next]]
    /\ free' = free \union {c}
    /\ de' = [y \in Ids |->
                [dir_size |-> IF y = d THEN de[y].dir_size - 1 ELSE de[y].dir_size,
                 name |-> IF y = x THEN NoName ELSE de[y].name,
                 head |-> IF y = x THEN Null ELSE IF y = d /\ k = 0 THEN next ELSE de[y].head,
                 tail |-> IF y = x THEN Null ELSE IF y = d /\ isLast THEN last ELSE de[y].tail]]

-----------------------------------------------------------------------------
(* mkdir *)

Children(o) == {c \in Objs : dir[c].state = "live" /\ dir[c].parent = o}
HasChild(o, n) == \E c \in Children(o) : dir[c].name = n

\* The VFS has no dentry for the name and ffs_lookup found no directory.
MkdirStart(o) ==
    /\ dir[o].state = "live" /\ op[o].pc = "idle"
    /\ \E n \in Names, c \in Objs :
        /\ ~HasChild(o, n)
        /\ flatfs_dir_inode_by_name(dir[o].id, n) = NotFound
        /\ dir[c].state = "free"
        /\ dir' = [dir EXCEPT ![c] = [state |-> "new", id |-> ENOINO, parent |-> o, name |-> n]]
        /\ op' = [op EXCEPT ![o] = [pc |-> "find", child |-> c]]
    /\ UNCHANGED <<dir_id_bitmap, treeVars, hashtbl>>

\* bitmap_set and the rest of fill_one_dir_entry, which takes id 0 for ENOINO.  When the
\* ids are exhausted bit 0 is set already; a rmdir may have cleared it.
Fill(id, n) ==
    /\ dir_id_bitmap' = dir_id_bitmap \union {id}
    /\ de' = IF id = ENOINO THEN de
             ELSE [de EXCEPT ![id] = [dir_size |-> 0, name |-> n,
                                      head |-> de[id].head, tail |-> de[id].tail]]

\* Child c has got as far as state s, with id.
NowChild(c, s, id) ==
    dir' = [dir EXCEPT ![c] = [state |-> s, id |-> id,
                               parent |-> dir[c].parent, name |-> dir[c].name]]

MkdirFind(o) ==
    LET c == op[o].child IN
    /\ op[o].pc = "find"
    /\ \E id \in 0 .. NIds :
        /\ find_first_unused(id)
        /\ \/ /\ smp /\ Unused # {}
              /\ NowChild(c, "new", id)
              /\ Goto(o, "set")
              /\ UNCHANGED <<dir_id_bitmap, de>>
           \/ /\ ~smp \/ Unused = {}
              /\ NowChild(c, "filled", id)
              /\ Goto(o, "link")
              /\ Fill(id, dir[c].name)
    /\ UNCHANGED <<cell, free, hashtbl>>

MkdirSet(o) ==
    LET c == op[o].child IN
    /\ op[o].pc = "set"
    /\ Fill(dir[c].id, dir[c].name)
    /\ NowChild(c, "filled", dir[c].id)
    /\ Goto(o, "link")
    /\ UNCHANGED <<cell, free, hashtbl>>

\* ffs_mknod does not test the id: ENOINO is linked like any other.  A list that
\* is not empty but has lost its tail kills the task, which keeps the parent's
\* i_rwsem for ever.
MkdirLink(o) ==
    LET d == dir[o].id IN
    /\ op[o].pc = "link"
    /\ \/ /\ de[d].dir_size = 0 \/ de[d].tail # Null
          /\ insert_dir(d, dir[op[o].child].id)
          /\ Goto(o, "table")
       \/ /\ de[d].dir_size # 0 /\ de[d].tail = Null
          /\ Goto(o, "oops")
          /\ UNCHANGED treeVars
    /\ UNCHANGED <<dir_id_bitmap, hashtbl, dir>>

\* init_file_ht, the inode's fields and d_instantiate.
MkdirTable(o) ==
    LET c == op[o].child IN
    /\ op[o].pc = "table"
    /\ hashtbl' = hashtbl \union {dir[c].id}
    /\ NowChild(c, "live", dir[c].id)
    /\ op' = [op EXCEPT ![o] = IdleOp]
    /\ UNCHANGED <<dir_id_bitmap, treeVars>>

-----------------------------------------------------------------------------
(* rmdir *)

\* i_size of a directory is 0 from flatfs_get_inode on, so the emptiness test of
\* ffs_rmdir never refuses.  The inode is dirtied before the tree changes.
RmdirStart(o) ==
    /\ dir[o].state = "live" /\ op[o].pc = "idle"
    /\ \E v \in Children(o) :
        /\ op[v].pc = "idle" /\ v # o
        /\ op' = [op EXCEPT ![o] = [pc |-> "remove", child |-> v],
                            ![v] = [pc |-> "victim", child |-> NoObj]]
    /\ UNCHANGED <<dir_id_bitmap, treeVars, hashtbl, dir>>

\* The VFS forgets the directory; one that still has children stays in memory.
Forgotten(v) ==
    dir' = [dir EXCEPT ![v] =
              IF Children(v) = {} THEN FreeDir
              ELSE [state |-> "dead", id |-> dir[v].id,
                    parent |-> NoObj, name |-> NoName]]

\* remove_dir: nothing at all when the walk does not find the directory.
\* Mutant: the table of the parent is freed.
MutParentTable(d, x) ==
    LET hits == Hits(d, {x}) IN
    IF hits = {} THEN UNCHANGED <<dir_id_bitmap, treeVars, hashtbl>>
    ELSE /\ Unlinked(d, x, CHOOSE k \in hits : \A j \in hits : k <= j)
         /\ hashtbl' = hashtbl \ {d}
         /\ dir_id_bitmap' = dir_id_bitmap \ {x}

remove_dir(d, x) ==
    LET hits == Hits(d, {x}) IN
    IF hits = {} THEN UNCHANGED <<dir_id_bitmap, treeVars, hashtbl>>
    ELSE /\ Unlinked(d, x, CHOOSE k \in hits : \A j \in hits : k <= j)
         /\ hashtbl' = hashtbl \ {x}
         /\ dir_id_bitmap' = dir_id_bitmap \ {x}

RmdirRemove(o) ==
    LET v == op[o].child IN
    /\ op[o].pc = "remove"
    /\ remove_dir(dir[o].id, dir[v].id)
    /\ Forgotten(v)
    /\ op' = [op EXCEPT ![o] = IdleOp, ![v] = IdleOp]

-----------------------------------------------------------------------------

\* init_dir_tree, init_root_entry and the root inode of flatfs_fill_super.
\* Mutant: init_dir_id_bitmap does not set the bit of the root.
MutNoRootBit ==
    [dir_id_bitmap |-> {0, 1},
     de |-> [d \in Ids |-> EmptyEntry],
     cell |-> [c \in Cells |-> [de |-> ENOINO, last |-> Null, next |-> Null]],
     hashtbl |-> {FLATFS_ROOT_INO},
     dir |-> [[o \in Objs |-> FreeDir] EXCEPT
                ![Root] = [state |-> "live", id |-> FLATFS_ROOT_INO,
                           parent |-> NoObj, name |-> NoName]]]

Fresh ==
    [dir_id_bitmap |-> {0, 1, FLATFS_ROOT_INO},
     de |-> [d \in Ids |-> EmptyEntry],
     cell |-> [c \in Cells |-> [de |-> ENOINO, last |-> Null, next |-> Null]],
     hashtbl |-> {FLATFS_ROOT_INO},
     dir |-> [[o \in Objs |-> FreeDir] EXCEPT
                ![Root] = [state |-> "live", id |-> FLATFS_ROOT_INO,
                           parent |-> NoObj, name |-> NoName]]]

Init ==
    /\ smp \in BOOLEAN
    /\ dir_id_bitmap = Fresh.dir_id_bitmap
    /\ de = Fresh.de
    /\ cell = Fresh.cell
    /\ free = Cells
    /\ hashtbl = Fresh.hashtbl
    /\ dir = Fresh.dir
    /\ op = [o \in Objs |-> IdleOp]

\* flatfs_put_super forgets the tree, which nothing frees; mount builds an empty one.
Remount ==
    /\ \A o \in Objs : op[o].pc = "idle"
    /\ dir_id_bitmap' = Fresh.dir_id_bitmap
    /\ de' = Fresh.de
    /\ cell' = Fresh.cell
    /\ free' = Cells
    /\ hashtbl' = Fresh.hashtbl
    /\ dir' = Fresh.dir
    /\ UNCHANGED op

Next ==
    /\ \/ \E o \in Objs :
            \/ MkdirStart(o) \/ MkdirFind(o) \/ MkdirSet(o)
            \/ MkdirLink(o) \/ MkdirTable(o)
            \/ RmdirStart(o) \/ RmdirRemove(o)
       \/ Remount
    /\ UNCHANGED smp

Spec == Init /\ [][Next]_vars

-----------------------------------------------------------------------------
(* Properties *)

Live(o) == dir[o].state = "live"

\* The tree is well typed; in particular dir_size never becomes negative.
TypeOK ==
    /\ smp \in BOOLEAN
    /\ dir_id_bitmap \subseteq Ids
    /\ de \in [Ids -> DirEntry]
    /\ cell \in [Cells -> ListEntry]
    /\ free \subseteq Cells
    /\ hashtbl \subseteq Ids
    /\ dir \in [Objs -> VfsDir]
    /\ op \in [Objs -> OpRec]

\* Where mkdirs do not run in parallel, two directories that are alive never have the
\* same id (get_unused_dir_id against the bitmap_clear of remove_dir).  Id 0 is what
\* exhaustion gives.
IdUnique == ~smp =>
    \A a, b \in Objs : Live(a) /\ Live(b) /\ a # b /\ dir[a].id = dir[b].id => dir[a].id = ENOINO

\* There too a directory that is alive has its id marked and its hash table
\* allocated, so that a create in it finds a table (init_file_ht against free_file_ht).
Tables ==
    \A o \in Objs : Live(o) /\ dir[o].id # ENOINO =>
        dir[o].id \in dir_id_bitmap /\ dir[o].id \in hashtbl
TableLive == ~smp => Tables

\* Whatever races get_unused_dir_id loses, the root keeps its id to itself and
\* its hash table (the bits init_dir_id_bitmap sets are never cleared).
RootKept ==
    /\ FLATFS_ROOT_INO \in hashtbl
    /\ \A o \in Objs : Live(o) /\ dir[o].id = FLATFS_ROOT_INO => o = Root

\* "If it is a directory and exists", the lookup returns its id
\* (dir.c:274): a directory the VFS made under an idle parent is found again
\* once its dentry is dropped.  Stated for a uniprocessor kernel, where no race for
\* an id is lost first.
LookupComplete == ~smp =>
    \A o \in Objs : Live(o) /\ op[o].pc = "idle" =>
        \A c \in Children(o) : flatfs_dir_inode_by_name(dir[o].id, dir[c].name) = dir[c].id

-----------------------------------------------------------------------------
(* Why IdUnique and TableLive hold where get_unused_dir_id is one step. *)

\* From fill_one_dir_entry on a directory claims its id.
Claims(o) == dir[o].state \in {"filled", "live"}

\* What the operation that holds directory o knows of the child it works on.
OpInv ==
    \A o \in Objs :
        /\ op[o].pc \notin {"idle", "victim"} =>
             op[o].child \in Objs /\ dir[op[o].child].parent = o
        /\ op[o].pc # "set"
        /\ op[o].pc = "find" => dir[op[o].child].state = "new"
        /\ op[o].pc \in {"link", "table", "oops"} => dir[op[o].child].state = "filled"
        /\ op[o].pc = "remove" => dir[op[o].child].state = "live"

ClaimUnique ==
    \A a, b \in Objs : Claims(a) /\ Claims(b) /\ a # b /\ dir[a].id = dir[b].id => dir[a].id = ENOINO

ClaimMarked == \A o \in Objs : Claims(o) /\ dir[o].id # ENOINO => dir[o].id \in dir_id_bitmap

\* The inductive invariant: an id is marked from the moment a directory claims
\* it until its rmdir has found it in the list of its parent.
IdCore ==
    /\ dir \in [Objs -> VfsDir] /\ op \in [Objs -> OpRec] /\ dir_id_bitmap \subseteq Ids
    /\ OpInv
    /\ ClaimUnique
    /\ ClaimMarked
    /\ Tables
IdInv == ~smp => IdCore

=============================================================================
