---------------------------- MODULE DirTreeProofs ----------------------------
(***************************************************************************)
(* Proofs about DirTree, for any number of ids, directories, names and     *)
(* list cells.  Where get_unused_dir_id is one step (~smp), ids are unique *)
(* and every directory keeps its hash table, whatever has become of the    *)
(* lists.  On both kernels the tree stays well typed and the root keeps    *)
(* its id and its table.                                                   *)
(***************************************************************************)
EXTENDS DirTree, WellFoundedInduction, TLAPS

USE DEF Goto

\* A fresh mount satisfies the invariant: only the root has an id.
LEMMA InitOK ==
    ASSUME Init
    PROVE  IdCore
<1> USE TreeAssumption DEF Init, Fresh
<1>1. /\ dir[Root].state = "live" /\ dir[Root].id = FLATFS_ROOT_INO
      /\ \A o \in Objs \ {Root} : dir[o].state = "free"
  BY DEF FreeDir
<1>2. dir \in [Objs -> VfsDir]
  BY DEF FreeDir, VfsDir, Ids, FLATFS_ROOT_INO, ENOINO
<1>3. op \in [Objs -> OpRec]
  BY DEF IdleOp, OpRec
<1>4. dir_id_bitmap = {0, 1, FLATFS_ROOT_INO} /\ hashtbl = {FLATFS_ROOT_INO}
  OBVIOUS
<1>5. dir_id_bitmap \subseteq Ids
  BY <1>4 DEF Ids, FLATFS_ROOT_INO
<1>6. OpInv
  BY DEF OpInv, IdleOp
<1>7. ClaimUnique /\ ClaimMarked /\ Tables
  BY <1>1, <1>4 DEF ClaimUnique, ClaimMarked, Tables, Claims, Live
<1> QED BY <1>2, <1>3, <1>5, <1>6, <1>7 DEF IdCore

\* A step in which at most one object c changes, to state s with id x, and the
\* operation of its parent moves on: the part of the invariant about claims.
LEMMA ClaimStep ==
    ASSUME IdCore, NEW c \in Objs, NEW s, NEW x \in Ids,
           NowChild(c, s, x),
           dir[c].state \in {"new", "filled"},
           dir_id_bitmap \subseteq dir_id_bitmap', hashtbl \subseteq hashtbl',
           s \in {"new", "filled", "live"},
           s \in {"filled", "live"} => x = ENOINO \/ x \in dir_id_bitmap',
           s = "live" => x \in hashtbl',
           s \in {"filled", "live"} =>
             \/ dir[c].state = "filled" /\ dir[c].id = x
             \/ x = ENOINO \/ x \notin dir_id_bitmap
    PROVE  /\ dir' \in [Objs -> VfsDir]
           /\ ClaimUnique' /\ ClaimMarked' /\ Tables'
<1> USE DEF IdCore
<1>1. /\ dir'[c].state = s /\ dir'[c].id = x /\ dir'[c].parent = dir[c].parent
      /\ \A o \in Objs \ {c} : dir'[o] = dir[o]
      /\ dir' \in [Objs -> VfsDir]
  BY DEF NowChild, VfsDir
<1>2. ASSUME NEW o \in Objs, o # c, Claims(o), Claims(c)', dir[o].id = x
      PROVE  x = ENOINO
  <2>1. s \in {"filled", "live"}
    BY <1>1, <1>2 DEF Claims
  <2>2. CASE dir[c].state = "filled" /\ dir[c].id = x
    BY <1>2, <2>2 DEF Claims, ClaimUnique
  <2>3. CASE x \notin dir_id_bitmap
    BY <1>2, <2>3 DEF ClaimMarked
  <2> QED BY <2>1, <2>2, <2>3
<1>3. \A o \in Objs \ {c} : Claims(o)' <=> Claims(o)
  BY <1>1 DEF Claims
<1>4. ClaimUnique'
  <2> SUFFICES ASSUME NEW a \in Objs, NEW b \in Objs, Claims(a)', Claims(b)', a # b,
                      dir'[a].id = dir'[b].id
               PROVE  dir'[a].id = ENOINO
    BY DEF ClaimUnique
  <2>1. CASE a = c
    BY <2>1, <1>1, <1>2, <1>3
  <2>2. CASE b = c
    BY <2>2, <1>1, <1>2, <1>3
  <2>3. CASE a # c /\ b # c
    BY <2>3, <1>1, <1>3 DEF ClaimUnique
  <2> QED BY <2>1, <2>2, <2>3
<1>5. ClaimMarked'
  BY <1>1, <1>3 DEF ClaimMarked, Claims
<1>6. Tables'
  <2> SUFFICES ASSUME NEW o \in Objs, Live(o)', dir'[o].id # ENOINO
               PROVE  dir'[o].id \in dir_id_bitmap' /\ dir'[o].id \in hashtbl'
    BY DEF Tables
  <2>1. CASE o = c
    BY <2>1, <1>1 DEF Live
  <2>2. CASE o # c
    BY <2>2, <1>1 DEF Live, Tables
  <2> QED BY <2>1, <2>2
<1> QED BY <1>1, <1>4, <1>5, <1>6

\* The part of the invariant about operations, when the operation of o moves
\* its child from one state to another.
LEMMA OpStep ==
    ASSUME IdCore, NEW o \in Objs, op[o].pc \notin {"idle", "victim"},
           NEW s, NEW x, NowChild(op[o].child, s, x),
           op' \in [Objs -> OpRec],
           \A e \in Objs \ {o} : op'[e] = op[e],
           \/ op'[o].pc = "idle"
           \/ /\ op'[o].child = op[o].child
              /\ \/ op'[o].pc = "find" /\ s = "new"
                 \/ op'[o].pc \in {"link", "table", "oops"} /\ s = "filled"
    PROVE  OpInv'
<1> DEFINE c == op[o].child
<1> USE DEF IdCore
<1>1. c \in Objs /\ dir[c].parent = o
  BY DEF OpInv
<1>2. /\ dir'[c].state = s /\ dir'[c].parent = o
      /\ \A b \in Objs \ {c} : dir'[b] = dir[b]
  BY <1>1 DEF NowChild
<1>3. ASSUME NEW e \in Objs, e # o, op[e].pc \notin {"idle", "victim"}
      PROVE  op[e].child # c
  BY <1>1, <1>3 DEF OpInv
<1> SUFFICES ASSUME NEW e \in Objs
             PROVE  /\ op'[e].pc \notin {"idle", "victim"} =>
                         op'[e].child \in Objs /\ dir'[op'[e].child].parent = e
                    /\ op'[e].pc # "set"
                    /\ op'[e].pc = "find" => dir'[op'[e].child].state = "new"
                    /\ op'[e].pc \in {"link", "table", "oops"} => dir'[op'[e].child].state = "filled"
                    /\ op'[e].pc = "remove" => dir'[op'[e].child].state = "live"
  BY DEF OpInv
<1>4. CASE e = o
  BY <1>1, <1>2, <1>4
<1>5. CASE e # o
  <2>1. op'[e] = op[e]
    BY <1>5
  <2>2. CASE op[e].pc \notin {"idle", "victim"}
    <3>1. op[e].child \in Objs /\ dir'[op[e].child] = dir[op[e].child]
      BY <1>2, <1>3, <1>5, <2>2 DEF OpInv
    <3> QED BY <2>1, <3>1 DEF OpInv
  <2>3. CASE op[e].pc \in {"idle", "victim"}
    BY <2>1, <2>3
  <2> QED BY <2>2, <2>3
<1> QED BY <1>4, <1>5

\* A create that starts claims nothing yet.
LEMMA StartStep ==
    ASSUME IdCore, NEW o \in Objs, MkdirStart(o)
    PROVE  IdCore'
<1> USE DEF IdCore
<1>1. PICK n \in Names, c \in Objs :
        /\ dir[c].state = "free"
        /\ dir' = [dir EXCEPT ![c] = [state |-> "new", id |-> ENOINO, parent |-> o, name |-> n]]
        /\ op' = [op EXCEPT ![o] = [pc |-> "find", child |-> c]]
  BY DEF MkdirStart
<1>2. UNCHANGED <<dir_id_bitmap, hashtbl>> /\ op[o].pc = "idle"
  BY DEF MkdirStart
<1>3. /\ dir'[c].state = "new" /\ dir'[c].parent = o
      /\ \A b \in Objs \ {c} : dir'[b] = dir[b]
      /\ dir' \in [Objs -> VfsDir]
  BY <1>1, TreeAssumption DEF VfsDir, Ids, ENOINO, FLATFS_ROOT_INO
<1>4. /\ op'[o].pc = "find" /\ op'[o].child = c
      /\ \A e \in Objs \ {o} : op'[e] = op[e]
      /\ op' \in [Objs -> OpRec]
  BY <1>1 DEF OpRec
<1>5. ASSUME NEW e \in Objs, op[e].pc \notin {"idle", "victim"}
      PROVE  op[e].child # c
  <2>1. op[e].pc \in {"find", "set", "link", "table", "oops", "remove"}
    BY <1>5 DEF OpRec
  <2> QED BY <1>1, <2>1 DEF OpInv
<1>6. OpInv'
  <2> SUFFICES ASSUME NEW e \in Objs
               PROVE  /\ op'[e].pc \notin {"idle", "victim"} =>
                           op'[e].child \in Objs /\ dir'[op'[e].child].parent = e
                      /\ op'[e].pc # "set"
                      /\ op'[e].pc = "find" => dir'[op'[e].child].state = "new"
                      /\ op'[e].pc \in {"link", "table", "oops"} => dir'[op'[e].child].state = "filled"
                      /\ op'[e].pc = "remove" => dir'[op'[e].child].state = "live"
    BY DEF OpInv
  <2>1. CASE e = o
    BY <2>1, <1>3, <1>4
  <2>2. CASE e # o /\ op[e].pc \notin {"idle", "victim"}
    <3>1. op[e].child \in Objs /\ dir'[op[e].child] = dir[op[e].child] /\ op'[e] = op[e]
      BY <1>3, <1>4, <1>5, <2>2 DEF OpInv
    <3> QED BY <3>1 DEF OpInv
  <2>3. CASE e # o /\ op[e].pc \in {"idle", "victim"}
    BY <2>3, <1>4
  <2> QED BY <2>1, <2>2, <2>3
<1>7. ClaimUnique' /\ ClaimMarked' /\ Tables'
  <2>1. \A b \in Objs : (Claims(b)' => Claims(b) /\ dir'[b] = dir[b])
                        /\ (Live(b)' => Live(b) /\ dir'[b] = dir[b])
    BY <1>3 DEF Claims, Live
  <2> QED BY <1>2, <2>1 DEF ClaimUnique, ClaimMarked, Tables
<1> QED BY <1>2, <1>3, <1>4, <1>6, <1>7

\* get_unused_dir_id and fill_one_dir_entry in one step: the id is in nobody's
\* hands, or it is 0.
LEMMA FindStep ==
    ASSUME IdCore, ~smp, NEW o \in Objs, MkdirFind(o)
    PROVE  IdCore'
<1> DEFINE c == op[o].child
<1> USE DEF IdCore
<1>1. op[o].pc = "find" /\ c \in Objs /\ dir[c].state = "new"
  BY DEF MkdirFind, OpInv
<1>2. PICK id \in 0 .. NIds :
        /\ find_first_unused(id) /\ NowChild(c, "filled", id) /\ Goto(o, "link")
        /\ Fill(id, dir[c].name)
  BY DEF MkdirFind
<1>3. id \in Ids /\ (id = ENOINO \/ id \notin dir_id_bitmap)
  BY <1>2, TreeAssumption DEF find_first_unused, Unused, Ids, ENOINO, FLATFS_ROOT_INO
<1>4. /\ dir_id_bitmap' \subseteq Ids
      /\ dir_id_bitmap \subseteq dir_id_bitmap'
      /\ id = ENOINO \/ id \in dir_id_bitmap'
  BY <1>2, <1>3 DEF Fill
<1>5. hashtbl' = hashtbl
  BY DEF MkdirFind
<1>6. /\ dir' \in [Objs -> VfsDir]
      /\ ClaimUnique' /\ ClaimMarked' /\ Tables'
  BY <1>1, <1>2, <1>3, <1>4, <1>5, ClaimStep
<1>7. /\ op' \in [Objs -> OpRec]
      /\ op'[o].pc = "link" /\ op'[o].child = c
      /\ \A e \in Objs \ {o} : op'[e] = op[e]
  BY <1>1, <1>2 DEF OpRec
<1>8. OpInv'
  BY <1>1, <1>2, <1>7, OpStep
<1> QED BY <1>4, <1>6, <1>7, <1>8

\* Linking the child into the list of its parent, or dying in the attempt.
LEMMA LinkStep ==
    ASSUME IdCore, NEW o \in Objs, MkdirLink(o)
    PROVE  IdCore'
<1> USE DEF IdCore
<1>1. /\ op[o].pc = "link" /\ UNCHANGED <<dir_id_bitmap, hashtbl, dir>>
      /\ Goto(o, "table") \/ Goto(o, "oops")
  BY DEF MkdirLink
<1>2. /\ op' \in [Objs -> OpRec]
      /\ op'[o].pc \in {"table", "oops"} /\ op'[o].child = op[o].child
      /\ \A e \in Objs \ {o} : op'[e] = op[e]
  BY <1>1 DEF OpRec
<1>3. OpInv'
  BY <1>1, <1>2 DEF OpInv
<1>4. ClaimUnique' /\ ClaimMarked' /\ Tables'
  BY <1>1 DEF ClaimUnique, ClaimMarked, Tables, Claims, Live
<1> QED BY <1>1, <1>2, <1>3, <1>4

\* init_file_ht and d_instantiate: the child comes alive with its table.
LEMMA TableStep ==
    ASSUME IdCore, NEW o \in Objs, MkdirTable(o)
    PROVE  IdCore'
<1> DEFINE c == op[o].child
<1> USE DEF IdCore
<1>1. /\ op[o].pc = "table" /\ c \in Objs /\ dir[c].state = "filled"
      /\ dir[c].id \in Ids
      /\ dir[c].id = ENOINO \/ dir[c].id \in dir_id_bitmap
  BY DEF MkdirTable, OpInv, VfsDir, ClaimMarked, Claims
<1>2. /\ hashtbl' = hashtbl \union {dir[c].id}
      /\ NowChild(c, "live", dir[c].id)
      /\ op' = [op EXCEPT ![o] = IdleOp]
      /\ dir_id_bitmap' = dir_id_bitmap
  BY DEF MkdirTable
<1>3. /\ dir' \in [Objs -> VfsDir]
      /\ ClaimUnique' /\ ClaimMarked' /\ Tables'
  BY <1>1, <1>2, ClaimStep
<1>4. /\ op' \in [Objs -> OpRec] /\ op'[o].pc = "idle"
      /\ \A e \in Objs \ {o} : op'[e] = op[e]
  BY <1>2 DEF OpRec, IdleOp
<1>5. OpInv'
  BY <1>1, <1>2, <1>4, OpStep
<1> QED BY <1>2, <1>3, <1>4, <1>5

\* The start of rmdir only takes locks.
LEMMA RmdirStartStep ==
    ASSUME IdCore, NEW o \in Objs, RmdirStart(o)
    PROVE  IdCore'
<1> USE DEF IdCore
<1>1. PICK v \in Children(o) :
        /\ op[v].pc = "idle" /\ v # o
        /\ op' = [op EXCEPT ![o] = [pc |-> "remove", child |-> v],
                            ![v] = [pc |-> "victim", child |-> NoObj]]
  BY DEF RmdirStart
<1>2. UNCHANGED <<dir_id_bitmap, hashtbl, dir>>
  BY DEF RmdirStart
<1>3. v \in Objs /\ dir[v].state = "live" /\ dir[v].parent = o
  BY DEF Children
<1>4. /\ op' \in [Objs -> OpRec]
      /\ op'[o].pc = "remove" /\ op'[o].child = v
      /\ op'[v].pc = "victim"
      /\ \A e \in Objs \ {o, v} : op'[e] = op[e]
  BY <1>1, <1>3 DEF OpRec
<1>5. OpInv'
  BY <1>2, <1>3, <1>4 DEF OpInv
<1>6. ClaimUnique' /\ ClaimMarked' /\ Tables'
  BY <1>2 DEF ClaimUnique, ClaimMarked, Tables, Claims, Live
<1> QED BY <1>2, <1>4, <1>5, <1>6

\* remove_dir gives back the id of the victim and frees its table; nobody else
\* has either.
LEMMA RmdirRemoveStep ==
    ASSUME IdCore, NEW o \in Objs, RmdirRemove(o)
    PROVE  IdCore'
<1> DEFINE v == op[o].child
           x == dir[v].id
<1> USE DEF IdCore
<1>1. /\ op[o].pc = "remove" /\ v \in Objs
      /\ dir[v].state = "live" /\ dir[v].parent = o /\ x \in Ids
  BY DEF RmdirRemove, OpInv, VfsDir
<1>2. /\ dir_id_bitmap \ {x} \subseteq dir_id_bitmap' /\ dir_id_bitmap' \subseteq dir_id_bitmap
      /\ hashtbl \ {x} \subseteq hashtbl'
  BY DEF RmdirRemove, remove_dir
<1>3. /\ dir' \in [Objs -> VfsDir]
      /\ dir'[v].state \in {"free", "dead"}
      /\ \A b \in Objs \ {v} : dir'[b] = dir[b]
  <2>1. FreeDir \in VfsDir /\ FreeDir.state = "free"
    BY TreeAssumption DEF FreeDir, VfsDir, Ids, ENOINO, FLATFS_ROOT_INO
  <2>2. [state |-> "dead", id |-> x, parent |-> NoObj, name |-> NoName] \in VfsDir
    BY <1>1 DEF VfsDir
  <2> QED BY <1>1, <2>1, <2>2 DEF RmdirRemove, Forgotten
<1>4. /\ op' \in [Objs -> OpRec]
      /\ op'[o].pc = "idle" /\ op'[v].pc = "idle"
      /\ \A e \in Objs \ {o, v} : op'[e] = op[e]
  BY <1>1 DEF RmdirRemove, OpRec, IdleOp
<1>5. OpInv'
  <2> SUFFICES ASSUME NEW e \in Objs, e # o, e # v, op[e].pc \notin {"idle", "victim"}
               PROVE  op[e].child \in Objs /\ dir'[op[e].child] = dir[op[e].child]
    BY <1>4 DEF OpInv
  <2>1. op[e].child # v
    BY <1>1 DEF OpInv
  <2> QED BY <1>3, <2>1 DEF OpInv
<1>6. \A b \in Objs : (Claims(b)' => b # v /\ Claims(b) /\ dir'[b] = dir[b])
                      /\ (Live(b)' => b # v /\ Live(b) /\ dir'[b] = dir[b])
  BY <1>3 DEF Claims, Live
<1>7. \A b \in Objs \ {v} : Claims(b) /\ dir[b].id = x => x = ENOINO
  BY <1>1 DEF ClaimUnique, Claims
<1>8. ClaimUnique'
  BY <1>6 DEF ClaimUnique
<1>9. ClaimMarked'
  BY <1>2, <1>6, <1>7 DEF ClaimMarked
<1>10. Tables'
  <2>1. \A b \in Objs : Live(b) => Claims(b)
    BY DEF Live, Claims
  <2> QED BY <1>2, <1>6, <1>7, <2>1 DEF Tables
<1> QED BY <1>2, <1>3, <1>4, <1>5, <1>8, <1>9, <1>10

\* Mounting again starts from a fresh tree.
LEMMA RemountStep ==
    ASSUME IdCore, Remount
    PROVE  IdCore'
<1> USE TreeAssumption DEF Remount, Fresh
<1>1. /\ dir'[Root].state = "live" /\ dir'[Root].id = FLATFS_ROOT_INO
      /\ \A o \in Objs \ {Root} : dir'[o].state = "free"
  BY DEF FreeDir
<1>2. dir' \in [Objs -> VfsDir]
  BY DEF FreeDir, VfsDir, Ids, FLATFS_ROOT_INO, ENOINO
<1>3. dir_id_bitmap' = {0, 1, FLATFS_ROOT_INO} /\ hashtbl' = {FLATFS_ROOT_INO}
  OBVIOUS
<1>4. dir_id_bitmap' \subseteq Ids
  BY <1>3 DEF Ids, FLATFS_ROOT_INO
<1>5. OpInv'
  BY DEF OpInv
<1>6. ClaimUnique' /\ ClaimMarked' /\ Tables'
  BY <1>1, <1>3 DEF ClaimUnique, ClaimMarked, Tables, Claims, Live
<1>7. op' \in [Objs -> OpRec]
  BY DEF IdCore
<1> QED BY <1>2, <1>4, <1>5, <1>6, <1>7 DEF IdCore

\* IdInv is an invariant: nothing is claimed of a kernel that runs mkdirs in parallel.
THEOREM IdInvariant == Spec => []IdInv
<1>1. Init => IdInv
  BY InitOK DEF IdInv
<1>2. IdInv /\ [Next]_vars => IdInv'
  <2> SUFFICES ASSUME IdInv, [Next]_vars, ~smp' PROVE IdCore'
    BY DEF IdInv
  <2>0. ~smp /\ IdCore
    BY DEF Next, vars, IdInv
  <2>1. CASE UNCHANGED vars
    BY <2>0, <2>1 DEF vars, IdCore, OpInv, ClaimUnique, ClaimMarked, Tables, Claims, Live
  <2>2. ASSUME NEW o \in Objs, MkdirSet(o)
        PROVE  IdCore'
    <3>1. FALSE
      BY <2>0, <2>2 DEF MkdirSet, IdCore, OpInv
    <3> QED BY <3>1
  <2>3. ASSUME NEW o \in Objs,
               \/ MkdirStart(o) \/ MkdirFind(o) \/ MkdirLink(o) \/ MkdirTable(o)
               \/ RmdirStart(o) \/ RmdirRemove(o)
        PROVE  IdCore'
    BY <2>0, <2>3, StartStep, FindStep, LinkStep, TableStep, RmdirStartStep, RmdirRemoveStep
  <2>4. CASE Remount
    BY <2>0, <2>4, RemountStep
  <2> QED BY <2>1, <2>2, <2>3, <2>4 DEF Next
<1> QED BY <1>1, <1>2, PTL DEF Spec

\* Where mkdirs do not run in parallel, two directories that are alive never share an
\* id other than 0.
THEOREM IdsUnique == Spec => []IdUnique
<1>1. IdInv => IdUnique
  BY DEF IdInv, IdCore, ClaimUnique, Claims, IdUnique, Live
<1> QED BY <1>1, IdInvariant, PTL

\* Where mkdirs do not run in parallel, a directory that is alive has its id marked
\* and its hash table allocated.
THEOREM TablesLive == Spec => []TableLive
<1>1. IdInv => TableLive
  BY DEF IdInv, IdCore, TableLive
<1> QED BY <1>1, IdInvariant, PTL

-----------------------------------------------------------------------------
(* The types of the tree, lists included. *)

\* A set of natural numbers that is not empty has a least element.
LEMMA LeastNat ==
    ASSUME NEW T \in SUBSET Nat, T # {}
    PROVE  \E x \in T : \A y \in T : x <= y
<1> DEFINE R == {ss \in Nat \X Nat : ss[1] < ss[2]}
<1>1. IsWellFoundedOn(R, Nat)
  BY NatLessThanWellFounded DEF OpToRel
<1>2. \E x \in T : \A y \in T : <<y, x>> \notin R
  BY <1>1, WFMin
<1>3. \A x, y \in Nat : <<y, x>> \notin R => x <= y
  OBVIOUS
<1> QED BY <1>2, <1>3

\* The walk of a list is well defined: Nth(d) satisfies the equation that defines it.
LEMMA NthDefined ==
    ASSUME NEW d, de[d].dir_size \in Nat
    PROVE  Nth(d) = [k \in 0 .. de[d].dir_size |->
                       IF k = 0 THEN de[d].head
                       ELSE IF Nth(d)[k - 1] = Null THEN Null ELSE cell[Nth(d)[k - 1]].next]
<1> DEFINE F(f, n) == [k \in 0 .. n |-> IF k = 0 THEN de[d].head
                                     ELSE IF f[k - 1] = Null THEN Null ELSE cell[f[k - 1]].next]
           Bad == {n \in Nat : ~\E f : f = F(f, n)}
<1>1. Bad = {}
  <2> SUFFICES ASSUME Bad # {} PROVE FALSE
    OBVIOUS
  <2>1. PICK n \in Bad : \A m \in Bad : n <= m
    <3> HIDE DEF F
    <3> QED BY LeastNat
  <2>2. CASE n = 0
    <3> DEFINE f == [k \in 0 .. 0 |-> de[d].head]
    <3>1. f = F(f, 0)
      OBVIOUS
    <3> QED BY <2>2, <2>1, <3>1
  <2>3. CASE n # 0
    <3>1. n - 1 \in Nat /\ n - 1 \notin Bad
      <4>1. n \in Nat
        OBVIOUS
      <4> HIDE DEF Bad
      <4> QED BY <4>1, <2>1, <2>3
    <3>2. PICK f : f = F(f, n - 1)
      BY <3>1
    <3> DEFINE g == [k \in 0 .. n |->
                       IF k < n THEN f[k]
                       ELSE IF f[n - 1] = Null THEN Null ELSE cell[f[n - 1]].next]
    <3>3. ASSUME NEW k \in 0 .. n
          PROVE  g[k] = F(g, n)[k]
      <4>1. CASE k = n
        BY <4>1, <2>3, <3>1
      <4>2. CASE k # n
        <5>1. k \in 0 .. n - 1 /\ k < n
          BY <4>2, <3>1
        <5>2. g[k] = f[k]
          BY <5>1
        <5>3. f[k] = F(f, n - 1)[k]
          BY <3>2
        <5>4. k # 0 => k - 1 \in 0 .. n /\ k - 1 < n /\ g[k - 1] = f[k - 1]
          BY <5>1
        <5> QED BY <5>1, <5>2, <5>3, <5>4
      <4> QED BY <4>1, <4>2
    <3>4. g = F(g, n)
      BY <3>3
    <3> QED BY <3>4, <2>1
  <2> QED BY <2>2, <2>3
<1>2. \E f : f = F(f, de[d].dir_size)
  BY <1>1
<1>3. Nth(d) = F(Nth(d), de[d].dir_size)
  BY <1>2 DEF Nth
<1> QED BY <1>3

\* A walk only meets cells.
LEMMA NthType ==
    ASSUME de \in [Ids -> DirEntry], cell \in [Cells -> ListEntry], NEW d \in Ids,
           NEW k \in 0 .. de[d].dir_size
    PROVE  Nth(d)[k] \in Cells \union {Null}
<1> DEFINE Bad == {n \in 0 .. de[d].dir_size : Nth(d)[n] \notin Cells \union {Null}}
<1>1. de[d].dir_size \in Nat /\ de[d].head \in Cells \union {Null}
  BY DEF DirEntry
<1> SUFFICES ASSUME Bad # {} PROVE FALSE
  OBVIOUS
<1>2. PICK n \in Bad : \A m \in Bad : n <= m
  <2>1. Bad \in SUBSET Nat
    BY <1>1
  <2> HIDE DEF Bad
  <2> QED BY <2>1, LeastNat
<1>3. Nth(d)[n] = IF n = 0 THEN de[d].head
                  ELSE IF Nth(d)[n - 1] = Null THEN Null ELSE cell[Nth(d)[n - 1]].next
  BY <1>1, <1>2, NthDefined
<1>4. CASE n = 0
  BY <1>1, <1>2, <1>3, <1>4
<1>5. CASE n # 0
  <2>1. n - 1 \in 0 .. de[d].dir_size /\ n - 1 < n /\ n - 1 \in Nat /\ n \in Nat
    BY <1>1, <1>2, <1>5
  <2>2. n - 1 \notin Bad
    BY <1>2, <2>1
  <2>3. Nth(d)[n - 1] \in Cells \union {Null}
    BY <2>1, <2>2
  <2>4. \A c \in Cells : cell[c].next \in Cells \union {Null}
    BY DEF ListEntry
  <2> QED BY <1>2, <1>3, <1>5, <2>3, <2>4
<1> QED BY <1>4, <1>5

\* What TypeOK says of the lists.
ListsOK ==
    /\ de \in [Ids -> DirEntry]
    /\ cell \in [Cells -> ListEntry]
    /\ free \subseteq Cells

\* insert_dir keeps the lists well typed, even if the tail is a freed cell.
LEMMA InsertType ==
    ASSUME ListsOK, NEW d \in Ids, NEW x \in Ids, insert_dir(d, x)
    PROVE  ListsOK'
<1> USE DEF ListsOK
<1>1. PICK c \in free :
        LET old == de[d].tail IN
        /\ free' = free \ {c}
        /\ IF de[d].dir_size = 0
           THEN /\ cell' = [cell EXCEPT ![c] = [de |-> x, last |-> Null, next |-> Null]]
                /\ de' = [de EXCEPT ![d] = [dir_size |-> 1, name |-> de[d].name, head |-> c, tail |-> c]]
           ELSE /\ cell' = [b \in Cells |->
                              [de |-> IF b = c THEN x ELSE cell[b].de,
                               last |-> IF b = c THEN old ELSE cell[b].last,
                               next |-> IF b = old THEN c
                                        ELSE IF b = c THEN Null ELSE cell[b].next]]
                /\ de' = [de EXCEPT ![d] = [dir_size |-> de[d].dir_size + 1, name |-> de[d].name,
                                         head |-> de[d].head, tail |-> c]]
  BY DEF insert_dir
<1>2. c \in Cells /\ de[d] \in DirEntry
  OBVIOUS
<1>3. free' \subseteq Cells
  BY <1>1
<1>4. de' \in [Ids -> DirEntry]
  BY <1>1, <1>2 DEF DirEntry
<1>5. cell' \in [Cells -> ListEntry]
  <2>1. CASE de[d].dir_size = 0
    BY <2>1, <1>1, <1>2 DEF ListEntry
  <2>2. CASE de[d].dir_size # 0
    <3>1. de[d].tail \in Cells \union {Null}
      BY <1>2 DEF DirEntry
    <3>2. \A b \in Cells : cell[b] \in ListEntry
      OBVIOUS
    <3> QED BY <2>2, <1>1, <1>2, <3>1, <3>2 DEF ListEntry
  <2> QED BY <2>1, <2>2
<1> QED BY <1>3, <1>4, <1>5

\* Unlinking a cell keeps the lists well typed; dir_size does not become negative,
\* for the walk that found the cell was bounded by it.
LEMMA UnlinkType ==
    ASSUME ListsOK, NEW d \in Ids, NEW x \in Ids, NEW k \in 0 .. de[d].dir_size - 1,
           Nth(d)[k] # Null, Unlinked(d, x, k)
    PROVE  ListsOK'
<1> USE DEF ListsOK
<1>1. de[d].dir_size \in Nat /\ de[d].dir_size - 1 \in Nat /\ k \in 0 .. de[d].dir_size
  BY DEF DirEntry
<1>2. Nth(d)[k] \in Cells
  BY <1>1, NthType
<1> DEFINE c == Nth(d)[k]
<1>3. cell[c].last \in Cells \union {Null} /\ cell[c].next \in Cells \union {Null}
  BY <1>2 DEF ListEntry
<1> HIDE DEF c
<1>4. /\ cell' = [b \in Cells |->
                  IF b = c THEN [de |-> cell[b].de, last |-> Null, next |-> Null]
                  ELSE [de |-> cell[b].de,
                        last |-> IF b = cell[c].next /\ k # de[x].dir_size - 1 THEN cell[c].last
                                 ELSE cell[b].last,
                        next |-> IF b = cell[c].last /\ k # 0 THEN cell[c].next ELSE cell[b].next]]
      /\ free' = free \union {c}
      /\ de' = [y \in Ids |->
                [dir_size |-> IF y = d THEN de[y].dir_size - 1 ELSE de[y].dir_size,
                 name |-> IF y = x THEN NoName ELSE de[y].name,
                 head |-> IF y = x THEN Null ELSE IF y = d /\ k = 0 THEN cell[c].next ELSE de[y].head,
                 tail |-> IF y = x THEN Null ELSE IF y = d /\ k = de[x].dir_size - 1 THEN cell[c].last
                          ELSE de[y].tail]]
  BY DEF Unlinked, c
<1>5. free' \subseteq Cells
  BY <1>2, <1>4 DEF c
<1>6. cell' \in [Cells -> ListEntry]
  <2>1. \A b \in Cells : cell[b] \in ListEntry
    OBVIOUS
  <2> QED BY <2>1, <1>3, <1>4 DEF ListEntry
<1>7. de' \in [Ids -> DirEntry]
  <2>1. \A y \in Ids : de[y] \in DirEntry
    OBVIOUS
  <2> QED BY <2>1, <1>1, <1>3, <1>4 DEF DirEntry
<1> QED BY <1>5, <1>6, <1>7

\* What an operation that is under way works on, whatever the kernel.
OpChild == \A o \in Objs : op[o].pc \notin {"idle", "victim"} => op[o].child \in Objs
TypeInv == TypeOK /\ OpChild

LEMMA InitType ==
    ASSUME Init
    PROVE  TypeInv
<1> USE TreeAssumption DEF Init, Fresh
<1>1. dir_id_bitmap \subseteq Ids /\ hashtbl \subseteq Ids
  BY DEF Ids, FLATFS_ROOT_INO
<1>2. de \in [Ids -> DirEntry]
  BY DEF EmptyEntry, DirEntry
<1>3. cell \in [Cells -> ListEntry]
  BY DEF ListEntry, Ids, ENOINO, FLATFS_ROOT_INO
<1>4. dir \in [Objs -> VfsDir]
  BY DEF FreeDir, VfsDir, Ids, FLATFS_ROOT_INO, ENOINO
<1>5. op \in [Objs -> OpRec] /\ OpChild
  BY DEF IdleOp, OpRec, OpChild
<1> QED BY <1>1, <1>2, <1>3, <1>4, <1>5 DEF TypeOK, TypeInv

\* Every step keeps the tree well typed.
LEMMA NextType ==
    ASSUME TypeInv, [Next]_vars
    PROVE  TypeInv'
<1> USE DEF TypeInv
<1>0. \A i \in Ids : i \in Int
  BY DEF Ids
<1>1. ENOINO \in Ids
  BY TreeAssumption DEF ENOINO, Ids, FLATFS_ROOT_INO
<1>2. CASE UNCHANGED vars
  BY <1>2 DEF vars, treeVars, TypeOK, OpChild
<1>3. ASSUME NEW o \in Objs, MkdirStart(o), UNCHANGED smp
      PROVE  TypeInv'
  <2>1. PICK n \in Names, c \in Objs :
          /\ dir' = [dir EXCEPT ![c] = [state |-> "new", id |-> ENOINO, parent |-> o, name |-> n]]
          /\ op' = [op EXCEPT ![o] = [pc |-> "find", child |-> c]]
    BY <1>3 DEF MkdirStart
  <2>2. dir' \in [Objs -> VfsDir]
    BY <2>1, <1>1 DEF TypeOK, VfsDir
  <2>3. op' \in [Objs -> OpRec]
    BY <2>1 DEF TypeOK, OpRec
  <2>4. OpChild'
    BY <2>1 DEF TypeOK, OpChild
  <2> QED BY <1>3, <2>2, <2>3, <2>4 DEF TypeOK, MkdirStart, treeVars
<1>4. ASSUME NEW c \in Objs, NEW s \in {"new", "filled", "live"}, NEW id \in Ids, NowChild(c, s, id)
      PROVE  dir' \in [Objs -> VfsDir]
  BY <1>4 DEF NowChild, TypeOK, VfsDir
<1>5. ASSUME NEW o \in Objs, op[o].pc \notin {"idle", "victim"},
             NEW pc \in {"find", "set", "link", "table", "oops"}, Goto(o, pc)
      PROVE  op' \in [Objs -> OpRec] /\ OpChild'
  <2>1. op' = [op EXCEPT ![o] = [pc |-> pc, child |-> op[o].child]]
    BY <1>5
  <2>2. op[o].child \in Objs
    BY <1>5 DEF OpChild
  <2> QED BY <2>1, <2>2 DEF TypeOK, OpRec, OpChild
<1>6. ASSUME NEW c \in Objs, NEW id \in Ids, Fill(id, dir[c].name)
      PROVE  dir_id_bitmap' \subseteq Ids /\ de' \in [Ids -> DirEntry]
  <2>1. dir[c].name \in Names \union {NoName}
    BY DEF TypeOK, VfsDir
  <2>2. CASE id = ENOINO
    BY <1>6, <2>2 DEF Fill, TypeOK
  <2>3. CASE id # ENOINO
    BY <1>6, <2>1, <2>3 DEF Fill, TypeOK, DirEntry
  <2> QED BY <2>2, <2>3
<1>7. ASSUME NEW o \in Objs, MkdirFind(o), UNCHANGED smp
      PROVE  TypeInv'
  <2> DEFINE c == op[o].child
  <2>1. op[o].pc = "find" /\ c \in Objs
    BY <1>7 DEF MkdirFind, OpChild
  <2>2. PICK id \in 0 .. NIds :
          /\ find_first_unused(id)
          /\ \/ NowChild(c, "new", id) /\ Goto(o, "set") /\ UNCHANGED <<dir_id_bitmap, de>>
             \/ NowChild(c, "filled", id) /\ Goto(o, "link") /\ Fill(id, dir[c].name)
    BY <1>7 DEF MkdirFind
  <2>3. id \in Ids
    BY <2>2, <1>1 DEF find_first_unused, Unused
  <2>4. dir' \in [Objs -> VfsDir]
    BY <2>1, <2>2, <2>3, <1>4
  <2>5. op' \in [Objs -> OpRec] /\ OpChild'
    <3>1. Goto(o, "set") \/ Goto(o, "link")
      BY <2>2
    <3> HIDE DEF Goto
    <3> QED BY <3>1, <2>1, <1>5
  <2>6. dir_id_bitmap' \subseteq Ids /\ de' \in [Ids -> DirEntry]
    <3>1. Fill(id, dir[c].name) \/ UNCHANGED <<dir_id_bitmap, de>>
      BY <2>2
    <3> QED BY <3>1, <2>1, <2>3, <1>6 DEF TypeOK
  <2>7. UNCHANGED <<cell, free, hashtbl>>
    BY <1>7 DEF MkdirFind
  <2> QED BY <1>7, <2>4, <2>5, <2>6, <2>7 DEF TypeOK
<1>8. ASSUME NEW o \in Objs, MkdirSet(o), UNCHANGED smp
      PROVE  TypeInv'
  <2> DEFINE c == op[o].child
  <2>1. op[o].pc = "set" /\ c \in Objs
    BY <1>8 DEF MkdirSet, OpChild
  <2>2. dir[c].id \in Ids
    BY <2>1 DEF TypeOK, VfsDir
  <2>3. dir' \in [Objs -> VfsDir]
    BY <1>8, <2>1, <2>2, <1>4 DEF MkdirSet
  <2>4. op' \in [Objs -> OpRec] /\ OpChild'
    <3>1. Goto(o, "link")
      BY <1>8 DEF MkdirSet
    <3> HIDE DEF Goto
    <3> QED BY <3>1, <2>1, <1>5
  <2>5. dir_id_bitmap' \subseteq Ids /\ de' \in [Ids -> DirEntry]
    BY <1>8, <2>1, <2>2, <1>6 DEF MkdirSet
  <2> QED BY <1>8, <2>3, <2>4, <2>5 DEF TypeOK, MkdirSet
<1>9. ASSUME NEW o \in Objs, MkdirLink(o), UNCHANGED smp
      PROVE  TypeInv'
  <2>1. op[o].pc = "link" /\ op[o].child \in Objs
    BY <1>9 DEF MkdirLink, OpChild
  <2>2. dir[o].id \in Ids /\ dir[op[o].child].id \in Ids
    BY <2>1 DEF TypeOK, VfsDir
  <2>3. ListsOK'
    <3>1. ListsOK
      BY DEF TypeOK, ListsOK
    <3>2. insert_dir(dir[o].id, dir[op[o].child].id) \/ UNCHANGED treeVars
      BY <1>9 DEF MkdirLink
    <3>3. CASE UNCHANGED treeVars
      BY <3>1, <3>3 DEF treeVars, ListsOK
    <3> QED BY <3>1, <3>2, <3>3, <2>2, InsertType
  <2>4. op' \in [Objs -> OpRec] /\ OpChild'
    <3>1. Goto(o, "table") \/ Goto(o, "oops")
      BY <1>9 DEF MkdirLink
    <3> HIDE DEF Goto
    <3> QED BY <3>1, <2>1, <1>5
  <2> QED BY <1>9, <2>3, <2>4 DEF TypeOK, ListsOK, MkdirLink
<1>10. ASSUME NEW o \in Objs, MkdirTable(o), UNCHANGED smp
       PROVE  TypeInv'
  <2>1. op[o].pc = "table" /\ op[o].child \in Objs
    BY <1>10 DEF MkdirTable, OpChild
  <2>2. dir[op[o].child].id \in Ids
    BY <2>1 DEF TypeOK, VfsDir
  <2>3. dir' \in [Objs -> VfsDir]
    BY <1>10, <2>1, <2>2, <1>4 DEF MkdirTable
  <2>4. op' \in [Objs -> OpRec] /\ OpChild'
    BY <1>10 DEF MkdirTable, TypeOK, OpRec, OpChild, IdleOp
  <2> QED BY <1>10, <2>2, <2>3, <2>4 DEF TypeOK, MkdirTable, treeVars
<1>11. ASSUME NEW o \in Objs, RmdirStart(o), UNCHANGED smp
       PROVE  TypeInv'
  <2>1. PICK v \in Objs :
          op' = [op EXCEPT ![o] = [pc |-> "remove", child |-> v],
                           ![v] = [pc |-> "victim", child |-> NoObj]]
    BY <1>11 DEF RmdirStart, Children
  <2>2. op' \in [Objs -> OpRec] /\ OpChild'
    BY <2>1 DEF TypeOK, OpRec, OpChild
  <2> QED BY <1>11, <2>2 DEF TypeOK, RmdirStart, treeVars
<1>12. ASSUME NEW o \in Objs, RmdirRemove(o), UNCHANGED smp
       PROVE  TypeInv'
  <2> DEFINE v == op[o].child
             d == dir[o].id
             x == dir[v].id
             hits == Hits(d, {x})
  <2>1. v \in Objs
    BY <1>12 DEF RmdirRemove, OpChild
  <2>2. d \in Ids /\ x \in Ids
    BY <2>1 DEF TypeOK, VfsDir
  <2>3. ListsOK
    BY DEF TypeOK, ListsOK
  <2>4. ListsOK' /\ dir_id_bitmap' \subseteq Ids /\ hashtbl' \subseteq Ids
    <3>1. remove_dir(d, x)
      BY <1>12 DEF RmdirRemove
    <3>2. CASE hits = {}
      BY <3>1, <3>2, <2>3 DEF remove_dir, treeVars, ListsOK, TypeOK
    <3>3. CASE hits # {}
      <4>1. hits \in SUBSET Nat
        BY DEF Hits
      <4> DEFINE k == CHOOSE j \in hits : \A i \in hits : j <= i
      <4>2. k \in hits
        <5> HIDE DEF hits
        <5> QED BY <4>1, <3>3, LeastNat
      <4>3. k \in 0 .. de[d].dir_size - 1 /\ Nth(d)[k] # Null
        <5> HIDE DEF k
        <5> QED BY <4>2 DEF Hits
      <4>4. Unlinked(d, x, k) /\ hashtbl' = hashtbl \ {x} /\ dir_id_bitmap' = dir_id_bitmap \ {x}
        BY <3>1, <3>3 DEF remove_dir
      <4> HIDE DEF k
      <4>5. ListsOK'
        BY <4>3, <4>4, <2>2, <2>3, UnlinkType
      <4> QED BY <4>4, <4>5 DEF TypeOK
    <3> QED BY <3>2, <3>3
  <2>5. dir' \in [Objs -> VfsDir]
    <3>1. FreeDir \in VfsDir
      BY <1>1 DEF FreeDir, VfsDir
    <3>2. [state |-> "dead", id |-> dir[v].id, parent |-> NoObj, name |-> NoName] \in VfsDir
      BY <2>2 DEF VfsDir
    <3> QED BY <1>12, <2>1, <3>1, <3>2 DEF RmdirRemove, Forgotten, TypeOK
  <2>6. op' \in [Objs -> OpRec] /\ OpChild'
    BY <1>12 DEF RmdirRemove, TypeOK, OpRec, OpChild, IdleOp
  <2> QED BY <1>12, <2>4, <2>5, <2>6 DEF TypeOK, ListsOK
<1>13. CASE Remount /\ UNCHANGED smp
  <2> USE TreeAssumption DEF Fresh
  <2>1. dir_id_bitmap' \subseteq Ids /\ hashtbl' \subseteq Ids
    BY <1>13 DEF Remount, Ids, FLATFS_ROOT_INO
  <2>2. de' \in [Ids -> DirEntry]
    BY <1>13 DEF Remount, EmptyEntry, DirEntry
  <2>3. cell' \in [Cells -> ListEntry]
    BY <1>13, <1>1 DEF Remount, ListEntry
  <2>4. dir' \in [Objs -> VfsDir]
    BY <1>13 DEF Remount, FreeDir, VfsDir, Ids, FLATFS_ROOT_INO, ENOINO
  <2>5. UNCHANGED op /\ free' = Cells
    BY <1>13 DEF Remount
  <2> QED BY <1>13, <2>1, <2>2, <2>3, <2>4, <2>5 DEF TypeOK, OpChild
<1> QED BY <1>2, <1>3, <1>7, <1>8, <1>9, <1>10, <1>11, <1>12, <1>13 DEF Next

\* The tree is always well typed: dir_size never becomes negative, and no list ever
\* leads outside the memory of its cells, however remove_dir has damaged it.
THEOREM TreeTypeCorrect == Spec => []TypeOK
<1>1. Spec => []TypeInv
  <2>1. Init => TypeInv
    BY InitType
  <2>2. TypeInv /\ [Next]_vars => TypeInv'
    BY NextType
  <2> QED BY <2>1, <2>2, PTL DEF Spec
<1>2. TypeInv => TypeOK
  BY DEF TypeInv
<1> QED BY <1>1, <1>2, PTL

-----------------------------------------------------------------------------
(* The root, on both kernels. *)

\* Nobody but the root has its id, not even while a mkdir is between finding an id
\* and setting its bit, and no operation works on the root as a child.
RootInv ==
    /\ TypeInv
    /\ FLATFS_ROOT_INO \in hashtbl /\ FLATFS_ROOT_INO \in dir_id_bitmap
    /\ dir[Root].state = "live" /\ dir[Root].parent = NoObj
    /\ \A o \in Objs \ {Root} : dir[o].id # FLATFS_ROOT_INO
    /\ \A o \in Objs : op[o].pc \notin {"idle", "victim"} => op[o].child # Root

\* A step in which a child other than the root may get another state and an id that is
\* not the root's, and no bit and no table of the root goes.
LEMMA RootStep ==
    ASSUME RootInv, TypeInv', NEW c \in Objs \ {Root}, NEW s, NEW id, id # FLATFS_ROOT_INO,
           NowChild(c, s, id),
           FLATFS_ROOT_INO \in hashtbl', FLATFS_ROOT_INO \in dir_id_bitmap',
           \A o \in Objs : op'[o].pc \notin {"idle", "victim"} => op'[o].child # Root
    PROVE  RootInv'
<1>1. dir \in [Objs -> VfsDir]
  BY DEF RootInv, TypeInv, TypeOK
<1>2. /\ dir'[Root] = dir[Root] /\ dir'[c].id = id
      /\ \A o \in Objs \ {c} : dir'[o] = dir[o]
  BY <1>1, TreeAssumption DEF NowChild
<1> QED BY <1>2, TreeAssumption DEF RootInv

LEMMA RootNext ==
    ASSUME RootInv, [Next]_vars
    PROVE  RootInv'
<1>0. TypeInv'
  BY NextType DEF RootInv
<1>1. /\ dir \in [Objs -> VfsDir] /\ op \in [Objs -> OpRec] /\ Root \in Objs /\ NoObj \notin Objs
      /\ OpChild /\ ENOINO # FLATFS_ROOT_INO
  BY TreeAssumption DEF RootInv, TypeInv, TypeOK, ENOINO, FLATFS_ROOT_INO
<1>2. CASE UNCHANGED vars
  BY <1>0, <1>2 DEF vars, treeVars, RootInv
<1>3. ASSUME NEW o \in Objs, MkdirStart(o)
      PROVE  RootInv'
  <2>1. PICK n \in Names, c \in Objs :
          /\ dir[c].state = "free"
          /\ dir' = [dir EXCEPT ![c] = [state |-> "new", id |-> ENOINO, parent |-> o, name |-> n]]
          /\ op' = [op EXCEPT ![o] = [pc |-> "find", child |-> c]]
    BY <1>3 DEF MkdirStart
  <2>2. c # Root
    BY <2>1 DEF RootInv
  <2>3. hashtbl' = hashtbl /\ dir_id_bitmap' = dir_id_bitmap
    BY <1>3 DEF MkdirStart
  <2>4. dir'[Root] = dir[Root] /\ \A b \in Objs \ {Root} : dir'[b].id # FLATFS_ROOT_INO
    BY <2>1, <2>2, <1>1 DEF RootInv
  <2>5. \A b \in Objs : op'[b].pc \notin {"idle", "victim"} => op'[b].child # Root
    BY <2>1, <2>2, <1>1 DEF RootInv
  <2> QED BY <1>0, <2>3, <2>4, <2>5 DEF RootInv
<1>4. ASSUME NEW o \in Objs, NEW pc, op[o].pc \notin {"idle", "victim"}, Goto(o, pc)
      PROVE  \A b \in Objs : op'[b].pc \notin {"idle", "victim"} => op'[b].child # Root
  BY <1>1, <1>4 DEF RootInv
<1>5. ASSUME NEW id, Fill(id, NoName) \/ \E n \in Names : Fill(id, n)
      PROVE  FLATFS_ROOT_INO \in dir_id_bitmap'
  BY <1>5 DEF Fill, RootInv
<1>6. ASSUME NEW o \in Objs, MkdirFind(o)
      PROVE  RootInv'
  <2> DEFINE c == op[o].child
  <2>1. op[o].pc = "find" /\ c \in Objs \ {Root}
    BY <1>6, <1>1 DEF MkdirFind, OpChild, RootInv
  <2>2. PICK id \in 0 .. NIds :
          /\ find_first_unused(id)
          /\ \/ NowChild(c, "new", id) /\ Goto(o, "set") /\ UNCHANGED <<dir_id_bitmap, de>>
             \/ NowChild(c, "filled", id) /\ Goto(o, "link") /\ Fill(id, dir[c].name)
    BY <1>6 DEF MkdirFind
  <2>3. id # FLATFS_ROOT_INO
    BY <2>2, <1>1 DEF find_first_unused, Unused, RootInv
  <2>4. dir[c].name \in Names \union {NoName}
    BY <2>1, <1>1 DEF VfsDir
  <2>5. FLATFS_ROOT_INO \in dir_id_bitmap'
    BY <2>2, <2>4, <1>5 DEF RootInv
  <2>6. FLATFS_ROOT_INO \in hashtbl'
    BY <1>6 DEF MkdirFind, RootInv
  <2>7. \A b \in Objs : op'[b].pc \notin {"idle", "victim"} => op'[b].child # Root
    BY <2>1, <2>2, <1>4
  <2>8. NowChild(c, "new", id) \/ NowChild(c, "filled", id)
    BY <2>2
  <2> QED BY <1>0, <2>1, <2>3, <2>5, <2>6, <2>7, <2>8, RootStep
<1>7. ASSUME NEW o \in Objs, MkdirSet(o)
      PROVE  RootInv'
  <2> DEFINE c == op[o].child
  <2>1. op[o].pc = "set" /\ c \in Objs \ {Root}
    BY <1>7, <1>1 DEF MkdirSet, OpChild, RootInv
  <2>2. /\ NowChild(c, "filled", dir[c].id) /\ Goto(o, "link")
        /\ Fill(dir[c].id, dir[c].name) /\ UNCHANGED hashtbl
    BY <1>7 DEF MkdirSet
  <2>3. dir[c].id # FLATFS_ROOT_INO /\ dir[c].name \in Names \union {NoName}
    BY <2>1, <1>1 DEF RootInv, VfsDir
  <2>4. FLATFS_ROOT_INO \in dir_id_bitmap' /\ FLATFS_ROOT_INO \in hashtbl'
    BY <2>2, <2>3, <1>5 DEF RootInv
  <2>5. \A b \in Objs : op'[b].pc \notin {"idle", "victim"} => op'[b].child # Root
    BY <2>1, <2>2, <1>4
  <2> QED BY <1>0, <2>1, <2>2, <2>3, <2>4, <2>5, RootStep
<1>8. ASSUME NEW o \in Objs, MkdirLink(o)
      PROVE  RootInv'
  <2>1. /\ op[o].pc = "link" /\ UNCHANGED <<dir_id_bitmap, hashtbl, dir>>
        /\ Goto(o, "table") \/ Goto(o, "oops")
    BY <1>8 DEF MkdirLink
  <2>2. \A b \in Objs : op'[b].pc \notin {"idle", "victim"} => op'[b].child # Root
    BY <2>1, <1>4
  <2> QED BY <1>0, <2>1, <2>2 DEF RootInv
<1>9. ASSUME NEW o \in Objs, MkdirTable(o)
      PROVE  RootInv'
  <2> DEFINE c == op[o].child
  <2>1. c \in Objs \ {Root}
    BY <1>9, <1>1 DEF MkdirTable, OpChild, RootInv
  <2>2. dir[c].id # FLATFS_ROOT_INO
    BY <2>1 DEF RootInv
  <2>3. /\ NowChild(c, "live", dir[c].id) /\ op' = [op EXCEPT ![o] = IdleOp]
        /\ FLATFS_ROOT_INO \in hashtbl' /\ FLATFS_ROOT_INO \in dir_id_bitmap'
    BY <1>9 DEF MkdirTable, RootInv
  <2>4. \A b \in Objs : op'[b].pc \notin {"idle", "victim"} => op'[b].child # Root
    BY <2>3, <1>1 DEF RootInv, IdleOp
  <2> QED BY <1>0, <2>1, <2>2, <2>3, <2>4, RootStep
<1>10. ASSUME NEW o \in Objs, RmdirStart(o)
       PROVE  RootInv'
  <2>1. PICK v \in Children(o) :
          op' = [op EXCEPT ![o] = [pc |-> "remove", child |-> v],
                           ![v] = [pc |-> "victim", child |-> NoObj]]
    BY <1>10 DEF RmdirStart
  <2>2. v \in Objs /\ v # Root
    BY <2>1, <1>1 DEF Children, RootInv
  <2>3. \A b \in Objs : op'[b].pc \notin {"idle", "victim"} => op'[b].child # Root
    BY <2>1, <2>2, <1>1 DEF RootInv
  <2> QED BY <1>0, <1>10, <2>3 DEF RootInv, RmdirStart
<1>11. ASSUME NEW o \in Objs, RmdirRemove(o)
       PROVE  RootInv'
  <2> DEFINE v == op[o].child
  <2>1. v \in Objs \ {Root}
    BY <1>11, <1>1 DEF RmdirRemove, OpChild, RootInv
  <2>2. dir[v].id # FLATFS_ROOT_INO
    BY <2>1 DEF RootInv
  <2>3. FLATFS_ROOT_INO \in hashtbl' /\ FLATFS_ROOT_INO \in dir_id_bitmap'
    BY <1>11, <2>2 DEF RmdirRemove, remove_dir, RootInv
  <2>4. /\ \A b \in Objs \ {v} : dir'[b] = dir[b]
        /\ dir'[v].id # FLATFS_ROOT_INO
    BY <1>11, <2>1, <2>2, <1>1 DEF RmdirRemove, Forgotten, FreeDir
  <2>5. \A b \in Objs : op'[b].pc \notin {"idle", "victim"} => op'[b].child # Root
    BY <1>11, <2>1, <1>1 DEF RmdirRemove, RootInv, IdleOp
  <2> QED BY <1>0, <1>1, <2>1, <2>3, <2>4, <2>5 DEF RootInv
<1>12. CASE Remount
  <2>1. /\ dir'[Root].state = "live" /\ dir'[Root].parent = NoObj
        /\ \A o \in Objs \ {Root} : dir'[o].id # FLATFS_ROOT_INO
    BY <1>12, <1>1 DEF Remount, Fresh, FreeDir
  <2> QED BY <1>0, <1>12, <2>1 DEF Remount, Fresh, RootInv
<1> QED BY <1>2, <1>3, <1>6, <1>7, <1>8, <1>9, <1>10, <1>11, <1>12 DEF Next

\* On uniprocessor and SMP kernels, whatever races get_unused_dir_id loses, the root
\* keeps its id to itself and its hash table: no bit that init_dir_id_bitmap set is
\* ever handed out or cleared.
THEOREM RootIsKept == Spec => []RootKept
<1>1. Init => RootInv
  <2> SUFFICES ASSUME Init PROVE RootInv
    OBVIOUS
  <2>1. TypeInv
    BY InitType
  <2>2. /\ dir[Root].state = "live" /\ dir[Root].parent = NoObj
        /\ \A o \in Objs \ {Root} : dir[o].id # FLATFS_ROOT_INO
    BY TreeAssumption DEF Init, Fresh, FreeDir, ENOINO, FLATFS_ROOT_INO
  <2>3. \A o \in Objs : op[o].pc = "idle"
    BY DEF Init, IdleOp
  <2> QED BY <2>1, <2>2, <2>3 DEF Init, Fresh, RootInv
<1>2. RootInv /\ [Next]_vars => RootInv'
  BY RootNext
<1>3. RootInv => RootKept
  BY DEF RootInv, RootKept
<1> QED BY <1>1, <1>2, <1>3, PTL DEF Spec

=============================================================================
