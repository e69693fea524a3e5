---------------------------- MODULE BigDirsProofs ----------------------------
(***************************************************************************)
(* Proofs about BigDirs, for any number of directories and of entries: the *)
(* state is well typed, flatfs_spinlock is given back, and as long as      *)
(* nobody was at the shared fields together with an operation that         *)
(* flatfs_spinlock does not keep apart from it, every big directory has a  *)
(* table of its own and the counter is exact.                              *)
(***************************************************************************)
EXTENDS BigDirs, FiniteSetTheorems, TLAPS

USE DEF At

\* An operation that has found an entry found one of the array; only a create
\* searches and allocates, and only one that comes from open(2) waits for the lock.
PosInv ==
    \A d \in Dirs :
        /\ Inside(d) => op[d].pos \in Entries
        /\ op[d].pc \in {"find", "search", "alloc"} => op[d].way # "rmdir"
        /\ op[d].pc = "lock" => op[d].way = "open"
TypeInv == TypeOK /\ PosInv

\* Everyone who came from open(2) and is past the lock holds it, and nobody else.
LockInv ==
    \A d \in Dirs : lock = d <=> (op[d].way = "open" /\ op[d].pc \notin {"idle", "lock"})

\* What holds as long as no two operations have met at the shared fields: one at a
\* time relies on them; it has read them as they are; the entry a create has found is
\* nobody's, and the one a rmdir gives back is nobody's any more; it is marked from
\* when the create has stored the bitmap, or until the rmdir has; a directory's entry
\* is marked, has a table and no second owner.
Alone == \A d, e \in Dirs : Inside(d) /\ Inside(e) => d = e
Current ==
    \A d \in Dirs :
        /\ op[d].pc = "store" => op[d].bits = bitmap
        /\ op[d].pc = "count" => op[d].num = num
FoundFree ==
    \A d \in Dirs : Inside(d) =>
        /\ \A c \in Dirs : big_dir_id[c] # op[d].pos
        /\ op[d].pos \in bitmap <=> (Late(d) <=> op[d].way # "rmdir")
        /\ op[d].way # "rmdir" /\ op[d].pc # "alloc" => op[d].pos \in table
Owned ==
    \A d \in Dirs : big_dir_id[d] # -1 =>
        /\ big_dir_id[d] \in bitmap /\ big_dir_id[d] \in table
        /\ \A c \in Dirs \ {d} : big_dir_id[c] # big_dir_id[d]
\* What the counter counts while d is between the two stores.
Counts(d) == IF op[d].way = "rmdir" THEN bitmap \union {op[d].pos} ELSE bitmap \ {op[d].pos}
Exact ==
    /\ (\A d \in Dirs : ~Late(d)) => num = Cardinality(bitmap) % 256
    /\ \A d \in Dirs : Late(d) => num = Cardinality(Counts(d)) % 256

Calm == Alone /\ Current /\ FoundFree /\ Owned /\ Exact
OwnInv ==
    /\ TypeInv
    /\ LockInv
    /\ met = 0 => Calm

-----------------------------------------------------------------------------
(* Types *)

\* The operation of d is now this record, and the others are what they were.
Moves(d, pc, way, pos, bits, n) ==
    /\ op' \in [Dirs -> Op]
    /\ op'[d].pc = pc /\ op'[d].way = way /\ op'[d].pos = pos
    /\ op'[d].bits = bits /\ op'[d].num = n
    /\ \A c \in Dirs \ {d} : op'[c] = op[c]

LEMMA MovesExcept ==
    ASSUME op \in [Dirs -> Op], NEW d \in Dirs, NEW r \in Op, op' = [op EXCEPT ![d] = r]
    PROVE  Moves(d, r.pc, r.way, r.pos, r.bits, r.num)
  BY DEF Moves

LEMMA OpFields ==
    ASSUME NEW pc, NEW way, NEW pos, NEW bits, NEW n,
           pc \in Pcs,
           way \in {"open", "mknod", "rmdir"}, pos \in -1 .. N, bits \in SUBSET Entries,
           n \in 0 .. 255
    PROVE  [pc |-> pc, way |-> way, pos |-> pos, bits |-> bits, num |-> n] \in Op
  BY DEF Op

\* Carry is Moves.
LEMMA MovesCarry ==
    ASSUME op \in [Dirs -> Op], NEW d \in Dirs, NEW pc, NEW way, NEW pos, NEW bits, NEW n,
           pc \in Pcs, way \in {"open", "mknod", "rmdir"}, pos \in Entries,
           bits \in SUBSET Entries, n \in 0 .. 255, Carry(d, pc, way, pos, bits, n)
    PROVE  Moves(d, pc, way, pos, bits, n)
<1> DEFINE r == [pc |-> pc, way |-> way, pos |-> pos, bits |-> bits, num |-> n]
<1>1. pos \in -1 .. N
  BY EntryAssumption DEF Entries
<1>2. r \in Op
  BY <1>1, OpFields
<1>3. op' = [op EXCEPT ![d] = r]
  BY DEF Carry
<1>4. r.pc = pc /\ r.way = way /\ r.pos = pos /\ r.bits = bits /\ r.num = n
  OBVIOUS
<1> HIDE DEF r
<1> QED BY <1>2, <1>3, <1>4, MovesExcept

LEMMA MovesGoto ==
    ASSUME op \in [Dirs -> Op], NEW d \in Dirs, NEW pc, Goto(d, pc),
           pc \in Pcs
    PROVE  Moves(d, pc, op[d].way, op[d].pos, op[d].bits, op[d].num)
<1> DEFINE r == [op[d] EXCEPT !.pc = pc]
<1>1. op[d] \in Op
  OBVIOUS
<1>2. /\ r \in Op /\ r.pc = pc /\ r.way = op[d].way /\ r.pos = op[d].pos
      /\ r.bits = op[d].bits /\ r.num = op[d].num
  BY <1>1 DEF Op
<1>3. op' = [op EXCEPT ![d] = r]
  BY DEF Goto
<1> HIDE DEF r
<1> QED BY <1>2, <1>3, MovesExcept

LEMMA MovesPast ==
    ASSUME op \in [Dirs -> Op], NEW d \in Dirs, N \in Nat, op' = [op EXCEPT ![d].pos = N]
    PROVE  Moves(d, op[d].pc, op[d].way, N, op[d].bits, op[d].num)
<1> DEFINE r == [op[d] EXCEPT !.pos = N]
<1>1. op[d] \in Op /\ N \in -1 .. N
  OBVIOUS
<1>2. /\ r \in Op /\ r.pc = op[d].pc /\ r.way = op[d].way /\ r.pos = N
      /\ r.bits = op[d].bits /\ r.num = op[d].num
  BY <1>1 DEF Op
<1>3. op' = [op EXCEPT ![d] = r]
  OBVIOUS
<1> HIDE DEF r
<1> QED BY <1>2, <1>3, MovesExcept

LEMMA MovesBecome ==
    ASSUME op \in [Dirs -> Op], NEW d \in Dirs, N \in Nat, NEW pc, NEW way, Become(d, pc, way),
           pc \in Pcs,
           way \in {"open", "mknod", "rmdir"}
    PROVE  Moves(d, pc, way, -1, {}, 0)
<1> DEFINE r == [pc |-> pc, way |-> way, pos |-> -1, bits |-> {}, num |-> 0]
<1>1. -1 \in -1 .. N /\ {} \in SUBSET Entries /\ 0 \in 0 .. 255
  OBVIOUS
<1>2. r \in Op
  BY <1>1, OpFields
<1>3. op' = [op EXCEPT ![d] = r]
  BY DEF Become
<1>4. r.pc = pc /\ r.way = way /\ r.pos = -1 /\ r.bits = {} /\ r.num = 0
  OBVIOUS
<1> HIDE DEF r
<1> QED BY <1>2, <1>3, <1>4, MovesExcept

LEMMA MovesIdle ==
    ASSUME op \in [Dirs -> Op], NEW d \in Dirs, N \in Nat, op' = [op EXCEPT ![d] = IdleOp]
    PROVE  Moves(d, "idle", "open", -1, {}, 0)
<1>1. Become(d, "idle", "open")
  BY DEF Become, IdleOp
<1> QED BY <1>1, MovesBecome DEF Pcs

\* PosInv after a step of d, from what the step made of its operation.
LEMMA PosStep ==
    ASSUME PosInv, NEW d \in Dirs, NEW pc, NEW way, NEW pos, NEW bits, NEW n,
           Moves(d, pc, way, pos, bits, n),
           pc \in {"alloc", "load", "store", "num", "count"} => pos \in Entries,
           pc \in {"find", "search", "alloc"} => way # "rmdir",
           pc = "lock" => way = "open"
    PROVE  PosInv'
<1> SUFFICES ASSUME NEW c \in Dirs
             PROVE  /\ Inside(c)' => op'[c].pos \in Entries
                    /\ op'[c].pc \in {"find", "search", "alloc"} => op'[c].way # "rmdir"
                    /\ op'[c].pc = "lock" => op'[c].way = "open"
  BY DEF PosInv, Entries
<1>1. CASE c = d
  BY <1>1 DEF Moves, Inside
<1>2. CASE c # d
  BY <1>2 DEF Moves, PosInv, Inside
<1> QED BY <1>1, <1>2

\* What the fields of an operation are.
LEMMA OpTyped ==
    ASSUME TypeOK, NEW d \in Dirs
    PROVE  /\ op[d].pc \in Pcs
           /\ op[d].way \in {"open", "mknod", "rmdir"}
           /\ op[d].bits \subseteq Entries /\ op[d].num \in 0 .. 255
  BY DEF TypeOK, Op

LEMMA Modulo ==
    ASSUME NEW n \in 0 .. 255
    PROVE  (n + 1) % 256 \in 0 .. 255 /\ (n - 1) % 256 \in 0 .. 255
  OBVIOUS

\* What each action does to the operation of its directory.
Shape(d) ==
    \/ /\ Start(d)
       /\ Moves(d, "lock", "open", -1, {}, 0) \/ Moves(d, "find", "mknod", -1, {}, 0)
    \/ LockOpen(d) /\ Moves(d, "find", op[d].way, op[d].pos, op[d].bits, op[d].num)
    \/ UnlockOpen(d) /\ Moves(d, "idle", "open", -1, {}, 0)
    \/ /\ resize_dir(d)
       /\ \/ Moves(d, "unlock", op[d].way, op[d].pos, op[d].bits, op[d].num)
          \/ Moves(d, "search", op[d].way, op[d].pos, op[d].bits, op[d].num)
    \/ /\ find_first_zero_bit(d)
       /\ \/ \E e \in Entries : FirstFree(e) /\ Moves(d, "alloc", op[d].way, e, {}, 0)
          \/ Moves(d, op[d].pc, op[d].way, N, op[d].bits, op[d].num)
    \/ init_big_file_ht(d) /\ Moves(d, "load", op[d].way, op[d].pos, op[d].bits, op[d].num)
    \/ /\ ffs_rmdir(d)
       /\ \/ /\ Moves(d, "load", "rmdir", big_dir_id[d], {}, 0)
             /\ big_dir_id[d] \in table /\ table' = table \ {big_dir_id[d]} /\ Enters(d, "rmdir")
          \/ UNCHANGED <<table, met, op>>
    \/ LoadBits(d) /\ Moves(d, "store", op[d].way, op[d].pos, bitmap, 0)
    \/ StoreBits(d) /\ Moves(d, "num", op[d].way, op[d].pos, {}, 0)
    \/ LoadNum(d) /\ Moves(d, "count", op[d].way, op[d].pos, {}, num)
    \/ ffs_mknod(d) /\ Moves(d, "unlock", op[d].way, -1, {}, 0)
    \/ remove_dir(d) /\ Moves(d, "idle", "open", -1, {}, 0)

LEMMA Shapes ==
    ASSUME TypeInv, Next
    PROVE  \E d \in Dirs : Shape(d)
<1> USE EntryAssumption
<1>0. /\ N \in Nat /\ op \in [Dirs -> Op] /\ TypeOK /\ PosInv
      /\ {} \in SUBSET Entries /\ bitmap \in SUBSET Entries /\ num \in 0 .. 255 /\ 0 \in 0 .. 255
      /\ Pcs = {"idle", "lock", "find", "search", "alloc", "load", "store", "num", "count", "unlock"}
  BY DEF TypeInv, TypeOK, Pcs
<1> SUFFICES ASSUME NEW d \in Dirs, Start(d) \/ ffs_rmdir(d) \/ Step(d)
             PROVE  Shape(d)
  BY DEF Next
<1>a. op[d].way \in {"open", "mknod", "rmdir"} /\ (Inside(d) => op[d].pos \in Entries)
  BY <1>0, OpTyped DEF PosInv
<1>1. CASE Start(d)
  <2>1. CASE Become(d, "lock", "open")
    BY <1>0, <1>1, <2>1, MovesBecome DEF Shape
  <2>2. CASE Become(d, "find", "mknod")
    BY <1>0, <1>1, <2>2, MovesBecome DEF Shape
  <2> QED BY <1>1, <2>1, <2>2 DEF Start
<1>2. CASE LockOpen(d)
  <2>1. Goto(d, "find")
    BY <1>2 DEF LockOpen
  <2> QED BY <1>0, <1>2, <2>1, MovesGoto DEF Shape
<1>3. CASE UnlockOpen(d)
  <2>1. op' = [op EXCEPT ![d] = IdleOp]
    BY <1>3 DEF UnlockOpen
  <2> QED BY <1>0, <1>3, <2>1, MovesIdle DEF Shape
<1>4. CASE resize_dir(d)
  <2>1. CASE Goto(d, "unlock")
    BY <1>0, <1>4, <2>1, MovesGoto DEF Shape
  <2>2. CASE Goto(d, "search")
    BY <1>0, <1>4, <2>2, MovesGoto DEF Shape
  <2> QED BY <1>4, <2>1, <2>2 DEF resize_dir
<1>5. CASE find_first_zero_bit(d)
  <2>1. CASE \E e \in Entries : FirstFree(e) /\ Carry(d, "alloc", op[d].way, e, {}, 0)
    <3>1. PICK e \in Entries : FirstFree(e) /\ Carry(d, "alloc", op[d].way, e, {}, 0)
      BY <2>1
    <3>2. Moves(d, "alloc", op[d].way, e, {}, 0)
      BY <1>0, <1>a, <3>1, MovesCarry
    <3> QED BY <1>5, <3>1, <3>2 DEF Shape
  <2>2. CASE op' = [op EXCEPT ![d].pos = N]
    <3>1. Moves(d, op[d].pc, op[d].way, N, op[d].bits, op[d].num)
      BY <1>0, <2>2, MovesPast
    <3> QED BY <1>5, <3>1 DEF Shape
  <2> QED BY <1>5, <2>1, <2>2 DEF find_first_zero_bit
<1>6. CASE init_big_file_ht(d)
  <2>1. Goto(d, "load")
    BY <1>6 DEF init_big_file_ht
  <2> QED BY <1>0, <1>6, <2>1, MovesGoto DEF Shape
<1>7. CASE ffs_rmdir(d)
  <2>1. CASE UNCHANGED <<table, met, op>>
    BY <1>7, <2>1 DEF Shape
  <2>2. CASE /\ big_dir_id[d] \in table /\ table' = table \ {big_dir_id[d]} /\ Enters(d, "rmdir")
             /\ Carry(d, "load", "rmdir", big_dir_id[d], {}, 0)
    <3>1. big_dir_id[d] \in Entries
      BY <1>0, <2>2 DEF TypeOK
    <3>2. Moves(d, "load", "rmdir", big_dir_id[d], {}, 0)
      BY <1>0, <2>2, <3>1, MovesCarry
    <3> QED BY <1>7, <2>2, <3>2 DEF Shape
  <2> QED BY <1>7, <2>1, <2>2 DEF ffs_rmdir
<1>8. CASE LoadBits(d)
  <2>1. Carry(d, "store", op[d].way, op[d].pos, bitmap, 0) /\ Inside(d)
    BY <1>8 DEF LoadBits, Inside
  <2>2. Moves(d, "store", op[d].way, op[d].pos, bitmap, 0)
    BY <1>0, <1>a, <2>1, MovesCarry
  <2> QED BY <1>8, <2>2 DEF Shape
<1>9. CASE StoreBits(d)
  <2>1. Carry(d, "num", op[d].way, op[d].pos, {}, 0) /\ Inside(d)
    BY <1>9 DEF StoreBits, Inside
  <2>2. Moves(d, "num", op[d].way, op[d].pos, {}, 0)
    BY <1>0, <1>a, <2>1, MovesCarry
  <2> QED BY <1>9, <2>2 DEF Shape
<1>10. CASE LoadNum(d)
  <2>1. Carry(d, "count", op[d].way, op[d].pos, {}, num) /\ Inside(d)
    BY <1>10 DEF LoadNum, Inside
  <2>2. Moves(d, "count", op[d].way, op[d].pos, {}, num)
    BY <1>0, <1>a, <2>1, MovesCarry
  <2> QED BY <1>10, <2>2 DEF Shape
<1>11. CASE ffs_mknod(d)
  <2>1. Become(d, "unlock", op[d].way)
    BY <1>11 DEF ffs_mknod
  <2>2. Moves(d, "unlock", op[d].way, -1, {}, 0)
    BY <1>0, <1>a, <2>1, MovesBecome
  <2> QED BY <1>11, <2>2 DEF Shape
<1>12. CASE remove_dir(d)
  <2>1. op' = [op EXCEPT ![d] = IdleOp]
    BY <1>12 DEF remove_dir
  <2> QED BY <1>0, <1>12, <2>1, MovesIdle DEF Shape
<1> QED BY <1>1, <1>2, <1>3, <1>4, <1>5, <1>6, <1>7, <1>8, <1>9, <1>10, <1>11, <1>12 DEF Step

LEMMA TypeStep ==
    ASSUME TypeInv, [Next]_vars
    PROVE  TypeInv'
<1> USE EntryAssumption
<1>0. N \in Nat /\ TypeOK /\ PosInv
  BY DEF TypeInv
<1>1. CASE UNCHANGED vars
  BY <1>0, <1>1 DEF TypeInv, TypeOK, PosInv, vars, sbVars, Entries, Inside
<1>2. CASE Next
  <2>1. PICK d \in Dirs : Shape(d)
    BY <1>2, Shapes
  <2>2. /\ op[d].way \in {"open", "mknod", "rmdir"}
        /\ op[d].bits \subseteq Entries /\ op[d].num \in 0 .. 255
    BY <1>0, OpTyped
  <2>3. /\ Inside(d) => op[d].pos \in Entries
        /\ op[d].pc \in {"find", "search", "alloc"} => op[d].way # "rmdir"
        /\ op[d].pc = "lock" => op[d].way = "open"
    BY <1>0 DEF PosInv
  <2>4. /\ Enters(d, op[d].way) => met' \in Nat
        /\ Enters(d, "rmdir") => met' \in Nat
    BY <1>0 DEF Enters, TypeOK
  <2>5. CASE /\ Start(d)
             /\ Moves(d, "lock", "open", -1, {}, 0) \/ Moves(d, "find", "mknod", -1, {}, 0)
    <3>1. PosInv'
      BY <1>0, <2>5, PosStep
    <3>2. TypeOK'
      BY <1>0, <2>5 DEF TypeOK, Start, Moves, sbVars, Entries
    <3> QED BY <3>1, <3>2 DEF TypeInv
  <2>6. CASE LockOpen(d) /\ Moves(d, "find", op[d].way, op[d].pos, op[d].bits, op[d].num)
    <3>1. PosInv'
      BY <1>0, <2>3, <2>6, PosStep DEF LockOpen
    <3>2. TypeOK'
      BY <1>0, <2>6 DEF TypeOK, LockOpen, Moves, sbVars, Entries
    <3> QED BY <3>1, <3>2 DEF TypeInv
  <2>7. CASE UnlockOpen(d) /\ Moves(d, "idle", "open", -1, {}, 0)
    <3>1. PosInv'
      BY <1>0, <2>7, PosStep
    <3>2. TypeOK'
      BY <1>0, <2>7 DEF TypeOK, UnlockOpen, Moves, sbVars, Entries
    <3> QED BY <3>1, <3>2 DEF TypeInv
  <2>8. CASE /\ resize_dir(d)
             /\ \/ Moves(d, "unlock", op[d].way, op[d].pos, op[d].bits, op[d].num)
                \/ Moves(d, "search", op[d].way, op[d].pos, op[d].bits, op[d].num)
    <3>1. op[d].way # "rmdir"
      BY <2>3, <2>8 DEF resize_dir
    <3>2. PosInv'
      BY <1>0, <2>8, <3>1, PosStep
    <3>3. TypeOK'
      BY <1>0, <2>8 DEF TypeOK, resize_dir, Moves, sbVars, Entries
    <3> QED BY <3>2, <3>3 DEF TypeInv
  <2>9. CASE /\ find_first_zero_bit(d)
             /\ \E e \in Entries : FirstFree(e) /\ Moves(d, "alloc", op[d].way, e, {}, 0)
    <3>1. PICK e \in Entries : Moves(d, "alloc", op[d].way, e, {}, 0)
      BY <2>9
    <3>2. op[d].way # "rmdir" /\ Enters(d, op[d].way)
      BY <2>3, <2>9 DEF find_first_zero_bit
    <3>3. PosInv'
      BY <1>0, <3>1, <3>2, PosStep
    <3>4. UNCHANGED <<sbVars, big_dir_id, lock>>
      BY <2>9 DEF find_first_zero_bit
    <3>5. TypeOK'
      BY <1>0, <2>4, <3>1, <3>2, <3>4 DEF TypeOK, Moves, sbVars, Entries
    <3> QED BY <3>3, <3>5 DEF TypeInv
  <2>10. CASE /\ find_first_zero_bit(d)
              /\ Moves(d, op[d].pc, op[d].way, N, op[d].bits, op[d].num)
    <3>1. /\ op[d].pc = "search" /\ UNCHANGED <<sbVars, big_dir_id, lock>>
          /\ Enters(d, op[d].way)
      BY <2>10 DEF find_first_zero_bit
    <3>2. PosInv'
      BY <1>0, <2>3, <2>10, <3>1, PosStep
    <3>3. TypeOK'
      BY <1>0, <2>4, <2>10, <3>1 DEF TypeOK, Moves, sbVars, Entries
    <3> QED BY <3>2, <3>3 DEF TypeInv
  <2>11. CASE init_big_file_ht(d) /\ Moves(d, "load", op[d].way, op[d].pos, op[d].bits, op[d].num)
    <3>1. op[d].pos \in Entries
      BY <2>3, <2>11 DEF init_big_file_ht, Inside
    <3>2. PosInv'
      BY <1>0, <2>11, <3>1, PosStep
    <3>3. TypeOK'
      BY <1>0, <2>11, <3>1 DEF TypeOK, init_big_file_ht, Moves, sbVars, Entries
    <3> QED BY <3>2, <3>3 DEF TypeInv
  <2>12. CASE ffs_rmdir(d) /\ UNCHANGED <<table, met, op>>
    <3>1. big_dir_id' \in [Dirs -> -1 .. N - 1]
      BY <1>0, <2>12 DEF ffs_rmdir, TypeOK
    <3>2. TypeOK' /\ PosInv'
      BY <1>0, <2>12, <3>1 DEF TypeOK, PosInv, ffs_rmdir, Entries, Inside
    <3> QED BY <3>2 DEF TypeInv
  <2>13. CASE /\ ffs_rmdir(d)
              /\ Moves(d, "load", "rmdir", big_dir_id[d], {}, 0)
              /\ big_dir_id[d] \in table /\ table' = table \ {big_dir_id[d]} /\ Enters(d, "rmdir")
    <3>1. big_dir_id' \in [Dirs -> -1 .. N - 1]
      BY <1>0, <2>13 DEF ffs_rmdir, TypeOK
    <3>2. big_dir_id[d] \in Entries
      BY <1>0, <2>13 DEF TypeOK
    <3>3. PosInv'
      BY <1>0, <2>13, <3>2, PosStep
    <3>4. TypeOK'
      BY <1>0, <2>4, <2>13, <3>1 DEF TypeOK, ffs_rmdir, Moves, Entries
    <3> QED BY <3>3, <3>4 DEF TypeInv
  <2>14. CASE LoadBits(d) /\ Moves(d, "store", op[d].way, op[d].pos, bitmap, 0)
    <3>1. op[d].pos \in Entries
      BY <2>3, <2>14 DEF LoadBits, Inside
    <3>2. PosInv'
      BY <1>0, <2>14, <3>1, PosStep
    <3>3. TypeOK'
      BY <1>0, <2>14 DEF TypeOK, LoadBits, Moves, sbVars, Entries
    <3> QED BY <3>2, <3>3 DEF TypeInv
  <2>15. CASE StoreBits(d) /\ Moves(d, "num", op[d].way, op[d].pos, {}, 0)
    <3>1. op[d].pos \in Entries
      BY <2>3, <2>15 DEF StoreBits, Inside
    <3>2. PosInv'
      BY <1>0, <2>15, <3>1, PosStep
    <3>3. bitmap' \subseteq Entries
      BY <2>2, <2>15, <3>1 DEF StoreBits
    <3>4. TypeOK'
      BY <1>0, <2>15, <3>3 DEF TypeOK, StoreBits, Moves, Entries
    <3> QED BY <3>2, <3>4 DEF TypeInv
  <2>16. CASE LoadNum(d) /\ Moves(d, "count", op[d].way, op[d].pos, {}, num)
    <3>1. op[d].pos \in Entries
      BY <2>3, <2>16 DEF LoadNum, Inside
    <3>2. PosInv'
      BY <1>0, <2>16, <3>1, PosStep
    <3>3. TypeOK'
      BY <1>0, <2>16 DEF TypeOK, LoadNum, Moves, sbVars, Entries
    <3> QED BY <3>2, <3>3 DEF TypeInv
  <2>17. CASE ffs_mknod(d) /\ Moves(d, "unlock", op[d].way, -1, {}, 0)
    <3>1. PosInv'
      BY <1>0, <2>17, PosStep
    <3>2. num' \in 0 .. 255
      BY <2>2, <2>17, Modulo DEF ffs_mknod
    <3>3. op[d].pos \in Entries
      BY <2>3, <2>17 DEF ffs_mknod, Inside
    <3>4. big_dir_id' \in [Dirs -> -1 .. N - 1]
      BY <1>0, <2>17, <3>3 DEF ffs_mknod, TypeOK, Entries
    <3>5. TypeOK'
      BY <1>0, <2>17, <3>2, <3>4 DEF TypeOK, ffs_mknod, Moves, Entries
    <3> QED BY <3>1, <3>5 DEF TypeInv
  <2>18. CASE remove_dir(d) /\ Moves(d, "idle", "open", -1, {}, 0)
    <3>1. PosInv'
      BY <1>0, <2>18, PosStep
    <3>2. num' \in 0 .. 255
      BY <2>2, <2>18, Modulo DEF remove_dir
    <3>3. TypeOK'
      BY <1>0, <2>18, <3>2 DEF TypeOK, remove_dir, Moves, Entries
    <3> QED BY <3>1, <3>3 DEF TypeInv
  <2> QED BY <2>1, <2>5, <2>6, <2>7, <2>8, <2>9, <2>10, <2>11, <2>12, <2>13, <2>14, <2>15, <2>16,
             <2>17, <2>18 DEF Shape
<1> QED BY <1>1, <1>2

LEMMA TypeInit ==
    ASSUME Init
    PROVE  TypeInv
<1> USE EntryAssumption
<1>1. IdleOp \in Op
  BY DEF IdleOp, Op, Entries, Pcs
<1>2. op \in [Dirs -> Op] /\ \A d \in Dirs : op[d].pc = "idle"
  BY <1>1 DEF Init, IdleOp
<1> QED BY <1>2 DEF Init, TypeInv, TypeOK, PosInv, Entries, Inside

\* The counter stays a __u8 and no inode ever names an entry past the array: the ones
\* that resize_dir finds past it are met before they get there.
THEOREM BigTypeCorrect == Spec => []TypeOK
<1>1. Init => TypeInv
  BY TypeInit
<1>2. TypeInv /\ [Next]_vars => TypeInv'
  BY TypeStep
<1>3. TypeInv => TypeOK
  BY DEF TypeInv
<1> QED BY <1>1, <1>2, <1>3, PTL DEF Spec

-----------------------------------------------------------------------------
(* One at a time *)

LEMMA LockStep ==
    ASSUME TypeInv, LockInv, [Next]_vars
    PROVE  LockInv'
<1> USE EntryAssumption
<1>0. TypeOK /\ PosInv
  BY DEF TypeInv
<1>1. CASE UNCHANGED vars
  BY <1>1 DEF LockInv, vars
<1>2. CASE Next
  <2>1. PICK d \in Dirs : Shape(d)
    BY <1>2, Shapes
  <2> DEFINE Past(c) == op[c].way = "open" /\ op[c].pc \notin {"idle", "lock"}
  <2>2. \A c \in Dirs : lock = c <=> Past(c)
    BY DEF LockInv
  <2>3. CASE LockOpen(d) /\ Moves(d, "find", op[d].way, op[d].pos, op[d].bits, op[d].num)
    <3>1. op[d].way = "open" /\ lock' = d /\ lock = None
      BY <1>0, <2>3 DEF LockOpen, PosInv
    <3>2. \A c \in Dirs : ~Past(c)
      BY <2>2, <3>1
    <3> QED BY <2>3, <3>1, <3>2 DEF Moves, LockInv
  <2>4. CASE UnlockOpen(d) /\ Moves(d, "idle", "open", -1, {}, 0)
    <3>1. op[d].pc = "unlock" /\ lock' = IF op[d].way = "open" THEN None ELSE lock
      BY <2>4 DEF UnlockOpen
    <3>2. op'[d].pc = "idle" /\ \A c \in Dirs \ {d} : op'[c] = op[c]
      BY <2>4 DEF Moves
    <3> QED BY <2>2, <3>1, <3>2 DEF LockInv
  <2>5. CASE UNCHANGED lock /\ \A c \in Dirs : Past(c)' <=> Past(c)
    BY <2>2, <2>5 DEF LockInv
  <2> HIDE DEF Past
  <2>6. CASE /\ Start(d)
             /\ Moves(d, "lock", "open", -1, {}, 0) \/ Moves(d, "find", "mknod", -1, {}, 0)
    BY <2>5, <2>6 DEF Start, Moves, Past
  <2>7. CASE /\ resize_dir(d)
             /\ \/ Moves(d, "unlock", op[d].way, op[d].pos, op[d].bits, op[d].num)
                \/ Moves(d, "search", op[d].way, op[d].pos, op[d].bits, op[d].num)
    BY <2>5, <2>7 DEF resize_dir, Moves, Past
  <2>8. CASE find_first_zero_bit(d) /\ \E e \in Entries : Moves(d, "alloc", op[d].way, e, {}, 0)
    BY <2>5, <2>8 DEF find_first_zero_bit, Moves, Past
  <2>9. CASE find_first_zero_bit(d) /\ Moves(d, op[d].pc, op[d].way, N, op[d].bits, op[d].num)
    BY <2>5, <2>9 DEF find_first_zero_bit, Moves, Past
  <2>10. CASE init_big_file_ht(d) /\ Moves(d, "load", op[d].way, op[d].pos, op[d].bits, op[d].num)
    BY <2>5, <2>10 DEF init_big_file_ht, Moves, Past
  <2>11. CASE ffs_rmdir(d) /\ Moves(d, "load", "rmdir", big_dir_id[d], {}, 0)
    BY <2>5, <2>11 DEF ffs_rmdir, Moves, Past
  <2>12. CASE ffs_rmdir(d) /\ UNCHANGED op
    BY <2>5, <2>12 DEF ffs_rmdir, Past
  <2>13. CASE LoadBits(d) /\ Moves(d, "store", op[d].way, op[d].pos, bitmap, 0)
    BY <2>5, <2>13 DEF LoadBits, Moves, Past
  <2>14. CASE StoreBits(d) /\ Moves(d, "num", op[d].way, op[d].pos, {}, 0)
    BY <2>5, <2>14 DEF StoreBits, Moves, Past
  <2>15. CASE LoadNum(d) /\ Moves(d, "count", op[d].way, op[d].pos, {}, num)
    BY <2>5, <2>15 DEF LoadNum, Moves, Past
  <2>16. CASE ffs_mknod(d) /\ Moves(d, "unlock", op[d].way, -1, {}, 0)
    BY <2>5, <2>16 DEF ffs_mknod, Moves, Past
  <2>17. CASE remove_dir(d) /\ Moves(d, "idle", "open", -1, {}, 0)
    BY <2>5, <2>17 DEF remove_dir, Moves, Past
  <2> QED BY <2>1, <2>3, <2>4, <2>6, <2>7, <2>8, <2>9, <2>10, <2>11, <2>12, <2>13, <2>14, <2>15,
             <2>16, <2>17 DEF Shape
<1> QED BY <1>1, <1>2

\* Who begins to rely on the bitmap without a meeting is the only one to: two creates
\* that came from open(2) would both hold flatfs_spinlock.
LEMMA EntersAlone ==
    ASSUME TypeOK, NEW d \in Dirs, NEW way, Enters(d, way), met' = 0,
           way = "open" => \A e \in Dirs \ {d} : Inside(e) => op[e].way # "open"
    PROVE  met = 0 /\ \A e \in Dirs \ {d} : ~Inside(e)
<1>1. met \in Nat
  BY DEF TypeOK
<1>2. ~ \E e \in Dirs \ {d} : Inside(e) /\ ~(way = "open" /\ op[e].way = "open")
  BY <1>1 DEF Enters
<1> QED BY <1>2 DEF Enters

\* A marked entry taken out and put back, an unmarked one put in and taken out; and
\* the count of the two sets.
LEMMA CountStep ==
    ASSUME NEW S, S \subseteq Entries, NEW e
    PROVE  /\ e \in S => /\ (S \ {e}) \union {e} = S
                         /\ ((Cardinality(S \ {e}) % 256) + 1) % 256 = Cardinality(S) % 256
           /\ e \notin S => /\ (S \union {e}) \ {e} = S
                            /\ ((Cardinality(S \union {e}) % 256) - 1) % 256 = Cardinality(S) % 256
<1> USE EntryAssumption
<1>1. IsFiniteSet(Entries)
  BY FS_Interval DEF Entries
<1>2. IsFiniteSet(S)
  BY <1>1, FS_Subset
<1>3. Cardinality(S) \in Nat
  BY <1>2, FS_CardinalityType
<1>4. e \notin S => Cardinality(S \union {e}) = Cardinality(S) + 1
  BY <1>2, FS_AddElement
<1>5. e \in S => Cardinality(S \ {e}) = Cardinality(S) - 1
  BY <1>2, FS_RemoveElement
<1>6. \A k \in Int : (((k + 1) % 256) - 1) % 256 = k % 256 /\ (((k - 1) % 256) + 1) % 256 = k % 256
  OBVIOUS
<1>7. /\ e \in S => ((Cardinality(S \ {e}) % 256) + 1) % 256 = Cardinality(S) % 256
      /\ e \notin S => ((Cardinality(S \union {e}) % 256) - 1) % 256 = Cardinality(S) % 256
  BY <1>3, <1>4, <1>5, <1>6
<1> QED BY <1>7

\* Calm after a step that leaves the shared fields, and the operations at them, alone.
LEMMA CalmKept ==
    ASSUME TypeInv, Calm, NEW d \in Dirs, ~Inside(d), ~Inside(d)',
           UNCHANGED <<table, bitmap, num>>,
           \A c \in Dirs \ {d} : op'[c] = op[c],
           big_dir_id' = big_dir_id \/ big_dir_id' = [big_dir_id EXCEPT ![d] = -1]
    PROVE  Calm'
<1>1. \A c \in Dirs : (Inside(c)' => c # d /\ Inside(c)) /\ (Inside(c)' => op'[c] = op[c])
  BY DEF Inside
<1>2. Alone'
  BY <1>1 DEF Calm, Alone
<1>3. Current'
  BY <1>1 DEF Calm, Current, Inside
<1>4. \A c \in Dirs : big_dir_id'[c] = big_dir_id[c] \/ big_dir_id'[c] = -1
  BY DEF TypeInv, TypeOK
<1>5. FoundFree'
  <2>1. \A c \in Dirs : Inside(c) => op[c].pos \in Entries
    BY DEF TypeInv, PosInv, Inside
  <2>2. \A c \in Dirs : Inside(c) => op[c].pos # -1
    BY <2>1, EntryAssumption DEF Entries
  <2> QED BY <1>1, <1>4, <2>2 DEF Calm, FoundFree, Late
<1>6. Owned'
  BY <1>4 DEF Calm, Owned
<1>7. Exact'
  <2>1. \A c \in Dirs : (Late(c)' <=> Late(c)) /\ (Late(c) => Counts(c)' = Counts(c))
    BY <1>1 DEF Late, Inside, Counts
  <2> QED BY <2>1 DEF Calm, Exact
<1> QED BY <1>2, <1>3, <1>5, <1>6, <1>7 DEF Calm

\* Exact when only d can be between the two stores.
LEMMA ExactOf ==
    ASSUME NEW d \in Dirs, \A c \in Dirs : Late(c)' => c = d,
           IF Late(d)' THEN num' = Cardinality(Counts(d)') % 256
                       ELSE num' = Cardinality(bitmap') % 256
    PROVE  Exact'
  BY DEF Exact

LEMMA CalmStep ==
    ASSUME OwnInv, [Next]_vars, met' = 0
    PROVE  Calm'
<1> USE EntryAssumption
<1>0. TypeInv /\ TypeOK /\ PosInv /\ LockInv /\ met \in Nat /\ (met = 0 => Calm)
  BY DEF OwnInv, TypeInv, TypeOK
<1>1. CASE UNCHANGED vars
  BY <1>0, <1>1 DEF Calm, Alone, Current, FoundFree, Owned, Exact, vars, sbVars, Inside, Late, Counts
<1>2. CASE Next
  <2>1. PICK d \in Dirs : Shape(d)
    BY <1>0, <1>2, Shapes
  <2>2. /\ Inside(d) => op[d].pos \in Entries /\ op[d].pos # -1
        /\ op[d].pc \in {"find", "search", "alloc"} => op[d].way # "rmdir"
    BY <1>0 DEF PosInv, Entries
  <2>3. CASE /\ Start(d)
             /\ Moves(d, "lock", "open", -1, {}, 0) \/ Moves(d, "find", "mknod", -1, {}, 0)
    BY <1>0, <2>3, CalmKept DEF Start, Moves, Inside, sbVars
  <2>4. CASE LockOpen(d) /\ Moves(d, "find", op[d].way, op[d].pos, op[d].bits, op[d].num)
    BY <1>0, <2>4, CalmKept DEF LockOpen, Moves, Inside, sbVars
  <2>5. CASE UnlockOpen(d) /\ Moves(d, "idle", "open", -1, {}, 0)
    BY <1>0, <2>5, CalmKept DEF UnlockOpen, Moves, Inside, sbVars
  <2>6. CASE /\ resize_dir(d)
             /\ \/ Moves(d, "unlock", op[d].way, op[d].pos, op[d].bits, op[d].num)
                \/ Moves(d, "search", op[d].way, op[d].pos, op[d].bits, op[d].num)
    BY <1>0, <2>6, CalmKept DEF resize_dir, Moves, Inside, sbVars
  <2>7. CASE ffs_rmdir(d) /\ UNCHANGED <<table, met, op>>
    <3>1. /\ op[d].pc = "idle" /\ UNCHANGED <<table, bitmap, num>>
          /\ big_dir_id' = [big_dir_id EXCEPT ![d] = -1]
      BY <2>7 DEF ffs_rmdir
    <3>2. ~Inside(d) /\ ~Inside(d)' /\ Calm
      BY <1>0, <2>7, <3>1 DEF Inside
    <3> QED BY <1>0, <2>7, <3>1, <3>2, CalmKept
  <2>8. ASSUME find_first_zero_bit(d)
        PROVE  Calm /\ \A c \in Dirs \ {d} : ~Inside(c)
    <3>1. op[d].pc = "search" /\ Enters(d, op[d].way)
      BY <2>8 DEF find_first_zero_bit
    <3>2. op[d].way = "open" => \A c \in Dirs \ {d} : Inside(c) => op[c].way # "open"
      BY <1>0, <3>1 DEF LockInv, Inside
    <3> QED BY <1>0, <3>1, <3>2, EntersAlone
  <2>9. CASE /\ find_first_zero_bit(d)
             /\ Moves(d, op[d].pc, op[d].way, N, op[d].bits, op[d].num)
    BY <1>0, <2>8, <2>9, CalmKept DEF find_first_zero_bit, Moves, Inside, sbVars
  <2>10. CASE /\ find_first_zero_bit(d)
              /\ \E e \in Entries : FirstFree(e) /\ Moves(d, "alloc", op[d].way, e, {}, 0)
    <3>1. PICK e \in Entries : e \notin bitmap /\ Moves(d, "alloc", op[d].way, e, {}, 0)
      BY <2>10 DEF FirstFree
    <3>2. UNCHANGED <<table, bitmap, num, big_dir_id>> /\ op[d].pc = "search"
      BY <2>10 DEF find_first_zero_bit, sbVars
    <3>3. (\A c \in Dirs : Inside(c)' => c = d) /\ (\A c \in Dirs : ~Late(c)' /\ ~Late(c)) /\ Calm
      BY <2>8, <2>10, <3>1, <3>2 DEF Moves, Inside, Late
    <3>4. Alone' /\ Current'
      BY <3>1, <3>3 DEF Alone, Current, Moves, Inside
    <3>5. \A c \in Dirs : big_dir_id[c] # e
      BY <3>1, <3>3 DEF Calm, Owned, Entries
    <3>6. op[d].way # "rmdir"
      BY <2>2, <3>2
    <3>7. FoundFree'
      BY <3>1, <3>2, <3>3, <3>5, <3>6 DEF FoundFree, Moves
    <3>8. Owned' /\ Exact'
      BY <3>2, <3>3 DEF Calm, Owned, Exact
    <3> QED BY <3>4, <3>7, <3>8 DEF Calm
  \* The steps from here on to the store of the counter are those of the only
  \* operation inside.
  <2>11. ASSUME Calm, Inside(d), NEW pc, NEW bits, NEW n,
                Moves(d, pc, op[d].way, op[d].pos, bits, n)
         PROVE  (\A c \in Dirs : Inside(c)' => c = d) /\ (\A c \in Dirs : Late(c)' \/ Late(c) => c = d)
                /\ Alone'
    <3>1. \A c \in Dirs \ {d} : ~Inside(c) /\ op'[c] = op[c]
      BY <2>11 DEF Calm, Alone, Moves
    <3> QED BY <3>1 DEF Inside, Late, Alone
  <2>12. CASE init_big_file_ht(d) /\ Moves(d, "load", op[d].way, op[d].pos, op[d].bits, op[d].num)
    <3>1. /\ op[d].pc = "alloc" /\ table' = table \union {op[d].pos}
          /\ UNCHANGED <<bitmap, num, big_dir_id, met>>
      BY <2>12 DEF init_big_file_ht
    <3>2. Calm /\ Inside(d) /\ ~Late(d) /\ ~Late(d)'
      BY <1>0, <2>12, <3>1 DEF Inside, Late, Moves
    <3>3. (\A c \in Dirs : Inside(c)' => c = d) /\ (\A c \in Dirs : ~Late(c)' /\ ~Late(c)) /\ Alone'
      BY <2>11, <2>12, <3>2
    <3>4. Current' /\ FoundFree'
      BY <2>12, <3>1, <3>2, <3>3 DEF Calm, Current, FoundFree, Moves, Inside
    <3>5. Owned' /\ Exact'
      BY <3>1, <3>2, <3>3 DEF Calm, Owned, Exact
    <3> QED BY <3>3, <3>4, <3>5 DEF Calm
  <2>13. CASE /\ ffs_rmdir(d)
              /\ Moves(d, "load", "rmdir", big_dir_id[d], {}, 0)
              /\ big_dir_id[d] \in table /\ table' = table \ {big_dir_id[d]} /\ Enters(d, "rmdir")
    <3>1. /\ op[d].pc = "idle" /\ big_dir_id[d] # -1
          /\ UNCHANGED <<bitmap, num>> /\ big_dir_id' = [big_dir_id EXCEPT ![d] = -1]
      BY <2>13 DEF ffs_rmdir
    <3>2. Calm /\ \A c \in Dirs \ {d} : ~Inside(c)
      BY <1>0, <2>13, EntersAlone
    <3>3. (\A c \in Dirs : Inside(c)' => c = d) /\ (\A c \in Dirs : ~Late(c)' /\ ~Late(c))
      BY <2>13, <3>1, <3>2 DEF Moves, Inside, Late
    <3>4. Alone' /\ Current'
      BY <2>13, <3>3 DEF Alone, Current, Moves, Inside
    <3>5. big_dir_id'[d] = -1 /\ \A c \in Dirs \ {d} : big_dir_id'[c] = big_dir_id[c]
      BY <1>0, <3>1 DEF TypeOK
    <3>6. /\ big_dir_id[d] \in bitmap
          /\ \A c \in Dirs : big_dir_id'[c] # big_dir_id[d]
      BY <3>1, <3>2, <3>5 DEF Calm, Owned
    <3>7. FoundFree'
      BY <2>13, <3>1, <3>3, <3>6 DEF FoundFree, Moves
    <3>8. Owned' /\ Exact'
      BY <2>13, <3>1, <3>2, <3>3, <3>5, <3>6 DEF Calm, Owned, Exact
    <3> QED BY <3>4, <3>7, <3>8 DEF Calm
  <2>14. CASE LoadBits(d) /\ Moves(d, "store", op[d].way, op[d].pos, bitmap, 0)
    <3>1. op[d].pc = "load" /\ UNCHANGED <<table, bitmap, num, big_dir_id, met>>
      BY <2>14 DEF LoadBits, sbVars
    <3>2. Calm /\ Inside(d) /\ ~Late(d) /\ ~Late(d)'
      BY <1>0, <2>14, <3>1 DEF Inside, Late, Moves
    <3>3. (\A c \in Dirs : Inside(c)' => c = d) /\ (\A c \in Dirs : ~Late(c)' /\ ~Late(c)) /\ Alone'
      BY <2>11, <2>14, <3>2
    <3>4. Current' /\ FoundFree'
      BY <2>14, <3>1, <3>2, <3>3 DEF Calm, Current, FoundFree, Moves, Inside
    <3>5. Owned' /\ Exact'
      BY <3>1, <3>2, <3>3 DEF Calm, Owned, Exact
    <3> QED BY <3>3, <3>4, <3>5 DEF Calm
  <2>15. CASE StoreBits(d) /\ Moves(d, "num", op[d].way, op[d].pos, {}, 0)
    <3>1. op[d].pc = "store" /\ UNCHANGED <<table, num, big_dir_id, met>>
      BY <2>15 DEF StoreBits
    <3>2. Calm /\ Inside(d) /\ ~Late(d) /\ Late(d)'
      BY <1>0, <2>15, <3>1 DEF Inside, Late, Moves
    <3>3. (\A c \in Dirs : Inside(c)' => c = d) /\ (\A c \in Dirs : Late(c)' \/ Late(c) => c = d) /\ Alone'
      BY <2>11, <2>15, <3>2
    <3>4. /\ bitmap' = IF op[d].way = "rmdir" THEN bitmap \ {op[d].pos} ELSE bitmap \union {op[d].pos}
          /\ op[d].pos \in bitmap <=> op[d].way = "rmdir"
          /\ \A c \in Dirs : big_dir_id[c] # op[d].pos
          /\ op[d].way # "rmdir" => op[d].pos \in table
      BY <2>15, <3>1, <3>2 DEF StoreBits, Calm, Current, FoundFree, Late
    <3>5. op'[d].pc = "num" /\ op'[d].way = op[d].way /\ op'[d].pos = op[d].pos
      BY <2>15 DEF Moves
    <3>6. Current'
      BY <3>3, <3>5 DEF Current, Inside
    <3>7. FoundFree'
      BY <3>1, <3>2, <3>3, <3>4, <3>5 DEF FoundFree
    <3>8. num = Cardinality(bitmap) % 256
      BY <3>2, <3>3 DEF Calm, Exact
    <3>9. Counts(d)' = bitmap
      BY <3>4, <3>5 DEF Counts
    <3>10. Exact'
      BY <3>1, <3>2, <3>3, <3>8, <3>9, ExactOf
    <3>11. Owned'
      BY <3>1, <3>2, <3>4 DEF Calm, Owned
    <3> QED BY <3>3, <3>6, <3>7, <3>10, <3>11 DEF Calm
  <2>16. CASE LoadNum(d) /\ Moves(d, "count", op[d].way, op[d].pos, {}, num)
    <3>1. op[d].pc = "num" /\ UNCHANGED <<table, bitmap, num, big_dir_id, met>>
      BY <2>16 DEF LoadNum, sbVars
    <3>2. Calm /\ Inside(d) /\ Late(d) /\ Late(d)'
      BY <1>0, <2>16, <3>1 DEF Inside, Late, Moves
    <3>3. (\A c \in Dirs : Inside(c)' => c = d) /\ (\A c \in Dirs : Late(c)' \/ Late(c) => c = d) /\ Alone'
      BY <2>11, <2>16, <3>2
    <3>4. Current' /\ FoundFree'
      BY <2>16, <3>1, <3>2, <3>3 DEF Calm, Current, FoundFree, Moves, Inside
    <3>5. Counts(d)' = Counts(d)
      BY <2>16, <3>1 DEF Counts, Moves
    <3>6. num = Cardinality(Counts(d)) % 256
      BY <3>2 DEF Calm, Exact
    <3>7. Exact'
      BY <3>1, <3>2, <3>3, <3>5, <3>6, ExactOf
    <3>8. Owned'
      BY <3>1, <3>2 DEF Calm, Owned
    <3> QED BY <3>3, <3>4, <3>7, <3>8 DEF Calm
  \* What the last step of an operation finds, and what it leaves.
  <2>17. ASSUME Calm, op[d].pc = "count", NEW pc, NEW way, pc \in {"idle", "unlock"},
                Moves(d, pc, way, -1, {}, 0)
         PROVE  /\ \A c \in Dirs : ~Inside(c)' /\ ~Late(c)'
                /\ Alone' /\ Current' /\ FoundFree'
                /\ op[d].num = num /\ num = Cardinality(Counts(d)) % 256
                /\ op[d].pos \in bitmap <=> op[d].way # "rmdir"
                /\ op[d].way # "rmdir" => op[d].pos \in table
                /\ \A c \in Dirs : big_dir_id[c] # op[d].pos
    <3>1. \A c \in Dirs : ~Inside(c)' /\ ~Late(c)'
      BY <2>17 DEF Calm, Alone, Moves, Inside, Late
    <3>2. Alone' /\ Current' /\ FoundFree'
      BY <3>1 DEF Alone, Current, FoundFree, Inside
    <3>3. Inside(d) /\ Late(d)
      BY <2>17 DEF Inside, Late
    <3> QED BY <2>17, <3>1, <3>2, <3>3 DEF Calm, Current, FoundFree, Exact
  <2>18. bitmap \subseteq Entries
    BY <1>0 DEF TypeOK
  <2>19. CASE ffs_mknod(d) /\ Moves(d, "unlock", op[d].way, -1, {}, 0)
    <3>1. /\ op[d].pc = "count" /\ op[d].way # "rmdir" /\ UNCHANGED <<table, bitmap, met>>
          /\ num' = (op[d].num + 1) % 256
          /\ big_dir_id' = [big_dir_id EXCEPT ![d] = op[d].pos]
      BY <2>19 DEF ffs_mknod
    <3>2. Calm
      BY <1>0, <3>1
    <3>3. /\ \A c \in Dirs : ~Inside(c)' /\ ~Late(c)'
          /\ Alone' /\ Current' /\ FoundFree'
          /\ op[d].num = num /\ num = Cardinality(Counts(d)) % 256
          /\ op[d].pos \in bitmap /\ op[d].pos \in table
          /\ \A c \in Dirs : big_dir_id[c] # op[d].pos
      BY <2>17, <2>19, <3>1, <3>2
    <3>4. Counts(d) = bitmap \ {op[d].pos}
      BY <3>1 DEF Counts
    <3>5. num' = Cardinality(bitmap) % 256
      BY <2>18, <3>1, <3>3, <3>4, CountStep
    <3>6. Exact'
      BY <3>1, <3>3, <3>5 DEF Exact
    <3>7. big_dir_id'[d] = op[d].pos /\ \A c \in Dirs \ {d} : big_dir_id'[c] = big_dir_id[c]
      BY <1>0, <3>1 DEF TypeOK
    <3>8. Owned'
      BY <3>1, <3>2, <3>3, <3>7 DEF Calm, Owned
    <3> QED BY <3>3, <3>6, <3>8 DEF Calm
  <2>20. CASE remove_dir(d) /\ Moves(d, "idle", "open", -1, {}, 0)
    <3>1. /\ op[d].pc = "count" /\ op[d].way = "rmdir" /\ UNCHANGED <<table, bitmap, big_dir_id, met>>
          /\ num' = (op[d].num - 1) % 256
      BY <2>20 DEF remove_dir
    <3>2. Calm
      BY <1>0, <3>1
    <3>3. /\ \A c \in Dirs : ~Inside(c)' /\ ~Late(c)'
          /\ Alone' /\ Current' /\ FoundFree'
          /\ op[d].num = num /\ num = Cardinality(Counts(d)) % 256
          /\ op[d].pos \notin bitmap
      BY <2>17, <2>20, <3>1, <3>2
    <3>4. Counts(d) = bitmap \union {op[d].pos}
      BY <3>1 DEF Counts
    <3>5. num' = Cardinality(bitmap) % 256
      BY <2>18, <3>1, <3>3, <3>4, CountStep
    <3>6. Exact'
      BY <3>1, <3>3, <3>5 DEF Exact
    <3>7. Owned'
      BY <3>1, <3>2 DEF Calm, Owned
    <3> QED BY <3>3, <3>6, <3>7 DEF Calm
  <2> QED BY <2>1, <2>3, <2>4, <2>5, <2>6, <2>7, <2>9, <2>10, <2>12, <2>13, <2>14, <2>15, <2>16,
             <2>19, <2>20 DEF Shape
<1> QED BY <1>1, <1>2

LEMMA OwnInit ==
    ASSUME Init
    PROVE  OwnInv
<1>1. TypeInv
  BY TypeInit
<1>2. (\A d \in Dirs : op[d].pc = "idle" /\ big_dir_id[d] = -1) /\ lock = None
  BY DEF Init, IdleOp
<1>3. LockInv /\ Alone /\ Current /\ FoundFree /\ Owned
  BY <1>2, EntryAssumption DEF LockInv, Alone, Current, FoundFree, Owned, Inside
<1>4. Exact
  <2>1. Cardinality({}) = 0
    BY FS_EmptySet
  <2>2. num = Cardinality(bitmap) % 256
    BY <2>1 DEF Init
  <2> QED BY <1>2, <2>2 DEF Exact, Late
<1> QED BY <1>1, <1>3, <1>4 DEF OwnInv, Calm

LEMMA OwnStep ==
    ASSUME OwnInv, [Next]_vars
    PROVE  OwnInv'
<1>1. TypeInv'
  BY TypeStep DEF OwnInv
<1>2. LockInv'
  BY LockStep DEF OwnInv
<1>3. met' = 0 => Calm'
  BY CalmStep
<1> QED BY <1>1, <1>2, <1>3 DEF OwnInv

LEMMA OwnEnough ==
    ASSUME OwnInv
    PROVE  OwnTable
<1> SUFFICES ASSUME met = 0, NEW d \in Dirs, NEW e \in Entries, Has(d, e)
             PROVE  /\ e \in table
                    /\ big_dir_id[d] = e => e \in bitmap
                    /\ \A c \in Dirs \ {d} : ~Has(c, e)
  BY DEF OwnTable
<1>1. Alone /\ FoundFree /\ Owned /\ e # -1
  BY EntryAssumption DEF OwnInv, Calm, Entries
<1>2. CASE big_dir_id[d] = e
  BY <1>1, <1>2 DEF FoundFree, Owned, Has, Inside
<1>3. CASE op[d].pc \in {"load", "store", "num", "count"} /\ op[d].way # "rmdir" /\ op[d].pos = e
  <2>1. Inside(d) /\ \A c \in Dirs \ {d} : ~Inside(c)
    BY <1>1, <1>3 DEF Alone, Inside
  <2>2. e \in table /\ \A c \in Dirs : big_dir_id[c] # e
    BY <1>1, <1>3, <2>1 DEF FoundFree
  <2> QED BY <2>1, <2>2 DEF Has, Inside
<1> QED BY <1>2, <1>3 DEF Has

\* Whatever the number of directories that grow and go and of entries: as long as no
\* operation outside flatfs_spinlock was at the bitmap together with another, every
\* big directory has a table, marked as used, that no other has.
THEOREM BigTablesOwned == Spec => []OwnTable
<1>1. OwnInv => OwnTable
  BY OwnEnough
<1> QED BY <1>1, OwnInit, OwnStep, PTL DEF Spec

\* As long as that is so, big_dir_num is the number of marked entries whenever nobody
\* is between the stores of the two, in a __u8, and the comparison with > in
\* resize_dir refuses nobody: when all entries are taken it is the search of the
\* bitmap that goes past the array.
THEOREM BigCountExact == Spec => []CountExact
<1>1. ASSUME OwnInv, met = 0, \A d \in Dirs : ~Late(d)
      PROVE  num = Cardinality(bitmap) % 256 /\ num <= N
  <2> USE EntryAssumption
  <2>1. num = Cardinality(bitmap) % 256 /\ bitmap \subseteq Entries
    BY <1>1 DEF OwnInv, Calm, Exact, TypeInv, TypeOK
  <2>2. IsFiniteSet(Entries) /\ Cardinality(Entries) = N
    BY FS_Interval DEF Entries
  <2>3. Cardinality(bitmap) \in Nat /\ Cardinality(bitmap) <= N
    BY <2>1, <2>2, FS_Subset, FS_CardinalityType
  <2>4. \A k \in Nat : k % 256 <= k
    OBVIOUS
  <2> QED BY <2>1, <2>3, <2>4
<1>2. OwnInv => CountExact
  BY <1>1 DEF CountExact
<1> QED BY <1>2, OwnInit, OwnStep, PTL DEF Spec

\* However creates and removals interleave, who has returned does not hold
\* flatfs_spinlock, nor does a create from mknod(2) or a rmdir.
THEOREM BigLockReleased == Spec => []LockReleased
<1>1. OwnInv => LockReleased
  BY DEF OwnInv, LockInv, LockReleased
<1> QED BY <1>1, OwnInit, OwnStep, PTL DEF Spec

=============================================================================
