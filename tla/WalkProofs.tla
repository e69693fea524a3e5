----------------------------- MODULE WalkProofs ------------------------------
(***************************************************************************)
(* Proofs about Walk, for any dcache, mounts, paths and symlinks and any   *)
(* number of changes around the walk.                                      *)
(*                                                                         *)
(* What is said of a walk is said of any record x that is one and of the   *)
(* place q it is at, so that it can be said of the records the helpers of  *)
(* namei.c make as well: what the walk owes (DebtD and DebtM), what it     *)
(* knows of the dentries it remembers, what it is given.                   *)
(***************************************************************************)
EXTENDS Walk, FiniteSetTheorems, SequenceTheorems, WellFoundedInduction, TLAPS

Fields ==
    {"start", "follow", "lookup_root", "attempt", "rcu", "rcu_lock", "err", "path", "inode",
     "seq", "root", "root_seq", "m_seq", "stack", "alloc", "total", "name", "comp", "mode",
     "then", "link_inode", "child", "cseq", "cinode", "found", "finode", "fseq", "result",
     "dref", "mref", "calls"}
IsWalk(x) == DOMAIN x = Fields /\ x = [f \in Fields |-> x[f]]
\* x and y differ in the fields of S only.
Same(x, y, S) == \A f \in Fields \ S : y[f] = x[f]

-----------------------------------------------------------------------------
(* The dcache and the mounts *)

Used(d) == d \in Dentries /\ place[d] # Unused
Live(d) == Used(d) /\ d \notin killed
\* Everything is where it belongs; a parent is there as long as a child is, and what
\* is mounted, or is a task's directory, is there.
DcacheInv ==
    /\ place \in [Dentries -> (Dentries \X (Names \union {Null})) \union {Unused}]
    /\ hashed \subseteq Dentries /\ killed \subseteq Dentries
    /\ inode \in [Dentries -> Inos \union {Null}] /\ seq \in [Dentries -> Nat] /\ mseq \in Nat
    /\ \A d \in Dentries : Used(d) => Used(place[d][1])
    /\ \A d \in Dentries : Live(d) => Live(place[d][1])
    /\ \A d \in hashed : Live(d)
    /\ \A d \in killed : Used(d)
    /\ at \in [Mounts -> Paths \union {Nowhere}] /\ mroot \in [Mounts -> Dentries]
    /\ \A m \in Mounts : Live(mroot[m]) /\ (at[m] # Nowhere => Live(at[m].dentry))
    /\ pwd \in Paths /\ Live(pwd.dentry) /\ top \in Paths /\ Live(top.dentry)
\* No name is in a directory twice.
NamesOnce ==
    \A d, e \in hashed : place[d] = place[e] /\ place[d][2] \in Names => d = e

-----------------------------------------------------------------------------
(* The walk *)

MaybePaths == [mnt : Mounts \union {Null}, dentry : Dentries \union {Null}]
Links == [link : MaybePaths, seq : Nat, done : BOOLEAN, name : Seq(Components) \union {Null}]
TypeW(x) ==
    /\ IsWalk(x)
    /\ x.rcu \in BOOLEAN /\ x.lookup_root \in BOOLEAN /\ x.alloc \in BOOLEAN
    /\ x.path \in MaybePaths /\ x.root \in MaybePaths
    /\ x.found \in MaybePaths /\ x.result \in MaybePaths
    /\ x.seq \in Nat /\ x.cseq \in Nat /\ x.fseq \in Nat /\ x.root_seq \in Nat
    /\ x.stack \in Seq(Links) /\ x.name \in Seq(Components)
    /\ x.total \in Nat /\ x.calls \in Int /\ x.rcu_lock \in Int
    /\ x.dref \in [Dentries -> Int] /\ x.mref \in [Mounts -> Int]
    /\ x.start \in [abs : BOOLEAN, comps : Seq(Components), directory : BOOLEAN]

\* In order: what it holds is there, and the calls and the lock are counted.
One(b) == IF b THEN 1 ELSE 0
Calls(s, n) == Cardinality({i \in 1 .. n : s[i].done})
HoldsLive(x) == \A d \in Dentries : x.dref[d] > 0 => d \notin killed
LinkCalls(x) == x.calls = Calls(x.stack, Len(x.stack)) /\ x.rcu_lock = One(x.rcu)
Sane(x) == TypeW(x) /\ HoldsLive(x) /\ LinkCalls(x)

\* The symlinks it remembers were all counted, and there is room for them; a walk
\* that has counted too many has failed.
Room(x) ==
    /\ Len(x.stack) <= x.total /\ x.total <= MAXSYMLINKS + 1
    /\ Len(x.stack) <= MAXSYMLINKS /\ (~x.alloc => Len(x.stack) <= EMBEDDED_LEVELS)
    /\ x.total > MAXSYMLINKS => x.err = "ELOOP"

\* What it knows of a dentry: the inode, and in rcu-walk unless the dentry changed.
Knows(x, d, s, i) ==
    IF x.rcu THEN s <= seq[d] /\ (s = seq[d] => i = inode[d]) ELSE i = inode[d]

\* What it has between its beginning and its end, and beside that where it is.
Walking(q) == q \in {"walk", "component", "found", "check", "slow", "step", "stack", "link",
                     "unlazy", "complete"}
Base(x) ==
    /\ x.path \in Paths /\ Used(x.path.dentry)
    /\ x.root.mnt # Null => x.root \in Paths /\ Used(x.root.dentry)
    /\ x.lookup_root => x.root = top
    /\ Knows(x, x.path.dentry, x.seq, x.inode)
    /\ x.result = Nowhere
HasFound(x) == x.found \in Paths /\ Used(x.found.dentry)
ToStack(x) ==
    HasFound(x) /\ x.finode \in Symlinks /\ Len(x.stack) < x.total /\ x.total <= MAXSYMLINKS
ToLink(x) ==
    x.stack # <<>> /\ ~x.stack[Len(x.stack)].done /\ x.link_inode \in Symlinks
Cleared(x) == ~x.rcu /\ x.path = Nowhere /\ x.root = Nowhere /\ x.stack = <<>>
PlaceW(x, q) ==
    /\ Walking(q) => Base(x) /\ (x.err = "" \/ (q = "unlazy" /\ x.err = "ENOTDIR" /\ x.then = "end"))
    /\ q \in {"found", "check"} => x.rcu /\ x.child \in Dentries
    /\ q = "slow" => ~x.rcu
    /\ q = "step" => HasFound(x) /\ Knows(x, x.found.dentry, x.fseq, x.finode)
    /\ q = "stack" => ToStack(x)
    /\ q = "link" => ToLink(x)
    /\ q = "unlazy" => /\ x.rcu /\ x.then \in {"walk", "slow", "end", "stack", "link", "complete"}
                       /\ x.then = "stack" => ToStack(x)
                       /\ x.then = "link" => ToLink(x)
    /\ q = "init" => Cleared(x) /\ x.result = Nowhere /\ x.err # "ELOOP"
    /\ q = "done" => Cleared(x)
    /\ q = "end" /\ x.err # "" => x.result = Nowhere

\* What the first n symlinks hold, and what the record holds in ref-walk.
StackD(s, n, d) == Cardinality({i \in 1 .. n : s[i].link.dentry = d})
StackM(s, n, m) == Cardinality({i \in 1 .. n : s[i].link.mnt = m})
OwnRoot(x) == x.root.mnt # Null /\ ~x.lookup_root
CoreD(x, d) ==
    IF x.rcu THEN 0
    ELSE One(x.path.dentry = d) + StackD(x.stack, Len(x.stack), d)
         + One(OwnRoot(x) /\ x.root.dentry = d)
CoreM(x, m) ==
    IF x.rcu THEN 0
    ELSE One(x.path.mnt = m) + StackM(x.stack, Len(x.stack), m)
         + One(OwnRoot(x) /\ x.root.mnt = m)
\* What it holds beside that: the child it has found, without the mount where that is
\* the mount of the path, and the result.
DebtD(x, d) == x.dref[d] - CoreD(x, d)
DebtM(x, m) == x.mref[m] - CoreM(x, m)
Beside(p, x) == [mnt |-> IF p.mnt = x.path.mnt THEN Null ELSE p.mnt, dentry |-> p.dentry]
Held(x, q) ==
    IF q = "step" /\ ~x.rcu THEN Beside(x.found, x)
    ELSE IF (q = "stack" /\ ~x.rcu) \/ (q = "unlazy" /\ x.then = "stack") THEN x.found
    ELSE Nowhere
Owes(x, a, b) ==
    /\ \A d \in Dentries : DebtD(x, d) = One(a.dentry = d) + One(b.dentry = d)
    /\ \A m \in Mounts : DebtM(x, m) = One(a.mnt = m) + One(b.mnt = m)

WalkW(x, q) ==
    Sane(x) /\ Room(x) /\ PlaceW(x, q) /\ Owes(x, Held(x, q), x.result)

\* What a lookup knows of the name, where sn is what the name was since it began.
Stands(dir, c) ==
    LET here == {d \in Find(dir, c) : inode[d] # Null}
    IN IF here = {} THEN {Absent} ELSE {<<d, inode[d]>> : d \in here}
LookW(x, q, sn) ==
    /\ q \in {"found", "check", "slow", "step"} \/ (q = "unlazy" /\ x.then = "slow") =>
        x.comp \in Names /\ Stands(x.path.dentry, x.comp) \subseteq sn
    /\ q \in {"found", "check"} =>
        /\ x.cseq <= seq[x.child]
        /\ x.cseq = seq[x.child] =>
            x.child \in hashed /\ place[x.child] = <<x.path.dentry, x.comp>>
    /\ q = "check" /\ x.cseq = seq[x.child] => x.cinode = inode[x.child]
    /\ q = "step" => <<x.child, x.cinode>> \in sn
    /\ q = "end" /\ x.err = "ENOENT" => Absent \in sn

WalkInv == DcacheInv /\ NamesOnce /\ WalkW(w, pc) /\ LookW(w, pc, seen)

-----------------------------------------------------------------------------
(* Records of a walk *)

LEMMA NullOut == Null \notin Dentries /\ Null \notin Mounts /\ Null \notin Inos
BY WalkAssumption

LEMMA AddAt ==
    ASSUME NEW S, Null \notin S, NEW f \in [S -> Int], NEW x \in S \union {Null}, NEW k \in Int
    PROVE  /\ Add(f, x, k) \in [S -> Int]
           /\ \A d \in S : Add(f, x, k)[d] = f[d] + (IF x = d THEN k ELSE 0)
BY DEF Add

LEMMA PathGet ==
    ASSUME NEW x, TypeW(x), NEW p \in MaybePaths
    PROVE  LET y == path_get(x, p) IN
           /\ TypeW(y) /\ Same(x, y, {"dref", "mref"})
           /\ \A d \in Dentries : y.dref[d] = x.dref[d] + One(p.dentry = d)
           /\ \A m \in Mounts : y.mref[m] = x.mref[m] + One(p.mnt = m)
<1> DEFINE y == path_get(x, p)
<1>1. IsWalk(x) /\ x.dref \in [Dentries -> Int] /\ x.mref \in [Mounts -> Int]
  BY DEF TypeW
<1>2. IsWalk(y) /\ Same(x, y, {"dref", "mref"})
  BY <1>1 DEF path_get, IsWalk, Fields, Same
<1>3. y.dref = Add(x.dref, p.dentry, 1) /\ y.mref = Add(x.mref, p.mnt, 1)
  BY <1>1 DEF path_get, IsWalk, Fields
<1>4. p.dentry \in Dentries \union {Null} /\ p.mnt \in Mounts \union {Null}
  BY DEF MaybePaths
<1> HIDE DEF y
<1>5. /\ y.dref \in [Dentries -> Int]
      /\ \A d \in Dentries : y.dref[d] = x.dref[d] + One(p.dentry = d)
  <2>1. /\ y.dref \in [Dentries -> Int]
        /\ \A d \in Dentries : y.dref[d] = x.dref[d] + (IF p.dentry = d THEN 1 ELSE 0)
    <3>1. PICK e : e = p.dentry
      OBVIOUS
    <3>2. Null \notin Dentries /\ e \in Dentries \union {Null} /\ 1 \in Int
      BY <1>4, <3>1, NullOut
    <3>3. y.dref = Add(x.dref, e, 1)
      BY <1>3, <3>1
    <3>4. /\ y.dref \in [Dentries -> Int]
          /\ \A d \in Dentries : y.dref[d] = x.dref[d] + (IF e = d THEN 1 ELSE 0)
      BY <1>1, <3>2, <3>3, AddAt
    <3> QED BY <3>1, <3>4
  <2> QED BY <2>1, <1>1 DEF One
<1>6. /\ y.mref \in [Mounts -> Int]
      /\ \A m \in Mounts : y.mref[m] = x.mref[m] + One(p.mnt = m)
  <2>1. /\ y.mref \in [Mounts -> Int]
        /\ \A m \in Mounts : y.mref[m] = x.mref[m] + (IF p.mnt = m THEN 1 ELSE 0)
    <3>1. PICK e : e = p.mnt
      OBVIOUS
    <3>2. Null \notin Mounts /\ e \in Mounts \union {Null} /\ 1 \in Int
      BY <1>4, <3>1, NullOut
    <3>3. y.mref = Add(x.mref, e, 1)
      BY <1>3, <3>1
    <3>4. /\ y.mref \in [Mounts -> Int]
          /\ \A m \in Mounts : y.mref[m] = x.mref[m] + (IF e = m THEN 1 ELSE 0)
      BY <1>1, <3>2, <3>3, AddAt
    <3> QED BY <3>1, <3>4
  <2> QED BY <2>1, <1>1 DEF One
<1>7. TypeW(y)
  BY <1>2, <1>5, <1>6 DEF TypeW, Same, Fields
<1> QED BY <1>2, <1>5, <1>6, <1>7 DEF y

LEMMA PathPut ==
    ASSUME NEW x, TypeW(x), NEW p \in MaybePaths
    PROVE  LET y == path_put(x, p) IN
           /\ TypeW(y) /\ Same(x, y, {"dref", "mref"})
           /\ \A d \in Dentries : y.dref[d] = x.dref[d] - One(p.dentry = d)
           /\ \A m \in Mounts : y.mref[m] = x.mref[m] - One(p.mnt = m)
<1> DEFINE y == path_put(x, p)
<1>1. IsWalk(x) /\ x.dref \in [Dentries -> Int] /\ x.mref \in [Mounts -> Int]
  BY DEF TypeW
<1>2. IsWalk(y) /\ Same(x, y, {"dref", "mref"})
  BY <1>1 DEF path_put, IsWalk, Fields, Same
<1>3. y.dref = Add(x.dref, p.dentry, -1) /\ y.mref = Add(x.mref, p.mnt, -1)
  BY <1>1 DEF path_put, IsWalk, Fields
<1>4. p.dentry \in Dentries \union {Null} /\ p.mnt \in Mounts \union {Null}
  BY DEF MaybePaths
<1> HIDE DEF y
<1>5. /\ y.dref \in [Dentries -> Int]
      /\ \A d \in Dentries : y.dref[d] = x.dref[d] - One(p.dentry = d)
  <2>1. /\ y.dref \in [Dentries -> Int]
        /\ \A d \in Dentries : y.dref[d] = x.dref[d] + (IF p.dentry = d THEN -1 ELSE 0)
    <3>1. PICK e : e = p.dentry
      OBVIOUS
    <3>2. Null \notin Dentries /\ e \in Dentries \union {Null} /\ -1 \in Int
      BY <1>4, <3>1, NullOut
    <3>3. y.dref = Add(x.dref, e, -1)
      BY <1>3, <3>1
    <3>4. /\ y.dref \in [Dentries -> Int]
          /\ \A d \in Dentries : y.dref[d] = x.dref[d] + (IF e = d THEN -1 ELSE 0)
      BY <1>1, <3>2, <3>3, AddAt
    <3> QED BY <3>1, <3>4
  <2> QED BY <2>1, <1>1 DEF One
<1>6. /\ y.mref \in [Mounts -> Int]
      /\ \A m \in Mounts : y.mref[m] = x.mref[m] - One(p.mnt = m)
  <2>1. /\ y.mref \in [Mounts -> Int]
        /\ \A m \in Mounts : y.mref[m] = x.mref[m] + (IF p.mnt = m THEN -1 ELSE 0)
    <3>1. PICK e : e = p.mnt
      OBVIOUS
    <3>2. Null \notin Mounts /\ e \in Mounts \union {Null} /\ -1 \in Int
      BY <1>4, <3>1, NullOut
    <3>3. y.mref = Add(x.mref, e, -1)
      BY <1>3, <3>1
    <3>4. /\ y.mref \in [Mounts -> Int]
          /\ \A m \in Mounts : y.mref[m] = x.mref[m] + (IF e = m THEN -1 ELSE 0)
      BY <1>1, <3>2, <3>3, AddAt
    <3> QED BY <3>1, <3>4
  <2> QED BY <2>1, <1>1 DEF One
<1>7. TypeW(y)
  BY <1>2, <1>5, <1>6 DEF TypeW, Same, Fields
<1> QED BY <1>2, <1>5, <1>6, <1>7 DEF y

\* One reference more or less on a dentry, or on a mount.
LEMMA DrefBy ==
    ASSUME NEW x, TypeW(x), NEW d0 \in Dentries \union {Null}, NEW k \in Int
    PROVE  LET y == [x EXCEPT !.dref = Add(@, d0, k)] IN
           /\ TypeW(y) /\ Same(x, y, {"dref"})
           /\ \A d \in Dentries : y.dref[d] = x.dref[d] + (IF d0 = d THEN k ELSE 0)
<1> DEFINE y == [x EXCEPT !.dref = Add(@, d0, k)]
<1>1. IsWalk(x) /\ x.dref \in [Dentries -> Int]
  BY DEF TypeW
<1>2. IsWalk(y) /\ Same(x, y, {"dref"}) /\ y.dref = Add(x.dref, d0, k)
  BY <1>1 DEF IsWalk, Fields, Same
<1> HIDE DEF y
<1>3. /\ y.dref \in [Dentries -> Int]
      /\ \A d \in Dentries : y.dref[d] = x.dref[d] + (IF d0 = d THEN k ELSE 0)
  BY <1>1, <1>2, NullOut, AddAt
<1>4. TypeW(y)
  BY <1>2, <1>3 DEF TypeW, Same, Fields
<1> QED BY <1>2, <1>3, <1>4 DEF y

LEMMA MrefBy ==
    ASSUME NEW x, TypeW(x), NEW m0 \in Mounts \union {Null}, NEW k \in Int
    PROVE  LET y == [x EXCEPT !.mref = Add(@, m0, k)] IN
           /\ TypeW(y) /\ Same(x, y, {"mref"})
           /\ \A m \in Mounts : y.mref[m] = x.mref[m] + (IF m0 = m THEN k ELSE 0)
<1> DEFINE y == [x EXCEPT !.mref = Add(@, m0, k)]
<1>1. IsWalk(x) /\ x.mref \in [Mounts -> Int]
  BY DEF TypeW
<1>2. IsWalk(y) /\ Same(x, y, {"mref"}) /\ y.mref = Add(x.mref, m0, k)
  BY <1>1 DEF IsWalk, Fields, Same
<1> HIDE DEF y
<1>3. /\ y.mref \in [Mounts -> Int]
      /\ \A m \in Mounts : y.mref[m] = x.mref[m] + (IF m0 = m THEN k ELSE 0)
  BY <1>1, <1>2, NullOut, AddAt
<1>4. TypeW(y)
  BY <1>2, <1>3 DEF TypeW, Same, Fields
<1> QED BY <1>2, <1>3, <1>4 DEF y

-----------------------------------------------------------------------------
(* Counting the symlinks *)

LEMMA CountUp ==
    ASSUME NEW n \in Nat, NEW A
    PROVE  /\ Cardinality({i \in 1 .. n : i \in A}) \in Nat
           /\ Cardinality({i \in 1 .. n + 1 : i \in A})
                = Cardinality({i \in 1 .. n : i \in A}) + One(n + 1 \in A)
<1> DEFINE B == {i \in 1 .. n : i \in A}
<1>1. IsFiniteSet(1 .. n)
  BY FS_Interval
<1>2. IsFiniteSet(B) /\ Cardinality(B) \in Nat
  BY <1>1, FS_Subset, FS_CardinalityType
<1>3. CASE n + 1 \in A
  <2>1. {i \in 1 .. n + 1 : i \in A} = B \union {n + 1} /\ n + 1 \notin B
    BY <1>3
  <2> QED BY <1>2, <1>3, <2>1, FS_AddElement DEF One
<1>4. CASE n + 1 \notin A
  <2>1. {i \in 1 .. n + 1 : i \in A} = B
    BY <1>4
  <2> QED BY <1>2, <1>4, <2>1 DEF One
<1> QED BY <1>2, <1>3, <1>4

LEMMA StackDUp ==
    ASSUME NEW s, NEW n \in Nat, NEW d
    PROVE  /\ StackD(s, n, d) \in Nat
           /\ StackD(s, n + 1, d) = StackD(s, n, d) + One(s[n + 1].link.dentry = d)
<1> DEFINE A == {i \in Nat : s[i].link.dentry = d}
<1>1. StackD(s, n, d) = Cardinality({i \in 1 .. n : i \in A})
  <2>1. {i \in 1 .. n : s[i].link.dentry = d} = {i \in 1 .. n : i \in A}
    OBVIOUS
  <2> QED BY <2>1 DEF StackD
<1>2. StackD(s, n + 1, d) = Cardinality({i \in 1 .. n + 1 : i \in A})
  <2>1. {i \in 1 .. n + 1 : s[i].link.dentry = d} = {i \in 1 .. n + 1 : i \in A}
    OBVIOUS
  <2> QED BY <2>1 DEF StackD
<1>3. (n + 1 \in A) <=> s[n + 1].link.dentry = d
  OBVIOUS
<1> HIDE DEF A
<1> QED BY <1>1, <1>2, <1>3, CountUp DEF One

LEMMA StackMUp ==
    ASSUME NEW s, NEW n \in Nat, NEW m
    PROVE  /\ StackM(s, n, m) \in Nat
           /\ StackM(s, n + 1, m) = StackM(s, n, m) + One(s[n + 1].link.mnt = m)
<1> DEFINE A == {i \in Nat : s[i].link.mnt = m}
<1>1. StackM(s, n, m) = Cardinality({i \in 1 .. n : i \in A})
  <2>1. {i \in 1 .. n : s[i].link.mnt = m} = {i \in 1 .. n : i \in A}
    OBVIOUS
  <2> QED BY <2>1 DEF StackM
<1>2. StackM(s, n + 1, m) = Cardinality({i \in 1 .. n + 1 : i \in A})
  <2>1. {i \in 1 .. n + 1 : s[i].link.mnt = m} = {i \in 1 .. n + 1 : i \in A}
    OBVIOUS
  <2> QED BY <2>1 DEF StackM
<1>3. (n + 1 \in A) <=> s[n + 1].link.mnt = m
  OBVIOUS
<1> HIDE DEF A
<1> QED BY <1>1, <1>2, <1>3, CountUp DEF One

LEMMA CallsUp ==
    ASSUME NEW s, NEW n \in Nat
    PROVE  /\ Calls(s, n) \in Nat
           /\ Calls(s, n + 1) = Calls(s, n) + One(s[n + 1].done)
<1> DEFINE A == {i \in Nat : s[i].done}
<1>1. Calls(s, n) = Cardinality({i \in 1 .. n : i \in A})
  <2>1. {i \in 1 .. n : s[i].done} = {i \in 1 .. n : i \in A}
    OBVIOUS
  <2> QED BY <2>1 DEF Calls
<1>2. Calls(s, n + 1) = Cardinality({i \in 1 .. n + 1 : i \in A})
  <2>1. {i \in 1 .. n + 1 : s[i].done} = {i \in 1 .. n + 1 : i \in A}
    OBVIOUS
  <2> QED BY <2>1 DEF Calls
<1>3. (n + 1 \in A) <=> s[n + 1].done
  OBVIOUS
<1> HIDE DEF A
<1> QED BY <1>1, <1>2, <1>3, CountUp DEF One

LEMMA NoLinks ==
    ASSUME NEW s, NEW d
    PROVE  StackD(s, 0, d) = 0 /\ StackM(s, 0, d) = 0 /\ Calls(s, 0) = 0
<1>1. 1 .. 0 = {}
  OBVIOUS
<1>2. /\ {i \in 1 .. 0 : s[i].link.dentry = d} = {}
      /\ {i \in 1 .. 0 : s[i].link.mnt = d} = {} /\ {i \in 1 .. 0 : s[i].done} = {}
  BY <1>1
<1> QED BY <1>2, FS_EmptySet DEF StackD, StackM, Calls

\* The counts are of the links.
SameLinks(s, t, n) == \A i \in 1 .. n : s[i].link = t[i].link
SameCalls(s, t, n) == \A i \in 1 .. n : s[i].done <=> t[i].done
LEMMA LinksCount ==
    ASSUME NEW s, NEW t, NEW n \in Nat, SameLinks(s, t, n), NEW d
    PROVE  StackD(s, n, d) = StackD(t, n, d) /\ StackM(s, n, d) = StackM(t, n, d)
<1>1. {i \in 1 .. n : s[i].link.dentry = d} = {i \in 1 .. n : t[i].link.dentry = d}
  BY DEF SameLinks
<1>2. {i \in 1 .. n : s[i].link.mnt = d} = {i \in 1 .. n : t[i].link.mnt = d}
  BY DEF SameLinks
<1> QED BY <1>1, <1>2 DEF StackD, StackM

LEMMA CallsCount ==
    ASSUME NEW s, NEW t, NEW n \in Nat, SameCalls(s, t, n)
    PROVE  Calls(s, n) = Calls(t, n)
<1>1. {i \in 1 .. n : s[i].done} = {i \in 1 .. n : t[i].done}
  BY DEF SameCalls
<1> QED BY <1>1 DEF Calls

LEMMA NoCalls ==
    ASSUME NEW s, NEW n \in Nat, \A i \in 1 .. n : ~s[i].done
    PROVE  Calls(s, n) = 0
<1>1. {i \in 1 .. n : s[i].done} = {}
  OBVIOUS
<1> QED BY <1>1, FS_EmptySet DEF Calls

\* A stack is a sequence of links.
LEMMA StackLen ==
    ASSUME NEW x, TypeW(x)
    PROVE  /\ Len(x.stack) \in Nat /\ DOMAIN x.stack = 1 .. Len(x.stack)
           /\ \A i \in 1 .. Len(x.stack) : x.stack[i] \in Links /\ x.stack[i].link \in MaybePaths
           /\ x.stack = <<>> <=> Len(x.stack) = 0
<1>1. x.stack \in Seq(Links)
  BY DEF TypeW
<1>2. \A i \in 1 .. Len(x.stack) : x.stack[i] \in Links
  BY <1>1
<1>3. \A l \in Links : l.link \in MaybePaths
  BY DEF Links
<1> QED BY <1>1, <1>2, <1>3

-----------------------------------------------------------------------------
(* What the helpers of namei.c leave in order *)

\* x and y owe the same.
Even(x, y) ==
    /\ \A d \in Dentries : DebtD(y, d) = DebtD(x, d)
    /\ \A m \in Mounts : DebtM(y, m) = DebtM(x, m)

LEMMA CoreInt ==
    ASSUME NEW x, TypeW(x), NEW d
    PROVE  CoreD(x, d) \in Int /\ CoreM(x, d) \in Int
BY StackLen, StackDUp, StackMUp DEF CoreD, CoreM, One

\* The types of the fields that a change leaves alone.
LEMMA TypeSame ==
    ASSUME NEW x, TypeW(x), NEW y, IsWalk(y), Same(x, y, {"dref", "mref", "stack", "calls"}),
           y.dref \in [Dentries -> Int], y.mref \in [Mounts -> Int],
           y.stack \in Seq(Links), y.calls \in Int
    PROVE  TypeW(y)
<1>1. /\ y.rcu = x.rcu /\ y.lookup_root = x.lookup_root /\ y.alloc = x.alloc
      /\ y.path = x.path /\ y.root = x.root /\ y.found = x.found /\ y.result = x.result
      /\ y.seq = x.seq /\ y.cseq = x.cseq /\ y.fseq = x.fseq /\ y.root_seq = x.root_seq
      /\ y.name = x.name /\ y.total = x.total /\ y.rcu_lock = x.rcu_lock
      /\ y.start = x.start
  BY DEF Same, Fields
<1> QED BY <1>1 DEF TypeW

\* A change of other fields leaves a record in order.
LEMMA SaneSame ==
    ASSUME NEW x, NEW y, Sane(x), TypeW(y),
           Same(x, y, Fields \ {"dref", "stack", "calls", "rcu", "rcu_lock"})
    PROVE  Sane(y)
BY DEF Sane, Same, Fields, HoldsLive, LinkCalls
LEMMA EvenSame ==
    ASSUME NEW x, NEW y,
           Same(x, y, Fields \ {"dref", "mref", "stack", "rcu", "path", "root", "lookup_root"})
    PROVE  Even(x, y)
BY DEF Same, Fields, Even, DebtD, DebtM, CoreD, CoreM, OwnRoot

LEMMA SaneGet ==
    ASSUME NEW x, Sane(x), NEW p \in MaybePaths, p.dentry \notin killed
    PROVE  Sane(path_get(x, p))
<1> DEFINE y == path_get(x, p)
<1>1. /\ TypeW(y) /\ Same(x, y, {"dref", "mref"})
      /\ \A d \in Dentries : y.dref[d] = x.dref[d] + One(p.dentry = d)
  BY PathGet DEF Sane
<1> HIDE DEF y
<1>2. x.dref \in [Dentries -> Int]
  BY DEF Sane, TypeW
<1>3. HoldsLive(y)
  BY <1>1, <1>2 DEF Sane, HoldsLive, One
<1>4. LinkCalls(y)
  BY <1>1 DEF Sane, LinkCalls, Same, Fields
<1> QED BY <1>1, <1>3, <1>4 DEF Sane, y

LEMMA SanePut ==
    ASSUME NEW x, Sane(x), NEW p \in MaybePaths
    PROVE  Sane(path_put(x, p))
<1> DEFINE y == path_put(x, p)
<1>1. /\ TypeW(y) /\ Same(x, y, {"dref", "mref"})
      /\ \A d \in Dentries : y.dref[d] = x.dref[d] - One(p.dentry = d)
  BY PathPut DEF Sane
<1> HIDE DEF y
<1>2. x.dref \in [Dentries -> Int]
  BY DEF Sane, TypeW
<1>3. HoldsLive(y)
  BY <1>1, <1>2 DEF Sane, HoldsLive, One
<1>4. LinkCalls(y)
  BY <1>1 DEF Sane, LinkCalls, Same, Fields
<1> QED BY <1>1, <1>3, <1>4 DEF Sane, y

\* The delayed calls are made, and the links stay.
LEMMA DropLinks ==
    ASSUME NEW x, Sane(x)
    PROVE  LET y == drop_links(x) IN
           /\ Sane(y) /\ Same(x, y, {"stack", "calls"}) /\ y.calls = 0
           /\ Len(y.stack) = Len(x.stack)
           /\ \A i \in 1 .. Len(x.stack) :
                y.stack[i].link = x.stack[i].link /\ ~y.stack[i].done
<1> DEFINE y == drop_links(x)
           n == Len(x.stack)
<1>1. IsWalk(x) /\ TypeW(x)
  BY DEF Sane, TypeW
<1>2. IsWalk(y) /\ Same(x, y, {"stack", "calls"})
  BY <1>1 DEF drop_links, IsWalk, Fields, Same
<1>3. /\ y.stack = [i \in DOMAIN x.stack |-> [x.stack[i] EXCEPT !.done = FALSE]]
      /\ y.calls = x.calls - Cardinality({i \in DOMAIN x.stack : x.stack[i].done})
  BY <1>1 DEF drop_links, IsWalk, Fields
<1>4. /\ n \in Nat /\ DOMAIN x.stack = 1 .. n /\ \A i \in 1 .. n : x.stack[i] \in Links
  BY <1>1, StackLen
<1> HIDE DEF y
<1>5. y.calls = 0
  <2>1. Calls(x.stack, n) \in Nat /\ x.calls = Calls(x.stack, n)
    BY <1>4, CallsUp DEF Sane, LinkCalls
  <2> QED BY <1>3, <1>4, <2>1 DEF Calls
<1>6. ASSUME NEW l \in Links
      PROVE  LET k == [l EXCEPT !.done = FALSE] IN k \in Links /\ k.link = l.link /\ ~k.done
  BY DEF Links
<1>7. \A i \in 1 .. n : y.stack[i] \in Links /\ y.stack[i].link = x.stack[i].link /\ ~y.stack[i].done
  BY <1>3, <1>4, <1>6
<1>8. y.stack \in Seq(Links) /\ Len(y.stack) = n
  <2>1. y.stack \in [1 .. n -> Links]
    BY <1>3, <1>4, <1>6
  <2> QED BY <1>4, <2>1
<1>9. TypeW(y)
  <2>1. Same(x, y, {"dref", "mref", "stack", "calls"}) /\ y.dref = x.dref /\ y.mref = x.mref
    BY <1>2 DEF Same, Fields
  <2>2. y.dref \in [Dentries -> Int] /\ y.mref \in [Mounts -> Int] /\ y.calls \in Int
    BY <1>1, <1>5, <2>1 DEF TypeW
  <2> QED BY <1>1, <1>2, <1>8, <2>1, <2>2, TypeSame
<1>10. LinkCalls(y) /\ HoldsLive(y)
  <2>1. Calls(y.stack, n) = 0
    BY <1>4, <1>7, NoCalls
  <2>2. y.rcu_lock = x.rcu_lock /\ y.rcu = x.rcu /\ y.dref = x.dref
    BY <1>2 DEF Same, Fields
  <2> QED BY <1>5, <1>8, <2>1, <2>2 DEF Sane, LinkCalls, HoldsLive
<1> QED BY <1>2, <1>5, <1>7, <1>8, <1>9, <1>10 DEF Sane, y

\* put_link gives back what the innermost symlink holds.
LEMMA PutLink ==
    ASSUME NEW x, Sane(x), x.stack # <<>>
    PROVE  LET y == put_link(x) IN
           /\ Sane(y) /\ Even(x, y) /\ Same(x, y, {"stack", "calls", "dref", "mref"})
           /\ Len(y.stack) = Len(x.stack) - 1
<1> DEFINE n == Len(x.stack)
           last == x.stack[n]
           z == [x EXCEPT !.stack = SubSeq(@, 1, Len(@) - 1),
                          !.calls = IF last.done THEN @ - 1 ELSE @]
           y == put_link(x)
<1>1. IsWalk(x) /\ TypeW(x) /\ x.stack \in Seq(Links) /\ x.calls \in Int
  BY DEF Sane, TypeW
<1>2. /\ n \in Nat \ {0} /\ DOMAIN x.stack = 1 .. n /\ last \in Links /\ last.link \in MaybePaths
      /\ n - 1 \in Nat /\ n - 1 + 1 = n
  BY <1>1, StackLen
<1>3. /\ IsWalk(z) /\ Same(x, z, {"stack", "calls"}) /\ z.stack = SubSeq(x.stack, 1, n - 1)
      /\ z.calls = IF last.done THEN x.calls - 1 ELSE x.calls
  BY <1>1, ZenonT(80) DEF IsWalk, Fields, Same
<1>4. y = IF x.rcu THEN z ELSE path_put(z, last.link)
  BY DEF put_link
<1> HIDE DEF y, z
<1>5. /\ z.stack \in Seq(Links) /\ Len(z.stack) = n - 1
      /\ \A i \in 1 .. n - 1 : z.stack[i] = x.stack[i]
  BY <1>1, <1>2, <1>3
<1>6. TypeW(z)
  <2>1. Same(x, z, {"dref", "mref", "stack", "calls"}) /\ z.dref = x.dref /\ z.mref = x.mref
    BY <1>3 DEF Same, Fields
  <2>2. z.dref \in [Dentries -> Int] /\ z.mref \in [Mounts -> Int]
    BY <1>1, <2>1 DEF TypeW
  <2>3. z.calls \in Int
    BY <1>1, <1>3
  <2> QED BY <1>1, <1>3, <1>5, <2>1, <2>2, <2>3, TypeSame
<1>7. Sane(z)
  <2>1. Calls(z.stack, n - 1) = Calls(x.stack, n - 1)
    <3>1. SameCalls(z.stack, x.stack, n - 1)
      BY <1>5 DEF SameCalls
    <3> QED BY <1>2, <3>1, CallsCount
  <2>2. Calls(x.stack, n) = Calls(x.stack, n - 1) + One(last.done) /\ Calls(x.stack, n - 1) \in Nat
    BY <1>2, CallsUp
  <2>3. x.calls = Calls(x.stack, n)
    BY DEF Sane, LinkCalls
  <2>4. z.calls = Calls(z.stack, Len(z.stack))
    BY <1>3, <1>5, <2>1, <2>2, <2>3 DEF One
  <2>5. z.rcu_lock = x.rcu_lock /\ z.rcu = x.rcu /\ z.dref = x.dref
    BY <1>3 DEF Same, Fields
  <2> QED BY <1>6, <2>4, <2>5 DEF Sane, LinkCalls, HoldsLive
<1> SUFFICES Sane(y) /\ Even(x, y) /\ Same(x, y, {"stack", "calls", "dref", "mref"})
             /\ Len(y.stack) = n - 1
  BY DEF y
<1>8. CASE x.rcu
  <2>1. y = z /\ z.rcu /\ z.dref = x.dref /\ z.mref = x.mref
    BY <1>3, <1>4, <1>8 DEF Same, Fields
  <2>2. Even(x, y)
    BY <1>8, <2>1 DEF Even, DebtD, DebtM, CoreD, CoreM
  <2>3. Same(x, y, {"stack", "calls", "dref", "mref"})
    BY <1>3, <2>1 DEF Same, Fields
  <2> QED BY <1>5, <1>7, <2>1, <2>2, <2>3
<1>9. CASE ~x.rcu
  <2>1. y = path_put(z, last.link)
    BY <1>4, <1>9
  <2>2. Sane(y)
    BY <1>2, <1>7, <2>1, SanePut
  <2>3. /\ Same(z, y, {"dref", "mref"})
        /\ \A d \in Dentries : y.dref[d] = z.dref[d] - One(last.link.dentry = d)
        /\ \A m \in Mounts : y.mref[m] = z.mref[m] - One(last.link.mnt = m)
    BY <1>2, <1>6, <2>1, PathPut
  <2>4. Same(x, y, {"stack", "calls", "dref", "mref"}) /\ y.stack = z.stack
    BY <1>3, <2>3 DEF Same, Fields
  <2>5. /\ y.path = x.path /\ y.root = x.root /\ y.lookup_root = x.lookup_root /\ y.rcu = x.rcu
        /\ z.dref = x.dref /\ z.mref = x.mref
    BY <1>3, <2>4 DEF Same, Fields
  <2>6. x.dref \in [Dentries -> Int] /\ x.mref \in [Mounts -> Int]
    BY <1>1 DEF TypeW
  <2>7. ASSUME NEW d \in Dentries PROVE DebtD(y, d) = DebtD(x, d)
    <3>1. StackD(y.stack, n - 1, d) = StackD(x.stack, n - 1, d)
      <4>1. SameLinks(y.stack, x.stack, n - 1)
        BY <1>5, <2>4 DEF SameLinks
      <4> QED BY <1>2, <4>1, LinksCount
    <3>2. /\ StackD(x.stack, n, d) = StackD(x.stack, n - 1, d) + One(last.link.dentry = d)
          /\ StackD(x.stack, n - 1, d) \in Nat
      BY <1>2, StackDUp, SMTT(40)
    <3>3. OwnRoot(x) <=> OwnRoot(y)
      BY <2>5 DEF OwnRoot
    <3>4. y.dref[d] = x.dref[d] - One(last.link.dentry = d)
      BY <2>3, <2>5
    <3>5. /\ CoreD(x, d) = One(x.path.dentry = d) + StackD(x.stack, n, d)
                           + One(OwnRoot(x) /\ x.root.dentry = d)
          /\ CoreD(y, d) = One(x.path.dentry = d) + StackD(x.stack, n - 1, d)
                           + One(OwnRoot(x) /\ x.root.dentry = d)
      BY <1>5, <1>9, <2>4, <2>5, <3>1, <3>3 DEF CoreD, One
    <3>6. /\ CoreD(x, d) = CoreD(y, d) + One(last.link.dentry = d)
          /\ CoreD(y, d) \in Int
      BY <3>2, <3>5 DEF One
    <3>7. One(last.link.dentry = d) \in {0, 1} /\ x.dref[d] \in Int
      BY <2>6 DEF One
    <3> QED BY <3>4, <3>6, <3>7 DEF DebtD
  <2>8. ASSUME NEW m \in Mounts PROVE DebtM(y, m) = DebtM(x, m)
    <3>1. StackM(y.stack, n - 1, m) = StackM(x.stack, n - 1, m)
      <4>1. SameLinks(y.stack, x.stack, n - 1)
        BY <1>5, <2>4 DEF SameLinks
      <4> QED BY <1>2, <4>1, LinksCount
    <3>2. /\ StackM(x.stack, n, m) = StackM(x.stack, n - 1, m) + One(last.link.mnt = m)
          /\ StackM(x.stack, n - 1, m) \in Nat
      BY <1>2, StackMUp, SMTT(40)
    <3>3. OwnRoot(x) <=> OwnRoot(y)
      BY <2>5 DEF OwnRoot
    <3>4. y.mref[m] = x.mref[m] - One(last.link.mnt = m)
      BY <2>3, <2>5
    <3>5. /\ CoreM(x, m) = One(x.path.mnt = m) + StackM(x.stack, n, m)
                           + One(OwnRoot(x) /\ x.root.mnt = m)
          /\ CoreM(y, m) = One(x.path.mnt = m) + StackM(x.stack, n - 1, m)
                           + One(OwnRoot(x) /\ x.root.mnt = m)
      BY <1>5, <1>9, <2>4, <2>5, <3>1, <3>3 DEF CoreM, One
    <3>6. /\ CoreM(x, m) = CoreM(y, m) + One(last.link.mnt = m)
          /\ CoreM(y, m) \in Int
      BY <3>2, <3>5 DEF One
    <3>7. One(last.link.mnt = m) \in {0, 1} /\ x.mref[m] \in Int
      BY <2>6 DEF One
    <3> QED BY <3>4, <3>6, <3>7 DEF DebtM
  <2>9. Even(x, y)
    BY <2>7, <2>8 DEF Even
  <2>10. Len(y.stack) = n - 1
    BY <1>5, <2>4
  <2> QED BY <2>2, <2>4, <2>9, <2>10
<1>10. x.rcu \in BOOLEAN
  BY <1>1 DEF TypeW
<1> QED BY <1>8, <1>9, <1>10

-----------------------------------------------------------------------------
(* The loops *)

LEMMA LeastNat ==
    ASSUME NEW T \in SUBSET Nat, T # {}
    PROVE  \E x \in T : \A y \in T : x <= y
<1> DEFINE R == {ss \in Nat \X Nat : ss[1] < ss[2]}
<1>1. IsWellFoundedOn(R, Nat)
  BY NatLessThanWellFounded DEF OpToRel
<1>2. \E x \in T : \A y \in T : <<y, x>> \notin R
  BY <1>1, WFMin
<1>3. \A x, y \in Nat : <<y, x>> \notin R => x <= y
  OBVIOUS
<1> QED BY <1>2, <1>3

\* What holds at first and after each turn of a loop holds at its end.
LEMMA Turns ==
    ASSUME NEW n \in Nat, NEW S, 0 \in S, \A k \in 0 .. n : k # n /\ k \in S => k + 1 \in S
    PROVE  n \in S
<1> DEFINE Bad == {k \in 0 .. n : k \notin S}
<1>1. Bad = {}
  <2> SUFFICES ASSUME Bad # {} PROVE FALSE
    OBVIOUS
  <2>1. PICK j \in Bad : \A i \in Bad : j <= i
    <3>1. Bad \in SUBSET Nat
      OBVIOUS
    <3> HIDE DEF Bad
    <3> QED BY <3>1, LeastNat
  <2>2. j # 0 /\ j \in 0 .. n /\ j \notin S
    OBVIOUS
  <2>3. j - 1 \in 0 .. n /\ j - 1 # n /\ j - 1 + 1 = j /\ ~(j <= j - 1)
    BY <2>2
  <2>4. j - 1 \in S
    BY <2>1, <2>3
  <2> QED BY <2>2, <2>3, <2>4
<1> QED BY <1>1

\* The functions by which the loops of namei.c are defined.
LegitFcn(x, n, late) ==
    CHOOSE f : f = [k \in 0 .. n |-> IF k = 0 THEN x ELSE LegitimizeOne(f[k - 1], k, late).w]
PutFcn(z, s) ==
    CHOOSE f : f = [k \in 0 .. Len(s) |-> IF k = 0 THEN z ELSE path_put(f[k - 1], s[k].link)]
MountFcn(p) ==
    CHOOSE f : f = [k \in 0 .. Cardinality(Mounts) |-> IF k = 0 THEN p ELSE lookup_mnt(f[k - 1])]
Out(q, root) ==
    IF q = root \/ q.dentry # mroot[q.mnt] \/ at[q.mnt] = Nowhere THEN q ELSE at[q.mnt]
UpFcn(p, root) ==
    CHOOSE f : f = [k \in 0 .. Cardinality(Mounts) |-> IF k = 0 THEN p ELSE Out(f[k - 1], root)]

\* legitimize_links.
LEMMA LegitDefined ==
    ASSUME NEW x, NEW n \in Nat, NEW late
    PROVE  LegitFcn(x, n, late) =
             [k \in 0 .. n |-> IF k = 0 THEN x
                               ELSE LegitimizeOne(LegitFcn(x, n, late)[k - 1], k, late).w]
<1> DEFINE F(f, j) == [k \in 0 .. j |-> IF k = 0 THEN x ELSE LegitimizeOne(f[k - 1], k, late).w]
           Bad == {j \in Nat : ~\E f : f = F(f, j)}
<1>1. Bad = {}
  <2> SUFFICES ASSUME Bad # {} PROVE FALSE
    OBVIOUS
  <2>1. PICK j \in Bad : \A i \in Bad : j <= i
    <3> HIDE DEF F
    <3> QED BY LeastNat
  <2>2. CASE j = 0
    <3> DEFINE f == [k \in 0 .. 0 |-> x]
    <3>1. f = F(f, 0)
      OBVIOUS
    <3> QED BY <2>2, <2>1, <3>1
  <2>3. CASE j # 0
    <3>1. j - 1 \in Nat /\ j - 1 \notin Bad
      <4>1. j \in Nat
        OBVIOUS
      <4> HIDE DEF Bad
      <4> QED BY <4>1, <2>1, <2>3
    <3>2. PICK f : f = F(f, j - 1)
      BY <3>1
    <3> DEFINE g == [k \in 0 .. j |-> IF k < j THEN f[k] ELSE LegitimizeOne(f[j - 1], j, late).w]
    <3>3. ASSUME NEW k \in 0 .. j
          PROVE  g[k] = F(g, j)[k]
      <4>1. CASE k = j
        <5>1. g[k - 1] = f[k - 1] /\ g[k] = LegitimizeOne(f[k - 1], k, late).w
          BY <4>1, <2>3, <3>1
        <5>2. F(g, j)[k] = LegitimizeOne(g[k - 1], k, late).w
          BY <4>1, <2>3, <3>1
        <5> QED BY <5>1, <5>2
      <4>2. CASE k # j
        <5>1. k \in 0 .. j - 1 /\ k < j
          BY <4>2, <3>1
        <5>2. g[k] = f[k]
          BY <5>1
        <5>3. f[k] = F(f, j - 1)[k]
          BY <3>2
        <5>4. k # 0 => k - 1 \in 0 .. j /\ k - 1 < j /\ g[k - 1] = f[k - 1]
          BY <5>1
        <5>5. f[k] = IF k = 0 THEN x ELSE LegitimizeOne(f[k - 1], k, late).w
          BY <5>1, <5>3
        <5>6. F(g, j)[k] = IF k = 0 THEN x ELSE LegitimizeOne(g[k - 1], k, late).w
          OBVIOUS
        <5> QED BY <5>2, <5>4, <5>5, <5>6
      <4> QED BY <4>1, <4>2
    <3>4. g = F(g, j)
      BY <3>3
    <3> QED BY <3>4, <2>1
  <2> QED BY <2>2, <2>3
<1>2. \E f : f = F(f, n)
  BY <1>1
<1>3. LegitFcn(x, n, late) = F(LegitFcn(x, n, late), n)
  BY <1>2 DEF LegitFcn
<1> QED BY <1>3

\* The loop of terminate_walk.
LEMMA PutDefined ==
    ASSUME NEW z, NEW s, Len(s) \in Nat
    PROVE  PutFcn(z, s) =
             [k \in 0 .. Len(s) |-> IF k = 0 THEN z ELSE path_put(PutFcn(z, s)[k - 1], s[k].link)]
<1> DEFINE F(f, j) == [k \in 0 .. j |-> IF k = 0 THEN z ELSE path_put(f[k - 1], s[k].link)]
           Bad == {j \in Nat : ~\E f : f = F(f, j)}
<1>1. Bad = {}
  <2> SUFFICES ASSUME Bad # {} PROVE FALSE
    OBVIOUS
  <2>1. PICK j \in Bad : \A i \in Bad : j <= i
    <3> HIDE DEF F
    <3> QED BY LeastNat
  <2>2. CASE j = 0
    <3> DEFINE f == [k \in 0 .. 0 |-> z]
    <3>1. f = F(f, 0)
      OBVIOUS
    <3> QED BY <2>2, <2>1, <3>1
  <2>3. CASE j # 0
    <3>1. j - 1 \in Nat /\ j - 1 \notin Bad
      <4>1. j \in Nat
        OBVIOUS
      <4> HIDE DEF Bad
      <4> QED BY <4>1, <2>1, <2>3
    <3>2. PICK f : f = F(f, j - 1)
      BY <3>1
    <3> DEFINE g == [k \in 0 .. j |-> IF k < j THEN f[k] ELSE path_put(f[j - 1], s[j].link)]
    <3>3. ASSUME NEW k \in 0 .. j
          PROVE  g[k] = F(g, j)[k]
      <4>1. CASE k = j
        <5>1. g[k - 1] = f[k - 1] /\ g[k] = path_put(f[k - 1], s[k].link)
          BY <4>1, <2>3, <3>1
        <5>2. F(g, j)[k] = path_put(g[k - 1], s[k].link)
          BY <4>1, <2>3, <3>1
        <5> QED BY <5>1, <5>2
      <4>2. CASE k # j
        <5>1. k \in 0 .. j - 1 /\ k < j
          BY <4>2, <3>1
        <5>2. g[k] = f[k]
          BY <5>1
        <5>3. f[k] = F(f, j - 1)[k]
          BY <3>2
        <5>4. k # 0 => k - 1 \in 0 .. j /\ k - 1 < j /\ g[k - 1] = f[k - 1]
          BY <5>1
        <5>5. f[k] = IF k = 0 THEN z ELSE path_put(f[k - 1], s[k].link)
          BY <5>1, <5>3
        <5>6. F(g, j)[k] = IF k = 0 THEN z ELSE path_put(g[k - 1], s[k].link)
          OBVIOUS
        <5> QED BY <5>2, <5>4, <5>5, <5>6
      <4> QED BY <4>1, <4>2
    <3>4. g = F(g, j)
      BY <3>3
    <3> QED BY <3>4, <2>1
  <2> QED BY <2>2, <2>3
<1>2. \E f : f = F(f, Len(s))
  BY <1>1
<1>3. PutFcn(z, s) = F(PutFcn(z, s), Len(s))
  BY <1>2 DEF PutFcn
<1> QED BY <1>3

\* follow_mount.
LEMMA MountDefined ==
    ASSUME NEW p, Cardinality(Mounts) \in Nat
    PROVE  MountFcn(p) =
             [k \in 0 .. Cardinality(Mounts) |-> IF k = 0 THEN p ELSE lookup_mnt(MountFcn(p)[k - 1])]
<1> DEFINE F(f, j) == [k \in 0 .. j |-> IF k = 0 THEN p ELSE lookup_mnt(f[k - 1])]
           Bad == {j \in Nat : ~\E f : f = F(f, j)}
<1>1. Bad = {}
  <2> SUFFICES ASSUME Bad # {} PROVE FALSE
    OBVIOUS
  <2>1. PICK j \in Bad : \A i \in Bad : j <= i
    <3> HIDE DEF F
    <3> QED BY LeastNat
  <2>2. CASE j = 0
    <3> DEFINE f == [k \in 0 .. 0 |-> p]
    <3>1. f = F(f, 0)
      OBVIOUS
    <3> QED BY <2>2, <2>1, <3>1
  <2>3. CASE j # 0
    <3>1. j - 1 \in Nat /\ j - 1 \notin Bad
      <4>1. j \in Nat
        OBVIOUS
      <4> HIDE DEF Bad
      <4> QED BY <4>1, <2>1, <2>3
    <3>2. PICK f : f = F(f, j - 1)
      BY <3>1
    <3> DEFINE g == [k \in 0 .. j |-> IF k < j THEN f[k] ELSE lookup_mnt(f[j - 1])]
    <3>3. ASSUME NEW k \in 0 .. j
          PROVE  g[k] = F(g, j)[k]
      <4>1. CASE k = j
        <5>1. g[k - 1] = f[k - 1] /\ g[k] = lookup_mnt(f[k - 1])
          BY <4>1, <2>3, <3>1
        <5>2. F(g, j)[k] = lookup_mnt(g[k - 1])
          BY <4>1, <2>3, <3>1
        <5> QED BY <5>1, <5>2
      <4>2. CASE k # j
        <5>1. k \in 0 .. j - 1 /\ k < j
          BY <4>2, <3>1
        <5>2. g[k] = f[k]
          BY <5>1
        <5>3. f[k] = F(f, j - 1)[k]
          BY <3>2
        <5>4. k # 0 => k - 1 \in 0 .. j /\ k - 1 < j /\ g[k - 1] = f[k - 1]
          BY <5>1
        <5>5. f[k] = IF k = 0 THEN p ELSE lookup_mnt(f[k - 1])
          BY <5>1, <5>3
        <5>6. F(g, j)[k] = IF k = 0 THEN p ELSE lookup_mnt(g[k - 1])
          OBVIOUS
        <5> QED BY <5>2, <5>4, <5>5, <5>6
      <4> QED BY <4>1, <4>2
    <3>4. g = F(g, j)
      BY <3>3
    <3> QED BY <3>4, <2>1
  <2> QED BY <2>2, <2>3
<1>2. \E f : f = F(f, Cardinality(Mounts))
  BY <1>1
<1>3. MountFcn(p) = F(MountFcn(p), Cardinality(Mounts))
  BY <1>2 DEF MountFcn
<1> QED BY <1>3

\* The loop of follow_dotdot.
LEMMA UpDefined ==
    ASSUME NEW p, NEW root, Cardinality(Mounts) \in Nat
    PROVE  UpFcn(p, root) =
             [k \in 0 .. Cardinality(Mounts) |-> IF k = 0 THEN p ELSE Out(UpFcn(p, root)[k - 1], root)]
<1> DEFINE F(f, j) == [k \in 0 .. j |-> IF k = 0 THEN p ELSE Out(f[k - 1], root)]
           Bad == {j \in Nat : ~\E f : f = F(f, j)}
<1>1. Bad = {}
  <2> SUFFICES ASSUME Bad # {} PROVE FALSE
    OBVIOUS
  <2>1. PICK j \in Bad : \A i \in Bad : j <= i
    <3> HIDE DEF F
    <3> QED BY LeastNat
  <2>2. CASE j = 0
    <3> DEFINE f == [k \in 0 .. 0 |-> p]
    <3>1. f = F(f, 0)
      OBVIOUS
    <3> QED BY <2>2, <2>1, <3>1
  <2>3. CASE j # 0
    <3>1. j - 1 \in Nat /\ j - 1 \notin Bad
      <4>1. j \in Nat
        OBVIOUS
      <4> HIDE DEF Bad
      <4> QED BY <4>1, <2>1, <2>3
    <3>2. PICK f : f = F(f, j - 1)
      BY <3>1
    <3> DEFINE g == [k \in 0 .. j |-> IF k < j THEN f[k] ELSE Out(f[j - 1], root)]
    <3>3. ASSUME NEW k \in 0 .. j
          PROVE  g[k] = F(g, j)[k]
      <4>1. CASE k = j
        <5>1. g[k - 1] = f[k - 1] /\ g[k] = Out(f[k - 1], root)
          BY <4>1, <2>3, <3>1
        <5>2. F(g, j)[k] = Out(g[k - 1], root)
          BY <4>1, <2>3, <3>1
        <5> QED BY <5>1, <5>2
      <4>2. CASE k # j
        <5>1. k \in 0 .. j - 1 /\ k < j
          BY <4>2, <3>1
        <5>2. g[k] = f[k]
          BY <5>1
        <5>3. f[k] = F(f, j - 1)[k]
          BY <3>2
        <5>4. k # 0 => k - 1 \in 0 .. j /\ k - 1 < j /\ g[k - 1] = f[k - 1]
          BY <5>1
        <5>5. f[k] = IF k = 0 THEN p ELSE Out(f[k - 1], root)
          BY <5>1, <5>3
        <5>6. F(g, j)[k] = IF k = 0 THEN p ELSE Out(g[k - 1], root)
          OBVIOUS
        <5> QED BY <5>2, <5>4, <5>5, <5>6
      <4> QED BY <4>1, <4>2
    <3>4. g = F(g, j)
      BY <3>3
    <3> QED BY <3>4, <2>1
  <2> QED BY <2>2, <2>3
<1>2. \E f : f = F(f, Cardinality(Mounts))
  BY <1>1
<1>3. UpFcn(p, root) = F(UpFcn(p, root), Cardinality(Mounts))
  BY <1>2 DEF UpFcn
<1> QED BY <1>3

LEMMA LegitIs == ASSUME NEW x, NEW n, NEW late
                 PROVE  LegitimizeUpTo(x, n, late) = LegitFcn(x, n, late)[n]
BY DEF LegitimizeUpTo, LegitFcn
LEMMA MountIs == ASSUME NEW p PROVE follow_mount(p) = MountFcn(p)[Cardinality(Mounts)]
BY DEF follow_mount, Iterate, MountFcn
LEMMA UpIs == ASSUME NEW p, NEW root
              PROVE  follow_up(p, root) = UpFcn(p, root)[Cardinality(Mounts)]
BY DEF follow_up, Iterate, UpFcn, Out

-----------------------------------------------------------------------------
(* From rcu-walk to ref-walk *)

LEMMA LegitPath ==
    ASSUME DcacheInv, NEW x, Sane(x), NEW p \in MaybePaths, NEW s, NEW late
    PROVE  LET r == legitimize_path(x, p, s, late) IN
           /\ r.w = path_get(x, r.path) /\ r.path \in MaybePaths /\ r.path.dentry \notin killed
           /\ Sane(r.w) /\ Same(x, r.w, {"dref", "mref"})
           /\ \A d \in Dentries : r.w.dref[d] = x.dref[d] + One(r.path.dentry = d)
           /\ \A m \in Mounts : r.w.mref[m] = x.mref[m] + One(r.path.mnt = m)
           /\ r.ok => /\ r.path = p /\ mseq = x.m_seq
                      /\ p.dentry \notin killed /\ seq[p.dentry] = s
<1> DEFINE r == legitimize_path(x, p, s, late)
           a == [mnt |-> IF late THEN p.mnt ELSE Null, dentry |-> Null]
           b == [p EXCEPT !.dentry = IF @ \in killed THEN Null ELSE @]
<1>1. Null \notin killed
  BY NullOut DEF DcacheInv
<1>2. /\ p.mnt \in Mounts \union {Null} /\ p.dentry \in Dentries \union {Null}
      /\ p = [mnt |-> p.mnt, dentry |-> p.dentry]
  BY DEF MaybePaths
<1>3. a \in MaybePaths /\ a.dentry \notin killed
  BY <1>1, <1>2 DEF MaybePaths
<1>4. b = [mnt |-> p.mnt, dentry |-> IF p.dentry \in killed THEN Null ELSE p.dentry]
  BY DEF MaybePaths
<1>5. b \in MaybePaths /\ b.dentry \notin killed /\ (p.dentry \notin killed => b = p)
  BY <1>1, <1>2, <1>4 DEF MaybePaths
<1>6. r = IF mseq # x.m_seq THEN [ok |-> FALSE, path |-> a, w |-> path_get(x, a)]
          ELSE [ok |-> p.dentry \notin killed /\ seq[p.dentry] = s, path |-> b,
                w |-> path_get(x, b)]
  BY DEF legitimize_path
<1> HIDE DEF r, a, b
<1>7. /\ r.w = path_get(x, r.path) /\ r.path \in MaybePaths /\ r.path.dentry \notin killed
      /\ r.ok => /\ r.path = p /\ mseq = x.m_seq
                 /\ p.dentry \notin killed /\ seq[p.dentry] = s
  BY <1>3, <1>5, <1>6
<1>8. Sane(r.w)
  BY <1>7, SaneGet
<1>9. /\ Same(x, r.w, {"dref", "mref"})
      /\ \A d \in Dentries : r.w.dref[d] = x.dref[d] + One(r.path.dentry = d)
      /\ \A m \in Mounts : r.w.mref[m] = x.mref[m] + One(r.path.mnt = m)
  BY <1>7, PathGet DEF Sane
<1> QED BY <1>7, <1>8, <1>9 DEF r

\* y is x with what the first k symlinks hold.
LegitTo(x, y, k) ==
    /\ Sane(y) /\ Same(x, y, {"stack", "dref", "mref"}) /\ Len(y.stack) = Len(x.stack)
    /\ SameCalls(y.stack, x.stack, Len(x.stack))
    /\ \A d \in Dentries : y.dref[d] = x.dref[d] + StackD(y.stack, k, d)
    /\ \A m \in Mounts : y.mref[m] = x.mref[m] + StackM(y.stack, k, m)

LEMMA LegitTurn ==
    ASSUME DcacheInv, NEW x, Sane(x), NEW y, NEW k \in Nat, LegitTo(x, y, k),
           k + 1 <= Len(x.stack), NEW late
    PROVE  LegitTo(x, LegitimizeOne(y, k + 1, late).w, k + 1)
<1> DEFINE r == legitimize_path(y, y.stack[k + 1].link, y.stack[k + 1].seq, late)
           v == r.w
           z == [v EXCEPT !.stack[k + 1].link = r.path]
           n == Len(x.stack)
           l == y.stack[k + 1]
<1>1. LegitimizeOne(y, k + 1, late).w = z
  BY DEF LegitimizeOne
<1>2. TypeW(x) /\ TypeW(y) /\ Sane(y) /\ n \in Nat /\ Len(y.stack) = n
  BY StackLen DEF Sane, LegitTo
<1>3. /\ k + 1 \in 1 .. n /\ y.stack \in Seq(Links) /\ DOMAIN y.stack = 1 .. n
      /\ l \in Links /\ l.link \in MaybePaths
  <2>1. y.stack \in Seq(Links)
    BY <1>2 DEF TypeW
  <2>2. /\ DOMAIN y.stack = 1 .. n
        /\ \A i \in 1 .. n : y.stack[i] \in Links /\ y.stack[i].link \in MaybePaths
    BY <1>2, StackLen
  <2>3. k + 1 \in 1 .. n
    BY <1>2
  <2> QED BY <2>1, <2>2, <2>3
<1>4. /\ r.path \in MaybePaths /\ Sane(v) /\ Same(y, v, {"dref", "mref"})
      /\ \A d \in Dentries : v.dref[d] = y.dref[d] + One(r.path.dentry = d)
      /\ \A m \in Mounts : v.mref[m] = y.mref[m] + One(r.path.mnt = m)
  BY <1>2, <1>3, LegitPath
<1> HIDE DEF r
<1>5. v.stack = y.stack /\ IsWalk(v) /\ TypeW(v)
  BY <1>4 DEF Same, Fields, Sane, TypeW
<1>6. IsWalk(z) /\ Same(v, z, {"stack"}) /\ z.stack = [y.stack EXCEPT ![k + 1].link = r.path]
  BY <1>5 DEF IsWalk, Same, Fields
<1> HIDE DEF z
<1>7. [l EXCEPT !.link = r.path] \in Links /\ [l EXCEPT !.link = r.path].link = r.path
      /\ [l EXCEPT !.link = r.path].done = l.done
  BY <1>3, <1>4 DEF Links
<1>8. /\ z.stack \in Seq(Links) /\ Len(z.stack) = n
      /\ z.stack[k + 1] = [l EXCEPT !.link = r.path]
      /\ \A i \in 1 .. n : i # k + 1 => z.stack[i] = y.stack[i]
  <2>1. z.stack = [i \in 1 .. n |-> IF i = k + 1 THEN [l EXCEPT !.link = r.path] ELSE y.stack[i]]
    BY <1>3, <1>6
  <2>2. \A i \in 1 .. n : y.stack[i] \in Links
    BY <1>2, <1>3
  <2>3. z.stack \in [1 .. n -> Links]
    BY <1>7, <2>1, <2>2
  <2> QED BY <1>2, <1>3, <2>1, <2>3
<1>9. z.stack[k + 1].link = r.path /\ (z.stack[k + 1].done <=> l.done)
  BY <1>7, <1>8
<1>10. SameCalls(z.stack, y.stack, n)
  BY <1>8, <1>9 DEF SameCalls
<1>11. Sane(z)
  <2>1. Same(v, z, {"dref", "mref", "stack", "calls"})
    BY <1>6 DEF Same, Fields
  <2>2. z.dref = v.dref /\ z.mref = v.mref /\ z.calls = v.calls /\ z.rcu = v.rcu
        /\ z.rcu_lock = v.rcu_lock
    BY <1>6 DEF Same, Fields
  <2>3. TypeW(z)
    <3>1. z.dref \in [Dentries -> Int] /\ z.mref \in [Mounts -> Int] /\ z.calls \in Int
      BY <1>5, <2>2 DEF TypeW
    <3> QED BY <1>5, <1>6, <1>8, <2>1, <3>1, TypeSame
  <2>4. Calls(z.stack, n) = Calls(y.stack, n)
    BY <1>2, <1>10, CallsCount
  <2> QED BY <1>2, <1>4, <1>5, <1>8, <2>2, <2>3, <2>4 DEF Sane, HoldsLive, LinkCalls
<1>12. Same(x, z, {"stack", "dref", "mref"})
  BY <1>4, <1>6 DEF LegitTo, Same, Fields
<1>13. SameCalls(z.stack, x.stack, n)
  BY <1>10 DEF SameCalls, LegitTo
<1>14. SameLinks(z.stack, y.stack, k)
  BY <1>3, <1>8 DEF SameLinks
<1>15. ASSUME NEW d \in Dentries
       PROVE  z.dref[d] = x.dref[d] + StackD(z.stack, k + 1, d)
  <2>1. StackD(z.stack, k, d) = StackD(y.stack, k, d)
    BY <1>14, LinksCount
  <2>2. /\ StackD(z.stack, k + 1, d) = StackD(z.stack, k, d) + One(r.path.dentry = d)
        /\ StackD(z.stack, k, d) \in Nat
    BY <1>9, StackDUp
  <2>3. /\ z.dref[d] = y.dref[d] + One(r.path.dentry = d)
        /\ y.dref[d] = x.dref[d] + StackD(y.stack, k, d)
    BY <1>4, <1>6 DEF Same, Fields, LegitTo
  <2>4. x.dref[d] \in Int /\ One(r.path.dentry = d) \in {0, 1}
    BY <1>2 DEF TypeW, One
  <2> QED BY <2>1, <2>2, <2>3, <2>4
<1>16. ASSUME NEW m \in Mounts
       PROVE  z.mref[m] = x.mref[m] + StackM(z.stack, k + 1, m)
  <2>1. StackM(z.stack, k, m) = StackM(y.stack, k, m)
    BY <1>14, LinksCount
  <2>2. /\ StackM(z.stack, k + 1, m) = StackM(z.stack, k, m) + One(r.path.mnt = m)
        /\ StackM(z.stack, k, m) \in Nat
    BY <1>9, StackMUp
  <2>3. /\ z.mref[m] = y.mref[m] + One(r.path.mnt = m)
        /\ y.mref[m] = x.mref[m] + StackM(y.stack, k, m)
    BY <1>4, <1>6 DEF Same, Fields, LegitTo
  <2>4. x.mref[m] \in Int /\ One(r.path.mnt = m) \in {0, 1}
    BY <1>2 DEF TypeW, One
  <2> QED BY <2>1, <2>2, <2>3, <2>4
<1> QED BY <1>1, <1>8, <1>11, <1>12, <1>13, <1>15, <1>16 DEF LegitTo

LEMMA LegitStart ==
    ASSUME NEW x, Sane(x) PROVE LegitTo(x, x, 0)
<1>1. x.dref \in [Dentries -> Int] /\ x.mref \in [Mounts -> Int]
  BY DEF Sane, TypeW
<1>2. \A d : StackD(x.stack, 0, d) = 0 /\ StackM(x.stack, 0, d) = 0
  BY NoLinks
<1> QED BY <1>1, <1>2 DEF LegitTo, Same, SameCalls

LEMMA LegitUpTo ==
    ASSUME DcacheInv, NEW x, Sane(x), NEW n \in Nat, n <= Len(x.stack), NEW late
    PROVE  LegitTo(x, LegitimizeUpTo(x, n, late), n)
<1> DEFINE f == LegitFcn(x, n, late)
           S == {k \in 0 .. n : LegitTo(x, f[k], k)}
<1>1. f = [k \in 0 .. n |-> IF k = 0 THEN x ELSE LegitimizeOne(f[k - 1], k, late).w]
  BY LegitDefined
<1>2. Len(x.stack) \in Nat
  BY StackLen DEF Sane
<1> HIDE DEF f
<1>3. 0 \in S
  <2>1. f[0] = x
    BY <1>1
  <2> QED BY <2>1, LegitStart
<1>4. ASSUME NEW k \in 0 .. n, k # n, k \in S PROVE k + 1 \in S
  <2>1. k + 1 \in 0 .. n /\ k + 1 # 0 /\ k + 1 - 1 = k /\ k \in Nat /\ k + 1 <= Len(x.stack)
    BY <1>2, <1>4
  <2>2. f[k + 1] = LegitimizeOne(f[k], k + 1, late).w
    BY <1>1, <2>1
  <2>3. LegitTo(x, f[k], k)
    BY <1>4
  <2>4. LegitTo(x, f[k + 1], k + 1)
    BY <2>1, <2>2, <2>3, LegitTurn
  <2> QED BY <2>1, <2>4
<1> HIDE DEF S
<1>5. n \in S
  BY <1>3, <1>4, Turns
<1> QED BY <1>5, LegitIs DEF S, f

-----------------------------------------------------------------------------
(* What a record owes *)

\* From x to y, a more and b less is owed.
Moves(x, y, a, b) ==
    /\ \A d \in Dentries : DebtD(y, d) + One(b.dentry = d) = DebtD(x, d) + One(a.dentry = d)
    /\ \A m \in Mounts : DebtM(y, m) + One(b.mnt = m) = DebtM(x, m) + One(a.mnt = m)

LEMMA OneInt == ASSUME NEW b PROVE One(b) \in Int /\ One(b) \in {0, 1}
BY DEF One

LEMMA NoOne ==
    /\ \A d \in Dentries : One(Nowhere.dentry = d) = 0 /\ One(Null = d) = 0
    /\ \A m \in Mounts : One(Nowhere.mnt = m) = 0 /\ One(Null = m) = 0
BY NullOut DEF Nowhere, One

LEMMA DebtInt ==
    ASSUME NEW x, TypeW(x)
    PROVE  /\ \A d \in Dentries : DebtD(x, d) \in Int /\ x.dref[d] \in Int
           /\ \A m \in Mounts : DebtM(x, m) \in Int /\ x.mref[m] \in Int
<1>1. \A d : CoreD(x, d) \in Int /\ CoreM(x, d) \in Int
  BY CoreInt
<1>2. x.dref \in [Dentries -> Int] /\ x.mref \in [Mounts -> Int]
  BY DEF TypeW
<1> QED BY <1>1, <1>2 DEF DebtD, DebtM

LEMMA MovesOwes ==
    ASSUME NEW x, NEW y, TypeW(x), TypeW(y), NEW a, NEW b, NEW r, Moves(x, y, a, b), Owes(x, b, r)
    PROVE  Owes(y, a, r)
BY DebtInt, OneInt DEF Moves, Owes
LEMMA EvenOwes ==
    ASSUME NEW x, NEW y, NEW a, NEW r, Even(x, y), Owes(x, a, r)
    PROVE  Owes(y, a, r)
BY DEF Even, Owes
LEMMA MovesMoves ==
    ASSUME NEW x, NEW y, NEW z, TypeW(x), TypeW(y), TypeW(z), NEW a, NEW b, NEW c,
           Moves(x, y, a, b), Moves(y, z, b, c)
    PROVE  Moves(x, z, a, c)
BY DebtInt, OneInt DEF Moves
LEMMA MovesEven ==
    ASSUME NEW x, NEW y, NEW z, NEW a, NEW b, Moves(x, y, a, b), Even(y, z)
    PROVE  Moves(x, z, a, b)
BY DEF Moves, Even
LEMMA EvenMoves ==
    ASSUME NEW x, NEW y, NEW z, NEW a, NEW b, Even(x, y), Moves(y, z, a, b)
    PROVE  Moves(x, z, a, b)
BY DEF Moves, Even
LEMMA MovesBack ==
    ASSUME NEW x, NEW y, TypeW(x), TypeW(y), NEW a, Moves(x, y, a, a)
    PROVE  Even(x, y)
BY DebtInt, OneInt DEF Moves, Even
LEMMA EvenEven ==
    ASSUME NEW x, NEW y, NEW z, Even(x, y), Even(y, z)
    PROVE  Even(x, z)
BY DEF Even
LEMMA OwesTurn ==
    ASSUME NEW x, TypeW(x), NEW a, NEW r, Owes(x, a, r)
    PROVE  Owes(x, r, a)
BY OneInt DEF Owes

LEMMA StackInt ==
    ASSUME NEW x, TypeW(x), NEW d
    PROVE  StackD(x.stack, Len(x.stack), d) \in Int /\ StackM(x.stack, Len(x.stack), d) \in Int
<1>1. StackD(x.stack, Len(x.stack), d) \in Nat /\ StackM(x.stack, Len(x.stack), d) \in Nat
  BY StackLen, StackDUp, StackMUp
<1> QED BY <1>1

\* Nothing but references changes.
LEMMA CoreSame ==
    ASSUME NEW x, NEW y, Same(x, y, {"dref", "mref"}), NEW d
    PROVE  CoreD(y, d) = CoreD(x, d) /\ CoreM(y, d) = CoreM(x, d)
BY DEF Same, Fields, CoreD, CoreM, OwnRoot

LEMMA GetMoves ==
    ASSUME NEW x, TypeW(x), NEW p \in MaybePaths
    PROVE  Moves(x, path_get(x, p), p, Nowhere)
<1> DEFINE y == path_get(x, p)
<1>1. /\ TypeW(y) /\ Same(x, y, {"dref", "mref"})
      /\ \A d \in Dentries : y.dref[d] = x.dref[d] + One(p.dentry = d)
      /\ \A m \in Mounts : y.mref[m] = x.mref[m] + One(p.mnt = m)
  BY PathGet
<1> HIDE DEF y
<1>2. \A d : CoreD(y, d) = CoreD(x, d) /\ CoreM(y, d) = CoreM(x, d)
  BY <1>1, CoreSame
<1>3. \A d : CoreD(x, d) \in Int /\ CoreM(x, d) \in Int
  BY CoreInt
<1>4. Moves(x, y, p, Nowhere)
  BY <1>1, <1>2, <1>3, DebtInt, OneInt, NoOne DEF Moves, DebtD, DebtM
<1> QED BY <1>4 DEF y

LEMMA PutMoves ==
    ASSUME NEW x, TypeW(x), NEW p \in MaybePaths
    PROVE  Moves(x, path_put(x, p), Nowhere, p)
<1> DEFINE y == path_put(x, p)
<1>1. /\ TypeW(y) /\ Same(x, y, {"dref", "mref"})
      /\ \A d \in Dentries : y.dref[d] = x.dref[d] - One(p.dentry = d)
      /\ \A m \in Mounts : y.mref[m] = x.mref[m] - One(p.mnt = m)
  BY PathPut
<1> HIDE DEF y
<1>2. \A d : CoreD(y, d) = CoreD(x, d) /\ CoreM(y, d) = CoreM(x, d)
  BY <1>1, CoreSame
<1>3. \A d : CoreD(x, d) \in Int /\ CoreM(x, d) \in Int
  BY CoreInt
<1>4. Moves(x, y, Nowhere, p)
  BY <1>1, <1>2, <1>3, DebtInt, OneInt, NoOne DEF Moves, DebtD, DebtM
<1> QED BY <1>4 DEF y

\* Another path in ref-walk.
LEMMA PathMoves ==
    ASSUME NEW x, NEW y, TypeW(x), TypeW(y), ~x.rcu,
           Same(x, y, Fields \ {"dref", "mref", "stack", "rcu", "root", "lookup_root"})
    PROVE  Moves(x, y, x.path, y.path)
<1>1. /\ y.dref = x.dref /\ y.mref = x.mref /\ y.stack = x.stack /\ ~y.rcu
      /\ y.root = x.root /\ y.lookup_root = x.lookup_root
  BY DEF Same, Fields
<1>2. OwnRoot(x) <=> OwnRoot(y)
  BY <1>1 DEF OwnRoot
<1>4. ASSUME NEW d \in Dentries
      PROVE  DebtD(y, d) + One(y.path.dentry = d) = DebtD(x, d) + One(x.path.dentry = d)
  <2> DEFINE a == StackD(x.stack, Len(x.stack), d)
             b == One(OwnRoot(x) /\ x.root.dentry = d)
  <2>1. a \in Int /\ b \in Int /\ One(x.path.dentry = d) \in Int /\ One(y.path.dentry = d) \in Int
    BY StackInt, OneInt
  <2>2. CoreD(x, d) = One(x.path.dentry = d) + a + b /\ CoreD(y, d) = One(y.path.dentry = d) + a + b
    BY <1>1, <1>2 DEF CoreD, One
  <2> HIDE DEF a, b
  <2> QED BY <1>1, <2>1, <2>2, DebtInt DEF DebtD
<1>5. ASSUME NEW m \in Mounts
      PROVE  DebtM(y, m) + One(y.path.mnt = m) = DebtM(x, m) + One(x.path.mnt = m)
  <2> DEFINE a == StackM(x.stack, Len(x.stack), m)
             b == One(OwnRoot(x) /\ x.root.mnt = m)
  <2>1. a \in Int /\ b \in Int /\ One(x.path.mnt = m) \in Int /\ One(y.path.mnt = m) \in Int
    BY StackInt, OneInt
  <2>2. CoreM(x, m) = One(x.path.mnt = m) + a + b /\ CoreM(y, m) = One(y.path.mnt = m) + a + b
    BY <1>1, <1>2 DEF CoreM, One
  <2> HIDE DEF a, b
  <2> QED BY <1>1, <2>1, <2>2, DebtInt DEF DebtM
<1> QED BY <1>4, <1>5 DEF Moves

\* A root of its own in ref-walk.
LEMMA RootMoves ==
    ASSUME NEW x, NEW y, TypeW(x), TypeW(y), ~x.rcu, ~OwnRoot(x), OwnRoot(y),
           Same(x, y, Fields \ {"dref", "mref", "stack", "rcu", "path"})
    PROVE  Moves(x, y, Nowhere, y.root)
<1>1. /\ y.dref = x.dref /\ y.mref = x.mref /\ y.stack = x.stack /\ ~y.rcu /\ y.path = x.path
  BY DEF Same, Fields
<1>4. ASSUME NEW d \in Dentries
      PROVE  DebtD(y, d) + One(y.root.dentry = d) = DebtD(x, d) + One(Nowhere.dentry = d)
  <2> DEFINE a == StackD(x.stack, Len(x.stack), d)
  <2>1. a \in Int /\ One(x.path.dentry = d) \in Int /\ One(y.root.dentry = d) \in Int
    BY StackInt, OneInt
  <2>2. /\ CoreD(x, d) = One(x.path.dentry = d) + a
        /\ CoreD(y, d) = One(x.path.dentry = d) + a + One(y.root.dentry = d)
    <3>1. One(OwnRoot(x) /\ x.root.dentry = d) = 0
      BY DEF One
    <3>2. One(OwnRoot(y) /\ y.root.dentry = d) = One(y.root.dentry = d)
      BY DEF One
    <3> QED BY <1>1, <2>1, <3>1, <3>2 DEF CoreD
  <2> HIDE DEF a
  <2> QED BY <1>1, <2>1, <2>2, DebtInt, NoOne DEF DebtD
<1>5. ASSUME NEW m \in Mounts
      PROVE  DebtM(y, m) + One(y.root.mnt = m) = DebtM(x, m) + One(Nowhere.mnt = m)
  <2> DEFINE a == StackM(x.stack, Len(x.stack), m)
  <2>1. a \in Int /\ One(x.path.mnt = m) \in Int /\ One(y.root.mnt = m) \in Int
    BY StackInt, OneInt
  <2>2. /\ CoreM(x, m) = One(x.path.mnt = m) + a
        /\ CoreM(y, m) = One(x.path.mnt = m) + a + One(y.root.mnt = m)
    <3>1. One(OwnRoot(x) /\ x.root.mnt = m) = 0
      BY DEF One
    <3>2. One(OwnRoot(y) /\ y.root.mnt = m) = One(y.root.mnt = m)
      BY DEF One
    <3> QED BY <1>1, <2>1, <3>1, <3>2 DEF CoreM
  <2> HIDE DEF a
  <2> QED BY <1>1, <2>1, <2>2, DebtInt, NoOne DEF DebtM
<1> QED BY <1>4, <1>5 DEF Moves

\* In rcu-walk the path, the symlinks and the root are not held.
LEMMA RcuEven ==
    ASSUME NEW x, NEW y, x.rcu, y.rcu, y.dref = x.dref, y.mref = x.mref
    PROVE  Even(x, y)
BY DEF Even, DebtD, DebtM, CoreD, CoreM

\* What a record holds is there.
LEMMA HeldUp ==
    ASSUME NEW x, TypeW(x), NEW a, NEW r, Owes(x, a, r), ~x.rcu, NEW d \in Dentries,
           x.path.dentry = d \/ (OwnRoot(x) /\ x.root.dentry = d) \/ a.dentry = d
    PROVE  x.dref[d] > 0
<1> DEFINE n == StackD(x.stack, Len(x.stack), d)
           b == One(OwnRoot(x) /\ x.root.dentry = d)
           c == One(x.path.dentry = d)
           e == One(a.dentry = d)
           f == One(r.dentry = d)
<1>1. n \in Nat /\ b \in {0, 1} /\ c \in {0, 1} /\ e \in {0, 1} /\ f \in {0, 1}
  BY StackLen, StackDUp, OneInt
<1>2. CoreD(x, d) = c + n + b
  BY DEF CoreD
<1>3. b = 1 \/ c = 1 \/ e = 1
  BY DEF One
<1>4. DebtD(x, d) = e + f /\ x.dref[d] \in Int
  BY DebtInt DEF Owes
<1> HIDE DEF n, b, c, e, f
<1>5. x.dref[d] - (c + n + b) = e + f
  BY <1>2, <1>4 DEF DebtD
<1> QED BY <1>1, <1>3, <1>4, <1>5

LEMMA HeldLive ==
    ASSUME NEW x, Sane(x), NEW a, NEW r, Owes(x, a, r), ~x.rcu
    PROVE  /\ x.path.dentry \notin killed \intersect Dentries
           /\ OwnRoot(x) => x.root.dentry \notin killed \intersect Dentries
           /\ a.dentry \notin killed \intersect Dentries
<1>1. TypeW(x) /\ HoldsLive(x)
  BY DEF Sane
<1>2. ASSUME NEW d \in Dentries,
             x.path.dentry = d \/ (OwnRoot(x) /\ x.root.dentry = d) \/ a.dentry = d
      PROVE  d \notin killed
  <2>1. x.dref[d] > 0
    BY <1>1, <1>2, HeldUp
  <2> QED BY <1>1, <2>1 DEF HoldsLive
<1> QED BY <1>2

-----------------------------------------------------------------------------
(* unlazy_walk *)

LEMMA Unlocked ==
    ASSUME NEW x, Sane(x), x.rcu
    PROVE  LET y == unlocked(x) IN Sane(y) /\ ~y.rcu /\ Same(x, y, {"rcu", "rcu_lock"})
<1> DEFINE y == unlocked(x)
<1>1. TypeW(x) /\ IsWalk(x) /\ x.rcu_lock = 1
  BY DEF Sane, TypeW, LinkCalls, One
<1>2. IsWalk(y) /\ y.rcu = FALSE /\ y.rcu_lock = x.rcu_lock - 1 /\ Same(x, y, {"rcu", "rcu_lock"})
  BY <1>1 DEF unlocked, IsWalk, Fields, Same
<1> HIDE DEF y
<1>3. y.rcu_lock = 0
  BY <1>1, <1>2
<1>4. TypeW(y)
  <2>1. y.rcu \in BOOLEAN /\ y.rcu_lock \in Int
    <3>1. y.rcu \in BOOLEAN
      BY <1>2, Zenon
    <3>2. y.rcu_lock \in Int
      BY <1>3
    <3> QED BY <3>1, <3>2
  <2>2. /\ y.lookup_root = x.lookup_root /\ y.alloc = x.alloc /\ y.calls = x.calls
        /\ y.path = x.path /\ y.root = x.root /\ y.found = x.found /\ y.result = x.result
        /\ y.seq = x.seq /\ y.cseq = x.cseq /\ y.fseq = x.fseq /\ y.root_seq = x.root_seq
        /\ y.name = x.name /\ y.total = x.total /\ y.stack = x.stack
        /\ y.dref = x.dref /\ y.mref = x.mref /\ y.start = x.start
    BY <1>2 DEF Same, Fields
  <2> QED BY <1>1, <1>2, <2>1, <2>2 DEF TypeW
<1>5. y.dref = x.dref /\ y.stack = x.stack /\ y.calls = x.calls
  BY <1>2 DEF Same, Fields
<1>6. Sane(y)
  BY <1>2, <1>3, <1>4, <1>5 DEF Sane, HoldsLive, LinkCalls, One
<1> QED BY <1>2, <1>6 DEF y

LEMMA DropRoot ==
    ASSUME NEW x, Sane(x)
    PROVE  LET y == drop_root(x) IN
           /\ Sane(y) /\ Same(x, y, {"root"}) /\ ~OwnRoot(y)
           /\ x.lookup_root => y.root = x.root
           /\ ~x.lookup_root => y.root.mnt = Null
<1> DEFINE y == drop_root(x)
<1>1. TypeW(x) /\ IsWalk(x) /\ x.lookup_root \in BOOLEAN /\ x.root \in MaybePaths
  BY DEF Sane, TypeW
<1>2. CASE x.lookup_root
  <2>1. y = x
    BY <1>2 DEF drop_root
  <2> QED BY <1>2, <2>1 DEF Same, OwnRoot
<1>3. CASE ~x.lookup_root
  <2>1. IsWalk(y) /\ Same(x, y, {"root"}) /\ y.root = [x.root EXCEPT !.mnt = Null]
    BY <1>1, <1>3 DEF drop_root, IsWalk, Fields, Same
  <2> HIDE DEF y
  <2>2. y.root \in MaybePaths /\ y.root.mnt = Null
    BY <1>1, <2>1 DEF MaybePaths
  <2>3. TypeW(y)
    BY <1>1, <2>1, <2>2 DEF TypeW, Same, Fields
  <2>4. Same(x, y, Fields \ {"dref", "stack", "calls", "rcu", "rcu_lock"})
    BY <2>1 DEF Same, Fields
  <2>5. Sane(y)
    BY <2>3, <2>4, SaneSame
  <2> QED BY <1>3, <2>1, <2>2, <2>5 DEF OwnRoot, y
<1> QED BY <1>1, <1>2, <1>3

\* Up to the first symlink that fails.
LEMMA LegitLinks ==
    ASSUME DcacheInv, NEW x, Sane(x), NEW late
    PROVE  LET r == legitimize_links(x, late) IN
           /\ Sane(r.w) /\ Same(x, r.w, {"stack", "dref", "mref", "calls"})
           /\ Len(r.w.stack) <= Len(x.stack)
           /\ \A d \in Dentries :
                r.w.dref[d] = x.dref[d] + StackD(r.w.stack, Len(r.w.stack), d)
           /\ \A m \in Mounts :
                r.w.mref[m] = x.mref[m] + StackM(r.w.stack, Len(r.w.stack), m)
           /\ r.ok => Len(r.w.stack) = Len(x.stack) /\ SameCalls(r.w.stack, x.stack, Len(x.stack))
<1> DEFINE r == legitimize_links(x, late)
           bad == {i \in DOMAIN x.stack : ~LegitimizeOne(x, i, late).ok}
           n == Len(x.stack)
<1>1. n \in Nat /\ DOMAIN x.stack = 1 .. n
  BY StackLen DEF Sane
<1>2. CASE bad = {}
  <2>1. r = [ok |-> TRUE, w |-> LegitimizeUpTo(x, n, late)]
    BY <1>2 DEF legitimize_links
  <2>2. LegitTo(x, r.w, n)
    BY <1>1, <2>1, LegitUpTo
  <2> HIDE DEF r
  <2>3. Same(x, r.w, {"stack", "dref", "mref", "calls"})
    BY <2>2 DEF LegitTo, Same
  <2> QED BY <1>1, <2>2, <2>3 DEF LegitTo, r
<1>3. CASE bad # {}
  <2> DEFINE k == Min(bad)
             u == LegitimizeUpTo(x, k, late)
             y == drop_links(u)
             z == [y EXCEPT !.stack = SubSeq(@, 1, k)]
  <2>1. r = [ok |-> FALSE, w |-> z]
    BY <1>3 DEF legitimize_links
  <2>2. k \in 1 .. n
    <3>1. bad \in SUBSET Nat /\ bad \subseteq 1 .. n
      BY <1>1
    <3> HIDE DEF bad
    <3>2. \E i \in bad : \A j \in bad : i <= j
      BY <1>3, <3>1, LeastNat
    <3>3. k \in bad
      BY <3>2 DEF Min
    <3> QED BY <3>1, <3>3
  <2> HIDE DEF bad, k, r
  <2>3. LegitTo(x, u, k) /\ k \in Nat /\ k <= n
    BY <1>1, <2>2, LegitUpTo
  <2> HIDE DEF u
  <2>4. Sane(u) /\ Len(u.stack) = n
    BY <2>3 DEF LegitTo
  <2>5. /\ Sane(y) /\ Same(u, y, {"stack", "calls"}) /\ y.calls = 0 /\ Len(y.stack) = n
        /\ \A i \in 1 .. n : y.stack[i].link = u.stack[i].link /\ ~y.stack[i].done
    BY <2>4, DropLinks
  <2> HIDE DEF y
  <2>6. TypeW(y) /\ IsWalk(y) /\ y.stack \in Seq(Links)
    BY <2>5 DEF Sane, TypeW
  <2>7. IsWalk(z) /\ Same(y, z, {"stack"}) /\ z.stack = SubSeq(y.stack, 1, k)
    BY <2>6 DEF IsWalk, Fields, Same
  <2> HIDE DEF z
  <2>8. z.stack \in Seq(Links) /\ Len(z.stack) = k /\ \A i \in 1 .. k : z.stack[i] = y.stack[i]
    BY <1>1, <2>2, <2>5, <2>6, <2>7
  <2>9. /\ z.dref = u.dref /\ z.mref = u.mref /\ z.calls = 0 /\ z.rcu = y.rcu
        /\ z.rcu_lock = y.rcu_lock /\ y.dref = u.dref /\ y.mref = u.mref
        /\ Same(y, z, {"dref", "mref", "stack", "calls"})
    BY <2>5, <2>7 DEF Same, Fields
  <2>10. TypeW(z)
    <3>1. z.dref \in [Dentries -> Int] /\ z.mref \in [Mounts -> Int]
      BY <2>6, <2>9 DEF TypeW
    <3>2. z.calls \in Int
      BY <2>9
    <3> QED BY <2>6, <2>7, <2>8, <2>9, <3>1, <3>2, TypeSame
  <2>11. Sane(z)
    <3>1. \A i \in 1 .. k : ~z.stack[i].done
      BY <1>1, <2>2, <2>5, <2>8
    <3>2. Calls(z.stack, k) = 0
      BY <2>3, <3>1, NoCalls
    <3> QED BY <2>5, <2>8, <2>9, <2>10, <3>2 DEF Sane, HoldsLive, LinkCalls
  <2>12. Same(x, z, {"stack", "dref", "mref", "calls"})
    BY <2>3, <2>5, <2>7 DEF LegitTo, Same, Fields
  <2>13. SameLinks(z.stack, u.stack, k)
    BY <1>1, <2>2, <2>5, <2>8 DEF SameLinks
  <2>14. \A d : /\ StackD(z.stack, k, d) = StackD(u.stack, k, d)
               /\ StackM(z.stack, k, d) = StackM(u.stack, k, d)
    BY <2>3, <2>13, LinksCount
  <2>15. /\ \A d \in Dentries : z.dref[d] = x.dref[d] + StackD(z.stack, k, d)
         /\ \A m \in Mounts : z.mref[m] = x.mref[m] + StackM(z.stack, k, m)
    BY <2>3, <2>9, <2>14 DEF LegitTo
  <2> QED BY <1>1, <2>1, <2>3, <2>8, <2>11, <2>12, <2>15 DEF r
<1> QED BY <1>2, <1>3

LEMMA LegitRoot ==
    ASSUME DcacheInv, NEW x, Sane(x), NEW late
    PROVE  LET r == legitimize_root(x, late) IN
           /\ Sane(r.w) /\ Same(x, r.w, {"root", "dref", "mref"})
           /\ \A d \in Dentries :
                r.w.dref[d] = x.dref[d] + One(OwnRoot(r.w) /\ r.w.root.dentry = d)
           /\ \A m \in Mounts :
                r.w.mref[m] = x.mref[m] + One(OwnRoot(r.w) /\ r.w.root.mnt = m)
           /\ r.ok => r.w.root = x.root
           /\ x.lookup_root => r.ok
<1> DEFINE r == legitimize_root(x, late)
<1>1. TypeW(x) /\ x.root \in MaybePaths /\ x.lookup_root \in BOOLEAN
  BY DEF Sane, TypeW
<1>2. CASE ~OwnRoot(x)
  <2>1. r = [ok |-> TRUE, w |-> x]
    BY <1>2 DEF legitimize_root, OwnRoot
  <2> HIDE DEF r
  <2>3. Same(x, x, {"root", "dref", "mref"})
    BY DEF Same
  <2>4. r.w = x /\ r.ok
    BY <2>1
  <2>5. ASSUME NEW d \in Dentries PROVE x.dref[d] = x.dref[d] + One(OwnRoot(x) /\ x.root.dentry = d)
    <3>1. x.dref[d] \in Int
      BY <1>1, DebtInt
    <3> QED BY <1>2, <3>1 DEF One
  <2>6. ASSUME NEW m \in Mounts PROVE x.mref[m] = x.mref[m] + One(OwnRoot(x) /\ x.root.mnt = m)
    <3>1. x.mref[m] \in Int
      BY <1>1, DebtInt
    <3> QED BY <1>2, <3>1 DEF One
  <2> QED BY <2>3, <2>4, <2>5, <2>6 DEF r
<1>3. CASE OwnRoot(x)
  <2> DEFINE l == legitimize_path(x, x.root, x.root_seq, late)
             v == l.w
             z == [v EXCEPT !.root = l.path]
  <2>1. r = [ok |-> l.ok, w |-> z] /\ ~x.lookup_root
    BY <1>3 DEF legitimize_root, OwnRoot
  <2>2. /\ l.path \in MaybePaths /\ Sane(v) /\ Same(x, v, {"dref", "mref"})
        /\ \A d \in Dentries : v.dref[d] = x.dref[d] + One(l.path.dentry = d)
        /\ \A m \in Mounts : v.mref[m] = x.mref[m] + One(l.path.mnt = m)
        /\ l.ok => l.path = x.root
    BY <1>1, LegitPath
  <2>3. l.path.mnt = Null => l.path.dentry = Null
    BY <1>3 DEF legitimize_path, OwnRoot
  <2> HIDE DEF l, r
  <2>4. IsWalk(v) /\ TypeW(v)
    BY <2>2 DEF Sane, TypeW
  <2>5. IsWalk(z) /\ Same(v, z, {"root"}) /\ z.root = l.path
    BY <2>4 DEF IsWalk, Same, Fields
  <2> HIDE DEF z
  <2>6. TypeW(z)
    BY <2>2, <2>4, <2>5 DEF TypeW, Same, Fields
  <2>7. /\ Same(v, z, Fields \ {"dref", "stack", "calls", "rcu", "rcu_lock"})
        /\ z.dref = v.dref /\ z.mref = v.mref /\ z.lookup_root = x.lookup_root
    BY <2>2, <2>5 DEF Same, Fields
  <2>8. Sane(z)
    BY <2>2, <2>6, <2>7, SaneSame
  <2>9. /\ \A d \in Dentries : One(OwnRoot(z) /\ z.root.dentry = d) = One(l.path.dentry = d)
        /\ \A m \in Mounts : One(OwnRoot(z) /\ z.root.mnt = m) = One(l.path.mnt = m)
    BY <2>1, <2>3, <2>5, <2>7, NullOut DEF OwnRoot, One
  <2>10. Same(x, z, {"root", "dref", "mref"})
    BY <2>2, <2>5 DEF Same, Fields
  <2> QED BY <2>1, <2>2, <2>5, <2>7, <2>8, <2>9, <2>10 DEF r
<1> QED BY <1>2, <1>3

\* In ref-walk it holds what it remembers, and no less.
LEMMA FromRcu ==
    ASSUME NEW x, NEW y, TypeW(x), TypeW(y), x.rcu, ~y.rcu,
           \A d \in Dentries :
             y.dref[d] = x.dref[d] + StackD(y.stack, Len(y.stack), d) + One(y.path.dentry = d)
                         + One(OwnRoot(y) /\ y.root.dentry = d),
           \A m \in Mounts :
             y.mref[m] = x.mref[m] + StackM(y.stack, Len(y.stack), m) + One(y.path.mnt = m)
                         + One(OwnRoot(y) /\ y.root.mnt = m)
    PROVE  Even(x, y)
<1>1. ASSUME NEW d \in Dentries PROVE DebtD(y, d) = DebtD(x, d)
  <2> DEFINE a == StackD(y.stack, Len(y.stack), d)
             b == One(OwnRoot(y) /\ y.root.dentry = d)
             c == One(y.path.dentry = d)
  <2>1. a \in Int /\ b \in Int /\ c \in Int
    BY StackInt, OneInt
  <2>2. CoreD(x, d) = 0 /\ CoreD(y, d) = c + a + b
    BY DEF CoreD
  <2>3. y.dref[d] = x.dref[d] + a + c + b
    OBVIOUS
  <2> HIDE DEF a, b, c
  <2> QED BY <2>1, <2>2, <2>3, DebtInt DEF DebtD
<1>2. ASSUME NEW m \in Mounts PROVE DebtM(y, m) = DebtM(x, m)
  <2> DEFINE a == StackM(y.stack, Len(y.stack), m)
             b == One(OwnRoot(y) /\ y.root.mnt = m)
             c == One(y.path.mnt = m)
  <2>1. a \in Int /\ b \in Int /\ c \in Int
    BY StackInt, OneInt
  <2>2. CoreM(x, m) = 0 /\ CoreM(y, m) = c + a + b
    BY DEF CoreM
  <2>3. y.mref[m] = x.mref[m] + a + c + b
    OBVIOUS
  <2> HIDE DEF a, b, c
  <2> QED BY <2>1, <2>2, <2>3, DebtInt DEF DebtM
<1> QED BY <1>1, <1>2 DEF Even

LEMMA SetPath ==
    ASSUME NEW x, Sane(x), NEW p \in MaybePaths
    PROVE  LET y == [x EXCEPT !.path = p] IN Sane(y) /\ Same(x, y, {"path"}) /\ y.path = p
<1> DEFINE y == [x EXCEPT !.path = p]
<1>1. TypeW(x) /\ IsWalk(x)
  BY DEF Sane, TypeW
<1>2. IsWalk(y) /\ Same(x, y, {"path"}) /\ y.path = p
  BY <1>1 DEF IsWalk, Fields, Same
<1> HIDE DEF y
<1>3. TypeW(y)
  BY <1>1, <1>2 DEF TypeW, Same, Fields
<1>4. Same(x, y, Fields \ {"dref", "stack", "calls", "rcu", "rcu_lock"})
  BY <1>2 DEF Same, Fields
<1>5. Sane(y)
  BY <1>3, <1>4, SaneSame
<1> QED BY <1>2, <1>5 DEF y

\* Without a root of its own.
LEMMA FromRcuRootless ==
    ASSUME NEW x, NEW y, TypeW(x), TypeW(y), x.rcu, ~y.rcu, ~OwnRoot(y),
           \A d \in Dentries :
             y.dref[d] = x.dref[d] + StackD(y.stack, Len(y.stack), d) + One(y.path.dentry = d),
           \A m \in Mounts :
             y.mref[m] = x.mref[m] + StackM(y.stack, Len(y.stack), m) + One(y.path.mnt = m)
    PROVE  Even(x, y)
<1>1. ASSUME NEW d \in Dentries
      PROVE  y.dref[d] = x.dref[d] + StackD(y.stack, Len(y.stack), d) + One(y.path.dentry = d)
                         + One(OwnRoot(y) /\ y.root.dentry = d)
  <2> DEFINE a == StackD(y.stack, Len(y.stack), d)
             c == One(y.path.dentry = d)
  <2>1. a \in Int /\ c \in Int /\ x.dref[d] \in Int
    BY StackInt, OneInt, DebtInt
  <2>2. y.dref[d] = x.dref[d] + a + c
    OBVIOUS
  <2> HIDE DEF a, c
  <2>3. y.dref[d] = x.dref[d] + a + c + One(OwnRoot(y) /\ y.root.dentry = d)
    BY <2>1, <2>2 DEF One
  <2> QED BY <2>3 DEF a, c
<1>2. ASSUME NEW m \in Mounts
      PROVE  y.mref[m] = x.mref[m] + StackM(y.stack, Len(y.stack), m) + One(y.path.mnt = m)
                         + One(OwnRoot(y) /\ y.root.mnt = m)
  <2> DEFINE a == StackM(y.stack, Len(y.stack), m)
             c == One(y.path.mnt = m)
  <2>1. a \in Int /\ c \in Int /\ x.mref[m] \in Int
    BY StackInt, OneInt, DebtInt
  <2>2. y.mref[m] = x.mref[m] + a + c
    OBVIOUS
  <2> HIDE DEF a, c
  <2>3. y.mref[m] = x.mref[m] + a + c + One(OwnRoot(y) /\ y.root.mnt = m)
    BY <2>1, <2>2 DEF One
  <2> QED BY <2>3 DEF a, c
<1> QED BY <1>1, <1>2, FromRcu

\* With neither a path nor a root, it holds the symlinks.
LEMMA FromRcuLost ==
    ASSUME NEW x, NEW y, TypeW(x), TypeW(y), x.rcu, ~y.rcu, ~OwnRoot(y), y.path = Nowhere,
           \A d \in Dentries : y.dref[d] = x.dref[d] + StackD(y.stack, Len(y.stack), d),
           \A m \in Mounts : y.mref[m] = x.mref[m] + StackM(y.stack, Len(y.stack), m)
    PROVE  Even(x, y)
<1>1. ASSUME NEW d \in Dentries
      PROVE  y.dref[d] = x.dref[d] + StackD(y.stack, Len(y.stack), d) + One(y.path.dentry = d)
  <2>1. StackD(y.stack, Len(y.stack), d) \in Int /\ x.dref[d] \in Int
    BY StackInt, DebtInt
  <2>2. One(y.path.dentry = d) = 0
    BY NoOne
  <2> QED BY <2>1, <2>2
<1>2. ASSUME NEW m \in Mounts
      PROVE  y.mref[m] = x.mref[m] + StackM(y.stack, Len(y.stack), m) + One(y.path.mnt = m)
  <2>1. StackM(y.stack, Len(y.stack), m) \in Int /\ x.mref[m] \in Int
    BY StackInt, DebtInt
  <2>2. One(y.path.mnt = m) = 0
    BY NoOne
  <2> QED BY <2>1, <2>2
<1> QED BY <1>1, <1>2, FromRcuRootless

\* y is x in ref-walk, perhaps with less to remember.
Unlazied(x, y) ==
    /\ Sane(y) /\ ~y.rcu /\ Len(y.stack) <= Len(x.stack)
    /\ Same(x, y, {"stack", "dref", "mref", "calls", "rcu", "rcu_lock", "path", "root"})
\* It remembers all of it.
Kept(x, y) ==
    /\ y.path = x.path /\ y.root = x.root /\ Len(y.stack) = Len(x.stack)
    /\ SameCalls(y.stack, x.stack, Len(x.stack))

LEMMA UnlazyWalk ==
    ASSUME DcacheInv, NEW x, Sane(x), x.rcu, NEW late
    PROVE  LET u == unlazy_walk(x, late) IN
           /\ Unlazied(x, u.w) /\ Even(x, u.w)
           /\ u.ok => /\ Kept(x, u.w) /\ seq[x.path.dentry] = x.seq /\ x.path.dentry \notin killed
<1> DEFINE o == unlocked(x)
           l == legitimize_links(o, late)
           c == l.w
           p == legitimize_path(c, x.path, x.seq, late)
           v == p.w
           y == [v EXCEPT !.path = p.path]
           r == legitimize_root(y, late)
           a == [c EXCEPT !.path = Nowhere]
           u == unlazy_walk(x, late)
<1>1. u = IF ~l.ok THEN [ok |-> FALSE, w |-> drop_root(a)]
          ELSE IF ~p.ok THEN [ok |-> FALSE, w |-> drop_root(y)]
          ELSE r
  BY DEF unlazy_walk
<1> HIDE DEF u
<1>2. TypeW(x) /\ x.path \in MaybePaths
  BY DEF Sane, TypeW
<1>3. Sane(o) /\ ~o.rcu /\ Same(x, o, {"rcu", "rcu_lock"}) /\ TypeW(o)
  BY Unlocked DEF Sane
<1> HIDE DEF o
<1>4. /\ Sane(c) /\ Same(o, c, {"stack", "dref", "mref", "calls"}) /\ Len(c.stack) <= Len(o.stack)
      /\ \A d \in Dentries : c.dref[d] = o.dref[d] + StackD(c.stack, Len(c.stack), d)
      /\ \A m \in Mounts : c.mref[m] = o.mref[m] + StackM(c.stack, Len(c.stack), m)
      /\ l.ok => Len(c.stack) = Len(o.stack) /\ SameCalls(c.stack, o.stack, Len(o.stack))
  BY <1>3, LegitLinks
<1> HIDE DEF l
<1>5. /\ ~c.rcu /\ o.stack = x.stack /\ o.dref = x.dref /\ o.mref = x.mref
      /\ c.path = x.path /\ c.root = x.root /\ c.lookup_root = x.lookup_root
      /\ Same(x, c, {"stack", "dref", "mref", "calls", "rcu", "rcu_lock"}) /\ TypeW(c)
  BY <1>3, <1>4 DEF Same, Fields, Sane
<1>6. CASE ~l.ok
  <2> DEFINE b == drop_root(a)
  <2>1. Nowhere \in MaybePaths
    BY DEF Nowhere, MaybePaths
  <2>2. Sane(a) /\ Same(c, a, {"path"}) /\ a.path = Nowhere
    BY <1>4, <2>1, SetPath
  <2> HIDE DEF a
  <2>3. Sane(b) /\ Same(a, b, {"root"}) /\ ~OwnRoot(b)
    BY <2>2, DropRoot
  <2> HIDE DEF b
  <2>4. /\ Same(x, b, {"stack", "dref", "mref", "calls", "rcu", "rcu_lock", "path", "root"})
        /\ b.path = Nowhere /\ b.stack = c.stack /\ b.dref = c.dref /\ b.mref = c.mref /\ ~b.rcu
        /\ TypeW(b)
    BY <1>5, <2>2, <2>3 DEF Same, Fields, Sane
  <2>5. Unlazied(x, b)
    BY <1>4, <1>5, <2>3, <2>4 DEF Unlazied
  <2>6. Even(x, b)
    BY <1>2, <1>4, <1>5, <2>3, <2>4, FromRcuLost
  <2>7. u.w = b /\ ~u.ok
    BY <1>1, <1>6 DEF b
  <2> QED BY <2>5, <2>6, <2>7 DEF u
<1>7. CASE l.ok
  <2>1. /\ p.path \in MaybePaths /\ Sane(v) /\ Same(c, v, {"dref", "mref"})
        /\ \A d \in Dentries : v.dref[d] = c.dref[d] + One(p.path.dentry = d)
        /\ \A m \in Mounts : v.mref[m] = c.mref[m] + One(p.path.mnt = m)
        /\ p.ok => p.path = x.path /\ x.path.dentry \notin killed /\ seq[x.path.dentry] = x.seq
    BY <1>2, <1>4, LegitPath
  <2> HIDE DEF p
  <2>2. Sane(y) /\ Same(v, y, {"path"}) /\ y.path = p.path
    BY <2>1, SetPath
  <2> HIDE DEF y
  <2>3. /\ y.stack = c.stack /\ ~y.rcu /\ y.dref = v.dref /\ y.mref = v.mref /\ TypeW(y)
        /\ y.root = x.root /\ y.lookup_root = x.lookup_root
        /\ Same(x, y, {"stack", "dref", "mref", "calls", "rcu", "rcu_lock", "path"})
    BY <1>5, <2>1, <2>2 DEF Same, Fields, Sane
  <2>4. /\ \A d \in Dentries :
            y.dref[d] = x.dref[d] + StackD(y.stack, Len(y.stack), d) + One(y.path.dentry = d)
        /\ \A m \in Mounts :
            y.mref[m] = x.mref[m] + StackM(y.stack, Len(y.stack), m) + One(y.path.mnt = m)
    BY <1>4, <1>5, <2>1, <2>2, <2>3
  <2>5. CASE ~p.ok
    <3> DEFINE b == drop_root(y)
    <3>1. Sane(b) /\ Same(y, b, {"root"}) /\ ~OwnRoot(b)
      BY <2>2, DropRoot
    <3> HIDE DEF b
    <3>2. /\ b.path = y.path /\ b.stack = y.stack /\ b.dref = y.dref /\ b.mref = y.mref /\ ~b.rcu
          /\ TypeW(b)
          /\ Same(x, b, {"stack", "dref", "mref", "calls", "rcu", "rcu_lock", "path", "root"})
      BY <2>3, <3>1 DEF Same, Fields, Sane
    <3>3. Unlazied(x, b)
      BY <1>4, <1>5, <2>3, <3>1, <3>2 DEF Unlazied
    <3>4. Even(x, b)
      BY <1>2, <2>4, <3>1, <3>2, FromRcuRootless
    <3>5. u.w = b /\ ~u.ok
      BY <1>1, <1>7, <2>5 DEF b
    <3> QED BY <3>3, <3>4, <3>5 DEF u
  <2>6. CASE p.ok
    <3> DEFINE b == r.w
    <3>1. /\ Sane(b) /\ Same(y, b, {"root", "dref", "mref"})
          /\ \A d \in Dentries : b.dref[d] = y.dref[d] + One(OwnRoot(b) /\ b.root.dentry = d)
          /\ \A m \in Mounts : b.mref[m] = y.mref[m] + One(OwnRoot(b) /\ b.root.mnt = m)
          /\ r.ok => b.root = y.root
      BY <2>2, LegitRoot
    <3> HIDE DEF r
    <3>2. /\ b.path = y.path /\ b.stack = y.stack /\ ~b.rcu /\ TypeW(b)
          /\ Same(x, b, {"stack", "dref", "mref", "calls", "rcu", "rcu_lock", "path", "root"})
      BY <2>3, <3>1 DEF Same, Fields, Sane
    <3>3. Unlazied(x, b)
      BY <1>4, <1>5, <2>3, <3>1, <3>2 DEF Unlazied
    <3>4. Even(x, b)
      <4>1. ASSUME NEW d \in Dentries
            PROVE  b.dref[d] = x.dref[d] + StackD(b.stack, Len(b.stack), d) + One(b.path.dentry = d)
                               + One(OwnRoot(b) /\ b.root.dentry = d)
        BY <2>4, <3>1, <3>2
      <4>2. ASSUME NEW m \in Mounts
            PROVE  b.mref[m] = x.mref[m] + StackM(b.stack, Len(b.stack), m) + One(b.path.mnt = m)
                               + One(OwnRoot(b) /\ b.root.mnt = m)
        BY <2>4, <3>1, <3>2
      <4> QED BY <1>2, <3>2, <4>1, <4>2, FromRcu
    <3>5. u = r
      BY <1>1, <1>7, <2>6
    <3>6. r.ok => Kept(x, b)
      BY <1>4, <1>5, <1>7, <2>1, <2>2, <2>3, <2>6, <3>1, <3>2 DEF Kept
    <3> QED BY <2>1, <2>6, <3>3, <3>4, <3>5, <3>6 DEF u
  <2> QED BY <2>5, <2>6
<1> QED BY <1>6, <1>7

-----------------------------------------------------------------------------
(* unlazy_child *)

LEMMA SaneM ==
    ASSUME NEW x, Sane(x), NEW m0 \in Mounts \union {Null}, NEW k \in Int
    PROVE  LET y == [x EXCEPT !.mref = Add(@, m0, k)] IN
           /\ Sane(y) /\ TypeW(y) /\ Same(x, y, {"mref"})
           /\ \A m \in Mounts : y.mref[m] = x.mref[m] + (IF m0 = m THEN k ELSE 0)
<1> DEFINE y == [x EXCEPT !.mref = Add(@, m0, k)]
<1>1. /\ TypeW(y) /\ Same(x, y, {"mref"})
      /\ \A m \in Mounts : y.mref[m] = x.mref[m] + (IF m0 = m THEN k ELSE 0)
  BY MrefBy DEF Sane
<1> HIDE DEF y
<1>2. Same(x, y, Fields \ {"dref", "stack", "calls", "rcu", "rcu_lock"})
  BY <1>1 DEF Same, Fields
<1>3. Sane(y)
  BY <1>1, <1>2, SaneSame
<1> QED BY <1>1, <1>3 DEF y

LEMMA SaneD ==
    ASSUME NEW x, Sane(x), NEW d0 \in Dentries, NEW k \in Int, k <= 0 \/ d0 \notin killed
    PROVE  LET y == [x EXCEPT !.dref = Add(@, d0, k)] IN
           /\ Sane(y) /\ TypeW(y) /\ Same(x, y, {"dref"})
           /\ \A d \in Dentries : y.dref[d] = x.dref[d] + (IF d0 = d THEN k ELSE 0)
<1> DEFINE y == [x EXCEPT !.dref = Add(@, d0, k)]
<1>1. /\ TypeW(y) /\ Same(x, y, {"dref"})
      /\ \A d \in Dentries : y.dref[d] = x.dref[d] + (IF d0 = d THEN k ELSE 0)
  BY DrefBy DEF Sane
<1> HIDE DEF y
<1>2. /\ y.stack = x.stack /\ y.calls = x.calls /\ y.rcu = x.rcu /\ y.rcu_lock = x.rcu_lock
  BY <1>1 DEF Same, Fields
<1>3. HoldsLive(y)
  <2>1. TypeW(x) /\ HoldsLive(x)
    BY DEF Sane
  <2>2. \A d \in Dentries : x.dref[d] \in Int
    BY <2>1, DebtInt
  <2> QED BY <1>1, <2>1, <2>2 DEF HoldsLive
<1>4. Sane(y)
  BY <1>1, <1>2, <1>3 DEF Sane, LinkCalls
<1> QED BY <1>1, <1>4 DEF y

Alone(d) == [mnt |-> Null, dentry |-> d]
LEMMA DrefMoves ==
    ASSUME NEW x, NEW y, TypeW(x), TypeW(y), Same(x, y, {"dref"}), NEW d0 \in Dentries,
           \A d \in Dentries : y.dref[d] = x.dref[d] + One(d0 = d)
    PROVE  Moves(x, y, Alone(d0), Nowhere) /\ Moves(y, x, Nowhere, Alone(d0))
<1>1. Same(x, y, {"dref", "mref"}) /\ y.mref = x.mref
  BY DEF Same, Fields
<1>2. \A d : /\ CoreD(y, d) = CoreD(x, d) /\ CoreM(y, d) = CoreM(x, d)
             /\ CoreD(x, d) \in Int /\ CoreM(x, d) \in Int
  BY <1>1, CoreSame, CoreInt
<1>3. ASSUME NEW d \in Dentries
      PROVE  DebtD(y, d) + One(Nowhere.dentry = d) = DebtD(x, d) + One(Alone(d0).dentry = d)
  <2>1. Alone(d0).dentry = d0
    BY DEF Alone
  <2>2. One(Nowhere.dentry = d) = 0 /\ One(d0 = d) \in Int /\ x.dref[d] \in Int
    BY NoOne, OneInt, DebtInt
  <2>3. y.dref[d] = x.dref[d] + One(d0 = d)
    OBVIOUS
  <2> QED BY <1>2, <2>1, <2>2, <2>3 DEF DebtD
<1>4. ASSUME NEW m \in Mounts
      PROVE  DebtM(y, m) + One(Nowhere.mnt = m) = DebtM(x, m) + One(Alone(d0).mnt = m)
  <2>1. Alone(d0).mnt = Null
    BY DEF Alone
  <2>2. One(Nowhere.mnt = m) = 0 /\ One(Null = m) = 0 /\ x.mref[m] \in Int
    BY NoOne, DebtInt
  <2> QED BY <1>1, <1>2, <2>1, <2>2 DEF DebtM
<1> QED BY <1>3, <1>4 DEF Moves

\* The symlinks, with which both ways into ref-walk begin.
LEMMA UnlockedLinks ==
    ASSUME DcacheInv, NEW x, Sane(x), x.rcu, NEW late
    PROVE  LET l == legitimize_links(unlocked(x), late) IN
           /\ Sane(l.w) /\ TypeW(l.w) /\ ~l.w.rcu /\ Len(l.w.stack) <= Len(x.stack)
           /\ Same(x, l.w, {"stack", "dref", "mref", "calls", "rcu", "rcu_lock"})
           /\ \A d \in Dentries : l.w.dref[d] = x.dref[d] + StackD(l.w.stack, Len(l.w.stack), d)
           /\ \A m \in Mounts : l.w.mref[m] = x.mref[m] + StackM(l.w.stack, Len(l.w.stack), m)
           /\ l.ok => Len(l.w.stack) = Len(x.stack) /\ SameCalls(l.w.stack, x.stack, Len(x.stack))
<1> DEFINE o == unlocked(x)
           l == legitimize_links(o, late)
           c == l.w
<1>3. Sane(o) /\ ~o.rcu /\ Same(x, o, {"rcu", "rcu_lock"}) /\ TypeW(o)
  BY Unlocked DEF Sane
<1> HIDE DEF o
<1>4. /\ Sane(c) /\ Same(o, c, {"stack", "dref", "mref", "calls"}) /\ Len(c.stack) <= Len(o.stack)
      /\ \A d \in Dentries : c.dref[d] = o.dref[d] + StackD(c.stack, Len(c.stack), d)
      /\ \A m \in Mounts : c.mref[m] = o.mref[m] + StackM(c.stack, Len(c.stack), m)
      /\ l.ok => Len(c.stack) = Len(o.stack) /\ SameCalls(c.stack, o.stack, Len(o.stack))
  BY <1>3, LegitLinks
<1> HIDE DEF l
<1>5. /\ ~c.rcu /\ o.stack = x.stack /\ o.dref = x.dref /\ o.mref = x.mref
      /\ Same(x, c, {"stack", "dref", "mref", "calls", "rcu", "rcu_lock"}) /\ TypeW(c)
  BY <1>3, <1>4 DEF Same, Fields, Sane
<1> QED BY <1>4, <1>5 DEF l, o

\* When a symlink fails, the path and the root are given up.
LEMMA LostWalk ==
    ASSUME NEW x, NEW c, TypeW(x), x.rcu, Sane(c), ~c.rcu, Len(c.stack) <= Len(x.stack),
           Same(x, c, {"stack", "dref", "mref", "calls", "rcu", "rcu_lock"}),
           \A d \in Dentries : c.dref[d] = x.dref[d] + StackD(c.stack, Len(c.stack), d),
           \A m \in Mounts : c.mref[m] = x.mref[m] + StackM(c.stack, Len(c.stack), m)
    PROVE  LET b == drop_root([c EXCEPT !.path = Nowhere]) IN Unlazied(x, b) /\ Even(x, b)
<1> DEFINE a == [c EXCEPT !.path = Nowhere]
           b == drop_root(a)
<1>1. Nowhere \in MaybePaths
  BY DEF Nowhere, MaybePaths
<1>2. Sane(a) /\ Same(c, a, {"path"}) /\ a.path = Nowhere
  BY <1>1, SetPath
<1> HIDE DEF a
<1>3. Sane(b) /\ Same(a, b, {"root"}) /\ ~OwnRoot(b)
  BY <1>2, DropRoot
<1> HIDE DEF b
<1>4. /\ Same(x, b, {"stack", "dref", "mref", "calls", "rcu", "rcu_lock", "path", "root"})
      /\ b.path = Nowhere /\ b.stack = c.stack /\ b.dref = c.dref /\ b.mref = c.mref /\ ~b.rcu
      /\ TypeW(b)
  BY <1>2, <1>3 DEF Same, Fields, Sane
<1>5. Unlazied(x, b)
  BY <1>3, <1>4 DEF Unlazied
<1>6. Even(x, b)
  BY <1>3, <1>4, FromRcuLost
<1> QED BY <1>5, <1>6 DEF a, b

\* When it stops after the path, the root is given up.
LEMMA LostRoot ==
    ASSUME NEW x, NEW c, TypeW(x), x.rcu, Sane(c), ~c.rcu, Len(c.stack) <= Len(x.stack),
           Same(x, c, {"stack", "dref", "mref", "calls", "rcu", "rcu_lock", "path"}),
           \A d \in Dentries :
             c.dref[d] = x.dref[d] + StackD(c.stack, Len(c.stack), d) + One(c.path.dentry = d),
           \A m \in Mounts :
             c.mref[m] = x.mref[m] + StackM(c.stack, Len(c.stack), m) + One(c.path.mnt = m)
    PROVE  LET b == drop_root(c) IN Unlazied(x, b) /\ Even(x, b)
<1> DEFINE b == drop_root(c)
<1>1. Sane(b) /\ Same(c, b, {"root"}) /\ ~OwnRoot(b)
  BY DropRoot
<1> HIDE DEF b
<1>2. /\ b.path = c.path /\ b.stack = c.stack /\ b.dref = c.dref /\ b.mref = c.mref /\ ~b.rcu
      /\ TypeW(b)
      /\ Same(x, b, {"stack", "dref", "mref", "calls", "rcu", "rcu_lock", "path", "root"})
  BY <1>1 DEF Same, Fields, Sane
<1>3. Unlazied(x, b)
  BY <1>1, <1>2 DEF Unlazied
<1>4. Even(x, b)
  BY <1>1, <1>2, FromRcuRootless
<1> QED BY <1>3, <1>4 DEF b

LEMMA UnlazyChild ==
    ASSUME DcacheInv, NEW x, Sane(x), x.rcu, x.path \in Paths, NEW d0 \in Dentries, NEW s, NEW late
    PROVE  LET u == unlazy_child(x, d0, s, late) IN
           /\ Unlazied(x, u.w)
           /\ ~u.ok => Even(x, u.w)
           /\ u.ok => /\ Moves(x, u.w, Alone(d0), Nowhere) /\ Kept(x, u.w)
                      /\ d0 \notin killed /\ seq[d0] = s
                      /\ x.path.dentry \notin killed
<1> DEFINE l == legitimize_links(unlocked(x), late)
           c == l.w
           held == [c EXCEPT !.mref = Add(@, x.path.mnt, 1)]
           parent == [held EXCEPT !.dref = Add(@, x.path.dentry, 1)]
           both == [parent EXCEPT !.dref = Add(@, d0, 1)]
           r == legitimize_root(both, late)
           u == unlazy_child(x, d0, s, late)
<1>1. u = IF ~l.ok \/ mseq # x.m_seq
          THEN [ok |-> FALSE, w |-> drop_root([c EXCEPT !.path = Nowhere])]
          ELSE IF x.path.dentry \in killed
          THEN [ok |-> FALSE, w |-> drop_root([held EXCEPT !.path.dentry = Null])]
          ELSE IF d0 \in killed THEN [ok |-> FALSE, w |-> drop_root(parent)]
          ELSE IF seq[d0] # s THEN [ok |-> FALSE, w |-> drop_root(dput(both, d0))]
          ELSE IF ~r.ok THEN [ok |-> FALSE, w |-> dput(r.w, d0)]
          ELSE r
  BY DEF unlazy_child
<1> HIDE DEF u
<1>2. TypeW(x) /\ x.path.mnt \in Mounts /\ x.path.dentry \in Dentries
  BY DEF Sane, TypeW, Paths
<1>3. /\ Sane(c) /\ TypeW(c) /\ ~c.rcu /\ Len(c.stack) <= Len(x.stack)
      /\ Same(x, c, {"stack", "dref", "mref", "calls", "rcu", "rcu_lock"})
      /\ \A d \in Dentries : c.dref[d] = x.dref[d] + StackD(c.stack, Len(c.stack), d)
      /\ \A m \in Mounts : c.mref[m] = x.mref[m] + StackM(c.stack, Len(c.stack), m)
      /\ l.ok => Len(c.stack) = Len(x.stack) /\ SameCalls(c.stack, x.stack, Len(x.stack))
  BY UnlockedLinks
<1> HIDE DEF l
<1> SUFFICES /\ Unlazied(x, u.w)
             /\ ~u.ok => Even(x, u.w)
             /\ u.ok => /\ Moves(x, u.w, Alone(d0), Nowhere) /\ Kept(x, u.w)
                        /\ d0 \notin killed /\ seq[d0] = s /\ x.path.dentry \notin killed
  BY DEF u
<1>4. CASE ~l.ok \/ mseq # x.m_seq
  <2> DEFINE b == drop_root([c EXCEPT !.path = Nowhere])
  <2>1. Unlazied(x, b) /\ Even(x, b)
    BY <1>2, <1>3, LostWalk
  <2>2. u = [ok |-> FALSE, w |-> b]
    BY <1>1, <1>4
  <2> HIDE DEF b
  <2> QED BY <2>1, <2>2
<1>5. CASE l.ok /\ mseq = x.m_seq
  <2>1. /\ Sane(held) /\ TypeW(held) /\ Same(c, held, {"mref"})
        /\ \A m \in Mounts : held.mref[m] = c.mref[m] + (IF x.path.mnt = m THEN 1 ELSE 0)
    <3>1. PICK e : e = x.path.mnt
      OBVIOUS
    <3>2. held = [c EXCEPT !.mref = Add(@, e, 1)] /\ e \in Mounts \union {Null} /\ 1 \in Int
      BY <1>2, <3>1
    <3> HIDE DEF held
    <3>3. /\ Sane(held) /\ TypeW(held) /\ Same(c, held, {"mref"})
          /\ \A m \in Mounts : held.mref[m] = c.mref[m] + (IF e = m THEN 1 ELSE 0)
      BY <1>3, <3>2, SaneM
    <3> QED BY <3>1, <3>3 DEF held
  <2> HIDE DEF held
  <2>2. /\ held.path = x.path /\ held.stack = c.stack /\ held.dref = c.dref /\ ~held.rcu
        /\ Same(x, held, {"stack", "dref", "mref", "calls", "rcu", "rcu_lock"})
    BY <1>3, <2>1 DEF Same, Fields
  <2>3. \A m \in Mounts :
            held.mref[m] = x.mref[m] + StackM(c.stack, Len(c.stack), m) + One(x.path.mnt = m)
    BY <1>3, <2>1 DEF One
  <2>4. CASE x.path.dentry \in killed
    <3> DEFINE p == [x.path EXCEPT !.dentry = Null]
               e == [held EXCEPT !.path.dentry = Null]
               b == drop_root(e)
    <3>1. e = [held EXCEPT !.path = p]
      BY <2>2
    <3>2. p \in MaybePaths /\ p.dentry = Null /\ p.mnt = x.path.mnt
      BY DEF Paths, MaybePaths
    <3> HIDE DEF e, p
    <3>3. Sane(e) /\ Same(held, e, {"path"}) /\ e.path = p
      BY <2>1, <3>1, <3>2, SetPath
    <3>4. /\ Same(x, e, {"stack", "dref", "mref", "calls", "rcu", "rcu_lock", "path"})
          /\ e.stack = c.stack /\ e.dref = c.dref /\ e.mref = held.mref /\ ~e.rcu
      BY <2>2, <3>3 DEF Same, Fields
    <3>5. ASSUME NEW d \in Dentries
          PROVE  e.dref[d] = x.dref[d] + StackD(e.stack, Len(e.stack), d) + One(e.path.dentry = d)
      <4>1. /\ One(e.path.dentry = d) = 0 /\ StackD(c.stack, Len(c.stack), d) \in Int
            /\ x.dref[d] \in Int
        BY <1>2, <1>3, <3>2, <3>3, NoOne, StackInt, DebtInt
      <4> QED BY <1>3, <3>4, <4>1
    <3>6. \A m \in Mounts :
            e.mref[m] = x.mref[m] + StackM(e.stack, Len(e.stack), m) + One(e.path.mnt = m)
      BY <2>3, <3>2, <3>3, <3>4
    <3>7. Unlazied(x, b) /\ Even(x, b)
      BY <1>2, <1>3, <3>3, <3>4, <3>5, <3>6, LostRoot
    <3>8. u = [ok |-> FALSE, w |-> b]
      BY <1>1, <1>5, <2>4 DEF e
    <3> HIDE DEF b
    <3> QED BY <3>7, <3>8
  <2>5. CASE x.path.dentry \notin killed
    <3>1. /\ Sane(parent) /\ TypeW(parent) /\ Same(held, parent, {"dref"})
          /\ \A d \in Dentries :
                parent.dref[d] = held.dref[d] + (IF x.path.dentry = d THEN 1 ELSE 0)
      <4>1. PICK e : e = x.path.dentry
        OBVIOUS
      <4>2. parent = [held EXCEPT !.dref = Add(@, e, 1)]
        BY <4>1
      <4> HIDE DEF parent
      <4>3. e \in Dentries /\ 1 \in Int /\ e \notin killed
        BY <1>2, <2>5, <4>1
      <4>4. /\ Sane(parent) /\ TypeW(parent) /\ Same(held, parent, {"dref"})
            /\ \A d \in Dentries : parent.dref[d] = held.dref[d] + (IF e = d THEN 1 ELSE 0)
        BY <2>1, <4>2, <4>3, SaneD, ZenonT(80)
      <4> QED BY <4>1, <4>4 DEF parent
    <3> HIDE DEF parent
    <3>2. /\ parent.path = x.path /\ parent.stack = c.stack /\ ~parent.rcu
          /\ parent.mref = held.mref
          /\ Same(x, parent, {"stack", "dref", "mref", "calls", "rcu", "rcu_lock"})
          /\ Same(x, parent, {"stack", "dref", "mref", "calls", "rcu", "rcu_lock", "path"})
      BY <2>2, <3>1 DEF Same, Fields
    <3>3. /\ \A d \in Dentries :
              parent.dref[d] = x.dref[d] + StackD(parent.stack, Len(parent.stack), d)
                               + One(parent.path.dentry = d)
          /\ \A m \in Mounts :
              parent.mref[m] = x.mref[m] + StackM(parent.stack, Len(parent.stack), m)
                               + One(parent.path.mnt = m)
      BY <1>3, <2>2, <2>3, <3>1, <3>2 DEF One
    <3>4. CASE d0 \in killed
      <4> DEFINE b == drop_root(parent)
      <4>1. Unlazied(x, b) /\ Even(x, b)
        BY <1>2, <1>3, <3>1, <3>2, <3>3, LostRoot
      <4>2. u = [ok |-> FALSE, w |-> b]
        BY <1>1, <1>5, <2>5, <3>4
      <4> HIDE DEF b
      <4> QED BY <4>1, <4>2
    <3>5. CASE d0 \notin killed
      <4>1. /\ Sane(both) /\ TypeW(both) /\ Same(parent, both, {"dref"})
            /\ \A d \in Dentries : both.dref[d] = parent.dref[d] + (IF d0 = d THEN 1 ELSE 0)
        <5>1. both = [parent EXCEPT !.dref = Add(@, d0, 1)] /\ 1 \in Int
          OBVIOUS
        <5> HIDE DEF both
        <5> QED BY <3>1, <3>5, <5>1, SaneD
      <4> HIDE DEF both
      <4>2. CASE seq[d0] # s
        <5> DEFINE e == dput(both, d0)
                   b == drop_root(e)
        <5>1. /\ Sane(e) /\ TypeW(e) /\ Same(both, e, {"dref"})
              /\ \A d \in Dentries : e.dref[d] = both.dref[d] + (IF d0 = d THEN -1 ELSE 0)
          <6>1. e = [both EXCEPT !.dref = Add(@, d0, -1)] /\ -1 \in Int /\ -1 <= 0
            BY DEF dput
          <6> HIDE DEF e
          <6> QED BY <4>1, <6>1, SaneD
        <5> HIDE DEF e
        <5>2. /\ e.path = x.path /\ e.stack = parent.stack /\ ~e.rcu /\ e.mref = parent.mref
              /\ Same(x, e, {"stack", "dref", "mref", "calls", "rcu", "rcu_lock", "path"})
          BY <3>2, <4>1, <5>1 DEF Same, Fields
        <5>3. ASSUME NEW d \in Dentries PROVE e.dref[d] = parent.dref[d]
          <6>1. parent.dref[d] \in Int
            BY <3>1, DebtInt
          <6> QED BY <4>1, <5>1, <6>1
        <5>4. Unlazied(x, b) /\ Even(x, b)
          BY <1>2, <1>3, <3>2, <3>3, <5>1, <5>2, <5>3, LostRoot
        <5>5. u = [ok |-> FALSE, w |-> b]
          BY <1>1, <1>5, <2>5, <3>5, <4>2 DEF e
        <5> HIDE DEF b
        <5> QED BY <5>4, <5>5
      <4>3. CASE seq[d0] = s
        <5> DEFINE b == r.w
                   e == dput(b, d0)
        <5>1. /\ Sane(b) /\ Same(both, b, {"root", "dref", "mref"})
              /\ \A d \in Dentries : b.dref[d] = both.dref[d] + One(OwnRoot(b) /\ b.root.dentry = d)
              /\ \A m \in Mounts : b.mref[m] = both.mref[m] + One(OwnRoot(b) /\ b.root.mnt = m)
              /\ r.ok => b.root = both.root
          BY <4>1, LegitRoot
        <5> HIDE DEF r
        <5>2. /\ Sane(e) /\ TypeW(e) /\ Same(b, e, {"dref"})
              /\ \A d \in Dentries : e.dref[d] = b.dref[d] + (IF d0 = d THEN -1 ELSE 0)
          <6>1. e = [b EXCEPT !.dref = Add(@, d0, -1)] /\ -1 \in Int /\ -1 <= 0
            BY DEF dput
          <6> HIDE DEF e, b
          <6> QED BY <5>1, <6>1, SaneD
        <5> HIDE DEF e
        <5>3. /\ b.path = x.path /\ b.stack = c.stack /\ ~b.rcu /\ TypeW(b)
              /\ Same(x, b, {"stack", "dref", "mref", "calls", "rcu", "rcu_lock", "path", "root"})
              /\ both.root = x.root /\ both.mref = parent.mref
          BY <3>2, <4>1, <5>1 DEF Same, Fields, Sane
        <5>4. /\ e.path = x.path /\ e.stack = c.stack /\ ~e.rcu /\ e.mref = b.mref
              /\ e.root = b.root /\ e.lookup_root = b.lookup_root
              /\ Same(x, e, {"stack", "dref", "mref", "calls", "rcu", "rcu_lock", "path", "root"})
          BY <5>2, <5>3 DEF Same, Fields
        <5>5. ASSUME NEW d \in Dentries
              PROVE  e.dref[d] = x.dref[d] + StackD(e.stack, Len(e.stack), d) + One(e.path.dentry = d)
                                 + One(OwnRoot(e) /\ e.root.dentry = d)
          <6> DEFINE g == One(OwnRoot(b) /\ b.root.dentry = d)
          <6>1. parent.dref[d] \in Int /\ g \in Int
            BY <3>1, DebtInt, OneInt
          <6>2. b.dref[d] = both.dref[d] + g
            BY <5>1
          <6>3. g = One(OwnRoot(e) /\ e.root.dentry = d)
            BY <5>4 DEF OwnRoot
          <6> HIDE DEF g
          <6>4. e.dref[d] = parent.dref[d] + g
            BY <4>1, <5>2, <6>1, <6>2
          <6> QED BY <3>2, <3>3, <5>4, <6>3, <6>4
        <5>6. ASSUME NEW m \in Mounts
              PROVE  e.mref[m] = x.mref[m] + StackM(e.stack, Len(e.stack), m) + One(e.path.mnt = m)
                                 + One(OwnRoot(e) /\ e.root.mnt = m)
          <6>1. One(OwnRoot(e) /\ e.root.mnt = m) = One(OwnRoot(b) /\ b.root.mnt = m)
            BY <5>4 DEF OwnRoot
          <6> QED BY <3>2, <3>3, <5>1, <5>3, <5>4, <6>1
        <5>7. Even(x, e)
          BY <1>2, <5>2, <5>4, <5>5, <5>6, FromRcu
        <5>8. Unlazied(x, e) /\ Unlazied(x, b)
          BY <1>3, <5>1, <5>2, <5>3, <5>4 DEF Unlazied
        <5>9. Moves(x, b, Alone(d0), Nowhere)
          <6>1. ASSUME NEW d \in Dentries PROVE b.dref[d] = e.dref[d] + One(d0 = d)
            <7>1. b.dref[d] \in Int
              BY <5>3, DebtInt
            <7> QED BY <5>2, <7>1 DEF One
          <6>2. Same(e, b, {"dref"})
            BY <5>2 DEF Same
          <6>3. Moves(e, b, Alone(d0), Nowhere)
            BY <5>2, <5>3, <6>1, <6>2, DrefMoves
          <6> QED BY <5>7, <6>3, EvenMoves
        <5>10. r.ok => Kept(x, b)
          BY <1>3, <1>5, <5>1, <5>3 DEF Kept
        <5>11. u = IF ~r.ok THEN [ok |-> FALSE, w |-> e] ELSE r
          BY <1>1, <1>5, <2>5, <3>5, <4>3 DEF e
        <5>12. CASE r.ok
          BY <2>5, <3>5, <4>3, <5>8, <5>9, <5>10, <5>11, <5>12
        <5>13. CASE ~r.ok
          BY <5>7, <5>8, <5>11, <5>13
        <5> QED BY <5>12, <5>13
      <4> QED BY <4>2, <4>3
    <3> QED BY <3>4, <3>5
  <2> QED BY <2>4, <2>5
<1> QED BY <1>4, <1>5

-----------------------------------------------------------------------------
(* terminate_walk *)

LEMMA ClearStack ==
    ASSUME NEW x, Sane(x), x.calls = 0
    PROVE  LET y == [x EXCEPT !.stack = <<>>] IN
           Sane(y) /\ Same(x, y, {"stack"}) /\ y.stack = <<>>
<1> DEFINE y == [x EXCEPT !.stack = <<>>]
<1>1. IsWalk(x) /\ TypeW(x)
  BY DEF Sane, TypeW
<1>2. IsWalk(y) /\ Same(x, y, {"stack"}) /\ y.stack = <<>>
  BY <1>1 DEF IsWalk, Fields, Same
<1> HIDE DEF y
<1>3. y.stack \in Seq(Links) /\ Len(y.stack) = 0
  BY <1>2
<1>4. /\ y.dref = x.dref /\ y.mref = x.mref /\ y.calls = x.calls /\ y.rcu = x.rcu
      /\ y.rcu_lock = x.rcu_lock /\ Same(x, y, {"dref", "mref", "stack", "calls"})
  BY <1>2 DEF Same, Fields
<1>5. TypeW(y)
  <2>1. y.dref \in [Dentries -> Int] /\ y.mref \in [Mounts -> Int] /\ y.calls \in Int
    BY <1>1, <1>4 DEF TypeW
  <2> QED BY <1>1, <1>2, <1>3, <1>4, <2>1, TypeSame
<1>6. Calls(y.stack, 0) = 0
  BY NoLinks
<1>7. Sane(y)
  BY <1>3, <1>4, <1>5, <1>6 DEF Sane, HoldsLive, LinkCalls
<1> QED BY <1>2, <1>7 DEF y

\* The references of the symlinks are given back one by one.
PutTo(z, y, s, k) ==
    /\ Sane(y) /\ Same(z, y, {"dref", "mref"})
    /\ \A d \in Dentries : y.dref[d] = z.dref[d] - StackD(s, k, d)
    /\ \A m \in Mounts : y.mref[m] = z.mref[m] - StackM(s, k, m)

LEMMA PutLoop ==
    ASSUME NEW z, Sane(z), NEW s \in Seq(Links)
    PROVE  PutTo(z, PutFcn(z, s)[Len(s)], s, Len(s))
<1> DEFINE n == Len(s)
           f == PutFcn(z, s)
           S == {k \in 0 .. n : PutTo(z, f[k], s, k)}
<1>0. n \in Nat
  OBVIOUS
<1>1. f = [k \in 0 .. n |-> IF k = 0 THEN z ELSE path_put(f[k - 1], s[k].link)]
  BY <1>0, PutDefined
<1> HIDE DEF f
<1>2. 0 \in S
  <2>1. f[0] = z /\ 0 \in 0 .. n
    BY <1>0, <1>1
  <2>2. \A d : StackD(s, 0, d) = 0 /\ StackM(s, 0, d) = 0
    BY NoLinks
  <2>3. /\ \A d \in Dentries : z.dref[d] \in Int
        /\ \A m \in Mounts : z.mref[m] \in Int
    BY DebtInt DEF Sane
  <2>4. PutTo(z, z, s, 0)
    BY <2>2, <2>3 DEF PutTo, Same
  <2> QED BY <2>1, <2>4
<1>3. ASSUME NEW k \in 0 .. n, k # n, k \in S PROVE k + 1 \in S
  <2> DEFINE p == s[k + 1].link
             y == f[k]
             v == path_put(y, p)
  <2>1. k + 1 \in 1 .. n /\ k + 1 \in 0 .. n /\ k + 1 # 0 /\ k + 1 - 1 = k /\ k \in Nat
    BY <1>0, <1>3
  <2>2. f[k + 1] = v
    BY <1>1, <2>1
  <2>3. PutTo(z, y, s, k)
    BY <1>3
  <2>4. p \in MaybePaths
    <3>1. s[k + 1] \in Links
      BY <2>1
    <3> QED BY <3>1 DEF Links
  <2> HIDE DEF p, y
  <2>5. Sane(y) /\ TypeW(y)
    BY <2>3 DEF PutTo, Sane
  <2>6. /\ Sane(v) /\ Same(y, v, {"dref", "mref"})
        /\ \A d \in Dentries : v.dref[d] = y.dref[d] - One(p.dentry = d)
        /\ \A m \in Mounts : v.mref[m] = y.mref[m] - One(p.mnt = m)
    BY <2>4, <2>5, SanePut, PathPut
  <2> HIDE DEF v
  <2>7. ASSUME NEW d \in Dentries PROVE v.dref[d] = z.dref[d] - StackD(s, k + 1, d)
    <3>1. /\ StackD(s, k + 1, d) = StackD(s, k, d) + One(p.dentry = d) /\ StackD(s, k, d) \in Nat
      BY <2>1, StackDUp DEF p
    <3>2. One(p.dentry = d) \in Int /\ z.dref[d] \in Int
      BY OneInt, DebtInt DEF Sane
    <3>3. y.dref[d] = z.dref[d] - StackD(s, k, d)
      BY <2>3 DEF PutTo
    <3> QED BY <2>6, <3>1, <3>2, <3>3
  <2>8. ASSUME NEW m \in Mounts PROVE v.mref[m] = z.mref[m] - StackM(s, k + 1, m)
    <3>1. /\ StackM(s, k + 1, m) = StackM(s, k, m) + One(p.mnt = m) /\ StackM(s, k, m) \in Nat
      BY <2>1, StackMUp DEF p
    <3>2. One(p.mnt = m) \in Int /\ z.mref[m] \in Int
      BY OneInt, DebtInt DEF Sane
    <3>3. y.mref[m] = z.mref[m] - StackM(s, k, m)
      BY <2>3 DEF PutTo
    <3> QED BY <2>6, <3>1, <3>2, <3>3
  <2>9. Same(z, v, {"dref", "mref"})
    BY <2>3, <2>6 DEF PutTo, Same
  <2>10. PutTo(z, v, s, k + 1)
    BY <2>6, <2>7, <2>8, <2>9 DEF PutTo
  <2> QED BY <2>1, <2>2, <2>10
<1>4. n \in S
  <2> HIDE DEF S, n
  <2> QED BY <1>0, <1>2, <1>3, Turns
<1> QED BY <1>4 DEF f

\* Everything it remembers is given back, and what it holds beside that stays.
LEMMA TerminateWalk ==
    ASSUME NEW x, Sane(x)
    PROVE  LET t == terminate_walk(x) IN
           /\ Sane(t) /\ ~t.rcu /\ t.stack = <<>>
           /\ Same(x, t, {"stack", "dref", "mref", "calls", "rcu", "rcu_lock", "root"})
           /\ \A d \in Dentries : t.dref[d] = DebtD(x, d)
           /\ \A m \in Mounts : t.mref[m] = DebtM(x, m)
<1> DEFINE t == terminate_walk(x)
           y == drop_links(x)
           own == y.root.mnt # Null /\ ~y.lookup_root
           a == path_put(y, y.path)
           z == IF own THEN path_put(a, y.root) ELSE a
           n == Len(x.stack)
           u == unlocked(y)
           f == PutFcn(z, x.stack)[n]
           g == IF x.rcu THEN drop_root(u) ELSE drop_root(f)
<1>1. t = [g EXCEPT !.stack = <<>>]
  <2>1. t = IF x.rcu THEN [drop_root(u) EXCEPT !.stack = <<>>]
            ELSE [drop_root(f) EXCEPT !.stack = <<>>]
    BY Zenon DEF terminate_walk, PutFcn
  <2> HIDE DEF t, u, f
  <2> QED BY <2>1
<1> HIDE DEF t
<1>2. TypeW(x) /\ x.stack \in Seq(Links) /\ x.rcu \in BOOLEAN
  BY DEF Sane, TypeW
<1>3. Sane(y) /\ Same(x, y, {"stack", "calls"}) /\ y.calls = 0
  BY DropLinks
<1> HIDE DEF y
<1>4. /\ TypeW(y) /\ y.path \in MaybePaths /\ y.root \in MaybePaths /\ y.rcu = x.rcu
      /\ y.dref = x.dref /\ y.mref = x.mref /\ y.path = x.path /\ y.root = x.root
      /\ y.lookup_root = x.lookup_root
  BY <1>3 DEF Sane, TypeW, Same, Fields
<1>5. /\ Sane(g) /\ g.calls = 0 /\ ~g.rcu
      /\ Same(x, g, {"stack", "dref", "mref", "calls", "rcu", "rcu_lock", "root"})
      /\ \A d \in Dentries : g.dref[d] = DebtD(x, d)
      /\ \A m \in Mounts : g.mref[m] = DebtM(x, m)
  <2>1. CASE x.rcu
    <3>1. Sane(u) /\ ~u.rcu /\ Same(y, u, {"rcu", "rcu_lock"})
      BY <1>3, <1>4, <2>1, Unlocked
    <3> HIDE DEF u
    <3>2. g = drop_root(u)
      BY <2>1
    <3> HIDE DEF g
    <3>3. Sane(g) /\ Same(u, g, {"root"})
      BY <3>1, <3>2, DropRoot
    <3>4. /\ g.calls = 0 /\ ~g.rcu /\ g.dref = x.dref /\ g.mref = x.mref
          /\ Same(x, g, {"stack", "dref", "mref", "calls", "rcu", "rcu_lock", "root"})
      BY <1>3, <1>4, <3>1, <3>3 DEF Same, Fields
    <3>5. ASSUME NEW d \in Dentries PROVE x.dref[d] = DebtD(x, d)
      <4>1. x.dref[d] \in Int
        BY <1>2, DebtInt
      <4> QED BY <2>1, <4>1 DEF DebtD, CoreD
    <3>6. ASSUME NEW m \in Mounts PROVE x.mref[m] = DebtM(x, m)
      <4>1. x.mref[m] \in Int
        BY <1>2, DebtInt
      <4> QED BY <2>1, <4>1 DEF DebtM, CoreM
    <3> QED BY <3>3, <3>4, <3>5, <3>6
  <2>2. CASE ~x.rcu
    <3>1. /\ Sane(a) /\ TypeW(a) /\ Same(y, a, {"dref", "mref"})
          /\ \A d \in Dentries : a.dref[d] = y.dref[d] - One(y.path.dentry = d)
          /\ \A m \in Mounts : a.mref[m] = y.mref[m] - One(y.path.mnt = m)
      BY <1>3, <1>4, SanePut, PathPut, SMTT(40)
    <3> HIDE DEF a
    <3>2. /\ Sane(z) /\ TypeW(z) /\ Same(y, z, {"dref", "mref"})
          /\ \A d \in Dentries :
                z.dref[d] = y.dref[d] - One(x.path.dentry = d) - One(OwnRoot(x) /\ x.root.dentry = d)
          /\ \A m \in Mounts :
                z.mref[m] = y.mref[m] - One(x.path.mnt = m) - One(OwnRoot(x) /\ x.root.mnt = m)
      <4>1. CASE own
        <5>1. OwnRoot(x) /\ z = path_put(a, y.root)
          BY <1>4, <4>1 DEF OwnRoot
        <5> HIDE DEF z
        <5>2. /\ Sane(z) /\ TypeW(z) /\ Same(a, z, {"dref", "mref"})
              /\ \A d \in Dentries : z.dref[d] = a.dref[d] - One(y.root.dentry = d)
              /\ \A m \in Mounts : z.mref[m] = a.mref[m] - One(y.root.mnt = m)
          BY <1>4, <3>1, <5>1, SanePut, PathPut
        <5>3. Same(y, z, {"dref", "mref"})
          BY <3>1, <5>2 DEF Same
        <5> QED BY <1>4, <3>1, <5>1, <5>2, <5>3 DEF One
      <4>2. CASE ~own
        <5>1. ~OwnRoot(x) /\ z = a
          BY <1>4, <4>2 DEF OwnRoot
        <5> HIDE DEF z
        <5>2. \A d \in Dentries : y.dref[d] - One(x.path.dentry = d) \in Int
          BY <1>4, OneInt, DebtInt
        <5>3. \A m \in Mounts : y.mref[m] - One(x.path.mnt = m) \in Int
          BY <1>4, OneInt, DebtInt
        <5> QED BY <1>4, <3>1, <5>1, <5>2, <5>3 DEF One
      <4> QED BY <4>1, <4>2
    <3> HIDE DEF z
    <3>3. PutTo(z, f, x.stack, n)
      BY <1>2, <3>2, PutLoop
    <3> HIDE DEF f
    <3>4. /\ Sane(f) /\ Same(z, f, {"dref", "mref"})
          /\ \A d \in Dentries : f.dref[d] = z.dref[d] - StackD(x.stack, n, d)
          /\ \A m \in Mounts : f.mref[m] = z.mref[m] - StackM(x.stack, n, m)
      BY <3>3 DEF PutTo
    <3>5. g = drop_root(f)
      BY <2>2
    <3> HIDE DEF g
    <3>6. Sane(g) /\ Same(f, g, {"root"})
      BY <3>4, <3>5, DropRoot
    <3>7. /\ g.calls = 0 /\ ~g.rcu /\ g.dref = f.dref /\ g.mref = f.mref
          /\ Same(x, g, {"stack", "dref", "mref", "calls", "rcu", "rcu_lock", "root"})
      BY <1>3, <1>4, <2>2, <3>2, <3>4, <3>6 DEF Same, Fields
    <3>8. ASSUME NEW d \in Dentries PROVE g.dref[d] = DebtD(x, d)
      <4> DEFINE i == One(x.path.dentry = d)
                 j == One(OwnRoot(x) /\ x.root.dentry = d)
                 k == StackD(x.stack, n, d)
      <4>1. i \in Int /\ j \in Int /\ k \in Int /\ x.dref[d] \in Int
        BY <1>2, OneInt, StackInt, DebtInt
      <4>2. CoreD(x, d) = i + k + j
        BY <2>2 DEF CoreD
      <4>3. g.dref[d] = x.dref[d] - i - j - k
        BY <1>4, <3>2, <3>4, <3>7
      <4> HIDE DEF i, j, k
      <4> QED BY <4>1, <4>2, <4>3 DEF DebtD
    <3>9. ASSUME NEW m \in Mounts PROVE g.mref[m] = DebtM(x, m)
      <4> DEFINE i == One(x.path.mnt = m)
                 j == One(OwnRoot(x) /\ x.root.mnt = m)
                 k == StackM(x.stack, n, m)
      <4>1. i \in Int /\ j \in Int /\ k \in Int /\ x.mref[m] \in Int
        BY <1>2, OneInt, StackInt, DebtInt
      <4>2. CoreM(x, m) = i + k + j
        BY <2>2 DEF CoreM
      <4>3. g.mref[m] = x.mref[m] - i - j - k
        BY <1>4, <3>2, <3>4, <3>7
      <4> HIDE DEF i, j, k
      <4> QED BY <4>1, <4>2, <4>3 DEF DebtM
    <3> QED BY <3>6, <3>7, <3>8, <3>9
  <2> QED BY <1>2, <2>1, <2>2
<1> HIDE DEF g
<1>6. Sane(t) /\ Same(g, t, {"stack"}) /\ t.stack = <<>>
  BY <1>1, <1>5, ClearStack
<1>7. /\ ~t.rcu /\ t.dref = g.dref /\ t.mref = g.mref
      /\ Same(x, t, {"stack", "dref", "mref", "calls", "rcu", "rcu_lock", "root"})
  BY <1>5, <1>6 DEF Same, Fields
<1> QED BY <1>5, <1>6, <1>7 DEF t

-----------------------------------------------------------------------------
(* The smaller helpers *)

LEMMA NowhereIs == Nowhere \in MaybePaths /\ Nowhere.mnt = Null /\ Nowhere.dentry = Null
BY DEF Nowhere, MaybePaths

LEMMA ForgetFoundKeeps ==
    ASSUME NEW x, Sane(x)
    PROVE  LET y == ForgetFound(x) IN
           Sane(y) /\ Same(x, y, {"child", "cseq", "cinode", "found", "finode", "fseq"})
<1> DEFINE y == ForgetFound(x)
<1>1. TypeW(x) /\ IsWalk(x)
  BY DEF Sane, TypeW
<1>2. IsWalk(y)
  BY <1>1, ZenonT(80) DEF ForgetFound, IsWalk, Fields
<1>3. Same(x, y, {"child", "cseq", "cinode", "found", "finode", "fseq"})
  BY <1>1 DEF ForgetFound, IsWalk, Fields, Same
<1>4. y.found = Nowhere /\ y.cseq = 0 /\ y.fseq = 0
  BY <1>1 DEF ForgetFound, IsWalk, Fields
<1> HIDE DEF y
<1>5. TypeW(y)
  <2>1. y.found \in MaybePaths /\ y.cseq \in Nat /\ y.fseq \in Nat
    BY <1>4, NowhereIs
  <2> QED BY <1>1, <1>2, <1>3, <2>1 DEF TypeW, Same, Fields
<1>6. Same(x, y, Fields \ {"dref", "stack", "calls", "rcu", "rcu_lock"})
  BY <1>3 DEF Same, Fields
<1>7. Sane(y)
  BY <1>5, <1>6, SaneSame
<1> QED BY <1>3, <1>7 DEF y

Gone == {"child", "cseq", "cinode", "found", "finode", "fseq", "path", "root", "inode", "seq",
         "root_seq", "m_seq", "name", "comp", "mode", "then", "link_inode"}
LEMMA ForgetKeeps ==
    ASSUME NEW x, Sane(x)
    PROVE  LET y == Forget(x) IN
           Sane(y) /\ Same(x, y, Gone) /\ y.path = Nowhere /\ y.root = Nowhere
<1> DEFINE y == Forget(x)
           v == ForgetFound(x)
           a == [v EXCEPT !.path = Nowhere, !.root = Nowhere, !.inode = Null, !.seq = 0,
                          !.root_seq = 0, !.m_seq = 0]
           b == [a EXCEPT !.name = <<>>, !.comp = Null,
                          !.mode = "last", !.then = "end", !.link_inode = Null]
<1>1. Sane(v) /\ Same(x, v, {"child", "cseq", "cinode", "found", "finode", "fseq"})
  BY ForgetFoundKeeps
<1>2. y = b
  BY Zenon DEF Forget
<1> HIDE DEF y, v
<1>3. TypeW(v) /\ IsWalk(v)
  BY <1>1 DEF Sane, TypeW
<1>4. IsWalk(a)
  BY <1>3, ZenonT(80) DEF IsWalk, Fields
<1>5. Same(v, a, {"path", "root", "inode", "seq", "root_seq", "m_seq"})
  BY <1>3 DEF IsWalk, Fields, Same
<1>6. a.path = Nowhere /\ a.root = Nowhere /\ a.seq = 0 /\ a.root_seq = 0
  BY <1>3 DEF IsWalk, Fields
<1> HIDE DEF a
<1>7. TypeW(a)
  <2>1. a.path \in MaybePaths /\ a.root \in MaybePaths /\ a.seq \in Nat /\ a.root_seq \in Nat
    BY <1>6, NowhereIs
  <2> QED BY <1>3, <1>4, <1>5, <2>1 DEF TypeW, Same, Fields
<1>8. IsWalk(b)
  BY <1>4, ZenonT(80) DEF IsWalk, Fields
<1>9. Same(a, b, {"name", "comp", "mode", "then", "link_inode"})
  BY <1>4 DEF IsWalk, Fields, Same
<1>10. b.name = <<>>
  BY <1>4 DEF IsWalk, Fields
<1> HIDE DEF b
<1>11. TypeW(b)
  <2>1. b.name \in Seq(Components)
    BY <1>10
  <2> QED BY <1>7, <1>8, <1>9, <2>1 DEF TypeW, Same, Fields
<1>12. b.path = a.path /\ b.root = a.root
  BY <1>9 DEF Same, Fields
<1>13. Same(v, a, Fields \ {"dref", "stack", "calls", "rcu", "rcu_lock"})
  BY <1>5 DEF Same, Fields
<1>14. Same(a, b, Fields \ {"dref", "stack", "calls", "rcu", "rcu_lock"})
  BY <1>9 DEF Same, Fields
<1>15. Sane(b)
  <2>1. Sane(a)
    BY <1>1, <1>7, <1>13, SaneSame
  <2> QED BY <1>11, <1>14, <2>1, SaneSame
<1>16. Same(x, b, Gone)
  BY <1>1, <1>5, <1>9 DEF Same, Fields, Gone
<1> QED BY <1>2, <1>6, <1>12, <1>15, <1>16 DEF y

\* A walk that holds nothing for itself owes what it holds.
LEMMA BareOwes ==
    ASSUME NEW x, TypeW(x), x.path = Nowhere, x.stack = <<>>, ~OwnRoot(x)
    PROVE  /\ \A d \in Dentries : CoreD(x, d) = 0 /\ DebtD(x, d) = x.dref[d]
           /\ \A m \in Mounts : CoreM(x, m) = 0 /\ DebtM(x, m) = x.mref[m]
<1>1. Len(x.stack) = 0
  OBVIOUS
<1>2. ASSUME NEW d \in Dentries PROVE CoreD(x, d) = 0 /\ DebtD(x, d) = x.dref[d]
  <2>1. StackD(x.stack, 0, d) = 0 /\ One(Nowhere.dentry = d) = 0
    BY NoLinks, NoOne
  <2>2. One(OwnRoot(x) /\ x.root.dentry = d) = 0
    BY DEF One
  <2>3. CoreD(x, d) = 0
    BY <1>1, <2>1, <2>2 DEF CoreD
  <2> QED BY <2>3, DebtInt DEF DebtD
<1>3. ASSUME NEW m \in Mounts PROVE CoreM(x, m) = 0 /\ DebtM(x, m) = x.mref[m]
  <2>1. StackM(x.stack, 0, m) = 0 /\ One(Nowhere.mnt = m) = 0
    BY NoLinks, NoOne
  <2>2. One(OwnRoot(x) /\ x.root.mnt = m) = 0
    BY DEF One
  <2>3. CoreM(x, m) = 0
    BY <1>1, <2>1, <2>2 DEF CoreM
  <2> QED BY <2>3, DebtInt DEF DebtM
<1> QED BY <1>2, <1>3

\* After an attempt.
LEMMA AfterAttempt ==
    ASSUME NEW x, Sane(x)
    PROVE  LET y == Forget(terminate_walk(x)) IN
           /\ Sane(y) /\ Cleared(y) /\ Even(x, y)
           /\ Same(x, y, Gone \union {"stack", "dref", "mref", "calls", "rcu", "rcu_lock"})
<1> DEFINE t == terminate_walk(x)
           y == Forget(t)
<1>1. /\ Sane(t) /\ ~t.rcu /\ t.stack = <<>>
      /\ Same(x, t, {"stack", "dref", "mref", "calls", "rcu", "rcu_lock", "root"})
      /\ \A d \in Dentries : t.dref[d] = DebtD(x, d)
      /\ \A m \in Mounts : t.mref[m] = DebtM(x, m)
  BY TerminateWalk
<1> HIDE DEF t
<1>2. Sane(y) /\ Same(t, y, Gone) /\ y.path = Nowhere /\ y.root = Nowhere
  BY <1>1, ForgetKeeps
<1> HIDE DEF y
<1>3. y.rcu = t.rcu /\ y.stack = t.stack /\ y.dref = t.dref /\ y.mref = t.mref
  BY <1>2 DEF Same, Fields, Gone
<1>4. Cleared(y) /\ TypeW(y)
  BY <1>1, <1>2, <1>3 DEF Cleared, Sane
<1>5. Even(x, y)
  <2>1. ~OwnRoot(y)
    BY <1>2, NowhereIs DEF OwnRoot
  <2> QED BY <1>1, <1>2, <1>3, <1>4, <2>1, BareOwes DEF Even
<1>6. Same(x, y, Gone \union {"stack", "dref", "mref", "calls", "rcu", "rcu_lock"})
  BY <1>1, <1>2 DEF Same, Fields, Gone
<1> QED BY <1>2, <1>4, <1>5, <1>6 DEF t, y

LEMMA MovesInto ==
    ASSUME NEW x, NEW y, NEW z, TypeW(x), TypeW(y), TypeW(z), NEW a, NEW b, NEW c,
           Moves(x, y, a, b), Moves(y, z, c, a)
    PROVE  Moves(x, z, c, b)
BY DebtInt, OneInt DEF Moves

LEMMA PathParts ==
    ASSUME NEW p \in Paths
    PROVE  /\ p \in MaybePaths /\ p.mnt \in Mounts /\ p.dentry \in Dentries
           /\ p = [mnt |-> p.mnt, dentry |-> p.dentry] /\ p.mnt # Null
BY NullOut DEF Paths, MaybePaths

LEMMA HereKeeps ==
    ASSUME DcacheInv, NEW x, Sane(x), NEW p \in Paths
    PROVE  LET y == Here(x, p) IN
           /\ Sane(y) /\ Same(x, y, {"path", "inode", "seq"})
           /\ y.path = p /\ y.inode = inode[p.dentry] /\ y.seq = seq[p.dentry]
<1> DEFINE y == Here(x, p)
<1>1. TypeW(x) /\ IsWalk(x)
  BY DEF Sane, TypeW
<1>2. /\ IsWalk(y) /\ Same(x, y, {"path", "inode", "seq"})
      /\ y.path = p /\ y.inode = inode[p.dentry] /\ y.seq = seq[p.dentry]
  BY <1>1, ZenonT(80) DEF Here, IsWalk, Fields, Same
<1> HIDE DEF y
<1>3. TypeW(y)
  <2>1. y.path \in MaybePaths /\ y.seq \in Nat
    BY <1>2, PathParts DEF DcacheInv
  <2> QED BY <1>1, <1>2, <2>1 DEF TypeW, Same, Fields
<1>4. Same(x, y, Fields \ {"dref", "stack", "calls", "rcu", "rcu_lock"})
  BY <1>2 DEF Same, Fields
<1>5. Sane(y)
  BY <1>3, <1>4, SaneSame
<1> QED BY <1>2, <1>5 DEF y

LEMMA SetRoot ==
    ASSUME DcacheInv, NEW x, Sane(x), x.root.mnt = Null => ~x.lookup_root
    PROVE  LET y == set_root(x) IN
           /\ Sane(y) /\ Even(x, y) /\ Same(x, y, {"root", "root_seq", "dref", "mref"})
           /\ x.root.mnt # Null => y = x
           /\ x.root.mnt = Null => y.root = top /\ y.root_seq = seq[top.dentry]
<1> DEFINE y == set_root(x)
           v == [x EXCEPT !.root = top, !.root_seq = seq[top.dentry]]
<1>1. TypeW(x) /\ IsWalk(x) /\ x.rcu \in BOOLEAN
  BY DEF Sane, TypeW
<1>2. top \in Paths /\ Live(top.dentry) /\ seq[top.dentry] \in Nat
  BY PathParts DEF DcacheInv
<1>3. CASE x.root.mnt # Null
  <2>1. y = x
    BY <1>3 DEF set_root
  <2> QED BY <1>3, <2>1 DEF Even, Same
<1>4. CASE x.root.mnt = Null
  <2>1. y = IF x.rcu THEN v ELSE path_get(v, top)
    BY <1>4 DEF set_root
  <2>2. /\ IsWalk(v) /\ Same(x, v, {"root", "root_seq"})
        /\ v.root = top /\ v.root_seq = seq[top.dentry]
    BY <1>1 DEF IsWalk, Fields, Same
  <2> HIDE DEF v, y
  <2>3. TypeW(v)
    <3>1. v.root \in MaybePaths /\ v.root_seq \in Nat
      BY <1>2, <2>2, PathParts
    <3> QED BY <1>1, <2>2, <3>1 DEF TypeW, Same, Fields
  <2>4. Same(x, v, Fields \ {"dref", "stack", "calls", "rcu", "rcu_lock"})
    BY <2>2 DEF Same, Fields
  <2>5. Sane(v)
    BY <2>3, <2>4, SaneSame
  <2>6. CASE x.rcu
    <3>1. y = v /\ y.rcu /\ y.dref = x.dref /\ y.mref = x.mref
      BY <2>1, <2>2, <2>6 DEF Same, Fields
    <3>2. Even(x, y)
      BY <2>6, <3>1, RcuEven
    <3>3. Same(x, y, {"root", "root_seq", "dref", "mref"})
      BY <2>2, <3>1 DEF Same
    <3> QED BY <1>4, <2>2, <2>5, <3>1, <3>2, <3>3 DEF y
  <2>7. CASE ~x.rcu
    <3>1. y = path_get(v, top) /\ top \in MaybePaths /\ top.dentry \notin killed /\ top.mnt # Null
      BY <1>2, <2>1, <2>7, PathParts DEF Live
    <3>2. Sane(y) /\ TypeW(y) /\ Same(v, y, {"dref", "mref"}) /\ Moves(v, y, top, Nowhere)
      BY <2>3, <2>5, <3>1, SaneGet, PathGet, GetMoves
    <3>3. ~OwnRoot(x) /\ OwnRoot(v)
      BY <1>4, <2>2, <3>1 DEF OwnRoot, Same, Fields
    <3>4. Moves(x, v, Nowhere, top)
      <4>1. Same(x, v, Fields \ {"dref", "mref", "stack", "rcu", "path"})
        BY <2>2 DEF Same, Fields
      <4> QED BY <1>1, <2>2, <2>3, <2>7, <3>3, <4>1, RootMoves
    <3>5. Even(x, y)
      <4>1. Moves(x, y, Nowhere, Nowhere)
        BY <1>1, <2>3, <3>2, <3>4, MovesMoves
      <4> QED BY <1>1, <3>2, <4>1, MovesBack
    <3>6. Same(x, y, {"root", "root_seq", "dref", "mref"}) /\ y.root = v.root /\ y.root_seq = v.root_seq
      BY <2>2, <3>2 DEF Same, Fields
    <3> QED BY <1>4, <2>2, <3>2, <3>5, <3>6 DEF y
  <2> QED BY <1>1, <2>6, <2>7
<1> QED BY <1>3, <1>4

LEMMA NdJumpRoot ==
    ASSUME DcacheInv, NEW x, Sane(x), x.root \in Paths, ~x.rcu => x.root.dentry \notin killed
    PROVE  LET y == nd_jump_root(x) IN
           /\ Sane(y) /\ Even(x, y) /\ Same(x, y, {"path", "inode", "seq", "dref", "mref"})
           /\ y.path = x.root /\ y.inode = inode[x.root.dentry]
           /\ y.seq = IF x.rcu THEN x.root_seq ELSE seq[x.root.dentry]
<1> DEFINE y == nd_jump_root(x)
<1>1. /\ TypeW(x) /\ IsWalk(x) /\ x.rcu \in BOOLEAN /\ x.path \in MaybePaths
      /\ x.root_seq \in Nat /\ x.root \in MaybePaths
  BY DEF Sane, TypeW
<1>2. CASE x.rcu
  <2>1. /\ IsWalk(y) /\ Same(x, y, {"path", "inode", "seq"})
        /\ y.path = x.root /\ y.inode = inode[x.root.dentry] /\ y.seq = x.root_seq
    BY <1>1, <1>2, ZenonT(80) DEF nd_jump_root, IsWalk, Fields, Same
  <2> HIDE DEF y
  <2>2. TypeW(y)
    BY <1>1, <2>1 DEF TypeW, Same, Fields
  <2>3. /\ Same(x, y, Fields \ {"dref", "stack", "calls", "rcu", "rcu_lock"})
        /\ y.rcu /\ y.dref = x.dref /\ y.mref = x.mref
        /\ Same(x, y, {"path", "inode", "seq", "dref", "mref"})
    BY <1>2, <2>1 DEF Same, Fields
  <2>4. Sane(y) /\ Even(x, y)
    BY <1>2, <2>2, <2>3, SaneSame, RcuEven
  <2> QED BY <1>2, <2>1, <2>3, <2>4 DEF y
<1>3. CASE ~x.rcu
  <2> DEFINE a == path_put(x, x.path)
             b == path_get(a, x.root)
  <2>1. y = Here(b, x.root)
    BY <1>3 DEF nd_jump_root
  <2>2. Sane(a) /\ TypeW(a) /\ Same(x, a, {"dref", "mref"}) /\ Moves(x, a, Nowhere, x.path)
    BY <1>1, SanePut, PathPut, PutMoves
  <2> HIDE DEF a
  <2>3. Sane(b) /\ TypeW(b) /\ Same(a, b, {"dref", "mref"}) /\ Moves(a, b, x.root, Nowhere)
    BY <1>1, <1>3, <2>2, SaneGet, PathGet, GetMoves
  <2> HIDE DEF b, y
  <2>4. /\ Sane(y) /\ TypeW(y) /\ Same(b, y, {"path", "inode", "seq"})
        /\ y.path = x.root /\ y.inode = inode[x.root.dentry] /\ y.seq = seq[x.root.dentry]
    <3>1. PICK p : p = x.root
      OBVIOUS
    <3>2. p \in Paths /\ y = Here(b, p)
      BY <2>1, <3>1
    <3>3. /\ Sane(y) /\ Same(b, y, {"path", "inode", "seq"})
          /\ y.path = p /\ y.inode = inode[p.dentry] /\ y.seq = seq[p.dentry]
      BY <2>3, <3>2, HereKeeps
    <3> QED BY <3>1, <3>3 DEF Sane
  <2>5. Moves(x, b, x.root, x.path)
    BY <1>1, <2>2, <2>3, MovesInto
  <2>6. /\ ~b.rcu /\ b.path = x.path
        /\ Same(b, y, Fields \ {"dref", "mref", "stack", "rcu", "root", "lookup_root"})
        /\ Same(x, y, {"path", "inode", "seq", "dref", "mref"})
    BY <1>3, <2>2, <2>3, <2>4 DEF Same, Fields
  <2>7. Moves(b, y, x.path, x.root)
    BY <2>3, <2>4, <2>6, PathMoves
  <2>8. Even(x, y)
    <3>1. Moves(x, y, x.root, x.root)
      BY <1>1, <2>3, <2>4, <2>5, <2>7, MovesMoves
    <3> QED BY <1>1, <2>4, <3>1, MovesBack
  <2> QED BY <1>3, <2>4, <2>6, <2>8 DEF y
<1> QED BY <1>1, <1>2, <1>3

LEMMA DropLinkKeeps ==
    ASSUME NEW x, Sane(x)
    PROVE  LET y == DropLink(x) IN
           /\ Sane(y) /\ Even(x, y) /\ Same(x, y, {"stack", "calls", "dref", "mref"})
           /\ Len(y.stack) <= Len(x.stack)
<1> DEFINE y == DropLink(x)
<1>1. Len(x.stack) \in Nat
  BY StackLen DEF Sane
<1>2. CASE x.mode # "more" /\ x.stack # <<>>
  <2>1. y = put_link(x)
    BY <1>2 DEF DropLink
  <2>2. /\ Sane(y) /\ Even(x, y) /\ Same(x, y, {"stack", "calls", "dref", "mref"})
        /\ Len(y.stack) = Len(x.stack) - 1
    BY <1>2, <2>1, PutLink
  <2> HIDE DEF y
  <2> QED BY <1>1, <2>2 DEF y
<1>3. CASE ~(x.mode # "more" /\ x.stack # <<>>)
  <2>1. y = x
    BY <1>3 DEF DropLink
  <2> QED BY <1>1, <2>1 DEF Even, Same
<1> QED BY <1>2, <1>3

LEMMA PathToNameidata ==
    ASSUME NEW x, Sane(x), x.path \in Paths, NEW p \in Paths
    PROVE  LET y == path_to_nameidata(x, p) IN
           /\ Sane(y) /\ Same(x, y, {"path", "dref", "mref"}) /\ y.path = p
           /\ x.rcu => Even(x, y)
           /\ ~x.rcu => Moves(x, y, Nowhere, Beside(p, x))
<1> DEFINE v == IF x.rcu THEN x
                ELSE [x EXCEPT !.dref = Add(@, x.path.dentry, -1),
                               !.mref = IF x.path.mnt = p.mnt THEN @ ELSE Add(@, x.path.mnt, -1)]
           y == path_to_nameidata(x, p)
<1>1. /\ TypeW(x) /\ IsWalk(x) /\ x.rcu \in BOOLEAN
      /\ x.dref \in [Dentries -> Int] /\ x.mref \in [Mounts -> Int]
  BY DEF Sane, TypeW
<1>2. y = [v EXCEPT !.path = p]
  BY DEF path_to_nameidata
<1>3. p \in MaybePaths /\ p.mnt \in Mounts /\ x.path.dentry \in Dentries /\ x.path.mnt \in Mounts
  BY PathParts
<1> HIDE DEF y
<1>4. CASE x.rcu
  <2>1. v = x
    BY <1>4
  <2> HIDE DEF v
  <2>2. Sane(y) /\ Same(x, y, {"path"}) /\ y.path = p
    BY <1>2, <1>3, <2>1, SetPath
  <2>3. y.rcu /\ y.dref = x.dref /\ y.mref = x.mref /\ Same(x, y, {"path", "dref", "mref"})
    BY <1>4, <2>2 DEF Same, Fields
  <2>4. Even(x, y)
    BY <1>4, <2>3, RcuEven
  <2> QED BY <1>4, <2>2, <2>3, <2>4 DEF y
<1>5. CASE ~x.rcu
  <2>1. /\ IsWalk(v) /\ Same(x, v, {"dref", "mref"}) /\ v.dref = Add(x.dref, x.path.dentry, -1)
        /\ v.mref = IF x.path.mnt = p.mnt THEN x.mref ELSE Add(x.mref, x.path.mnt, -1)
    BY <1>1, <1>5, ZenonT(80) DEF IsWalk, Fields, Same
  <2> HIDE DEF v
  <2>2. /\ v.dref \in [Dentries -> Int]
        /\ \A d \in Dentries : v.dref[d] = x.dref[d] - One(x.path.dentry = d)
    <3>1. PICK e : e = x.path.dentry
      OBVIOUS
    <3>2. Null \notin Dentries /\ e \in Dentries \union {Null} /\ -1 \in Int
          /\ v.dref = Add(x.dref, e, -1)
      BY <1>3, <2>1, <3>1, NullOut
    <3>3. /\ v.dref \in [Dentries -> Int]
          /\ \A d \in Dentries : v.dref[d] = x.dref[d] + (IF e = d THEN -1 ELSE 0)
      BY <1>1, <3>2, AddAt
    <3> QED BY <1>1, <3>1, <3>3 DEF One
  <2>3. /\ v.mref \in [Mounts -> Int]
        /\ \A m \in Mounts : v.mref[m] = x.mref[m] - One(x.path.mnt = m /\ x.path.mnt # p.mnt)
    <3>1. PICK e : e = x.path.mnt
      OBVIOUS
    <3>2. Null \notin Mounts /\ e \in Mounts \union {Null} /\ -1 \in Int
          /\ v.mref = IF e = p.mnt THEN x.mref ELSE Add(x.mref, e, -1)
      BY <1>3, <2>1, <3>1, NullOut
    <3>3. CASE e = p.mnt
      BY <1>1, <3>1, <3>2, <3>3 DEF One
    <3>4. CASE e # p.mnt
      <4>1. /\ v.mref \in [Mounts -> Int]
            /\ \A m \in Mounts : v.mref[m] = x.mref[m] + (IF e = m THEN -1 ELSE 0)
        BY <1>1, <3>2, <3>4, AddAt
      <4> QED BY <1>1, <3>1, <3>4, <4>1 DEF One
    <3> QED BY <3>3, <3>4
  <2>4. TypeW(v)
    BY <1>1, <2>1, <2>2, <2>3 DEF TypeW, Same, Fields
  <2>5. Sane(v)
    <3>1. HoldsLive(v)
      BY <1>1, <2>2 DEF Sane, HoldsLive, One
    <3>2. LinkCalls(v)
      BY <2>1 DEF Sane, LinkCalls, Same, Fields
    <3> QED BY <2>4, <3>1, <3>2 DEF Sane
  <2>6. Sane(y) /\ TypeW(y) /\ Same(v, y, {"path"}) /\ y.path = p
    BY <1>2, <1>3, <2>5, SetPath DEF Sane
  <2>7. /\ Same(x, y, {"path", "dref", "mref"}) /\ ~v.rcu /\ v.path = x.path
        /\ Same(v, y, Fields \ {"dref", "mref", "stack", "rcu", "root", "lookup_root"})
    BY <1>5, <2>1, <2>6 DEF Same, Fields
  <2>8. Moves(v, y, x.path, p)
    BY <2>4, <2>6, <2>7, PathMoves
  <2>9. \A d : CoreD(v, d) = CoreD(x, d) /\ CoreM(v, d) = CoreM(x, d) /\ CoreD(x, d) \in Int
               /\ CoreM(x, d) \in Int
    BY <1>1, <2>1, CoreSame, CoreInt
  <2>10. ASSUME NEW d \in Dentries
         PROVE  DebtD(y, d) + One(Beside(p, x).dentry = d) = DebtD(x, d) + One(Nowhere.dentry = d)
    <3>1. DebtD(v, d) = DebtD(x, d) - One(x.path.dentry = d)
      <4>1. One(x.path.dentry = d) \in Int /\ x.dref[d] \in Int
        BY <1>1, OneInt
      <4> QED BY <2>2, <2>9, <4>1 DEF DebtD
    <3>2. DebtD(y, d) + One(p.dentry = d) = DebtD(v, d) + One(x.path.dentry = d)
      BY <2>8 DEF Moves
    <3>3. One(Nowhere.dentry = d) = 0 /\ Beside(p, x).dentry = p.dentry
      BY NoOne DEF Beside
    <3>4. /\ One(x.path.dentry = d) \in Int /\ One(p.dentry = d) \in Int
          /\ DebtD(x, d) \in Int /\ DebtD(y, d) \in Int
      BY <1>1, <2>6, OneInt, DebtInt
    <3> QED BY <3>1, <3>2, <3>3, <3>4
  <2>11. ASSUME NEW m \in Mounts
         PROVE  DebtM(y, m) + One(Beside(p, x).mnt = m) = DebtM(x, m) + One(Nowhere.mnt = m)
    <3> DEFINE o == One(x.path.mnt = m /\ x.path.mnt # p.mnt)
    <3>1. DebtM(v, m) = DebtM(x, m) - o
      <4>1. o \in Int /\ x.mref[m] \in Int
        BY <1>1, OneInt
      <4>2. v.mref[m] = x.mref[m] - o
        BY <2>3
      <4> HIDE DEF o
      <4> QED BY <2>9, <4>1, <4>2 DEF DebtM
    <3>2. DebtM(y, m) + One(p.mnt = m) = DebtM(v, m) + One(x.path.mnt = m)
      BY <2>8 DEF Moves
    <3>3. One(Nowhere.mnt = m) = 0 /\ Beside(p, x).mnt = IF p.mnt = x.path.mnt THEN Null ELSE p.mnt
      BY NoOne DEF Beside
    <3>4. DebtM(x, m) \in Int /\ DebtM(y, m) \in Int
      BY <1>1, <2>6, DebtInt
    <3>5. CASE p.mnt = x.path.mnt
      <4>1. o = 0 /\ One(Beside(p, x).mnt = m) = 0
        BY <3>3, <3>5, NoOne DEF One
      <4>2. One(p.mnt = m) \in Int /\ One(x.path.mnt = m) = One(p.mnt = m)
        BY <3>5, OneInt
      <4> HIDE DEF o
      <4> QED BY <3>1, <3>2, <3>3, <3>4, <4>1, <4>2
    <3>6. CASE p.mnt # x.path.mnt
      <4>1. o = One(x.path.mnt = m) /\ One(Beside(p, x).mnt = m) = One(p.mnt = m)
        BY <3>3, <3>6 DEF One
      <4>2. One(p.mnt = m) \in Int /\ One(x.path.mnt = m) \in Int
        BY OneInt
      <4> HIDE DEF o
      <4> QED BY <3>1, <3>2, <3>3, <3>4, <4>1, <4>2
    <3> QED BY <3>5, <3>6
  <2>12. Moves(x, y, Nowhere, Beside(p, x))
    BY <2>10, <2>11 DEF Moves
  <2> QED BY <1>5, <2>6, <2>7, <2>12 DEF y
<1> QED BY <1>1, <1>4, <1>5

-----------------------------------------------------------------------------
(* Mounts and ".." *)

\* A path to something that is there, and that is alive if that is asked.
At(p, alive) == p \in Paths /\ Used(p.dentry) /\ (alive => p.dentry \notin killed)

LEMMA MountsFinite == Cardinality(Mounts) \in Nat
BY WalkAssumption, FS_CardinalityType

LEMMA MountAt ==
    ASSUME DcacheInv, NEW p, NEW alive, At(p, alive)
    PROVE  At(lookup_mnt(p), alive)
<1> DEFINE over == {m \in Mounts : at[m] = p}
           m == CHOOSE y \in over : TRUE
<1>1. CASE over = {}
  BY <1>1 DEF lookup_mnt
<1>2. CASE over # {}
  <2>1. m \in Mounts
    BY <1>2
  <2>2. lookup_mnt(p) = [mnt |-> m, dentry |-> mroot[m]]
    BY <1>2 DEF lookup_mnt
  <2> HIDE DEF m
  <2>3. mroot[m] \in Dentries /\ Live(mroot[m])
    BY <2>1 DEF DcacheInv
  <2> QED BY <2>1, <2>2, <2>3 DEF At, Live, Paths
<1> QED BY <1>1, <1>2

LEMMA FollowMount ==
    ASSUME DcacheInv, NEW p, NEW alive, At(p, alive)
    PROVE  At(follow_mount(p), alive)
<1> DEFINE n == Cardinality(Mounts)
           f == MountFcn(p)
           S == {k \in 0 .. n : At(f[k], alive)}
<1>1. n \in Nat
  BY MountsFinite
<1>2. f = [k \in 0 .. n |-> IF k = 0 THEN p ELSE lookup_mnt(f[k - 1])]
  BY <1>1, MountDefined
<1> HIDE DEF f, n
<1>3. 0 \in S
  BY <1>1, <1>2
<1>4. ASSUME NEW k \in 0 .. n, k # n, k \in S PROVE k + 1 \in S
  <2>1. k + 1 \in 0 .. n /\ k + 1 # 0 /\ k + 1 - 1 = k
    BY <1>1, <1>4
  <2>2. f[k + 1] = lookup_mnt(f[k])
    BY <1>2, <2>1
  <2>3. At(f[k], alive)
    BY <1>4
  <2> QED BY <2>1, <2>2, <2>3, MountAt
<1>5. n \in S
  <2> HIDE DEF S
  <2> QED BY <1>1, <1>3, <1>4, Turns
<1> QED BY <1>5, MountIs DEF f, n

LEMMA FollowUp ==
    ASSUME DcacheInv, NEW p, NEW root, NEW alive, At(p, alive)
    PROVE  At(follow_up(p, root), alive)
<1> DEFINE n == Cardinality(Mounts)
           f == UpFcn(p, root)
           S == {k \in 0 .. n : At(f[k], alive)}
<1>1. n \in Nat
  BY MountsFinite
<1>2. f = [k \in 0 .. n |-> IF k = 0 THEN p ELSE Out(f[k - 1], root)]
  BY <1>1, UpDefined
<1> HIDE DEF f, n
<1>3. 0 \in S
  BY <1>1, <1>2
<1>4. ASSUME NEW k \in 0 .. n, k # n, k \in S PROVE k + 1 \in S
  <2>1. k + 1 \in 0 .. n /\ k + 1 # 0 /\ k + 1 - 1 = k
    BY <1>1, <1>4
  <2>2. f[k + 1] = Out(f[k], root)
    BY <1>2, <2>1
  <2>3. At(f[k], alive)
    BY <1>4
  <2>4. ASSUME NEW q, At(q, alive) PROVE At(Out(q, root), alive)
    <3>1. q.mnt \in Mounts
      BY <2>4, PathParts DEF At
    <3>2. at[q.mnt] # Nowhere => at[q.mnt] \in Paths /\ Live(at[q.mnt].dentry)
      BY <3>1 DEF DcacheInv
    <3> QED BY <2>4, <3>2 DEF Out, At, Live
  <2> QED BY <2>1, <2>2, <2>3, <2>4
<1>5. n \in S
  <2> HIDE DEF S
  <2> QED BY <1>1, <1>3, <1>4, Turns
<1> QED BY <1>5, UpIs DEF f, n

LEMMA FollowDotDot ==
    ASSUME DcacheInv, NEW p, NEW root, NEW alive, At(p, alive)
    PROVE  At(follow_dotdot(p, root), alive)
<1> DEFINE q == follow_up(p, root)
           r == path_parent_directory(q, root)
<1>1. At(q, alive)
  BY FollowUp
<1> HIDE DEF q
<1>2. At(r, alive)
  <2>1. CASE r = q
    BY <1>1, <2>1
  <2>2. CASE r = [q EXCEPT !.dentry = place[q.dentry][1]]
    <3>1. /\ q \in Paths /\ q.mnt \in Mounts /\ q.dentry \in Dentries
          /\ q = [mnt |-> q.mnt, dentry |-> q.dentry] /\ Used(q.dentry)
      BY <1>1, PathParts DEF At
    <3>2. Used(place[q.dentry][1]) /\ (q.dentry \notin killed => place[q.dentry][1] \notin killed)
      BY <3>1 DEF DcacheInv, Live
    <3>3. r.mnt = q.mnt /\ r.dentry = place[q.dentry][1] /\ r = [mnt |-> r.mnt, dentry |-> r.dentry]
      BY <2>2, <3>1
    <3>4. r.dentry \in Dentries
      BY <3>2, <3>3 DEF Used
    <3>5. r \in Paths
      BY <3>1, <3>3, <3>4 DEF Paths
    <3> QED BY <1>1, <3>2, <3>3, <3>5 DEF At
  <2> QED BY <2>1, <2>2 DEF path_parent_directory
<1> HIDE DEF r
<1>3. At(follow_mount(r), alive)
  BY <1>2, FollowMount
<1> QED BY <1>3 DEF follow_dotdot, q, r

LEMMA FollowManaged ==
    ASSUME DcacheInv, NEW x, Sane(x), ~x.rcu, x.path \in Paths, NEW d0, Live(d0)
    PROVE  LET y == follow_managed(x, d0) IN
           /\ Sane(y)
           /\ Same(x, y, {"child", "cinode", "found", "finode", "fseq", "dref", "mref"})
           /\ y.child = d0 /\ y.cinode = inode[d0]
           /\ HasFound(y) /\ y.finode = inode[y.found.dentry]
           /\ Moves(x, y, Beside(y.found, x), Alone(d0))
<1> DEFINE p == [mnt |-> x.path.mnt, dentry |-> d0]
           q == follow_mount(p)
           v == [x EXCEPT !.child = d0, !.cinode = inode[d0],
                          !.found = q, !.finode = inode[q.dentry], !.fseq = 0]
           e == dput(v, d0)
           z == path_get(e, q)
           c == [z EXCEPT !.mref = Add(@, q.mnt, -1)]
           y == follow_managed(x, d0)
<1>1. TypeW(x) /\ IsWalk(x) /\ d0 \in Dentries /\ Used(d0) /\ d0 \notin killed /\ x.path.mnt \in Mounts
  BY PathParts DEF Sane, TypeW, Live, Used
<1>2. y = IF q = p THEN v ELSE IF q.mnt = x.path.mnt THEN c ELSE z
  BY DEF follow_managed
<1>3. At(p, TRUE)
  BY <1>1 DEF At, Paths
<1>4. At(q, TRUE)
  BY <1>3, FollowMount
<1>5. /\ q \in Paths /\ Used(q.dentry) /\ q.dentry \notin killed /\ q \in MaybePaths
      /\ q.mnt \in Mounts /\ q.dentry \in Dentries
  <2> HIDE DEF q
  <2> QED BY <1>4, PathParts DEF At
<1>6. p.dentry = d0 /\ p.mnt = x.path.mnt
  OBVIOUS
<1> HIDE DEF q, p, y
<1>7. IsWalk(v) /\ Same(x, v, {"child", "cinode", "found", "finode", "fseq"})
  BY <1>1, ZenonT(80) DEF IsWalk, Fields, Same
<1>8. /\ v.child = d0 /\ v.cinode = inode[d0] /\ v.found = q /\ v.finode = inode[q.dentry]
      /\ v.fseq = 0
  BY <1>1 DEF IsWalk, Fields
<1> HIDE DEF v
<1>9. TypeW(v)
  <2>1. v.fseq \in Nat /\ v.found \in MaybePaths
    BY <1>5, <1>8
  <2> QED BY <1>1, <1>7, <2>1 DEF TypeW, Same, Fields
<1>10. /\ Same(x, v, Fields \ {"dref", "stack", "calls", "rcu", "rcu_lock"})
       /\ Same(x, v, Fields \ {"dref", "mref", "stack", "rcu", "path", "root", "lookup_root"})
       /\ Same(x, v, {"child", "cinode", "found", "finode", "fseq", "dref", "mref"})
       /\ v.mref = x.mref
  BY <1>7 DEF Same, Fields
<1>11. Sane(v) /\ Even(x, v)
  BY <1>9, <1>10, SaneSame, EvenSame
<1> SUFFICES /\ Sane(y)
             /\ Same(x, y, {"child", "cinode", "found", "finode", "fseq", "dref", "mref"})
             /\ y.child = d0 /\ y.cinode = inode[d0]
             /\ HasFound(y) /\ y.finode = inode[y.found.dentry]
             /\ Moves(x, y, Beside(y.found, x), Alone(d0))
  BY DEF y
<1>12. CASE q = p
  <2>1. y = v /\ Beside(y.found, x) = Alone(d0)
    BY <1>2, <1>6, <1>8, <1>12 DEF Beside, Alone
  <2>2. Moves(x, v, Alone(d0), Alone(d0))
    BY <1>11 DEF Even, Moves
  <2> QED BY <1>5, <1>8, <1>10, <1>11, <2>1, <2>2 DEF HasFound
<1>13. CASE q # p
  <2>1. /\ Sane(e) /\ TypeW(e) /\ Same(v, e, {"dref"})
        /\ \A d \in Dentries : e.dref[d] = v.dref[d] + (IF d0 = d THEN -1 ELSE 0)
    <3>1. e = [v EXCEPT !.dref = Add(@, d0, -1)] /\ -1 \in Int /\ -1 <= 0
      BY DEF dput
    <3> HIDE DEF e
    <3> QED BY <1>1, <1>11, <3>1, SaneD
  <2> HIDE DEF e
  <2>2. Moves(v, e, Nowhere, Alone(d0))
    <3>1. ASSUME NEW d \in Dentries PROVE v.dref[d] = e.dref[d] + One(d0 = d)
      <4>1. v.dref[d] \in Int
        BY <1>9, DebtInt
      <4> QED BY <2>1, <4>1 DEF One
    <3>2. Same(e, v, {"dref"})
      BY <2>1 DEF Same
    <3> QED BY <1>1, <1>9, <2>1, <3>1, <3>2, DrefMoves
  <2>3. Sane(z) /\ TypeW(z) /\ Same(e, z, {"dref", "mref"}) /\ Moves(e, z, q, Nowhere)
    BY <1>5, <2>1, SaneGet, PathGet, GetMoves
  <2> HIDE DEF z
  <2>4. Moves(x, z, q, Alone(d0))
    <3>1. Moves(v, z, q, Alone(d0))
      BY <1>9, <2>1, <2>2, <2>3, MovesInto
    <3> QED BY <1>11, <3>1, EvenMoves
  <2>5. /\ Same(x, z, {"child", "cinode", "found", "finode", "fseq", "dref", "mref"})
        /\ z.child = v.child /\ z.cinode = v.cinode /\ z.found = v.found /\ z.finode = v.finode
    BY <1>7, <2>1, <2>3 DEF Same, Fields
  <2>6. CASE q.mnt # x.path.mnt
    <3>1. y = z /\ Beside(y.found, x) = q
      <4>1. q = [mnt |-> q.mnt, dentry |-> q.dentry]
        BY <1>5, PathParts
      <4> QED BY <1>2, <1>8, <1>13, <2>5, <2>6, <4>1 DEF Beside
    <3> QED BY <1>5, <1>8, <2>3, <2>4, <2>5, <3>1 DEF HasFound
  <2>7. CASE q.mnt = x.path.mnt
    <3>1. y = c
      BY <1>2, <1>13, <2>7
    <3>2. /\ Sane(c) /\ TypeW(c) /\ Same(z, c, {"mref"})
          /\ \A m \in Mounts : c.mref[m] = z.mref[m] + (IF q.mnt = m THEN -1 ELSE 0)
      <4>1. PICK n : n = q.mnt
        OBVIOUS
      <4>2. c = [z EXCEPT !.mref = Add(@, n, -1)] /\ n \in Mounts \union {Null} /\ -1 \in Int
        BY <1>5, <4>1
      <4> HIDE DEF c
      <4>3. /\ Sane(c) /\ TypeW(c) /\ Same(z, c, {"mref"})
            /\ \A m \in Mounts : c.mref[m] = z.mref[m] + (IF n = m THEN -1 ELSE 0)
        BY <2>3, <4>2, SaneM
      <4> QED BY <4>1, <4>3 DEF c
    <3> HIDE DEF c
    <3>3. /\ Same(x, c, {"child", "cinode", "found", "finode", "fseq", "dref", "mref"})
          /\ c.child = v.child /\ c.cinode = v.cinode /\ c.found = v.found /\ c.finode = v.finode
          /\ c.dref = z.dref /\ Same(z, c, {"dref", "mref"})
      BY <2>5, <3>2 DEF Same, Fields
    <3>4. Beside(c.found, x).dentry = q.dentry /\ Beside(c.found, x).mnt = Null
      BY <1>8, <2>7, <3>3 DEF Beside
    <3>5. \A d : CoreD(c, d) = CoreD(z, d) /\ CoreM(c, d) = CoreM(z, d) /\ CoreM(z, d) \in Int
      BY <2>3, <3>3, CoreSame, CoreInt
    <3>6. ASSUME NEW d \in Dentries
          PROVE  DebtD(c, d) + One(Alone(d0).dentry = d)
                   = DebtD(x, d) + One(Beside(c.found, x).dentry = d)
      <4>1. DebtD(c, d) = DebtD(z, d)
        BY <3>3, <3>5 DEF DebtD
      <4> QED BY <2>4, <3>4, <4>1 DEF Moves
    <3>7. ASSUME NEW m \in Mounts
          PROVE  DebtM(c, m) + One(Alone(d0).mnt = m) = DebtM(x, m) + One(Beside(c.found, x).mnt = m)
      <4>1. z.mref[m] \in Int /\ DebtM(x, m) \in Int /\ DebtM(z, m) \in Int
        BY <1>1, <2>3, DebtInt
      <4>2. DebtM(c, m) = DebtM(z, m) - One(q.mnt = m)
        BY <3>2, <3>5, <4>1 DEF DebtM, One
      <4>3. DebtM(z, m) + One(Alone(d0).mnt = m) = DebtM(x, m) + One(q.mnt = m)
        BY <2>4 DEF Moves
      <4>4. /\ One(Beside(c.found, x).mnt = m) = 0 /\ One(q.mnt = m) \in Int
            /\ One(Alone(d0).mnt = m) \in Int
        BY <3>4, NoOne, OneInt
      <4> QED BY <4>1, <4>2, <4>3, <4>4
    <3>8. Moves(x, c, Beside(c.found, x), Alone(d0))
      BY <3>6, <3>7 DEF Moves
    <3> QED BY <1>5, <1>8, <3>1, <3>2, <3>3, <3>8 DEF HasFound
  <2> QED BY <2>6, <2>7
<1> QED BY <1>12, <1>13

-----------------------------------------------------------------------------
(* Steps that leave the dcache and the mounts alone *)

LEMMA Keep ==
    ASSUME DcacheInv, NamesOnce, NEW x, NEW q, NEW sn,
           UNCHANGED around, w' = x, pc' = q, seen' = sn, WalkW(x, q), LookW(x, q, sn)
    PROVE  WalkInv'
<1>1. UNCHANGED <<place, hashed, inode, seq, killed, at, mroot, mseq, pwd, top>>
  BY DEF around, dcache, mounts
<1>2. DcacheInv'
  BY <1>1 DEF DcacheInv, Used, Live
<1>3. NamesOnce'
  BY <1>1 DEF NamesOnce
<1>4. TypeW(w)'
  <2>1. TypeW(x)
    BY DEF WalkW, Sane
  <2> QED BY <2>1 DEF TypeW, IsWalk
<1>5. HoldsLive(w)' /\ LinkCalls(w)'
  <2>1. HoldsLive(x) /\ LinkCalls(x)
    BY DEF WalkW, Sane
  <2> QED BY <1>1, <2>1 DEF HoldsLive, LinkCalls, Calls, One
<1>6. Room(w)'
  BY DEF WalkW, Room
<1>7. PlaceW(w, pc)'
  <2>1. PlaceW(x, q)
    BY DEF WalkW
  <2>2. Base(w)' <=> Base(x)
    BY <1>1 DEF Base, Used, Knows
  <2>3. HasFound(w)' <=> HasFound(x)
    BY <1>1 DEF HasFound, Used
  <2>4. ToStack(w)' <=> ToStack(x)
    BY <1>1 DEF ToStack, HasFound, Used
  <2>5. ToLink(w)' <=> ToLink(x)
    BY DEF ToLink
  <2>6. Cleared(w)' <=> Cleared(x)
    BY DEF Cleared
  <2>7. Walking(pc)' <=> Walking(q)
    BY DEF Walking
  <2>8. Knows(w, w.found.dentry, w.fseq, w.finode)' <=> Knows(x, x.found.dentry, x.fseq, x.finode)
    BY <1>1 DEF Knows
  <2> QED BY <2>1, <2>2, <2>3, <2>4, <2>5, <2>6, <2>7, <2>8 DEF PlaceW
<1>8. Owes(w, Held(w, pc), w.result)'
  <2>1. Owes(x, Held(x, q), x.result)
    BY DEF WalkW
  <2>2. Held(w, pc)' = Held(x, q)
    BY DEF Held, Beside
  <2>3. \A d \in Dentries : DebtD(w, d)' = DebtD(x, d)
    BY DEF DebtD, CoreD, OwnRoot, One, StackD
  <2>4. \A m \in Mounts : DebtM(w, m)' = DebtM(x, m)
    BY DEF DebtM, CoreM, OwnRoot, One, StackM
  <2> QED BY <2>1, <2>2, <2>3, <2>4 DEF Owes, One
<1>9. LookW(w, pc, seen)'
  <2>1. Stands(x.path.dentry, x.comp)' = Stands(x.path.dentry, x.comp)
    BY <1>1 DEF Stands, Find
  <2> QED BY <1>1, <2>1 DEF LookW, Stands, Find
<1> QED BY <1>2, <1>3, <1>4, <1>5, <1>6, <1>7, <1>8, <1>9 DEF WalkInv, WalkW, Sane

LEMMA GoStep ==
    ASSUME DcacheInv, NamesOnce, NEW x, NEW q, NEW sn, UNCHANGED around, seen' = sn, Goto(x, q),
           WalkW(x, q), LookW(x, q, sn)
    PROVE  WalkInv'
BY Keep DEF Goto

\* An attempt that fails.
LEMMA FailStep ==
    ASSUME DcacheInv, NamesOnce, NEW x, NEW e, NEW sn, UNCHANGED around, seen' = sn, Fail(x, e),
           Sane(x), Room(x), Owes(x, Nowhere, Nowhere), x.result = Nowhere,
           e = "ENOENT" => Absent \in sn, x.err # "ELOOP" \/ e = "ELOOP"
    PROVE  WalkInv'
<1> DEFINE y == [x EXCEPT !.err = e]
<1>1. Goto(y, "end")
  BY DEF Fail
<1>2. TypeW(x) /\ IsWalk(x)
  BY DEF Sane, TypeW
<1>3. IsWalk(y) /\ Same(x, y, {"err"}) /\ y.err = e
  BY <1>2 DEF IsWalk, Fields, Same
<1> HIDE DEF y
<1>4. TypeW(y)
  BY <1>2, <1>3 DEF TypeW, Same, Fields
<1>5. /\ Same(x, y, Fields \ {"dref", "stack", "calls", "rcu", "rcu_lock"})
      /\ Same(x, y, Fields \ {"dref", "mref", "stack", "rcu", "path", "root", "lookup_root"})
      /\ y.result = x.result /\ y.stack = x.stack /\ y.total = x.total /\ y.alloc = x.alloc
  BY <1>3 DEF Same, Fields
<1>6. Sane(y) /\ Even(x, y)
  BY <1>4, <1>5, SaneSame, EvenSame
<1>7. Owes(y, Nowhere, Nowhere)
  BY <1>6, EvenOwes
<1>8. Room(y) /\ Held(y, "end") = Nowhere
  BY <1>3, <1>5 DEF Room, Held
<1>9. PlaceW(y, "end")
  BY <1>5 DEF PlaceW, Walking
<1>10. WalkW(y, "end")
  BY <1>5, <1>6, <1>7, <1>8, <1>9 DEF WalkW
<1>11. LookW(y, "end", sn)
  BY <1>3 DEF LookW
<1> QED BY <1>1, <1>10, <1>11, GoStep

\* A walk under way.
Fit(x) == Sane(x) /\ Room(x) /\ Base(x) /\ x.err = ""

LEMMA RoomSame ==
    ASSUME NEW x, NEW y, Room(x), TypeW(x), TypeW(y), Len(y.stack) <= Len(x.stack),
           y.total = x.total, y.alloc = x.alloc, y.err = x.err
    PROVE  Room(y)
<1>1. /\ Len(x.stack) \in Nat /\ Len(y.stack) \in Nat /\ x.total \in Nat
      /\ MAXSYMLINKS \in Nat /\ EMBEDDED_LEVELS \in Nat
  BY StackLen, WalkAssumption DEF TypeW
<1> QED BY <1>1 DEF Room

LEMMA BaseSame ==
    ASSUME NEW x, NEW y, Base(x),
           Same(x, y, Fields \ {"path", "root", "lookup_root", "seq", "inode", "result", "rcu"})
    PROVE  Base(y)
<1>1. /\ y.path = x.path /\ y.root = x.root /\ y.lookup_root = x.lookup_root
      /\ y.seq = x.seq /\ y.inode = x.inode /\ y.result = x.result /\ y.rcu = x.rcu
  BY DEF Same, Fields
<1> QED BY <1>1 DEF Base, Knows

LEMMA OnWalk ==
    ASSUME NEW x, Fit(x), Owes(x, Nowhere, Nowhere), NEW q, q \in {"walk", "component", "complete"},
           NEW sn
    PROVE  WalkW(x, q) /\ LookW(x, q, sn)
<1>1. Held(x, q) = Nowhere /\ x.result = Nowhere
  BY DEF Held, Fit, Base
<1>2. PlaceW(x, q)
  BY DEF PlaceW, Fit
<1>3. LookW(x, q, sn)
  BY DEF LookW
<1> QED BY <1>1, <1>2, <1>3 DEF WalkW, Fit

LEMMA OnLink ==
    ASSUME NEW x, Fit(x), Owes(x, Nowhere, Nowhere), ToLink(x), NEW sn
    PROVE  WalkW(x, "link") /\ LookW(x, "link", sn)
<1>1. Held(x, "link") = Nowhere /\ x.result = Nowhere
  BY DEF Held, Fit, Base
<1>2. PlaceW(x, "link")
  BY DEF PlaceW, Fit
<1>3. LookW(x, "link", sn)
  BY DEF LookW
<1> QED BY <1>1, <1>2, <1>3 DEF WalkW, Fit

LEMMA OnStack ==
    ASSUME NEW x, Fit(x), ToStack(x), Owes(x, IF x.rcu THEN Nowhere ELSE x.found, Nowhere), NEW sn
    PROVE  WalkW(x, "stack") /\ LookW(x, "stack", sn)
<1>1. Held(x, "stack") = (IF x.rcu THEN Nowhere ELSE x.found) /\ x.result = Nowhere
  BY DEF Held, Fit, Base
<1>2. PlaceW(x, "stack")
  BY DEF PlaceW, Fit
<1>3. LookW(x, "stack", sn)
  BY DEF LookW
<1> QED BY <1>1, <1>2, <1>3 DEF WalkW, Fit

LEMMA OnStep ==
    ASSUME NEW x, Fit(x), HasFound(x), Knows(x, x.found.dentry, x.fseq, x.finode),
           Owes(x, IF x.rcu THEN Nowhere ELSE Beside(x.found, x), Nowhere), NEW sn,
           x.comp \in Names, Stands(x.path.dentry, x.comp) \subseteq sn,
           <<x.child, x.cinode>> \in sn
    PROVE  WalkW(x, "step") /\ LookW(x, "step", sn)
<1>1. Held(x, "step") = (IF x.rcu THEN Nowhere ELSE Beside(x.found, x)) /\ x.result = Nowhere
  BY DEF Held, Fit, Base
<1>2. PlaceW(x, "step")
  BY DEF PlaceW, Fit
<1>3. LookW(x, "step", sn)
  BY DEF LookW
<1> QED BY <1>1, <1>2, <1>3 DEF WalkW, Fit

\* A walk that asks for ref-walk.
LEMMA OnUnlazy ==
    ASSUME NEW x, Sane(x), Room(x), Base(x), x.rcu, NEW then,
           then \in {"walk", "slow", "end", "stack", "link", "complete"},
           x.err = "" \/ (x.err = "ENOTDIR" /\ then = "end"),
           then = "stack" => ToStack(x), then = "link" => ToLink(x),
           Owes(x, IF then = "stack" THEN x.found ELSE Nowhere, Nowhere), NEW sn,
           then = "slow" => x.comp \in Names /\ Stands(x.path.dentry, x.comp) \subseteq sn
    PROVE  LET y == [x EXCEPT !.then = then] IN WalkW(y, "unlazy") /\ LookW(y, "unlazy", sn)
<1> DEFINE y == [x EXCEPT !.then = then]
<1>1. TypeW(x) /\ IsWalk(x)
  BY DEF Sane, TypeW
<1>2. IsWalk(y) /\ Same(x, y, {"then"}) /\ y.then = then
  BY <1>1 DEF IsWalk, Fields, Same
<1> HIDE DEF y
<1>3. TypeW(y)
  BY <1>1, <1>2 DEF TypeW, Same, Fields
<1>4. /\ Same(x, y, Fields \ {"dref", "stack", "calls", "rcu", "rcu_lock"})
      /\ Same(x, y, Fields \ {"dref", "mref", "stack", "rcu", "path", "root", "lookup_root"})
      /\ Same(x, y, Fields \ {"path", "root", "lookup_root", "seq", "inode", "result", "rcu"})
      /\ y.result = x.result /\ y.stack = x.stack /\ y.total = x.total /\ y.alloc = x.alloc
      /\ y.rcu /\ y.err = x.err /\ y.found = x.found /\ y.finode = x.finode
      /\ y.link_inode = x.link_inode /\ y.path = x.path /\ y.comp = x.comp
  BY <1>2 DEF Same, Fields
<1>5. Sane(y) /\ Even(x, y) /\ Base(y)
  BY <1>3, <1>4, SaneSame, EvenSame, BaseSame
<1>6. Room(y)
  BY <1>4 DEF Room
<1>7. Held(y, "unlazy") = (IF then = "stack" THEN x.found ELSE Nowhere) /\ y.result = Nowhere
  BY <1>2, <1>4, <1>5 DEF Held, Base
<1>8. Owes(y, IF then = "stack" THEN x.found ELSE Nowhere, Nowhere)
  BY <1>5, EvenOwes
<1>9. (then = "stack" => ToStack(y)) /\ (then = "link" => ToLink(y))
  BY <1>4 DEF ToStack, ToLink, HasFound
<1>10. PlaceW(y, "unlazy")
  BY <1>2, <1>4, <1>5, <1>9 DEF PlaceW
<1>11. LookW(y, "unlazy", sn)
  BY <1>2, <1>4 DEF LookW
<1> QED BY <1>5, <1>6, <1>7, <1>8, <1>10, <1>11 DEF WalkW, y

\* Fields that only say where the walk goes.
LEMMA FitSame ==
    ASSUME NEW x, NEW y, Fit(x), TypeW(y),
           Same(x, y, {"name", "comp", "mode", "child", "cseq", "cinode", "found", "finode",
                       "fseq", "link_inode"})
    PROVE  Fit(y) /\ Even(x, y)
<1>1. /\ Same(x, y, Fields \ {"dref", "stack", "calls", "rcu", "rcu_lock"})
      /\ Same(x, y, Fields \ {"dref", "mref", "stack", "rcu", "path", "root", "lookup_root"})
      /\ Same(x, y, Fields \ {"path", "root", "lookup_root", "seq", "inode", "result", "rcu"})
      /\ y.stack = x.stack /\ y.total = x.total /\ y.alloc = x.alloc /\ y.err = x.err
  BY DEF Same, Fields
<1>2. Sane(y) /\ Even(x, y) /\ Base(y)
  BY <1>1, SaneSame, EvenSame, BaseSame DEF Fit
<1>3. Room(y)
  BY <1>1 DEF Room, Fit
<1> QED BY <1>1, <1>2, <1>3 DEF Fit

\* After a component.
LEMMA ArrivedStep ==
    ASSUME DcacheInv, NamesOnce, NEW v, NEW sn, UNCHANGED around, seen' = sn, Arrived(v),
           Fit(v), Owes(v, Nowhere, Nowhere)
    PROVE  WalkInv'
<1> DEFINE x == ForgetFound(v)
           e == [x EXCEPT !.err = "ENOTDIR"]
<1>1. Sane(x) /\ Same(v, x, {"child", "cseq", "cinode", "found", "finode", "fseq"})
  BY ForgetFoundKeeps DEF Fit
<1>2. \/ x.mode = "last" /\ Goto(x, "complete")
      \/ x.mode # "last" /\ Goto(x, "walk")
      \/ x.rcu /\ Unlazy(e, "end")
      \/ ~x.rcu /\ Fail(x, "ENOTDIR")
  BY DEF Arrived
<1> HIDE DEF x
<1>3. TypeW(x) /\ IsWalk(x)
  BY <1>1 DEF Sane, TypeW
<1>4. Fit(x) /\ Owes(x, Nowhere, Nowhere)
  <2>1. Same(v, x, {"name", "comp", "mode", "child", "cseq", "cinode", "found", "finode",
                    "fseq", "link_inode"})
    BY <1>1 DEF Same
  <2> QED BY <1>3, <2>1, FitSame, EvenOwes
<1>5. CASE Goto(x, "complete")
  <2>1. WalkW(x, "complete") /\ LookW(x, "complete", sn)
    BY <1>4, OnWalk
  <2> QED BY <1>5, <2>1, GoStep
<1>6. CASE Goto(x, "walk")
  <2>1. WalkW(x, "walk") /\ LookW(x, "walk", sn)
    BY <1>4, OnWalk
  <2> QED BY <1>6, <2>1, GoStep
<1>7. CASE x.rcu /\ Unlazy(e, "end")
  <2>1. IsWalk(e) /\ Same(x, e, {"err"}) /\ e.err = "ENOTDIR"
    BY <1>3 DEF IsWalk, Fields, Same
  <2>2. Goto([e EXCEPT !.then = "end"], "unlazy")
    BY <1>7 DEF Unlazy
  <2> HIDE DEF e
  <2>3. TypeW(e)
    BY <1>3, <2>1 DEF TypeW, Same, Fields
  <2>4. /\ Same(x, e, Fields \ {"dref", "stack", "calls", "rcu", "rcu_lock"})
        /\ Same(x, e, Fields \ {"dref", "mref", "stack", "rcu", "path", "root", "lookup_root"})
        /\ Same(x, e, Fields \ {"path", "root", "lookup_root", "seq", "inode", "result", "rcu"})
        /\ e.stack = x.stack /\ e.total = x.total /\ e.alloc = x.alloc /\ e.rcu
    BY <1>7, <2>1 DEF Same, Fields
  <2>5. Sane(e) /\ Even(x, e) /\ Base(e) /\ Room(e)
    <3>1. Room(e)
      BY <1>4, <2>4 DEF Room, Fit
    <3> QED BY <1>4, <2>3, <2>4, <3>1, SaneSame, EvenSame, BaseSame DEF Fit
  <2>6. Owes(e, Nowhere, Nowhere)
    BY <1>4, <2>5, EvenOwes
  <2>7. WalkW([e EXCEPT !.then = "end"], "unlazy") /\ LookW([e EXCEPT !.then = "end"], "unlazy", sn)
    BY <2>1, <2>4, <2>5, <2>6, OnUnlazy
  <2> QED BY <2>2, <2>7, GoStep
<1>8. CASE Fail(x, "ENOTDIR")
  BY <1>4, <1>8, FailStep DEF Fit, Base
<1> QED BY <1>2, <1>5, <1>6, <1>7, <1>8

-----------------------------------------------------------------------------
(* The steps of the walk *)

LEMMA Under ==
    ASSUME NEW x, NEW q, WalkW(x, q), Walking(q)
    PROVE  /\ Sane(x) /\ Room(x) /\ Base(x) /\ TypeW(x) /\ IsWalk(x) /\ x.rcu \in BOOLEAN
           /\ x.result = Nowhere /\ Owes(x, Held(x, q), Nowhere)
           /\ q # "unlazy" => Fit(x)
BY DEF WalkW, PlaceW, Fit, Base, Sane, TypeW

LEMMA PathInit == ASSUME WalkInv, path_init PROVE WalkInv'
<1> DEFINE x == [w EXCEPT !.rcu = w.attempt = "rcu", !.err = "", !.stack = <<>>,
                          !.rcu_lock = IF w.attempt = "rcu" THEN @ + 1 ELSE @,
                          !.m_seq = mseq, !.name = w.start.comps, !.comp = Null,
                          !.path = Nowhere, !.root = IF w.lookup_root THEN top ELSE Nowhere,
                          !.root_seq = seq[top.dentry]]
           a == [w EXCEPT !.rcu = w.attempt = "rcu", !.err = "", !.stack = <<>>,
                          !.rcu_lock = IF w.attempt = "rcu" THEN @ + 1 ELSE @, !.m_seq = mseq]
           from == IF w.lookup_root THEN top ELSE pwd
           g == IF x.rcu THEN x ELSE path_get(x, from)
           j == nd_jump_root(set_root(x))
<1>1. /\ pc = "init" /\ UNCHANGED around /\ seen' = seen
      /\ \/ w.start.abs /\ ~w.lookup_root /\ Goto(j, "walk")
         \/ ~(w.start.abs /\ ~w.lookup_root) /\ Goto(Here(g, from), "walk")
  BY DEF path_init
<1>2. /\ DcacheInv /\ NamesOnce /\ Sane(w) /\ Room(w) /\ Cleared(w) /\ w.result = Nowhere
      /\ Owes(w, Nowhere, Nowhere) /\ TypeW(w) /\ IsWalk(w) /\ w.err # "ELOOP"
  BY <1>1 DEF WalkInv, WalkW, PlaceW, Held, Sane, TypeW
<1>3. top \in Paths /\ Live(top.dentry) /\ pwd \in Paths /\ Live(pwd.dentry) /\ seq[top.dentry] \in Nat
  BY <1>2, PathParts DEF DcacheInv
<1>4. x = [a EXCEPT !.name = w.start.comps, !.comp = Null, !.path = Nowhere,
                    !.root = IF w.lookup_root THEN top ELSE Nowhere, !.root_seq = seq[top.dentry]]
  BY Zenon
<1>5. /\ IsWalk(a) /\ Same(w, a, {"rcu", "err", "stack", "rcu_lock", "m_seq"})
      /\ a.err = "" /\ a.stack = <<>>
  BY <1>2, ZenonT(80) DEF IsWalk, Fields, Same
<1>6. a.rcu \in BOOLEAN /\ a.rcu_lock \in Int /\ a.rcu_lock = One(a.rcu)
  <2>1. /\ a.rcu = (w.attempt = "rcu")
        /\ a.rcu_lock = IF w.attempt = "rcu" THEN w.rcu_lock + 1 ELSE w.rcu_lock
    BY <1>2 DEF IsWalk, Fields
  <2>2. w.rcu_lock = 0
    BY <1>2 DEF Cleared, Sane, LinkCalls, One
  <2> HIDE DEF a
  <2>3. CASE w.attempt = "rcu"
    <3>1. a.rcu_lock = 1
      BY <2>1, <2>2, <2>3
    <3>2. a.rcu /\ a.rcu \in BOOLEAN
      BY <2>1, <2>3, Zenon
    <3> QED BY <3>1, <3>2 DEF One
  <2>4. CASE w.attempt # "rcu"
    <3>1. ~a.rcu /\ a.rcu_lock = 0
      BY <2>1, <2>2, <2>4
    <3>2. a.rcu \in BOOLEAN
      BY <2>1, Zenon
    <3> QED BY <3>1, <3>2 DEF One
  <2> QED BY <2>3, <2>4
<1> HIDE DEF a, x
<1>7. IsWalk(x) /\ Same(a, x, {"name", "comp", "path", "root", "root_seq"})
      /\ x.name = w.start.comps /\ x.path = Nowhere /\ x.root_seq = seq[top.dentry]
      /\ x.root = (IF w.lookup_root THEN top ELSE Nowhere)
  <2>1. IsWalk(x)
    <3>1. PICK c, r, s, n, p :
            x = [a EXCEPT !.name = n, !.comp = c, !.path = p, !.root = r, !.root_seq = s]
      BY <1>4
    <3> QED BY <1>5, <3>1, ZenonT(80) DEF IsWalk, Fields
  <2>2. Same(a, x, {"name", "comp", "path", "root", "root_seq"})
    BY <1>4, <1>5 DEF IsWalk, Fields, Same
  <2>3. x.name = w.start.comps /\ x.path = Nowhere /\ x.root_seq = seq[top.dentry]
    BY <1>4, <1>5 DEF IsWalk, Fields
  <2>4. x.root = (IF w.lookup_root THEN top ELSE Nowhere)
    BY <1>4, <1>5 DEF IsWalk, Fields
  <2> QED BY <2>1, <2>2, <2>3, <2>4
<1>8. /\ x.rcu = a.rcu /\ x.rcu_lock = a.rcu_lock /\ x.err = "" /\ x.stack = <<>>
       /\ Same(w, x, {"rcu", "err", "stack", "rcu_lock", "m_seq", "name", "comp", "path", "root",
                      "root_seq"})
  BY <1>5, <1>7 DEF Same, Fields
<1>9. TypeW(x)
  <2>1. x.stack \in Seq(Links) /\ x.path \in MaybePaths /\ x.root_seq \in Nat
    <3>1. x.stack \in Seq(Links)
      BY <1>8, EmptySeq
    <3>2. x.path \in MaybePaths
      BY <1>7, NowhereIs
    <3>3. x.root_seq \in Nat
      BY <1>3, <1>7
    <3> QED BY <3>1, <3>2, <3>3
  <2>2. x.root \in MaybePaths
    <3>1. top \in MaybePaths
      BY <1>3, PathParts
    <3> QED BY <1>7, <3>1, NowhereIs
  <2>3. x.name \in Seq(Components)
    <3>1. w.start \in [abs : BOOLEAN, comps : Seq(Components), directory : BOOLEAN]
      BY <1>2 DEF TypeW
    <3> QED BY <1>7, <3>1
  <2>4. x.rcu \in BOOLEAN /\ x.rcu_lock \in Int
    BY <1>6, <1>8
  <2> QED BY <1>2, <1>7, <1>8, <2>1, <2>2, <2>3, <2>4 DEF TypeW, Same, Fields
<1>10. /\ x.dref = w.dref /\ x.mref = w.mref /\ x.calls = w.calls /\ x.total = w.total
      /\ x.alloc = w.alloc /\ x.result = Nowhere /\ x.lookup_root = w.lookup_root
  BY <1>2, <1>8 DEF Same, Fields
<1>11. Sane(x)
  <2>1. w.stack = <<>> /\ w.calls = Calls(w.stack, Len(w.stack))
    BY <1>2 DEF Cleared, Sane, LinkCalls
  <2>2. x.rcu_lock = One(x.rcu)
    BY <1>6, <1>8
  <2> QED BY <1>2, <1>8, <1>9, <1>10, <2>1, <2>2 DEF Sane, HoldsLive, LinkCalls
<1>12. ~OwnRoot(x) /\ ~OwnRoot(w)
  BY <1>2, <1>7, <1>10, NowhereIs DEF OwnRoot, Cleared
<1>13. Owes(x, Nowhere, Nowhere)
  <2>1. Even(w, x)
    <3>1. w.path = Nowhere /\ w.stack = <<>>
      BY <1>2 DEF Cleared
    <3>2. /\ \A d \in Dentries : DebtD(w, d) = w.dref[d]
          /\ \A m \in Mounts : DebtM(w, m) = w.mref[m]
      BY <1>2, <1>12, <3>1, BareOwes
    <3>3. x.path = Nowhere /\ x.stack = <<>>
      BY <1>7, <1>8
    <3>4. /\ \A d \in Dentries : DebtD(x, d) = x.dref[d]
          /\ \A m \in Mounts : DebtM(x, m) = x.mref[m]
      BY <1>9, <1>12, <3>3, BareOwes
    <3> QED BY <1>10, <3>2, <3>4 DEF Even
  <2> QED BY <1>2, <2>1, EvenOwes
<1>14. Room(x)
  <2>1. x.stack = w.stack
    BY <1>2, <1>8 DEF Cleared
  <2> QED BY <1>2, <1>8, <1>10, <2>1 DEF Room
<1>15. CASE w.start.abs /\ ~w.lookup_root /\ Goto(j, "walk")
  <2> DEFINE s == set_root(x)
  <2>1. x.root.mnt = Null /\ ~x.lookup_root
    BY <1>7, <1>10, <1>15, NowhereIs
  <2>2. /\ Sane(s) /\ Even(x, s) /\ Same(x, s, {"root", "root_seq", "dref", "mref"})
        /\ s.root = top /\ s.root_seq = seq[top.dentry]
    BY <1>2, <1>11, <2>1, SetRoot
  <2> HIDE DEF s
  <2>3. /\ Sane(j) /\ Even(s, j) /\ Same(s, j, {"path", "inode", "seq", "dref", "mref"})
        /\ j.path = s.root /\ j.inode = inode[s.root.dentry]
        /\ j.seq = IF s.rcu THEN s.root_seq ELSE seq[s.root.dentry]
    BY <1>2, <1>3, <2>2, NdJumpRoot DEF Live, s
  <2> HIDE DEF j
  <2>4. /\ j.stack = x.stack /\ j.total = x.total /\ j.alloc = x.alloc /\ j.err = x.err
        /\ j.root = top /\ j.lookup_root = x.lookup_root /\ j.result = x.result /\ j.rcu = s.rcu
    BY <2>2, <2>3 DEF Same, Fields
  <2>5. Fit(j)
    <3>1. Room(j)
      BY <1>14, <2>4 DEF Room
    <3>2. Base(j)
      BY <1>3, <1>10, <2>2, <2>3, <2>4 DEF Base, Knows, Live
    <3> QED BY <1>8, <2>3, <2>4, <3>1, <3>2 DEF Fit
  <2>6. Owes(j, Nowhere, Nowhere)
    BY <1>13, <2>2, <2>3, EvenOwes
  <2>7. WalkW(j, "walk") /\ LookW(j, "walk", seen)
    BY <2>5, <2>6, OnWalk
  <2> QED BY <1>1, <1>2, <1>15, <2>7, GoStep
<1>16. CASE Goto(Here(g, from), "walk")
  <2> DEFINE y == Here(g, from)
  <2>1. from \in Paths /\ Live(from.dentry) /\ from \in MaybePaths /\ from.dentry \notin killed
    BY <1>3, PathParts DEF Live
  <2>2. x.lookup_root => x.root = top
    BY <1>7, <1>10
  <2> HIDE DEF from
  <2>3. Sane(g) /\ TypeW(g) /\ Same(x, g, {"dref", "mref"}) /\ (x.rcu => g = x)
        /\ (~x.rcu => Moves(x, g, from, Nowhere))
    <3>1. CASE x.rcu
      BY <1>9, <1>11, <3>1 DEF Same
    <3>2. CASE ~x.rcu
      <4>1. g = path_get(x, from)
        BY <3>2
      <4> HIDE DEF g
      <4> QED BY <1>9, <1>11, <2>1, <3>2, <4>1, SaneGet, PathGet, GetMoves
    <3> QED BY <1>6, <1>8, <3>1, <3>2
  <2> HIDE DEF g
  <2>4. /\ Sane(y) /\ TypeW(y) /\ Same(g, y, {"path", "inode", "seq"})
        /\ y.path = from /\ y.inode = inode[from.dentry] /\ y.seq = seq[from.dentry]
    BY <1>2, <2>1, <2>3, HereKeeps DEF Sane
  <2> HIDE DEF y
  <2>5. /\ y.stack = x.stack /\ y.total = x.total /\ y.alloc = x.alloc /\ y.err = x.err
        /\ y.root = x.root /\ y.lookup_root = x.lookup_root /\ y.result = x.result /\ y.rcu = x.rcu
        /\ g.path = x.path /\ g.rcu = x.rcu /\ y.dref = g.dref /\ y.mref = g.mref
        /\ Same(g, y, Fields \ {"dref", "mref", "stack", "rcu", "root", "lookup_root"})
    BY <2>3, <2>4 DEF Same, Fields
  <2>6. Fit(y)
    <3>1. Room(y)
      BY <1>14, <2>5 DEF Room
    <3>2. seq[from.dentry] \in Nat
      BY <1>2, <2>1, PathParts DEF DcacheInv
    <3>3. Knows(y, y.path.dentry, y.seq, y.inode)
      BY <2>4, <3>2 DEF Knows
    <3>4. y.root.mnt # Null => y.root \in Paths /\ Used(y.root.dentry)
      BY <1>3, <1>7, <2>5, NowhereIs DEF Live
    <3>5. Base(y)
      BY <1>10, <2>1, <2>2, <2>4, <2>5, <3>3, <3>4 DEF Base, Live
    <3> QED BY <1>8, <2>4, <2>5, <3>1, <3>5 DEF Fit
  <2>7. Even(x, y)
    <3>1. CASE x.rcu
      <4>1. y.rcu /\ y.dref = x.dref /\ y.mref = x.mref
        BY <2>3, <2>5, <3>1
      <4> QED BY <3>1, <4>1, RcuEven
    <3>2. CASE ~x.rcu
      <4>1. Moves(g, y, Nowhere, from)
        BY <1>7, <2>3, <2>4, <2>5, <3>2, PathMoves
      <4>2. Moves(x, y, from, from)
        BY <1>9, <2>3, <2>4, <3>2, <4>1, MovesMoves
      <4> QED BY <1>9, <2>4, <4>2, MovesBack
    <3> QED BY <1>6, <1>8, <3>1, <3>2
  <2>8. Owes(y, Nowhere, Nowhere)
    BY <1>13, <2>7, EvenOwes
  <2>9. WalkW(y, "walk") /\ LookW(y, "walk", seen)
    BY <2>6, <2>8, OnWalk
  <2> QED BY <1>1, <1>2, <1>16, <2>9, GoStep DEF y
<1> QED BY <1>1, <1>15, <1>16

LEMMA Ready ==
    ASSUME WalkInv, pc \in {"walk", "component", "found", "check", "slow", "link", "complete"}
    PROVE  /\ DcacheInv /\ NamesOnce /\ Fit(w) /\ Sane(w) /\ TypeW(w) /\ IsWalk(w)
           /\ Base(w) /\ Room(w) /\ w.err = "" /\ w.rcu \in BOOLEAN
           /\ w.result = Nowhere /\ Owes(w, Nowhere, Nowhere)
<1>1. Walking(pc) /\ pc # "unlazy"
  BY DEF Walking
<1>2. Held(w, pc) = Nowhere
  BY DEF Held
<1>3. WalkW(w, pc) /\ DcacheInv /\ NamesOnce
  BY DEF WalkInv
<1> QED BY <1>1, <1>2, <1>3, Under DEF Fit

\* Another component, and another rest of the path.
LEMMA Named ==
    ASSUME NEW x, Fit(x), Owes(x, Nowhere, Nowhere), NEW y, IsWalk(y), y.name \in Seq(Components),
           Same(x, y, {"name", "comp", "mode"})
    PROVE  Fit(y) /\ Owes(y, Nowhere, Nowhere)
<1>1. TypeW(x)
  BY DEF Fit, Sane
<1>2. TypeW(y)
  BY <1>1 DEF TypeW, Same, Fields
<1>3. Same(x, y, {"name", "comp", "mode", "child", "cseq", "cinode", "found", "finode",
                  "fseq", "link_inode"})
  BY DEF Same
<1> QED BY <1>2, <1>3, FitSame, EvenOwes

LEMMA LinkPathWalk == ASSUME WalkInv, link_path_walk PROVE WalkInv'
<1>1. pc = "walk" /\ UNCHANGED around /\ seen' = seen
  BY DEF link_path_walk
<1>2. /\ DcacheInv /\ NamesOnce /\ Fit(w) /\ TypeW(w) /\ IsWalk(w) /\ w.rcu \in BOOLEAN
      /\ Owes(w, Nowhere, Nowhere) /\ w.result = Nowhere
  BY <1>1, Ready
<1>3. ASSUME NEW y, IsWalk(y), y.name \in Seq(Components), Same(w, y, {"name", "comp", "mode"}),
             Goto(y, "component")
      PROVE  WalkInv'
  <2>1. Fit(y) /\ Owes(y, Nowhere, Nowhere)
    BY <1>2, <1>3, Named
  <2>2. WalkW(y, "component") /\ LookW(y, "component", seen)
    BY <2>1, OnWalk
  <2> QED BY <1>1, <1>2, <1>3, <2>2, GoStep
<1>4. CASE w.name = <<>> /\ Goto([w EXCEPT !.comp = Null, !.mode = "last"], "component")
  <2> DEFINE y == [w EXCEPT !.comp = Null, !.mode = "last"]
  <2>1. IsWalk(y) /\ Same(w, y, {"comp", "mode"})
    BY <1>2 DEF IsWalk, Fields, Same
  <2>2. Goto(y, "component")
    BY <1>4
  <2> HIDE DEF y
  <2>3. Same(w, y, {"name", "comp", "mode"}) /\ y.name = w.name
    BY <2>1 DEF Same, Fields
  <2>4. y.name \in Seq(Components)
    BY <1>2, <2>3 DEF TypeW
  <2> QED BY <1>3, <2>1, <2>2, <2>3, <2>4
<1>5. CASE w.name # <<>> /\ NextComponent(w)
  <2> DEFINE rest == Tail(w.name)
             c == Head(w.name)
             y == [w EXCEPT !.comp = c, !.name = rest]
             above == w.stack[Len(w.stack)].name
             more == [y EXCEPT !.mode = "more"]
             last == [y EXCEPT !.mode = "last"]
             nested == [y EXCEPT !.mode = "nested", !.name = above]
  <2>1. \/ Goto(more, "component")
        \/ Goto(last, "component")
        \/ w.stack # <<>> /\ above # Null /\ Goto(nested, "component")
    BY <1>5 DEF NextComponent
  <2>2. rest \in Seq(Components)
    BY <1>2, <1>5 DEF TypeW
  <2>3. w.stack # <<>> /\ above # Null => above \in Seq(Components)
    <3>1. w.stack \in Seq(Links)
      BY <1>2 DEF TypeW
    <3>2. w.stack # <<>> => w.stack[Len(w.stack)] \in Links
      BY <3>1
    <3> QED BY <3>2 DEF Links
  <2> HIDE DEF rest, c, above
  <2>4. IsWalk(y) /\ Same(w, y, {"comp", "name"}) /\ y.name = rest
    BY <1>2 DEF IsWalk, Fields, Same
  <2> HIDE DEF y
  <2>5. CASE Goto(more, "component")
    <3>1. IsWalk(more) /\ Same(y, more, {"mode"})
      BY <2>4 DEF IsWalk, Fields, Same
    <3> HIDE DEF more
    <3>2. Same(w, more, {"name", "comp", "mode"}) /\ more.name = rest
      BY <2>4, <3>1 DEF Same, Fields
    <3> QED BY <1>3, <2>2, <2>5, <3>1, <3>2
  <2>6. CASE Goto(last, "component")
    <3>1. IsWalk(last) /\ Same(y, last, {"mode"})
      BY <2>4 DEF IsWalk, Fields, Same
    <3> HIDE DEF last
    <3>2. Same(w, last, {"name", "comp", "mode"}) /\ last.name = rest
      BY <2>4, <3>1 DEF Same, Fields
    <3> QED BY <1>3, <2>2, <2>6, <3>1, <3>2
  <2>7. CASE w.stack # <<>> /\ above # Null /\ Goto(nested, "component")
    <3>1. IsWalk(nested) /\ Same(y, nested, {"mode", "name"}) /\ nested.name = above
      BY <2>4 DEF IsWalk, Fields, Same
    <3> HIDE DEF nested
    <3>2. Same(w, nested, {"name", "comp", "mode"})
      BY <2>4, <3>1 DEF Same, Fields
    <3> QED BY <1>3, <2>3, <2>7, <3>1, <3>2
  <2> QED BY <2>1, <2>5, <2>6, <2>7
<1>6. CASE w.rcu /\ Unlazy(w, "walk")
  <2>1. Goto([w EXCEPT !.then = "walk"], "unlazy")
    BY <1>6 DEF Unlazy
  <2>2. /\ WalkW([w EXCEPT !.then = "walk"], "unlazy")
        /\ LookW([w EXCEPT !.then = "walk"], "unlazy", seen)
    BY <1>2, <1>6, OnUnlazy DEF Fit
  <2> QED BY <1>1, <1>2, <2>1, <2>2, GoStep
<1>7. CASE Fail(w, "EACCES")
  BY <1>1, <1>2, <1>7, FailStep DEF Fit
<1> QED BY <1>4, <1>5, <1>6, <1>7 DEF link_path_walk

\* What the helpers do to a walk under way.
LEMMA FitDrop ==
    ASSUME NEW x, Fit(x)
    PROVE  LET y == DropLink(x) IN
           /\ Fit(y) /\ Sane(y) /\ Even(x, y) /\ Len(y.stack) <= Len(x.stack)
           /\ Same(x, y, {"stack", "calls", "dref", "mref"})
<1> DEFINE y == DropLink(x)
<1>1. /\ Sane(y) /\ Even(x, y) /\ Same(x, y, {"stack", "calls", "dref", "mref"})
      /\ Len(y.stack) <= Len(x.stack)
  BY DropLinkKeeps DEF Fit
<1> HIDE DEF y
<1>2. /\ Same(x, y, Fields \ {"path", "root", "lookup_root", "seq", "inode", "result", "rcu"})
      /\ y.total = x.total /\ y.alloc = x.alloc /\ y.err = x.err
  BY <1>1 DEF Same, Fields
<1>3. Base(y)
  BY <1>2, BaseSame DEF Fit
<1>4. Room(y)
  BY <1>1, <1>2, RoomSame DEF Fit, Sane
<1> QED BY <1>1, <1>2, <1>3, <1>4 DEF Fit, y

LEMMA FitRoot ==
    ASSUME DcacheInv, NEW x, Fit(x)
    PROVE  LET y == set_root(x) IN
           /\ Fit(y) /\ Sane(y) /\ Even(x, y) /\ Same(x, y, {"root", "root_seq", "dref", "mref"})
           /\ y.root \in Paths /\ Used(y.root.dentry)
           /\ ~x.rcu /\ x.root.mnt = Null => y.root.dentry \notin killed
<1> DEFINE y == set_root(x)
<1>1. top \in Paths /\ Live(top.dentry) /\ top.mnt # Null
  BY PathParts DEF DcacheInv
<1>2. Sane(x) /\ Room(x) /\ Base(x) /\ x.err = ""
  BY DEF Fit
<1>3. x.root.mnt = Null => ~x.lookup_root
  BY <1>1, <1>2 DEF Base
<1>4. /\ Sane(y) /\ Even(x, y) /\ Same(x, y, {"root", "root_seq", "dref", "mref"})
      /\ x.root.mnt # Null => y = x
      /\ x.root.mnt = Null => y.root = top /\ y.root_seq = seq[top.dentry]
  BY <1>2, <1>3, SetRoot
<1> HIDE DEF y
<1>5. y.root \in Paths /\ Used(y.root.dentry)
  BY <1>1, <1>2, <1>4 DEF Base, Live
<1>6. /\ y.stack = x.stack /\ y.total = x.total /\ y.alloc = x.alloc /\ y.err = x.err
      /\ y.path = x.path /\ y.lookup_root = x.lookup_root /\ y.result = x.result
      /\ y.seq = x.seq /\ y.inode = x.inode /\ y.rcu = x.rcu
  BY <1>4 DEF Same, Fields
<1>7. Room(y)
  BY <1>2, <1>6 DEF Room
<1>8. Base(y)
  <2>1. y.lookup_root => y.root = top
    BY <1>2, <1>3, <1>4, <1>6 DEF Base
  <2> QED BY <1>2, <1>5, <1>6, <2>1 DEF Base, Knows
<1> QED BY <1>1, <1>2, <1>4, <1>5, <1>6, <1>7, <1>8 DEF Fit, Live, y

\* The walk stands at another place, that it has just read.
LEMMA FitHere ==
    ASSUME DcacheInv, NEW x, Sane(x), Room(x), NEW z, Fit(z), NEW p, At(p, FALSE),
           Same(z, x, {"dref", "mref"})
    PROVE  LET y == Here(x, p) IN
           Fit(y) /\ Sane(y) /\ TypeW(y) /\ Same(x, y, {"path", "inode", "seq"}) /\ y.path = p
<1> DEFINE y == Here(x, p)
<1>1. p \in Paths /\ Used(p.dentry) /\ p.dentry \in Dentries
  BY PathParts DEF At
<1>2. /\ Sane(y) /\ Same(x, y, {"path", "inode", "seq"})
      /\ y.path = p /\ y.inode = inode[p.dentry] /\ y.seq = seq[p.dentry]
  BY <1>1, HereKeeps
<1> HIDE DEF y
<1>3. /\ y.stack = x.stack /\ y.total = x.total /\ y.alloc = x.alloc /\ y.err = z.err /\ y.err = x.err
      /\ y.lookup_root = z.lookup_root /\ y.result = z.result /\ y.rcu = z.rcu /\ y.root = z.root
  BY <1>2 DEF Same, Fields
<1>4. Room(y)
  BY <1>3 DEF Room
<1>5. Knows(y, p.dentry, y.seq, y.inode)
  <2>1. seq[p.dentry] \in Nat
    BY <1>1 DEF DcacheInv
  <2> QED BY <1>2, <2>1 DEF Knows
<1>6. Base(y)
  BY <1>1, <1>2, <1>3, <1>5 DEF Base, Fit
<1> QED BY <1>2, <1>3, <1>4, <1>6 DEF Fit, Sane, y

LEMMA HandleDots == ASSUME WalkInv, handle_dots PROVE WalkInv'
<1> DEFINE x == IF w.comp = DotDot THEN set_root(w) ELSE w
           to == IF w.comp = DotDot THEN follow_dotdot(x.path, x.root) ELSE x.path
           a == path_get(x, to)
           b == path_put(a, x.path)
           h == Here(b, to)
           r == Here(x, to)
<1>1. pc = "component" /\ UNCHANGED around /\ seen' = seen
  BY DEF handle_dots
<1>2. /\ DcacheInv /\ NamesOnce /\ Fit(w) /\ Owes(w, Nowhere, Nowhere)
  BY <1>1, Ready
<1>3. \/ Arrived(DropLink(x))
      \/ x.rcu /\ Fail(DropLink(x), "ECHILD")
      \/ x.rcu /\ Arrived(DropLink(r))
      \/ ~x.rcu /\ Arrived(DropLink(h))
  BY DEF handle_dots
<1>4. Fit(x) /\ Owes(x, Nowhere, Nowhere)
  <2>1. CASE w.comp = DotDot
    <3>1. Fit(set_root(w)) /\ Even(w, set_root(w))
      BY <1>2, FitRoot
    <3>2. Owes(set_root(w), Nowhere, Nowhere)
      BY <1>2, <3>1, EvenOwes
    <3> QED BY <2>1, <3>1, <3>2
  <2>2. CASE w.comp # DotDot
    BY <1>2, <2>2
  <2> QED BY <2>1, <2>2
<1>5. /\ \/ to = x.path
         \/ to = follow_dotdot(x.path, x.root)
  OBVIOUS
<1> HIDE DEF x, to
<1>6. Sane(x) /\ TypeW(x) /\ Room(x) /\ Base(x) /\ x.result = Nowhere
  BY <1>4 DEF Fit, Base, Sane
<1>7. At(to, ~x.rcu)
  <2>1. At(x.path, ~x.rcu)
    <3>1. x.path \in Paths /\ Used(x.path.dentry) /\ x.path.dentry \in Dentries
      BY <1>6, PathParts DEF Base
    <3>2. ~x.rcu => x.path.dentry \notin killed
      BY <1>4, <1>6, <3>1, HeldLive
    <3> QED BY <3>1, <3>2 DEF At
  <2> QED BY <1>2, <1>5, <2>1, FollowDotDot
<1>8. ASSUME NEW v, Fit(v), Owes(v, Nowhere, Nowhere)
      PROVE  /\ Arrived(DropLink(v)) => WalkInv'
             /\ Fail(DropLink(v), "ECHILD") => WalkInv'
  <2> DEFINE y == DropLink(v)
  <2>1. Fit(y) /\ Sane(y) /\ Even(v, y)
    BY <1>8, FitDrop
  <2>2. Owes(y, Nowhere, Nowhere)
    BY <1>8, <2>1, EvenOwes
  <2> HIDE DEF y
  <2>3. Arrived(y) => WalkInv'
    BY <1>1, <1>2, <2>1, <2>2, ArrivedStep
  <2>4. Room(y) /\ y.result = Nowhere /\ y.err # "ELOOP"
    BY <2>1 DEF Fit, Base
  <2>5. Fail(y, "ECHILD") => WalkInv'
    BY <1>1, <1>2, <2>1, <2>2, <2>4, FailStep
  <2> QED BY <2>3, <2>5 DEF y
<1>9. At(to, FALSE) /\ to \in Paths /\ to \in MaybePaths /\ x.path \in MaybePaths
  BY <1>6, <1>7, PathParts DEF At, Base
<1>10. CASE x.rcu /\ Arrived(DropLink(r))
  <2>1. Same(x, x, {"dref", "mref"})
    BY DEF Same
  <2>2. Fit(r) /\ Same(x, r, {"path", "inode", "seq"})
    BY <1>2, <1>4, <1>6, <1>9, <2>1, FitHere
  <2> HIDE DEF r
  <2>3. r.rcu = x.rcu /\ r.dref = x.dref /\ r.mref = x.mref
    BY <2>2 DEF Same, Fields
  <2>4. Owes(r, Nowhere, Nowhere)
    <3>1. r.rcu
      BY <1>10, <2>3
    <3>2. Even(x, r)
      BY <1>10, <2>3, <3>1, RcuEven
    <3> QED BY <1>4, <3>2, EvenOwes
  <2> QED BY <1>8, <1>10, <2>2, <2>4
<1>11. CASE ~x.rcu /\ Arrived(DropLink(h))
  <2>1. to.dentry \notin killed
    BY <1>7, <1>11 DEF At
  <2>2. Sane(a) /\ TypeW(a) /\ Same(x, a, {"dref", "mref"}) /\ Moves(x, a, to, Nowhere)
    BY <1>6, <1>9, <2>1, SaneGet, PathGet, GetMoves
  <2> HIDE DEF a
  <2>3. Sane(b) /\ TypeW(b) /\ Same(a, b, {"dref", "mref"}) /\ Moves(a, b, Nowhere, x.path)
    BY <1>9, <2>2, SanePut, PathPut, PutMoves
  <2> HIDE DEF b
  <2>4. Same(x, b, {"dref", "mref"}) /\ b.path = x.path /\ b.rcu = x.rcu
        /\ b.stack = x.stack /\ b.total = x.total /\ b.alloc = x.alloc /\ b.err = x.err
    BY <2>2, <2>3 DEF Same, Fields
  <2>5. Room(b)
    BY <1>6, <2>4 DEF Room
  <2>6. Fit(h) /\ TypeW(h) /\ Same(b, h, {"path", "inode", "seq"}) /\ h.path = to
    BY <1>2, <1>4, <1>9, <2>3, <2>4, <2>5, FitHere
  <2> HIDE DEF h
  <2>7. Same(b, h, Fields \ {"dref", "mref", "stack", "rcu", "root", "lookup_root"}) /\ ~b.rcu
    BY <1>11, <2>4, <2>6 DEF Same, Fields
  <2>8. Moves(b, h, x.path, to)
    BY <2>3, <2>4, <2>6, <2>7, PathMoves
  <2>9. Moves(x, b, to, x.path)
    BY <1>6, <2>2, <2>3, MovesMoves
  <2>10. Moves(x, h, to, to)
    BY <1>6, <2>3, <2>6, <2>8, <2>9, MovesMoves
  <2>11. Owes(h, Nowhere, Nowhere)
    BY <1>4, <1>6, <2>6, <2>10, MovesBack, EvenOwes
  <2> QED BY <1>8, <1>11, <2>6, <2>11
<1> QED BY <1>3, <1>4, <1>8, <1>10, <1>11

-----------------------------------------------------------------------------
(* Lookups *)

LEMMA StandsIs ==
    ASSUME DcacheInv, NamesOnce, NEW dir, NEW c \in Names, NEW d \in Find(dir, c)
    PROVE  /\ Live(d) /\ d \in Dentries /\ inode[d] \in Inos \union {Null}
           /\ inode[d] # Null => <<d, inode[d]>> \in Stands(dir, c)
           /\ inode[d] = Null => Absent \in Stands(dir, c)
<1>1. d \in hashed /\ place[d] = <<dir, c>> /\ d \in Dentries
  BY DEF Find, DcacheInv
<1>2. Live(d) /\ inode[d] \in Inos \union {Null}
  BY <1>1 DEF DcacheInv
<1>3. \A e \in Find(dir, c) : e = d
  BY <1>1 DEF NamesOnce, Find
<1>4. ASSUME inode[d] = Null PROVE Absent \in Stands(dir, c)
  <2>1. {e \in Find(dir, c) : inode[e] # Null} = {}
    BY <1>3, <1>4
  <2> QED BY <2>1 DEF Stands
<1>5. ASSUME inode[d] # Null PROVE <<d, inode[d]>> \in Stands(dir, c)
  <2>1. {e \in Find(dir, c) : inode[e] # Null} # {}
    BY <1>5
  <2>2. <<d, inode[d]>> \in {<<e, inode[e]>> : e \in {f \in Find(dir, c) : inode[f] # Null}}
    BY <1>5
  <2> QED BY <2>1, <2>2 DEF Stands
<1> QED BY <1>1, <1>2, <1>4, <1>5

LEMMA OnSlow ==
    ASSUME NEW x, Fit(x), ~x.rcu, Owes(x, Nowhere, Nowhere), NEW sn,
           x.comp \in Names, Stands(x.path.dentry, x.comp) \subseteq sn
    PROVE  WalkW(x, "slow") /\ LookW(x, "slow", sn)
<1>1. Held(x, "slow") = Nowhere /\ x.result = Nowhere
  BY DEF Held, Fit, Base
<1>2. PlaceW(x, "slow")
  BY DEF PlaceW, Fit
<1>3. LookW(x, "slow", sn)
  BY DEF LookW
<1> QED BY <1>1, <1>2, <1>3 DEF WalkW, Fit

LEMMA OnFound ==
    ASSUME NEW x, Fit(x), x.rcu, Owes(x, Nowhere, Nowhere), NEW sn, x.child \in Dentries,
           x.comp \in Names, Stands(x.path.dentry, x.comp) \subseteq sn,
           NEW q \in {"found", "check"}, x.cseq <= seq[x.child],
           x.cseq = seq[x.child] =>
             x.child \in hashed /\ place[x.child] = <<x.path.dentry, x.comp>>,
           q = "check" /\ x.cseq = seq[x.child] => x.cinode = inode[x.child]
    PROVE  WalkW(x, q) /\ LookW(x, q, sn)
<1>1. Held(x, q) = Nowhere /\ x.result = Nowhere
  BY DEF Held, Fit, Base
<1>2. PlaceW(x, q)
  BY DEF PlaceW, Fit
<1>3. LookW(x, q, sn)
  BY DEF LookW
<1> QED BY <1>1, <1>2, <1>3 DEF WalkW, Fit

\* The child found with a reference of its own.
LEMMA ManagedStep ==
    ASSUME DcacheInv, NEW x, Fit(x), ~x.rcu, NEW d0, Live(d0), Owes(x, Alone(d0), Nowhere),
           x.comp \in Names, NEW sn, Stands(x.path.dentry, x.comp) \subseteq sn,
           <<d0, inode[d0]>> \in sn
    PROVE  LET y == follow_managed(x, d0) IN WalkW(y, "step") /\ LookW(y, "step", sn)
<1> DEFINE y == follow_managed(x, d0)
<1>1. Sane(x) /\ TypeW(x) /\ x.path \in Paths /\ Room(x) /\ Base(x)
  BY DEF Fit, Base, Sane
<1>2. /\ Sane(y)
      /\ Same(x, y, {"child", "cinode", "found", "finode", "fseq", "dref", "mref"})
      /\ y.child = d0 /\ y.cinode = inode[d0]
      /\ HasFound(y) /\ y.finode = inode[y.found.dentry]
      /\ Moves(x, y, Beside(y.found, x), Alone(d0))
  BY <1>1, FollowManaged
<1> HIDE DEF y
<1>3. /\ Same(x, y, Fields \ {"path", "root", "lookup_root", "seq", "inode", "result", "rcu"})
      /\ y.stack = x.stack /\ y.total = x.total /\ y.alloc = x.alloc /\ y.err = x.err
      /\ y.rcu = x.rcu /\ y.comp = x.comp /\ y.path = x.path
  BY <1>2 DEF Same, Fields
<1>4. Fit(y)
  <2>1. Room(y)
    BY <1>1, <1>3 DEF Room
  <2>2. Base(y)
    BY <1>1, <1>3, BaseSame
  <2> QED BY <1>2, <1>3, <2>1, <2>2 DEF Fit
<1>5. Owes(y, Beside(y.found, y), Nowhere)
  <2>1. TypeW(y)
    BY <1>2 DEF Sane
  <2>2. Owes(y, Beside(y.found, x), Nowhere)
    BY <1>1, <1>2, <2>1, MovesOwes
  <2>3. Beside(y.found, y) = Beside(y.found, x)
    BY <1>3 DEF Beside
  <2> QED BY <2>2, <2>3
<1>6. ~y.rcu /\ Knows(y, y.found.dentry, y.fseq, y.finode)
  BY <1>2, <1>3 DEF Knows
<1>7. y.comp \in Names /\ Stands(y.path.dentry, y.comp) \subseteq sn /\ <<y.child, y.cinode>> \in sn
  BY <1>2, <1>3
<1>8. Owes(y, IF y.rcu THEN Nowhere ELSE Beside(y.found, y), Nowhere)
  BY <1>5, <1>6
<1> QED BY <1>2, <1>4, <1>6, <1>7, <1>8, OnStep DEF y

LEMMA FitTook ==
    ASSUME NEW x, Fit(x), Owes(x, Nowhere, Nowhere), NEW d0, Live(d0)
    PROVE  LET y == [x EXCEPT !.dref = Add(@, d0, 1)] IN
           Fit(y) /\ Same(x, y, {"dref"}) /\ Owes(y, Alone(d0), Nowhere)
<1> DEFINE y == [x EXCEPT !.dref = Add(@, d0, 1)]
<1>1. Sane(x) /\ TypeW(x) /\ Room(x) /\ Base(x) /\ x.err = ""
  BY DEF Fit, Sane
<1>2. d0 \in Dentries /\ d0 \notin killed
  BY DEF Live, Used
<1>3. /\ Sane(y) /\ TypeW(y) /\ Same(x, y, {"dref"})
      /\ \A d \in Dentries : y.dref[d] = x.dref[d] + (IF d0 = d THEN 1 ELSE 0)
  <2>1. 1 \in Int /\ (1 <= 0 \/ d0 \notin killed)
    BY <1>2
  <2> QED BY <1>1, <1>2, <2>1, SaneD
<1> HIDE DEF y
<1>4. Moves(x, y, Alone(d0), Nowhere)
  <2>1. \A d \in Dentries : y.dref[d] = x.dref[d] + One(d0 = d)
    BY <1>3 DEF One
  <2> QED BY <1>1, <1>2, <1>3, <2>1, DrefMoves
<1>5. /\ Same(x, y, Fields \ {"path", "root", "lookup_root", "seq", "inode", "result", "rcu"})
      /\ y.stack = x.stack /\ y.total = x.total /\ y.alloc = x.alloc /\ y.err = x.err
  BY <1>3 DEF Same, Fields
<1>6. Room(y) /\ Base(y)
  <2>1. Room(y)
    BY <1>1, <1>5 DEF Room
  <2> QED BY <1>1, <1>5, <2>1, BaseSame
<1>7. Owes(y, Alone(d0), Nowhere)
  BY <1>1, <1>3, <1>4, MovesOwes
<1> QED BY <1>1, <1>3, <1>5, <1>6, <1>7 DEF Fit, y

LEMMA LookupFast == ASSUME WalkInv, lookup_fast PROVE WalkInv'
<1> DEFINE dir == w.path.dentry
           sn == Stands(dir, w.comp)
<1>1. pc = "component" /\ UNCHANGED around /\ w.comp \in Names
  BY DEF lookup_fast
<1>2. /\ DcacheInv /\ NamesOnce /\ Fit(w) /\ Owes(w, Nowhere, Nowhere) /\ TypeW(w) /\ IsWalk(w)
      /\ Sane(w) /\ Room(w) /\ Base(w) /\ w.err = "" /\ w.rcu \in BOOLEAN /\ w.result = Nowhere
  BY <1>1, Ready
<1>3. seen' = sn /\ sn \subseteq sn
  BY DEF lookup_fast, StandsFor, Stands
<1>4. \/ w.rcu /\ Unlazy(w, "slow")
      \/ ~w.rcu /\ Goto(w, "slow")
      \/ \E d \in Find(dir, w.comp) :
            \/ w.rcu /\ Goto([w EXCEPT !.child = d, !.cseq = seq[d]], "found")
            \/ ~w.rcu /\ inode[d] = Null /\ Fail(w, "ENOENT")
            \/ /\ ~w.rcu /\ inode[d] # Null
               /\ Goto(follow_managed([w EXCEPT !.dref = Add(@, d, 1)], d), "step")
  BY <1>2 DEF lookup_fast
<1> HIDE DEF dir, sn
<1>5. CASE w.rcu /\ Unlazy(w, "slow")
  <2>1. Goto([w EXCEPT !.then = "slow"], "unlazy")
    BY <1>5 DEF Unlazy
  <2>2. /\ WalkW([w EXCEPT !.then = "slow"], "unlazy")
        /\ LookW([w EXCEPT !.then = "slow"], "unlazy", sn)
    BY <1>1, <1>2, <1>3, <1>5, OnUnlazy DEF dir, sn
  <2> QED BY <1>1, <1>2, <1>3, <2>1, <2>2, GoStep
<1>6. CASE ~w.rcu /\ Goto(w, "slow")
  <2>1. WalkW(w, "slow") /\ LookW(w, "slow", sn)
    BY <1>1, <1>2, <1>3, <1>6, OnSlow DEF dir, sn
  <2> QED BY <1>1, <1>2, <1>3, <1>6, <2>1, GoStep
<1>7. ASSUME NEW d \in Find(dir, w.comp), w.rcu, Goto([w EXCEPT !.child = d, !.cseq = seq[d]], "found")
      PROVE  WalkInv'
  <2> DEFINE x == [w EXCEPT !.child = d, !.cseq = seq[d]]
  <2>1. IsWalk(x) /\ Same(w, x, {"child", "cseq"}) /\ x.child = d /\ x.cseq = seq[d]
    BY <1>2, ZenonT(80) DEF IsWalk, Fields, Same
  <2>2. Goto(x, "found")
    BY <1>7
  <2> HIDE DEF x
  <2>3. d \in Dentries /\ d \in hashed /\ place[d] = <<dir, w.comp>> /\ seq[d] \in Nat
    BY <1>2 DEF Find, DcacheInv
  <2>4. TypeW(x)
    BY <1>2, <2>1, <2>3 DEF TypeW, Same, Fields
  <2>5. Same(w, x, {"name", "comp", "mode", "child", "cseq", "cinode", "found", "finode",
                    "fseq", "link_inode"}) /\ x.rcu = w.rcu /\ x.path = w.path /\ x.comp = w.comp
    BY <2>1 DEF Same, Fields
  <2>6. Fit(x) /\ Owes(x, Nowhere, Nowhere)
    BY <1>2, <2>4, <2>5, FitSame, EvenOwes
  <2>7. x.cseq <= seq[x.child]
    BY <2>1, <2>3
  <2>8. x.rcu /\ x.comp \in Names /\ Stands(x.path.dentry, x.comp) \subseteq sn
    BY <1>1, <1>7, <2>5 DEF sn, dir
  <2>9. x.child \in hashed /\ place[x.child] = <<x.path.dentry, x.comp>> /\ x.child \in Dentries
    BY <2>1, <2>3, <2>5 DEF dir
  <2>10. WalkW(x, "found") /\ LookW(x, "found", sn)
    BY <2>6, <2>7, <2>8, <2>9, OnFound
  <2> QED BY <1>1, <1>2, <1>3, <2>2, <2>10, GoStep
<1>8. ASSUME NEW d \in Find(dir, w.comp), ~w.rcu, inode[d] = Null, Fail(w, "ENOENT")
      PROVE  WalkInv'
  <2>1. Absent \in sn
    BY <1>1, <1>2, <1>8, StandsIs DEF sn
  <2> QED BY <1>1, <1>2, <1>3, <1>8, <2>1, FailStep
<1>9. ASSUME NEW d \in Find(dir, w.comp), ~w.rcu, inode[d] # Null,
             Goto(follow_managed([w EXCEPT !.dref = Add(@, d, 1)], d), "step")
      PROVE  WalkInv'
  <2> DEFINE x == [w EXCEPT !.dref = Add(@, d, 1)]
             y == follow_managed(x, d)
  <2>1. Live(d) /\ <<d, inode[d]>> \in sn
    BY <1>1, <1>2, <1>9, StandsIs DEF sn
  <2>2. Fit(x) /\ Same(w, x, {"dref"}) /\ Owes(x, Alone(d), Nowhere)
    BY <1>2, <2>1, FitTook
  <2>3. Goto(y, "step")
    BY <1>9
  <2> HIDE DEF x
  <2>4. ~x.rcu /\ x.path = w.path /\ x.comp = w.comp
    BY <1>9, <2>2 DEF Same, Fields
  <2>5. x.comp \in Names /\ Stands(x.path.dentry, x.comp) \subseteq sn
    BY <1>1, <2>4 DEF sn, dir
  <2>6. WalkW(y, "step") /\ LookW(y, "step", sn)
    BY <1>2, <2>1, <2>2, <2>4, <2>5, ManagedStep
  <2> HIDE DEF y
  <2> QED BY <1>1, <1>2, <1>3, <2>3, <2>6, GoStep
<1> QED BY <1>4, <1>5, <1>6, <1>7, <1>8, <1>9

LEMMA ReadsInode == ASSUME WalkInv, ReadInode PROVE WalkInv'
<1> DEFINE x == [w EXCEPT !.cinode = inode[w.child]]
<1>1. pc = "found" /\ UNCHANGED around /\ seen' = seen /\ Goto(x, "check")
  BY DEF ReadInode
<1>2. /\ DcacheInv /\ NamesOnce /\ Fit(w) /\ Owes(w, Nowhere, Nowhere) /\ TypeW(w) /\ IsWalk(w)
  BY <1>1, Ready
<1>3. IsWalk(x) /\ Same(w, x, {"cinode"}) /\ x.cinode = inode[w.child]
  BY <1>2 DEF IsWalk, Fields, Same
<1> HIDE DEF x
<1>4. TypeW(x)
  BY <1>2, <1>3 DEF TypeW, Same, Fields
<1>5. Same(w, x, {"name", "comp", "mode", "child", "cseq", "cinode", "found", "finode",
                  "fseq", "link_inode"})
      /\ x.rcu = w.rcu /\ x.path = w.path /\ x.comp = w.comp /\ x.child = w.child /\ x.cseq = w.cseq
  BY <1>3 DEF Same, Fields
<1>6. Fit(x) /\ Owes(x, Nowhere, Nowhere)
  BY <1>2, <1>4, <1>5, FitSame, EvenOwes
<1>7. /\ w.rcu /\ w.child \in Dentries /\ w.comp \in Names
      /\ Stands(w.path.dentry, w.comp) \subseteq seen /\ w.cseq <= seq[w.child]
      /\ w.cseq = seq[w.child] =>
            w.child \in hashed /\ place[w.child] = <<w.path.dentry, w.comp>>
  BY <1>1 DEF WalkInv, WalkW, PlaceW, LookW
<1>8. WalkW(x, "check") /\ LookW(x, "check", seen)
  BY <1>3, <1>5, <1>6, <1>7, OnFound
<1> QED BY <1>1, <1>2, <1>8, GoStep

\* A walk that has become a ref-walk, and one that could not.
LEMMA RoomUnlazied ==
    ASSUME NEW x, TypeW(x), Room(x), NEW y, Unlazied(x, y)
    PROVE  Room(y) /\ Sane(y) /\ TypeW(y) /\ y.result = x.result /\ y.err = x.err
<1>1. TypeW(y) /\ Sane(y) /\ Len(y.stack) <= Len(x.stack)
  BY DEF Unlazied, Sane
<1>2. y.total = x.total /\ y.alloc = x.alloc /\ y.result = x.result /\ y.err = x.err
  BY DEF Unlazied, Same, Fields
<1> QED BY <1>1, <1>2, RoomSame

LEMMA BaseUnlazied ==
    ASSUME NEW x, x.rcu, Base(x), NEW y, Unlazied(x, y), Kept(x, y), seq[x.path.dentry] = x.seq
    PROVE  Base(y)
<1>1. /\ y.lookup_root = x.lookup_root /\ y.seq = x.seq /\ y.inode = x.inode
      /\ y.result = x.result /\ y.path = x.path /\ y.root = x.root /\ ~y.rcu
  BY DEF Unlazied, Kept, Same, Fields
<1>2. x.inode = inode[x.path.dentry]
  BY DEF Base, Knows
<1> QED BY <1>1, <1>2 DEF Base, Knows

LEMMA LookupFastRcu == ASSUME WalkInv, lookup_fast_rcu PROVE WalkInv'
<1> DEFINE d == w.child
           dir == w.path.dentry
           p == [mnt |-> w.path.mnt, dentry |-> d]
           to == follow_mount(p)
           i == IF to.dentry # d THEN inode[to.dentry] ELSE w.cinode
           s == IF to.dentry # d THEN seq[to.dentry] ELSE w.cseq
           y == [w EXCEPT !.found = to, !.finode = i, !.fseq = s]
<1>1. pc = "check" /\ UNCHANGED around /\ seen' = seen
  BY DEF lookup_fast_rcu
<1>2. /\ DcacheInv /\ NamesOnce /\ Fit(w) /\ Owes(w, Nowhere, Nowhere) /\ TypeW(w) /\ IsWalk(w)
      /\ Sane(w) /\ Room(w) /\ Base(w) /\ w.err = "" /\ w.result = Nowhere
  BY <1>1, Ready
<1>3. /\ w.rcu /\ d \in Dentries /\ w.comp \in Names
      /\ Stands(dir, w.comp) \subseteq seen
      /\ w.cseq = seq[d] => /\ d \in hashed /\ place[d] = <<dir, w.comp>>
                            /\ w.cinode = inode[d]
  BY <1>1 DEF WalkInv, WalkW, PlaceW, LookW
<1>4. \/ Fail(w, "ECHILD")
      \/ ~Stale(w) /\ w.cinode = Null /\ Fail(w, "ENOENT")
      \/ ~Stale(w) /\ w.cinode # Null /\ Goto(y, "step")
      \/ /\ ~Stale(w) /\ w.cinode # Null
         /\ \E late \in BOOLEAN :
              LET r == unlazy_child(w, d, w.cseq, late) IN
              \/ ~r.ok /\ Fail(r.w, "ECHILD")
              \/ r.ok /\ Goto(follow_managed(r.w, d), "step")
  BY DEF lookup_fast_rcu
<1>5. ASSUME ~Stale(w)
      PROVE  /\ d \in Find(dir, w.comp) /\ w.cinode = inode[d] /\ w.cseq = seq[d]
             /\ seq[dir] = w.seq
  BY <1>3, <1>5 DEF Stale, Find
<1> HIDE DEF d, dir
<1>6. CASE Fail(w, "ECHILD")
  BY <1>1, <1>2, <1>6, FailStep
<1>7. CASE ~Stale(w) /\ w.cinode = Null /\ Fail(w, "ENOENT")
  <2>1. Absent \in seen
    BY <1>2, <1>3, <1>5, <1>7, StandsIs
  <2> QED BY <1>1, <1>2, <1>7, <2>1, FailStep
<1>8. ASSUME ~Stale(w), w.cinode # Null
      PROVE  Live(d) /\ <<d, inode[d]>> \in seen
  BY <1>2, <1>3, <1>5, <1>8, StandsIs
<1>9. CASE ~Stale(w) /\ w.cinode # Null /\ Goto(y, "step")
  <2>1. Live(d) /\ <<d, inode[d]>> \in seen /\ w.cinode = inode[d] /\ w.cseq = seq[d]
    BY <1>5, <1>8, <1>9
  <2>2. At(to, FALSE)
    <3>1. w.path \in Paths
      BY <1>2 DEF Base
    <3>2. p \in Paths /\ p.dentry = d
      BY <1>3, <3>1 DEF Paths
    <3>3. At(p, FALSE)
      BY <2>1, <3>2 DEF At, Live
    <3> HIDE DEF p
    <3> QED BY <1>2, <3>3, FollowMount
  <2> HIDE DEF to
  <2>3. to \in Paths /\ Used(to.dentry) /\ to.dentry \in Dentries /\ to \in MaybePaths
    BY <2>2, PathParts DEF At
  <2>4. i = inode[to.dentry] /\ s = seq[to.dentry] /\ s \in Nat
    <3>1. seq[to.dentry] \in Nat
      BY <1>2, <2>3 DEF DcacheInv
    <3> QED BY <2>1, <3>1
  <2> HIDE DEF i, s
  <2>5. /\ IsWalk(y) /\ Same(w, y, {"found", "finode", "fseq"})
        /\ y.found = to /\ y.finode = i /\ y.fseq = s
    BY <1>2, ZenonT(80) DEF IsWalk, Fields, Same
  <2>6. Goto(y, "step")
    BY <1>9
  <2> HIDE DEF y
  <2>7. TypeW(y)
    BY <1>2, <2>3, <2>4, <2>5 DEF TypeW, Same, Fields
  <2>8. Same(w, y, {"name", "comp", "mode", "child", "cseq", "cinode", "found", "finode",
                    "fseq", "link_inode"})
        /\ y.rcu = w.rcu /\ y.path = w.path /\ y.comp = w.comp /\ y.child = w.child
        /\ y.cinode = w.cinode
    BY <2>5 DEF Same, Fields
  <2>9. Fit(y) /\ Owes(y, Nowhere, Nowhere)
    BY <1>2, <2>7, <2>8, FitSame, EvenOwes
  <2>10. HasFound(y) /\ Knows(y, y.found.dentry, y.fseq, y.finode)
    BY <1>3, <2>3, <2>4, <2>5, <2>8 DEF HasFound, Knows
  <2>11. /\ y.comp \in Names /\ Stands(y.path.dentry, y.comp) \subseteq seen
         /\ <<y.child, y.cinode>> \in seen
    BY <1>3, <2>1, <2>8 DEF d, dir
  <2>12. Owes(y, IF y.rcu THEN Nowhere ELSE Beside(y.found, y), Nowhere)
    BY <1>3, <2>8, <2>9
  <2>13. WalkW(y, "step") /\ LookW(y, "step", seen)
    BY <2>9, <2>10, <2>11, <2>12, OnStep
  <2> QED BY <1>1, <1>2, <2>6, <2>13, GoStep
<1>10. ASSUME ~Stale(w), w.cinode # Null, NEW late \in BOOLEAN
       PROVE  LET r == unlazy_child(w, d, w.cseq, late) IN
              /\ ~r.ok /\ Fail(r.w, "ECHILD") => WalkInv'
              /\ r.ok /\ Goto(follow_managed(r.w, d), "step") => WalkInv'
  <2> DEFINE r == unlazy_child(w, d, w.cseq, late)
  <2>1. Live(d) /\ <<d, inode[d]>> \in seen /\ seq[dir] = w.seq
    BY <1>5, <1>8, <1>10
  <2>2. /\ Unlazied(w, r.w) /\ (~r.ok => Even(w, r.w))
        /\ (r.ok => Moves(w, r.w, Alone(d), Nowhere) /\ Kept(w, r.w))
    BY <1>2, <1>3, UnlazyChild DEF Base
  <2> HIDE DEF r
  <2>3. /\ Room(r.w) /\ Sane(r.w) /\ TypeW(r.w) /\ r.w.result = Nowhere /\ r.w.err = ""
    BY <1>2, <2>2, RoomUnlazied
  <2>4. ASSUME ~r.ok, Fail(r.w, "ECHILD") PROVE WalkInv'
    <3>1. Owes(r.w, Nowhere, Nowhere)
      BY <1>2, <2>2, <2>4, EvenOwes
    <3> QED BY <1>1, <1>2, <2>3, <2>4, <3>1, FailStep
  <2>5. ASSUME r.ok, Goto(follow_managed(r.w, d), "step") PROVE WalkInv'
    <3>1. Base(r.w)
      BY <1>2, <1>3, <2>1, <2>2, <2>5, BaseUnlazied DEF dir
    <3>2. Fit(r.w)
      BY <2>3, <3>1 DEF Fit
    <3>3. Owes(r.w, Alone(d), Nowhere)
      BY <1>2, <2>2, <2>3, <2>5, MovesOwes
    <3>4. ~r.w.rcu /\ r.w.path = w.path /\ r.w.comp = w.comp
      BY <2>2, <2>5 DEF Unlazied, Kept, Same, Fields
    <3>5. r.w.comp \in Names /\ Stands(r.w.path.dentry, r.w.comp) \subseteq seen
      BY <1>3, <3>4 DEF dir
    <3>6. PICK y1 : y1 = follow_managed(r.w, d)
      OBVIOUS
    <3>7. WalkW(y1, "step") /\ LookW(y1, "step", seen)
      BY <1>2, <2>1, <3>2, <3>3, <3>4, <3>5, <3>6, ManagedStep
    <3> QED BY <1>1, <1>2, <2>5, <3>6, <3>7, GoStep
  <2> QED BY <2>4, <2>5 DEF r
<1> QED BY <1>4, <1>6, <1>7, <1>9, <1>10

LEMMA OnEnd ==
    ASSUME NEW x, Sane(x), Room(x), Owes(x, Nowhere, x.result), x.err # "" => x.result = Nowhere,
           NEW sn, x.err = "ENOENT" => Absent \in sn
    PROVE  WalkW(x, "end") /\ LookW(x, "end", sn)
<1>1. Held(x, "end") = Nowhere
  BY DEF Held
<1>2. PlaceW(x, "end")
  BY DEF PlaceW, Walking
<1>3. LookW(x, "end", sn)
  BY DEF LookW
<1> QED BY <1>1, <1>2, <1>3 DEF WalkW

LEMMA LeavesRcu == ASSUME WalkInv, LeaveRcu PROVE WalkInv'
<1>1. pc = "unlazy" /\ UNCHANGED around /\ seen' = seen
  BY DEF LeaveRcu
<1>2. Walking(pc) /\ WalkW(w, pc) /\ DcacheInv /\ NamesOnce
  BY <1>1 DEF Walking, WalkInv
<1>3. /\ Sane(w) /\ Room(w) /\ Base(w) /\ TypeW(w) /\ w.result = Nowhere
      /\ Owes(w, Held(w, pc), Nowhere)
  BY <1>2, Under
<1>4. /\ w.rcu /\ w.then \in {"walk", "slow", "end", "stack", "link", "complete"}
      /\ w.then = "stack" => ToStack(w)
      /\ w.then = "link" => ToLink(w)
      /\ w.err = "" \/ (w.err = "ENOTDIR" /\ w.then = "end")
  BY <1>1, <1>2 DEF WalkW, PlaceW
<1>5. /\ w.then = "stack" => Held(w, pc) = w.found
      /\ w.then # "stack" => Held(w, pc) = Nowhere
  BY <1>1 DEF Held
<1>6. w.then = "slow" => w.comp \in Names /\ Stands(w.path.dentry, w.comp) \subseteq seen
  BY <1>1 DEF WalkInv, LookW
<1>7. PICK late \in BOOLEAN :
        LET u == unlazy_walk(w, late) IN
        \/ u.ok /\ Goto(u.w, w.then)
        \/ w.then = "stack" /\ Fail(path_put(u.w, w.found), "ECHILD")
        \/ w.then # "stack" /\ Fail(u.w, "ECHILD")
  BY DEF LeaveRcu
<1> DEFINE u == unlazy_walk(w, late)
           y == u.w
<1>8. /\ Unlazied(w, y) /\ Even(w, y)
      /\ u.ok => Kept(w, y) /\ seq[w.path.dentry] = w.seq
  BY <1>2, <1>3, <1>4, UnlazyWalk
<1>9. \/ u.ok /\ Goto(y, w.then)
      \/ w.then = "stack" /\ Fail(path_put(y, w.found), "ECHILD")
      \/ w.then # "stack" /\ Fail(y, "ECHILD")
  BY <1>7
<1> HIDE DEF u, y
<1>10. /\ Room(y) /\ Sane(y) /\ TypeW(y) /\ y.result = Nowhere /\ y.err = w.err
       /\ Owes(y, Held(w, pc), Nowhere)
  BY <1>3, <1>8, RoomUnlazied, EvenOwes
<1>11. CASE w.then = "stack" /\ Fail(path_put(y, w.found), "ECHILD")
  <2> DEFINE z == path_put(y, w.found)
  <2>1. w.found \in MaybePaths
    BY <1>3 DEF TypeW
  <2>2. Sane(z) /\ TypeW(z) /\ Same(y, z, {"dref", "mref"}) /\ Moves(y, z, Nowhere, w.found)
    BY <1>10, <2>1, SanePut, PathPut, PutMoves
  <2>3. Fail(z, "ECHILD")
    BY <1>11
  <2> HIDE DEF z
  <2>4. z.stack = y.stack /\ z.total = y.total /\ z.alloc = y.alloc /\ z.result = Nowhere
        /\ z.err = y.err
    BY <1>10, <2>2 DEF Same, Fields
  <2>5. Room(z)
    BY <1>10, <2>4 DEF Room
  <2>6. Owes(y, w.found, Nowhere)
    BY <1>5, <1>10, <1>11
  <2>7. Owes(z, Nowhere, Nowhere)
    BY <1>10, <2>2, <2>6, MovesOwes
  <2> QED BY <1>1, <1>2, <1>4, <1>10, <2>2, <2>3, <2>4, <2>5, <2>7, FailStep
<1>12. CASE w.then # "stack" /\ Fail(y, "ECHILD")
  BY <1>1, <1>2, <1>4, <1>5, <1>10, <1>12, FailStep
<1>13. CASE u.ok /\ Goto(y, w.then)
  <2>1. Base(y)
    BY <1>3, <1>4, <1>8, <1>13, BaseUnlazied
  <2>2. /\ ~y.rcu /\ y.comp = w.comp /\ y.path = w.path /\ y.found = w.found
        /\ y.finode = w.finode /\ y.total = w.total /\ y.link_inode = w.link_inode
        /\ Len(y.stack) = Len(w.stack) /\ SameCalls(y.stack, w.stack, Len(w.stack))
    BY <1>8, <1>13 DEF Unlazied, Kept, Same, Fields
  <2>3. w.then # "end" => Fit(y)
    BY <1>4, <1>10, <2>1 DEF Fit
  <2>4. w.then # "stack" => Owes(y, Nowhere, Nowhere)
    BY <1>5, <1>10
  <2>5. WalkW(y, w.then) /\ LookW(y, w.then, seen)
    <3>1. CASE w.then \in {"walk", "complete"}
      BY <2>3, <2>4, <3>1, OnWalk
    <3>2. CASE w.then = "slow"
      BY <1>6, <2>2, <2>3, <2>4, <3>2, OnSlow
    <3>3. CASE w.then = "link"
      <4>1. ToLink(y)
        <5>1. ToLink(w) /\ w.stack \in Seq(Links) /\ y.stack \in Seq(Links)
          BY <1>3, <1>4, <1>10, <3>3 DEF TypeW
        <5>2. Len(w.stack) \in 1 .. Len(w.stack) /\ y.stack # <<>>
          BY <2>2, <5>1 DEF ToLink
        <5> QED BY <2>2, <5>1, <5>2 DEF ToLink, SameCalls
      <4> QED BY <2>3, <2>4, <3>3, <4>1, OnLink
    <3>4. CASE w.then = "stack"
      <4>1. ToStack(y)
        BY <1>4, <2>2, <3>4 DEF ToStack, HasFound
      <4>2. Owes(y, IF y.rcu THEN Nowhere ELSE y.found, Nowhere)
        BY <1>5, <1>10, <2>2, <3>4
      <4> QED BY <2>3, <3>4, <4>1, <4>2, OnStack
    <3>5. CASE w.then = "end"
      BY <1>4, <1>10, <2>4, <3>5, OnEnd
    <3> QED BY <1>4, <3>1, <3>2, <3>3, <3>4, <3>5
  <2> QED BY <1>1, <1>2, <1>13, <2>5, GoStep
<1> QED BY <1>9, <1>11, <1>12, <1>13

-----------------------------------------------------------------------------
(* Into what was found *)

\* The symlink that was found is remembered.
LEMMA PushStep ==
    ASSUME DcacheInv, NamesOnce, UNCHANGED around, seen' = seen,
           NEW x, Fit(x), ToStack(x), Owes(x, IF x.rcu THEN Nowhere ELSE x.found, Nowhere),
           ~x.alloc => Len(x.stack) < EMBEDDED_LEVELS, Push(x)
    PROVE  WalkInv'
<1> DEFINE l == [link |-> x.found, seq |-> x.fseq, done |-> FALSE, name |-> <<>>]
           s == Append(x.stack, l)
           y == [x EXCEPT !.stack = s, !.link_inode = x.finode]
           n == Len(x.stack)
<1>1. Goto(y, "link")
  BY DEF Push
<1>2. /\ Sane(x) /\ TypeW(x) /\ IsWalk(x) /\ Room(x) /\ Base(x) /\ x.err = ""
      /\ x.stack \in Seq(Links) /\ x.found \in MaybePaths /\ x.fseq \in Nat /\ x.rcu \in BOOLEAN
      /\ n \in Nat /\ x.total \in Nat
  BY StackLen DEF Fit, Sane, TypeW
<1>3. l \in Links /\ l.link = x.found /\ ~l.done
  <2>1. <<>> \in Seq(Components)
    BY EmptySeq
  <2> QED BY <1>2, <2>1 DEF Links
<1> HIDE DEF l
<1>4. /\ s \in Seq(Links) /\ Len(s) = n + 1 /\ s[n + 1] = l /\ s # <<>>
      /\ \A i \in 1 .. n : s[i] = x.stack[i]
  <2>1. x.stack \in Seq(Links) /\ l \in Links
    BY <1>2, <1>3
  <2> QED BY <2>1, AppendProperties
<1> HIDE DEF s
<1>5. IsWalk(y) /\ Same(x, y, {"stack", "link_inode"}) /\ y.stack = s /\ y.link_inode = x.finode
  BY <1>2, ZenonT(80) DEF IsWalk, Fields, Same
<1> HIDE DEF y
<1>6. /\ y.total = x.total /\ y.alloc = x.alloc /\ y.err = x.err /\ y.rcu = x.rcu
      /\ y.dref = x.dref /\ y.mref = x.mref /\ y.calls = x.calls /\ y.rcu_lock = x.rcu_lock
      /\ y.path = x.path /\ y.root = x.root /\ y.lookup_root = x.lookup_root
      /\ Same(x, y, Fields \ {"path", "root", "lookup_root", "seq", "inode", "result", "rcu"})
  BY <1>5 DEF Same, Fields
<1>7. TypeW(y)
  BY <1>2, <1>4, <1>5 DEF TypeW, Same, Fields
<1>8. Sane(y)
  <2>1. Calls(s, n) = Calls(x.stack, n)
    BY <1>2, <1>4, CallsCount DEF SameCalls
  <2>2. Calls(s, n + 1) = Calls(s, n) + One(s[n + 1].done) /\ Calls(s, n) \in Nat
    BY <1>2, CallsUp
  <2>3. Calls(y.stack, Len(y.stack)) = Calls(x.stack, n)
    BY <1>3, <1>4, <1>5, <2>1, <2>2 DEF One
  <2> QED BY <1>2, <1>6, <1>7, <2>3 DEF Sane, HoldsLive, LinkCalls
<1>9. Room(y)
  <2>1. n < x.total /\ x.total <= MAXSYMLINKS
    BY DEF ToStack
  <2>2. MAXSYMLINKS \in Nat /\ EMBEDDED_LEVELS \in Nat
    BY WalkAssumption
  <2>3. Len(y.stack) = n + 1
    BY <1>4, <1>5
  <2>4. ~y.alloc => n < EMBEDDED_LEVELS
    BY <1>6
  <2> HIDE DEF n
  <2>5. n \in Nat /\ y.total \in Nat /\ y.total = x.total
    BY <1>2, <1>6
  <2>6. n + 1 <= y.total /\ y.total <= MAXSYMLINKS + 1 /\ n + 1 <= MAXSYMLINKS
    BY <2>1, <2>2, <2>5
  <2>7. ~y.alloc => n + 1 <= EMBEDDED_LEVELS
    BY <2>2, <2>4, <2>5
  <2>8. ~(y.total > MAXSYMLINKS)
    BY <2>1, <2>2, <2>5
  <2> QED BY <2>3, <2>6, <2>7, <2>8 DEF Room
<1>10. Base(y)
  BY <1>2, <1>6, BaseSame
<1>11. ToLink(y)
  BY <1>3, <1>4, <1>5 DEF ToLink, ToStack
<1>12. Owes(y, Nowhere, Nowhere)
  <2>1. CASE x.rcu
    BY <1>6, <2>1, RcuEven, EvenOwes
  <2>2. CASE ~x.rcu
    <3>1. \A d : StackD(s, n, d) = StackD(x.stack, n, d) /\ StackM(s, n, d) = StackM(x.stack, n, d)
      BY <1>2, <1>4, LinksCount, ZenonT(80) DEF SameLinks
    <3>2. ASSUME NEW d
          PROVE  /\ StackD(s, n + 1, d) = StackD(x.stack, n, d) + One(x.found.dentry = d)
                 /\ StackM(s, n + 1, d) = StackM(x.stack, n, d) + One(x.found.mnt = d)
                 /\ StackD(x.stack, n, d) \in Int /\ StackM(x.stack, n, d) \in Int
      <4>0. n \in Nat
        BY <1>2
      <4>1. /\ StackD(s, n + 1, d) = StackD(s, n, d) + One(s[n + 1].link.dentry = d)
            /\ StackD(s, n, d) \in Nat
        BY <4>0, StackDUp, SMTT(40)
      <4>2. /\ StackM(s, n + 1, d) = StackM(s, n, d) + One(s[n + 1].link.mnt = d)
            /\ StackM(s, n, d) \in Nat
        BY <4>0, StackMUp, SMTT(40)
      <4>3. s[n + 1].link = x.found
        BY <1>3, <1>4
      <4> HIDE DEF n
      <4> QED BY <3>1, <4>1, <4>2, <4>3
    <3>3. ASSUME NEW d \in Dentries PROVE DebtD(y, d) + One(x.found.dentry = d) = DebtD(x, d)
      <4>1. PICK a, b, c : a = One(x.path.dentry = d) /\ b = One(OwnRoot(x) /\ x.root.dentry = d)
                           /\ c = One(x.found.dentry = d)
        OBVIOUS
      <4>2. a \in Int /\ b \in Int /\ c \in Int /\ x.dref[d] \in Int
        BY <1>2, <4>1, OneInt, DebtInt
      <4>3. DebtD(x, d) = x.dref[d] - (a + StackD(x.stack, n, d) + b)
        BY <2>2, <4>1 DEF DebtD, CoreD
      <4>4. DebtD(y, d) = x.dref[d] - (a + StackD(s, n + 1, d) + b)
        BY <1>4, <1>5, <1>6, <2>2, <4>1 DEF DebtD, CoreD, OwnRoot
      <4>5. StackD(s, n + 1, d) = StackD(x.stack, n, d) + c /\ StackD(x.stack, n, d) \in Int
        BY <3>2, <4>1
      <4>6. PICK e : e = StackD(x.stack, n, d)
        OBVIOUS
      <4> QED BY <4>1, <4>2, <4>3, <4>4, <4>5, <4>6, SMTT(40)
    <3>4. ASSUME NEW m \in Mounts PROVE DebtM(y, m) + One(x.found.mnt = m) = DebtM(x, m)
      <4>1. PICK a, b, c : a = One(x.path.mnt = m) /\ b = One(OwnRoot(x) /\ x.root.mnt = m)
                           /\ c = One(x.found.mnt = m)
        OBVIOUS
      <4>2. a \in Int /\ b \in Int /\ c \in Int /\ x.mref[m] \in Int
        BY <1>2, <4>1, OneInt, DebtInt
      <4>3. DebtM(x, m) = x.mref[m] - (a + StackM(x.stack, n, m) + b)
        BY <2>2, <4>1 DEF DebtM, CoreM
      <4>4. DebtM(y, m) = x.mref[m] - (a + StackM(s, n + 1, m) + b)
        BY <1>4, <1>5, <1>6, <2>2, <4>1 DEF DebtM, CoreM, OwnRoot
      <4>5. StackM(s, n + 1, m) = StackM(x.stack, n, m) + c /\ StackM(x.stack, n, m) \in Int
        BY <3>2, <4>1
      <4>6. PICK e : e = StackM(x.stack, n, m)
        OBVIOUS
      <4>7. DebtM(y, m) + c = DebtM(x, m)
        BY <4>2, <4>3, <4>4, <4>5, <4>6
      <4> QED BY <4>1, <4>7
    <3>5. Moves(x, y, Nowhere, x.found)
      <4>1. ASSUME NEW d \in Dentries PROVE DebtD(x, d) + One(Nowhere.dentry = d) = DebtD(x, d)
        <5>1. One(Nowhere.dentry = d) = 0 /\ DebtD(x, d) \in Int
          BY <1>2, NoOne, DebtInt
        <5> QED BY <5>1
      <4>2. ASSUME NEW m \in Mounts PROVE DebtM(x, m) + One(Nowhere.mnt = m) = DebtM(x, m)
        <5>1. One(Nowhere.mnt = m) = 0 /\ DebtM(x, m) \in Int
          BY <1>2, NoOne, DebtInt
        <5> QED BY <5>1
      <4> QED BY <3>3, <3>4, <4>1, <4>2 DEF Moves
    <3>6. Owes(x, x.found, Nowhere)
      BY <2>2
    <3> QED BY <1>2, <1>7, <3>5, <3>6, MovesOwes
  <2> QED BY <1>2, <2>1, <2>2
<1>13. Fit(y)
  BY <1>2, <1>6, <1>8, <1>9, <1>10 DEF Fit
<1>14. WalkW(y, "link") /\ LookW(y, "link", seen)
  BY <1>11, <1>12, <1>13, OnLink
<1> QED BY <1>1, <1>14, GoStep

\* A mount reference for a symlink on the mount of the path.
LEMMA PickMoves ==
    ASSUME NEW x, Sane(x), NEW p \in Paths, ~x.rcu
    PROVE  LET y == [x EXCEPT !.mref = Add(@, p.mnt, 1)]
               z == IF p.mnt # x.path.mnt THEN x ELSE y
           IN  Sane(z) /\ Same(x, z, {"mref"}) /\ Moves(x, z, p, Beside(p, x))
<1> DEFINE y == [x EXCEPT !.mref = Add(@, p.mnt, 1)]
           z == IF p.mnt # x.path.mnt THEN x ELSE y
<1> SUFFICES Sane(z) /\ Same(x, z, {"mref"}) /\ Moves(x, z, p, Beside(p, x))
  OBVIOUS
<1>1. p.mnt \in Mounts /\ p.dentry \in Dentries /\ p = [mnt |-> p.mnt, dentry |-> p.dentry]
  BY PathParts
<1>2. TypeW(x)
  BY DEF Sane
<1>3. CASE p.mnt # x.path.mnt
  <2>1. z = x /\ Beside(p, x) = p
    BY <1>1, <1>3 DEF Beside
  <2> QED BY <2>1 DEF Same, Moves
<1>4. CASE p.mnt = x.path.mnt
  <2>1. z = y
    BY <1>4
  <2>2. 1 \in Int /\ p.mnt \in Mounts \union {Null}
    BY <1>1
  <2>3. /\ Sane(y) /\ TypeW(y) /\ Same(x, y, {"mref"})
        /\ \A m \in Mounts : y.mref[m] = x.mref[m] + (IF p.mnt = m THEN 1 ELSE 0)
    BY <2>2, SaneM
  <2> HIDE DEF y, z
  <2>4. Beside(p, x) = [mnt |-> Null, dentry |-> p.dentry]
    BY <1>4 DEF Beside
  <2>5. ASSUME NEW m \in Mounts
        PROVE  DebtM(y, m) + One(Beside(p, x).mnt = m) = DebtM(x, m) + One(p.mnt = m)
    <3>1. CoreM(y, m) = CoreM(x, m)
      <4>1. Same(x, y, {"dref", "mref"})
        BY <2>3 DEF Same
      <4> QED BY <4>1, CoreSame
    <3>2. One(Beside(p, x).mnt = m) = 0
      BY <2>4, NoOne
    <3>3. y.mref[m] = x.mref[m] + One(p.mnt = m)
      BY <2>3 DEF One
    <3>4. PICK c, o : c = CoreM(x, m) /\ o = One(p.mnt = m)
      OBVIOUS
    <3>5. c \in Int /\ o \in Int /\ x.mref[m] \in Int /\ y.mref[m] \in Int
      BY <1>2, <2>3, <3>4, CoreInt, OneInt, DebtInt
    <3> QED BY <3>1, <3>2, <3>3, <3>4, <3>5 DEF DebtM
  <2>6. ASSUME NEW d \in Dentries
        PROVE  DebtD(y, d) + One(Beside(p, x).dentry = d) = DebtD(x, d) + One(p.dentry = d)
    <3>1. CoreD(y, d) = CoreD(x, d) /\ y.dref = x.dref
      <4>1. Same(x, y, {"dref", "mref"}) /\ y.dref = x.dref
        BY <2>3 DEF Same, Fields
      <4> QED BY <4>1, CoreSame
    <3> QED BY <2>4, <3>1 DEF DebtD
  <2> QED BY <2>1, <2>3, <2>5, <2>6 DEF Moves
<1> QED BY <1>3, <1>4

\* The path becomes what was found.
LEMMA IntoFound ==
    ASSUME NEW x, Fit(x), HasFound(x), NEW y, y = path_to_nameidata(x, x.found),
           Owes(x, IF x.rcu THEN Nowhere ELSE Beside(x.found, x), Nowhere)
    PROVE  /\ Sane(y) /\ Owes(y, Nowhere, Nowhere) /\ y.path = x.found
           /\ Same(x, y, {"path", "dref", "mref"})
<1>1. Sane(x) /\ TypeW(x) /\ x.path \in Paths /\ x.found \in Paths /\ x.rcu \in BOOLEAN
  BY DEF Fit, Base, HasFound, Sane, TypeW
<1>2. /\ Sane(y) /\ Same(x, y, {"path", "dref", "mref"}) /\ y.path = x.found
      /\ x.rcu => Even(x, y)
      /\ ~x.rcu => Moves(x, y, Nowhere, Beside(x.found, x))
  BY <1>1, PathToNameidata
<1>3. CASE x.rcu
  <2>1. Owes(x, Nowhere, Nowhere)
    BY <1>3
  <2> QED BY <1>2, <1>3, <2>1, EvenOwes
<1>4. CASE ~x.rcu
  <2>1. Owes(x, Beside(x.found, x), Nowhere) /\ TypeW(y)
    BY <1>2, <1>4 DEF Sane
  <2> QED BY <1>1, <1>2, <1>4, <2>1, MovesOwes
<1> QED BY <1>1, <1>3, <1>4

\* One more symlink.
LEMMA OneMore ==
    ASSUME NEW n \in Nat, NEW t \in Nat, NEW k \in Nat, n <= t, ~(t > k)
    PROVE  /\ t + 1 \in Nat /\ n < t + 1 /\ n <= t + 1 /\ t + 1 <= k + 1
           /\ t < k => t + 1 <= k /\ ~(t + 1 > k)
OBVIOUS

LEMMA RoomMore ==
    ASSUME NEW x, NEW y, Room(x), TypeW(x), y.stack = x.stack, y.alloc = x.alloc,
           y.total = x.total + 1, x.err = ""
    PROVE  /\ y.total \in Nat /\ Len(y.stack) < y.total /\ y.total <= MAXSYMLINKS + 1
           /\ x.total < MAXSYMLINKS => y.total <= MAXSYMLINKS /\ Room(y)
           /\ y.err = "ELOOP" => Room(y)
<1>1. PICK n, t : n = Len(x.stack) /\ t = x.total
  OBVIOUS
<1>2. /\ n \in Nat /\ t \in Nat /\ MAXSYMLINKS \in Nat
  BY <1>1, StackLen, WalkAssumption DEF TypeW
<1>3. n <= t /\ n <= MAXSYMLINKS /\ ~(t > MAXSYMLINKS)
  BY <1>1 DEF Room
<1>4. ~x.alloc => n <= EMBEDDED_LEVELS
  BY <1>1 DEF Room
<1>5. /\ t + 1 \in Nat /\ n < t + 1 /\ n <= t + 1 /\ t + 1 <= MAXSYMLINKS + 1
      /\ t < MAXSYMLINKS => t + 1 <= MAXSYMLINKS /\ ~(t + 1 > MAXSYMLINKS)
  BY <1>2, <1>3, OneMore
<1>6. y.total = t + 1 /\ Len(y.stack) = n
  BY <1>1
<1> QED BY <1>1, <1>3, <1>4, <1>5, <1>6 DEF Room

LEMMA PickStep ==
    ASSUME DcacheInv, NamesOnce, UNCHANGED around, seen' = seen,
           NEW x, Fit(x), HasFound(x), x.finode \in Symlinks, pick_link(x),
           Owes(x, IF x.rcu THEN Nowhere ELSE Beside(x.found, x), Nowhere)
    PROVE  WalkInv'
<1> DEFINE y == [x EXCEPT !.total = @ + 1]
           z == IF x.rcu \/ x.found.mnt # x.path.mnt THEN y
                ELSE [y EXCEPT !.mref = Add(@, x.found.mnt, 1)]
           v == path_to_nameidata(y, x.found)
           e == [v EXCEPT !.err = "ELOOP"]
<1>1. \/ Goto(e, "end")
      \/ x.total < MAXSYMLINKS /\ NeedsStack(x) /\ Goto(z, "stack")
      \/ x.total < MAXSYMLINKS /\ ~NeedsStack(x) /\ Push(z)
  <2>1. x.total \in Nat /\ MAXSYMLINKS \in Nat
    BY WalkAssumption DEF Fit, Sane, TypeW
  <2> QED BY <2>1 DEF pick_link, Fail
<1>2. /\ Sane(x) /\ TypeW(x) /\ IsWalk(x) /\ Room(x) /\ Base(x) /\ x.err = "" /\ x.rcu \in BOOLEAN
      /\ x.total \in Nat /\ x.result = Nowhere /\ x.found \in Paths /\ x.found \in MaybePaths
  BY PathParts DEF Fit, Sane, TypeW, Base, HasFound
<1>3. IsWalk(y) /\ Same(x, y, {"total"}) /\ y.total = x.total + 1
  BY <1>2, ZenonT(80) DEF IsWalk, Fields, Same
<1> HIDE DEF y
<1>4. /\ Same(x, y, Fields \ {"dref", "stack", "calls", "rcu", "rcu_lock"})
      /\ Same(x, y, Fields \ {"dref", "mref", "stack", "rcu", "path", "root", "lookup_root"})
      /\ Same(x, y, Fields \ {"path", "root", "lookup_root", "seq", "inode", "result", "rcu"})
      /\ y.stack = x.stack /\ y.alloc = x.alloc /\ y.rcu = x.rcu /\ y.err = "" /\ y.found = x.found
      /\ y.path = x.path /\ y.result = Nowhere /\ y.finode = x.finode
  BY <1>2, <1>3 DEF Same, Fields
<1>5. TypeW(y)
  <2>1. y.total \in Nat
    <3>1. y.stack = x.stack /\ y.alloc = x.alloc
      BY <1>3 DEF Same, Fields
    <3> QED BY <1>2, <1>3, <3>1, RoomMore
  <2> QED BY <1>2, <1>3, <2>1 DEF TypeW, Same, Fields
<1>6. Sane(y) /\ Even(x, y) /\ Base(y)
  BY <1>2, <1>4, <1>5, SaneSame, EvenSame, BaseSame
<1>7. /\ Beside(y.found, y) = Beside(x.found, x)
      /\ Owes(y, IF y.rcu THEN Nowhere ELSE Beside(y.found, y), Nowhere) /\ HasFound(y)
  <2>1. Beside(y.found, y) = Beside(x.found, x)
    BY <1>4 DEF Beside
  <2>2. HasFound(y)
    BY <1>4 DEF HasFound
  <2>3. Owes(y, IF x.rcu THEN Nowhere ELSE Beside(x.found, x), Nowhere)
    BY <1>6, EvenOwes
  <2> QED BY <1>4, <2>1, <2>2, <2>3
<1>8. CASE Goto(e, "end")
  <2>1. /\ Sane(v) /\ Owes(v, Nowhere, Nowhere) /\ Same(y, v, {"path", "dref", "mref"})
    <3>1. y.path \in Paths /\ TypeW(y)
      BY <1>5, <1>6 DEF Base
    <3>2. /\ Sane(v) /\ Same(y, v, {"path", "dref", "mref"})
          /\ y.rcu => Even(y, v)
          /\ ~y.rcu => Moves(y, v, Nowhere, Beside(x.found, y))
      BY <1>2, <1>6, <3>1, PathToNameidata
    <3> HIDE DEF v
    <3>3. CASE y.rcu
      BY <1>7, <3>2, <3>3, EvenOwes
    <3>4. CASE ~y.rcu
      <4>1. Owes(y, Beside(x.found, y), Nowhere) /\ TypeW(v)
        BY <1>4, <1>7, <3>2, <3>4 DEF Sane
      <4> QED BY <3>1, <3>2, <3>4, <4>1, MovesOwes
    <3> QED BY <1>2, <1>4, <3>3, <3>4
  <2> HIDE DEF v
  <2>2. TypeW(v) /\ IsWalk(v)
    BY <2>1 DEF Sane, TypeW
  <2>3. IsWalk(e) /\ Same(v, e, {"err"}) /\ e.err = "ELOOP"
    BY <2>2 DEF IsWalk, Fields, Same
  <2>4. Goto(e, "end")
    BY <1>8
  <2> HIDE DEF e
  <2>5. TypeW(e)
    BY <2>2, <2>3 DEF TypeW, Same, Fields
  <2>6. /\ Same(v, e, Fields \ {"dref", "stack", "calls", "rcu", "rcu_lock"})
        /\ Same(v, e, Fields \ {"dref", "mref", "stack", "rcu", "path", "root", "lookup_root"})
        /\ e.stack = v.stack /\ e.total = v.total /\ e.alloc = v.alloc /\ e.result = v.result
    BY <2>3 DEF Same, Fields
  <2>7. /\ v.stack = y.stack /\ v.total = y.total /\ v.alloc = y.alloc /\ v.result = y.result
    BY <2>1 DEF Same, Fields
  <2>8. Sane(e) /\ Owes(e, Nowhere, Nowhere)
    BY <2>1, <2>5, <2>6, SaneSame, EvenSame, EvenOwes
  <2>9. Room(e)
    <3>1. e.stack = x.stack /\ e.total = x.total + 1 /\ e.alloc = x.alloc
      BY <1>3, <1>4, <2>6, <2>7
    <3> QED BY <1>2, <2>3, <3>1, RoomMore
  <2>10. e.result = Nowhere
    BY <1>4, <2>6, <2>7
  <2>11. WalkW(e, "end") /\ LookW(e, "end", seen)
    BY <2>3, <2>8, <2>9, <2>10, OnEnd
  <2> QED BY <2>4, <2>11, GoStep
<1>9. ASSUME x.total < MAXSYMLINKS
      PROVE  /\ Fit(z) /\ Same(y, z, {"mref"}) /\ ToStack(z)
             /\ Owes(z, IF z.rcu THEN Nowhere ELSE z.found, Nowhere)
  <2>1. CASE x.rcu
    <3>1. z = y
      BY <2>1
    <3>2. Owes(y, IF y.rcu THEN Nowhere ELSE y.found, Nowhere)
      BY <1>4, <1>7, <2>1
    <3>3. Same(y, y, {"mref"})
      BY DEF Same
    <3> HIDE DEF z
    <3>4. Fit(y) /\ ToStack(y)
      <4>1. Room(y) /\ Len(y.stack) < y.total /\ y.total <= MAXSYMLINKS
        BY <1>2, <1>3, <1>4, <1>9, RoomMore
      <4> QED BY <1>4, <1>6, <1>7, <4>1 DEF Fit, ToStack
    <3> QED BY <3>1, <3>2, <3>3, <3>4
  <2>2. CASE ~x.rcu
    <3>1. z = IF x.found.mnt # y.path.mnt THEN y ELSE [y EXCEPT !.mref = Add(@, x.found.mnt, 1)]
      BY <1>4, <2>2
    <3>2. ~y.rcu
      BY <1>4, <2>2
    <3>3. Sane(z) /\ Same(y, z, {"mref"}) /\ Moves(y, z, x.found, Beside(x.found, y))
      BY <1>2, <1>6, <3>1, <3>2, PickMoves
    <3> HIDE DEF z
    <3>4. TypeW(z)
      BY <3>3 DEF Sane
    <3>5. Owes(z, x.found, Nowhere)
      <4>1. Owes(y, Beside(x.found, y), Nowhere)
        BY <1>4, <1>7, <3>2
      <4> QED BY <1>5, <3>3, <3>4, <4>1, MovesOwes
    <3>6. /\ Same(y, z, Fields \ {"path", "root", "lookup_root", "seq", "inode", "result", "rcu"})
          /\ z.stack = x.stack /\ z.total = x.total + 1 /\ z.alloc = x.alloc /\ ~z.rcu
          /\ z.err = "" /\ z.found = x.found /\ z.finode = x.finode
      BY <1>3, <1>4, <3>2, <3>3 DEF Same, Fields
    <3>7. Room(z) /\ Len(z.stack) < z.total /\ z.total <= MAXSYMLINKS
      BY <1>2, <1>9, <3>6, RoomMore
    <3>8. Base(z)
      BY <1>6, <3>6, BaseSame
    <3>9. HasFound(z)
      BY <3>6 DEF HasFound
    <3> QED BY <3>3, <3>5, <3>6, <3>7, <3>8, <3>9 DEF Fit, ToStack
  <2> QED BY <1>2, <2>1, <2>2
<1>10. CASE x.total < MAXSYMLINKS /\ Goto(z, "stack")
  <2> HIDE DEF z
  <2>1. WalkW(z, "stack") /\ LookW(z, "stack", seen)
    BY <1>9, <1>10, OnStack
  <2> QED BY <1>10, <2>1, GoStep
<1>11. CASE x.total < MAXSYMLINKS /\ ~NeedsStack(x) /\ Push(z)
  <2> HIDE DEF z
  <2>1. z.stack = x.stack /\ z.alloc = x.alloc
    BY <1>4, <1>9, <1>11 DEF Same, Fields
  <2>2. ~z.alloc => Len(z.stack) < EMBEDDED_LEVELS
    <3>1. PICK n : n = Len(x.stack)
      OBVIOUS
    <3>2. n \in Nat /\ EMBEDDED_LEVELS \in Nat
      BY <1>2, <3>1, StackLen, WalkAssumption
    <3>3. ~x.alloc => n <= EMBEDDED_LEVELS /\ n # EMBEDDED_LEVELS
      BY <1>2, <1>11, <3>1 DEF NeedsStack, Room
    <3> QED BY <2>1, <3>1, <3>2, <3>3
  <2> QED BY <1>9, <1>11, <2>2, PushStep
<1> QED BY <1>1, <1>8, <1>10, <1>11

LEMMA StepInto == ASSUME WalkInv, step_into PROVE WalkInv'
<1> DEFINE x == DropLink(w)
           y == path_to_nameidata(x, x.found)
           v == [y EXCEPT !.inode = x.finode, !.seq = x.fseq]
<1>1. pc = "step" /\ UNCHANGED around /\ seen' = seen
  BY DEF step_into
<1>2. DcacheInv /\ NamesOnce /\ WalkW(w, pc) /\ Walking(pc) /\ pc # "unlazy"
  BY <1>1 DEF WalkInv, Walking
<1>3. /\ Fit(w) /\ Owes(w, Held(w, pc), Nowhere) /\ HasFound(w)
      /\ Knows(w, w.found.dentry, w.fseq, w.finode)
  <2>1. PlaceW(w, pc)
    BY <1>2 DEF WalkW
  <2> QED BY <1>1, <1>2, <2>1, Under DEF PlaceW
<1>4. Held(w, pc) = IF w.rcu THEN Nowhere ELSE Beside(w.found, w)
  BY <1>1 DEF Held
<1>5. /\ Fit(x) /\ Sane(x) /\ Even(w, x) /\ Same(w, x, {"stack", "calls", "dref", "mref"})
  BY <1>3, FitDrop
<1>6. \/ Arrived(v)
      \/ x.rcu /\ Fail(x, "ECHILD")
      \/ /\ inode[x.found.dentry] \in Symlinks /\ (x.rcu => seq[x.found.dentry] = x.fseq)
         /\ pick_link(x)
  BY DEF step_into
<1> HIDE DEF x
<1>7. /\ x.found = w.found /\ x.finode = w.finode /\ x.fseq = w.fseq /\ x.rcu = w.rcu
      /\ x.path = w.path
  BY <1>5 DEF Same, Fields
<1>8. /\ HasFound(x) /\ Knows(x, x.found.dentry, x.fseq, x.finode)
      /\ Owes(x, IF x.rcu THEN Nowhere ELSE Beside(x.found, x), Nowhere)
  <2>1. HasFound(x) /\ Knows(x, x.found.dentry, x.fseq, x.finode)
    BY <1>3, <1>7 DEF HasFound, Knows
  <2>2. Beside(x.found, x) = Beside(w.found, w)
    BY <1>7 DEF Beside
  <2>3. Owes(x, Held(w, pc), Nowhere)
    BY <1>3, <1>5, EvenOwes
  <2> QED BY <1>4, <1>7, <2>1, <2>2, <2>3
<1>9. CASE x.rcu /\ Fail(x, "ECHILD")
  <2>1. Room(x) /\ x.result = Nowhere /\ x.err # "ELOOP" /\ Owes(x, Nowhere, Nowhere)
    BY <1>5, <1>8, <1>9 DEF Fit, Base
  <2> QED BY <1>1, <1>2, <1>5, <1>9, <2>1, FailStep
<1>10. CASE /\ inode[x.found.dentry] \in Symlinks /\ (x.rcu => seq[x.found.dentry] = x.fseq)
            /\ pick_link(x)
  <2>1. x.finode = inode[x.found.dentry]
    BY <1>8, <1>10 DEF Knows
  <2>2. x.finode \in Symlinks /\ pick_link(x)
    BY <1>10, <2>1
  <2> QED BY <1>1, <1>2, <1>5, <1>8, <2>2, PickStep
<1>11. CASE Arrived(v)
  <2>1. /\ Sane(y) /\ Owes(y, Nowhere, Nowhere) /\ y.path = x.found
        /\ Same(x, y, {"path", "dref", "mref"})
    BY <1>5, <1>8, IntoFound
  <2> HIDE DEF y
  <2>2. TypeW(y) /\ IsWalk(y) /\ TypeW(x)
    BY <1>5, <2>1 DEF Sane, TypeW
  <2>3. /\ IsWalk(v) /\ Same(y, v, {"inode", "seq"}) /\ v.inode = x.finode /\ v.seq = x.fseq
    BY <2>2 DEF IsWalk, Fields, Same
  <2>4. Arrived(v)
    BY <1>11
  <2> HIDE DEF v
  <2>5. TypeW(v)
    BY <2>2, <2>3 DEF TypeW, Same, Fields
  <2>6. /\ Same(y, v, Fields \ {"dref", "stack", "calls", "rcu", "rcu_lock"})
        /\ Same(y, v, Fields \ {"dref", "mref", "stack", "rcu", "path", "root", "lookup_root"})
        /\ v.path = y.path
    BY <2>3 DEF Same, Fields
  <2>7. Sane(v) /\ Owes(v, Nowhere, Nowhere)
    BY <2>1, <2>5, <2>6, SaneSame, EvenSame, EvenOwes
  <2>8. /\ v.stack = x.stack /\ v.total = x.total /\ v.alloc = x.alloc /\ v.err = x.err
        /\ v.lookup_root = x.lookup_root /\ v.root = x.root /\ v.result = x.result /\ v.rcu = x.rcu
    BY <2>1, <2>3 DEF Same, Fields
  <2>9. Room(v)
    BY <1>5, <2>8 DEF Room, Fit
  <2>10. Base(v)
    BY <1>5, <1>8, <2>1, <2>3, <2>6, <2>8 DEF Base, Fit, HasFound, Knows
  <2>11. Fit(v)
    BY <1>5, <2>7, <2>8, <2>9, <2>10 DEF Fit
  <2> QED BY <1>1, <1>2, <2>4, <2>7, <2>11, ArrivedStep
<1> QED BY <1>6, <1>9, <1>10, <1>11

LEMMA NdAllocStack == ASSUME WalkInv, nd_alloc_stack PROVE WalkInv'
<1> DEFINE a == [w EXCEPT !.alloc = TRUE]
<1>1. pc = "stack" /\ UNCHANGED around /\ seen' = seen
  BY DEF nd_alloc_stack
<1>2. DcacheInv /\ NamesOnce /\ WalkW(w, pc) /\ Walking(pc) /\ pc # "unlazy"
  BY <1>1 DEF WalkInv, Walking
<1>3. /\ Fit(w) /\ Owes(w, Held(w, pc), Nowhere) /\ ToStack(w)
  <2>1. PlaceW(w, pc)
    BY <1>2 DEF WalkW
  <2> QED BY <1>1, <1>2, <2>1, Under DEF PlaceW
<1>4. Owes(w, IF w.rcu THEN Nowhere ELSE w.found, Nowhere)
  <2>1. Held(w, pc) = IF w.rcu THEN Nowhere ELSE w.found
    BY <1>1 DEF Held
  <2> QED BY <1>3, <2>1
<1>5. /\ Sane(w) /\ TypeW(w) /\ IsWalk(w) /\ Room(w) /\ Base(w) /\ w.err = "" /\ w.rcu \in BOOLEAN
      /\ w.result = Nowhere /\ w.found \in MaybePaths
  BY <1>3 DEF Fit, Sane, TypeW, Base
<1>6. \/ Push(a)
      \/ ~w.rcu /\ Fail(path_put(w, w.found), "ENOMEM")
      \/ w.rcu /\ \E late \in BOOLEAN :
            LET l == legitimize_path(w, w.found, w.fseq, late)
                lost == drop_root([drop_links(unlocked(l.w)) EXCEPT
                                   !.stack = <<>>, !.path = Nowhere])
            IN \/ l.ok /\ Unlazy(l.w, "stack")
               \/ Fail(path_put(lost, l.path), "ECHILD")
  BY DEF nd_alloc_stack
<1>7. CASE Push(a)
  <2>1. IsWalk(a) /\ Same(w, a, {"alloc"}) /\ a.alloc
    BY <1>5, ZenonT(80) DEF IsWalk, Fields, Same
  <2>2. a.alloc \in BOOLEAN
    BY <1>5, Zenon DEF IsWalk, Fields
  <2>3. Push(a)
    BY <1>7
  <2> HIDE DEF a
  <2>4. TypeW(a)
    BY <1>5, <2>1, <2>2 DEF TypeW, Same, Fields
  <2>5. /\ Same(w, a, Fields \ {"dref", "stack", "calls", "rcu", "rcu_lock"})
        /\ Same(w, a, Fields \ {"dref", "mref", "stack", "rcu", "path", "root", "lookup_root"})
        /\ Same(w, a, Fields \ {"path", "root", "lookup_root", "seq", "inode", "result", "rcu"})
        /\ a.stack = w.stack /\ a.total = w.total /\ a.err = w.err
        /\ a.rcu = w.rcu /\ a.found = w.found /\ a.finode = w.finode
    BY <2>1 DEF Same, Fields
  <2>6. Sane(a) /\ Even(w, a) /\ Base(a)
    BY <1>5, <2>4, <2>5, SaneSame, EvenSame, BaseSame
  <2>7. Room(a) /\ ToStack(a)
    BY <1>3, <1>5, <2>1, <2>5 DEF Room, ToStack, HasFound
  <2>8. Fit(a)
    BY <1>5, <2>5, <2>6, <2>7 DEF Fit
  <2>9. Owes(a, IF a.rcu THEN Nowhere ELSE a.found, Nowhere)
    <3>1. Owes(a, IF w.rcu THEN Nowhere ELSE w.found, Nowhere)
      BY <1>4, <2>6, EvenOwes
    <3> QED BY <2>5, <3>1
  <2> QED BY <1>1, <1>2, <2>1, <2>3, <2>7, <2>8, <2>9, PushStep
<1>8. CASE ~w.rcu /\ Fail(path_put(w, w.found), "ENOMEM")
  <2> DEFINE z == path_put(w, w.found)
  <2>1. Sane(z) /\ TypeW(z) /\ Same(w, z, {"dref", "mref"}) /\ Moves(w, z, Nowhere, w.found)
    BY <1>5, SanePut, PathPut, PutMoves
  <2>2. Fail(z, "ENOMEM")
    BY <1>8
  <2> HIDE DEF z
  <2>3. z.stack = w.stack /\ z.total = w.total /\ z.alloc = w.alloc /\ z.result = Nowhere /\ z.err = ""
    BY <1>5, <2>1 DEF Same, Fields
  <2>4. Room(z)
    BY <1>5, <2>3 DEF Room
  <2>5. Owes(w, w.found, Nowhere)
    BY <1>4, <1>8
  <2>6. Owes(z, Nowhere, Nowhere)
    BY <1>5, <2>1, <2>5, MovesOwes
  <2> QED BY <1>1, <1>2, <2>1, <2>2, <2>3, <2>4, <2>6, FailStep
<1>9. ASSUME w.rcu, NEW late \in BOOLEAN
      PROVE  LET l == legitimize_path(w, w.found, w.fseq, late)
                 lost == drop_root([drop_links(unlocked(l.w)) EXCEPT
                                    !.stack = <<>>, !.path = Nowhere])
             IN /\ l.ok /\ Unlazy(l.w, "stack") => WalkInv'
                /\ Fail(path_put(lost, l.path), "ECHILD") => WalkInv'
  <2> DEFINE l == legitimize_path(w, w.found, w.fseq, late)
             x == l.w
             p == l.path
             b == unlocked(x)
             c == drop_links(b)
             e == [c EXCEPT !.stack = <<>>, !.path = Nowhere]
             lost == drop_root(e)
             z == path_put(lost, p)
  <2>1. /\ x = path_get(w, p) /\ p \in MaybePaths /\ p.dentry \notin killed
        /\ Sane(x) /\ Same(w, x, {"dref", "mref"}) /\ (l.ok => p = w.found)
    <3>1. Sane(w) /\ w.found \in MaybePaths
      BY <1>5
    <3> QED BY <1>2, <3>1, LegitPath
  <2>2. Moves(w, x, p, Nowhere)
    <3> HIDE DEF x, p
    <3> QED BY <1>5, <2>1, GetMoves
  <2> SUFFICES /\ l.ok /\ Unlazy(x, "stack") => WalkInv'
               /\ Fail(z, "ECHILD") => WalkInv'
    OBVIOUS
  <2> HIDE DEF l, x, p
  <2>3. TypeW(x) /\ IsWalk(x)
    BY <2>1 DEF Sane, TypeW
  <2>4. Owes(x, p, Nowhere)
    <3>1. Owes(w, Nowhere, Nowhere)
      BY <1>4, <1>9
    <3> QED BY <1>5, <2>2, <2>3, <3>1, MovesOwes
  <2>5. /\ Same(w, x, Fields \ {"path", "root", "lookup_root", "seq", "inode", "result", "rcu"})
        /\ x.stack = w.stack /\ x.total = w.total /\ x.alloc = w.alloc /\ x.err = "" /\ x.rcu
        /\ x.found = w.found /\ x.finode = w.finode /\ x.result = Nowhere
    BY <1>5, <1>9, <2>1 DEF Same, Fields
  <2>6. Room(x) /\ ToStack(x)
    BY <1>3, <1>5, <2>5 DEF Room, ToStack, HasFound
  <2>7. Base(x)
    BY <1>5, <2>5, BaseSame
  <2>8. ASSUME l.ok, Unlazy(x, "stack") PROVE WalkInv'
    <3>1. Goto([x EXCEPT !.then = "stack"], "unlazy")
      BY <2>8 DEF Unlazy
    <3>2. Owes(x, x.found, Nowhere)
      BY <2>1, <2>4, <2>5, <2>8
    <3>3. /\ WalkW([x EXCEPT !.then = "stack"], "unlazy")
          /\ LookW([x EXCEPT !.then = "stack"], "unlazy", seen)
      BY <2>1, <2>5, <2>6, <2>7, <3>2, OnUnlazy
    <3> QED BY <1>1, <1>2, <3>1, <3>3, GoStep
  <2>9. Sane(b) /\ ~b.rcu /\ Same(x, b, {"rcu", "rcu_lock"})
    BY <2>1, <2>5, Unlocked
  <2> HIDE DEF b
  <2>10. Sane(c) /\ Same(b, c, {"stack", "calls"}) /\ c.calls = 0 /\ Len(c.stack) = Len(b.stack)
    BY <2>9, DropLinks
  <2> HIDE DEF c
  <2>11. /\ Sane(e) /\ Same(c, e, {"stack", "path"}) /\ e.stack = <<>> /\ e.path = Nowhere
    <3> DEFINE f == [c EXCEPT !.stack = <<>>]
               g == [f EXCEPT !.path = Nowhere]
    <3>1. Sane(f) /\ Same(c, f, {"stack"}) /\ f.stack = <<>>
      BY <2>10, ClearStack
    <3>2. g = e
      BY Zenon
    <3> HIDE DEF f, e
    <3>3. Sane(g) /\ Same(f, g, {"path"}) /\ g.path = Nowhere
      BY <3>1, NowhereIs, SetPath
    <3> HIDE DEF g
    <3>4. Same(c, g, {"stack", "path"}) /\ g.stack = <<>>
      BY <3>1, <3>3 DEF Same, Fields
    <3> QED BY <3>2, <3>3, <3>4
  <2> HIDE DEF e
  <2>12. Sane(lost) /\ Same(e, lost, {"root"}) /\ ~OwnRoot(lost)
    BY <2>11, DropRoot
  <2> HIDE DEF lost
  <2>13. /\ TypeW(lost) /\ lost.path = Nowhere /\ lost.stack = <<>> /\ lost.dref = x.dref
         /\ lost.mref = x.mref /\ lost.total = x.total /\ lost.alloc = x.alloc
         /\ lost.err = x.err /\ lost.result = x.result
    <3>1. TypeW(lost)
      BY <2>12 DEF Sane
    <3>2. lost.path = Nowhere /\ lost.stack = <<>>
      BY <2>11, <2>12 DEF Same, Fields
    <3>3. c.dref = x.dref /\ c.mref = x.mref /\ c.total = x.total /\ c.alloc = x.alloc
          /\ c.err = x.err /\ c.result = x.result
      BY <2>9, <2>10 DEF Same, Fields
    <3>4. lost.dref = c.dref /\ lost.mref = c.mref /\ lost.total = c.total /\ lost.alloc = c.alloc
          /\ lost.err = c.err /\ lost.result = c.result
      BY <2>11, <2>12 DEF Same, Fields
    <3> QED BY <3>1, <3>2, <3>3, <3>4
  <2>14. Even(x, lost)
    <3>1. /\ \A d \in Dentries : DebtD(lost, d) = lost.dref[d]
          /\ \A m \in Mounts : DebtM(lost, m) = lost.mref[m]
      BY <2>12, <2>13, BareOwes
    <3>2. ASSUME NEW d \in Dentries PROVE DebtD(x, d) = x.dref[d]
      <4>1. CoreD(x, d) = 0
        BY <2>5 DEF CoreD
      <4>2. x.dref[d] \in Int
        BY <2>3, DebtInt
      <4> QED BY <4>1, <4>2 DEF DebtD
    <3>3. ASSUME NEW m \in Mounts PROVE DebtM(x, m) = x.mref[m]
      <4>1. CoreM(x, m) = 0
        BY <2>5 DEF CoreM
      <4>2. x.mref[m] \in Int
        BY <2>3, DebtInt
      <4> QED BY <4>1, <4>2 DEF DebtM
    <3> QED BY <2>13, <3>1, <3>2, <3>3 DEF Even
  <2>15. Room(lost)
    <3>1. Len(lost.stack) <= Len(x.stack)
      BY <2>3, <2>13, StackLen
    <3> QED BY <2>3, <2>6, <2>13, <3>1, RoomSame
  <2>16. Sane(z) /\ TypeW(z) /\ Same(lost, z, {"dref", "mref"}) /\ Moves(lost, z, Nowhere, p)
    BY <2>1, <2>12, <2>13, SanePut, PathPut, PutMoves
  <2>17. ASSUME Fail(z, "ECHILD") PROVE WalkInv'
    <3> HIDE DEF z
    <3>1. z.stack = lost.stack /\ z.total = lost.total /\ z.alloc = lost.alloc
          /\ z.result = lost.result /\ z.err = lost.err
      BY <2>16 DEF Same, Fields
    <3>2. Room(z) /\ z.result = Nowhere /\ z.err = ""
      BY <2>5, <2>13, <2>15, <3>1 DEF Room
    <3>3. Owes(z, Nowhere, Nowhere)
      BY <2>4, <2>13, <2>14, <2>16, EvenOwes, MovesOwes
    <3> QED BY <1>1, <1>2, <2>16, <2>17, <3>2, <3>3, FailStep
  <2> QED BY <2>8, <2>17
<1> QED BY <1>6, <1>7, <1>8, <1>9

LEMMA CompleteWalk == ASSUME WalkInv, complete_walk PROVE WalkInv'
<1>1. pc = "complete" /\ UNCHANGED around /\ seen' = seen
  BY DEF complete_walk
<1>2. /\ DcacheInv /\ NamesOnce /\ Fit(w) /\ Owes(w, Nowhere, Nowhere) /\ TypeW(w) /\ IsWalk(w)
      /\ Sane(w) /\ Room(w) /\ Base(w) /\ w.err = "" /\ w.result = Nowhere
  BY <1>1, Ready
<1>3. \/ w.rcu /\ Unlazy(drop_root(w), "complete")
      \/ Fail(w, "ENOTDIR")
      \/ ~w.rcu /\ Goto([w EXCEPT !.result = w.path, !.path = Nowhere], "end")
  BY DEF complete_walk, path_lookupat
<1>4. CASE w.rcu /\ Unlazy(drop_root(w), "complete")
  <2> DEFINE y == drop_root(w)
  <2>1. /\ Sane(y) /\ Same(w, y, {"root"})
        /\ w.lookup_root => y.root = w.root
        /\ ~w.lookup_root => y.root.mnt = Null
    BY <1>2, DropRoot
  <2>2. Goto([y EXCEPT !.then = "complete"], "unlazy")
    BY <1>4 DEF Unlazy
  <2> HIDE DEF y
  <2>3. /\ y.path = w.path /\ y.seq = w.seq /\ y.inode = w.inode /\ y.rcu = w.rcu
        /\ y.lookup_root = w.lookup_root /\ y.result = w.result /\ y.err = ""
        /\ y.dref = w.dref /\ y.mref = w.mref /\ y.stack = w.stack /\ y.total = w.total
        /\ y.alloc = w.alloc
    BY <1>2, <2>1 DEF Same, Fields
  <2>4. Room(y)
    BY <1>2, <2>3 DEF Room
  <2>5. Base(y)
    BY <1>2, <2>1, <2>3 DEF Base, Knows
  <2>6. y.rcu
    BY <1>4, <2>3
  <2>7. Owes(y, Nowhere, Nowhere)
    BY <1>2, <1>4, <2>3, <2>6, RcuEven, EvenOwes
  <2>8. /\ WalkW([y EXCEPT !.then = "complete"], "unlazy")
        /\ LookW([y EXCEPT !.then = "complete"], "unlazy", seen)
    BY <2>1, <2>3, <2>4, <2>5, <2>6, <2>7, OnUnlazy
  <2> QED BY <1>1, <1>2, <2>2, <2>8, GoStep
<1>5. CASE ~w.rcu /\ Goto([w EXCEPT !.result = w.path, !.path = Nowhere], "end")
  <2> DEFINE y == [w EXCEPT !.result = w.path, !.path = Nowhere]
  <2>1. Goto(y, "end")
    BY <1>5
  <2>2. IsWalk(y) /\ Same(w, y, {"result", "path"}) /\ y.result = w.path /\ y.path = Nowhere
    BY <1>2 DEF IsWalk, Fields, Same
  <2> HIDE DEF y
  <2>3. TypeW(y)
    <3>1. y.result \in MaybePaths /\ y.path \in MaybePaths
      BY <1>2, <2>2, NowhereIs DEF TypeW
    <3> QED BY <1>2, <2>2, <3>1 DEF TypeW, Same, Fields
  <2>4. /\ Same(w, y, Fields \ {"dref", "stack", "calls", "rcu", "rcu_lock"})
        /\ Same(w, y, Fields \ {"dref", "mref", "stack", "rcu", "root", "lookup_root"})
        /\ y.stack = w.stack /\ y.total = w.total /\ y.alloc = w.alloc /\ y.err = ""
    BY <1>2, <2>2 DEF Same, Fields
  <2>5. Sane(y)
    BY <1>2, <2>3, <2>4, SaneSame
  <2>6. Moves(w, y, w.path, Nowhere)
    BY <1>2, <1>5, <2>2, <2>3, <2>4, PathMoves
  <2>7. Owes(y, Nowhere, y.result)
    BY <1>2, <2>2, <2>3, <2>6, MovesOwes, OwesTurn
  <2>8. Room(y)
    BY <1>2, <2>4 DEF Room
  <2>9. WalkW(y, "end") /\ LookW(y, "end", seen)
    BY <2>4, <2>5, <2>7, <2>8, OnEnd
  <2> QED BY <1>1, <1>2, <2>1, <2>9, GoStep
<1>6. CASE Fail(w, "ENOTDIR")
  BY <1>1, <1>2, <1>6, FailStep
<1> QED BY <1>3, <1>4, <1>5, <1>6

LEMMA Retried ==
    ASSUME NEW x, NextAttempt(x) # "none"
    PROVE  x.err = "ECHILD" \/ x.err = "ESTALE"
BY Zenon DEF NextAttempt

LEMMA FilenameLookup == ASSUME WalkInv, filename_lookup PROVE WalkInv'
<1> DEFINE x == Forget(terminate_walk(w))
           a == NextAttempt(w)
           y == [x EXCEPT !.attempt = a]
<1>1. /\ pc = "end" /\ UNCHANGED around /\ seen' = seen
      /\ Goto(x, "done") \/ (a # "none" /\ Goto(y, "init"))
  BY DEF filename_lookup
<1>2. DcacheInv /\ NamesOnce /\ WalkW(w, "end")
  BY <1>1 DEF WalkInv
<1>3. /\ Sane(w) /\ TypeW(w) /\ Room(w) /\ Owes(w, Nowhere, w.result)
      /\ w.err # "" => w.result = Nowhere
  BY <1>2 DEF WalkW, PlaceW, Held, Sane
<1>4. /\ Sane(x) /\ Cleared(x) /\ Even(w, x)
      /\ Same(w, x, Gone \union {"stack", "dref", "mref", "calls", "rcu", "rcu_lock"})
  BY <1>3, AfterAttempt
<1>5. a # "none" => w.err = "ECHILD" \/ w.err = "ESTALE"
  BY Retried
<1> HIDE DEF x, a
<1>6. x.total = w.total /\ x.alloc = w.alloc /\ x.err = w.err /\ x.result = w.result
  BY <1>4 DEF Same, Fields, Gone
<1>7. TypeW(x) /\ IsWalk(x)
  BY <1>4 DEF Sane, TypeW
<1>8. Room(x)
  <2>1. Len(x.stack) <= Len(w.stack)
    <3>1. Len(x.stack) = 0
      BY <1>4, <1>7, StackLen DEF Cleared
    <3>2. Len(w.stack) \in Nat
      BY <1>3, StackLen
    <3> QED BY <3>1, <3>2
  <2> QED BY <1>3, <1>6, <1>7, <2>1, RoomSame
<1>9. Owes(x, Nowhere, x.result)
  BY <1>3, <1>4, <1>6, EvenOwes
<1>10. CASE Goto(x, "done")
  <2>1. WalkW(x, "done")
    <3>1. Held(x, "done") = Nowhere
      BY DEF Held
    <3>2. PlaceW(x, "done")
      BY <1>4 DEF PlaceW, Walking
    <3> QED BY <1>4, <1>8, <1>9, <3>1, <3>2 DEF WalkW
  <2>2. LookW(x, "done", seen)
    BY DEF LookW
  <2> QED BY <1>1, <1>2, <1>10, <2>1, <2>2, GoStep
<1>11. CASE a # "none" /\ Goto(y, "init")
  <2>1. IsWalk(y) /\ Same(x, y, {"attempt"})
    BY <1>7 DEF IsWalk, Fields, Same
  <2>2. Goto(y, "init")
    BY <1>11
  <2> HIDE DEF y
  <2>3. TypeW(y)
    BY <1>7, <2>1 DEF TypeW, Same, Fields
  <2>4. /\ Same(x, y, Fields \ {"dref", "stack", "calls", "rcu", "rcu_lock"})
        /\ Same(x, y, Fields \ {"dref", "mref", "stack", "rcu", "path", "root", "lookup_root"})
        /\ y.stack = x.stack /\ y.total = x.total /\ y.alloc = x.alloc /\ y.err = x.err
        /\ y.result = x.result /\ y.rcu = x.rcu /\ y.path = x.path /\ y.root = x.root
    BY <2>1 DEF Same, Fields
  <2>5. Sane(y) /\ Owes(y, Nowhere, x.result)
    BY <1>4, <1>9, <2>3, <2>4, SaneSame, EvenSame, EvenOwes
  <2>6. Room(y) /\ Cleared(y)
    BY <1>4, <1>8, <2>4 DEF Room, Cleared
  <2>7. y.result = Nowhere /\ y.err # "ELOOP"
    BY <1>3, <1>5, <1>6, <1>11, <2>4
  <2>8. WalkW(y, "init")
    <3>1. Held(y, "init") = Nowhere
      BY DEF Held
    <3>2. PlaceW(y, "init")
      BY <2>6, <2>7 DEF PlaceW, Walking
    <3> QED BY <2>4, <2>5, <2>6, <3>1, <3>2 DEF WalkW
  <2>9. LookW(y, "init", seen)
    BY DEF LookW
  <2> QED BY <1>1, <1>2, <2>2, <2>8, <2>9, GoStep
<1> QED BY <1>1, <1>10, <1>11

-----------------------------------------------------------------------------
(* The symlink *)

\* Another record for the last symlink.
LEMMA LinkSet ==
    ASSUME NEW s \in Seq(Links), s # <<>>, NEW l \in Links, l.link = s[Len(s)].link
    PROVE  LET k == Len(s)
               t == [s EXCEPT ![k] = l]
           IN /\ t \in Seq(Links) /\ Len(t) = k /\ SameLinks(t, s, k)
              /\ t[k] = l /\ k \in Nat \ {0}
              /\ SameCalls(t, s, k - 1)
              /\ (l.done <=> s[k].done) => SameCalls(t, s, k)
<1> DEFINE k == Len(s)
           t == [s EXCEPT ![k] = l]
<1>1. k \in Nat \ {0} /\ DOMAIN s = 1 .. k /\ k \in 1 .. k
  OBVIOUS
<1>2. \A i \in 1 .. k : s[i] \in Links
  OBVIOUS
<1>3. t = [i \in 1 .. k |-> IF i = k THEN l ELSE s[i]]
  BY <1>1
<1> HIDE DEF k, t
<1>4. t \in [1 .. k -> Links]
  BY <1>2, <1>3
<1>5. t \in Seq(Links) /\ Len(t) = k
  BY <1>1, <1>4
<1>6. t[k] = l /\ \A i \in 1 .. k : i # k => t[i] = s[i]
  BY <1>1, <1>3
<1>7. l.link = s[k].link
  BY DEF k
<1>8. SameLinks(t, s, k)
  BY <1>1, <1>6, <1>7 DEF SameLinks
<1>9. SameCalls(t, s, k - 1)
  BY <1>1, <1>6 DEF SameCalls
<1>10. (l.done <=> s[k].done) => SameCalls(t, s, k)
  BY <1>1, <1>6 DEF SameCalls
<1> QED BY <1>1, <1>5, <1>6, <1>8, <1>9, <1>10 DEF k, t

LEMMA FitStack ==
    ASSUME NEW x, Fit(x), NEW y, TypeW(y), Same(x, y, {"stack", "name", "calls"}),
           Len(y.stack) = Len(x.stack), SameLinks(y.stack, x.stack, Len(x.stack)),
           y.calls = Calls(y.stack, Len(y.stack))
    PROVE  Fit(y) /\ Sane(y) /\ Even(x, y)
<1>1. Sane(x) /\ TypeW(x) /\ Room(x) /\ Base(x) /\ x.err = "" /\ Len(x.stack) \in Nat
  BY StackLen DEF Fit, Sane
<1>2. /\ Same(x, y, Fields \ {"path", "root", "lookup_root", "seq", "inode", "result", "rcu"})
      /\ y.total = x.total /\ y.alloc = x.alloc /\ y.err = x.err /\ y.rcu_lock = x.rcu_lock
      /\ y.rcu = x.rcu /\ y.dref = x.dref /\ y.mref = x.mref /\ y.path = x.path
      /\ y.root = x.root /\ y.lookup_root = x.lookup_root
  BY DEF Same, Fields
<1>3. Sane(y)
  BY <1>1, <1>2 DEF Sane, HoldsLive, LinkCalls
<1>4. Base(y)
  BY <1>1, <1>2, BaseSame
<1>5. Room(y)
  BY <1>1, <1>2 DEF Room
<1>6. \A d : /\ StackD(y.stack, Len(x.stack), d) = StackD(x.stack, Len(x.stack), d)
             /\ StackM(y.stack, Len(x.stack), d) = StackM(x.stack, Len(x.stack), d)
  BY <1>1, LinksCount
<1>7. Even(x, y)
  BY <1>2, <1>6 DEF Even, DebtD, DebtM, CoreD, CoreM, OwnRoot
<1> QED BY <1>1, <1>2, <1>3, <1>4, <1>5, <1>7 DEF Fit

\* The body of the symlink and its delayed call.
LEMMA FitBody ==
    ASSUME NEW x, Fit(x), ToLink(x), NEW v \in BOOLEAN
    PROVE  LET k == Len(x.stack)
               y == [x EXCEPT !.stack[k].done = v, !.calls = IF v THEN @ + 1 ELSE @]
           IN  Fit(y) /\ Sane(y) /\ Even(x, y) /\ Same(x, y, {"stack", "calls"})
               /\ Len(y.stack) = k /\ y.stack # <<>>
<1> DEFINE k == Len(x.stack)
           y == [x EXCEPT !.stack[k].done = v, !.calls = IF v THEN @ + 1 ELSE @]
           l == [x.stack[k] EXCEPT !.done = v]
           t == [x.stack EXCEPT ![k] = l]
<1> SUFFICES Fit(y) /\ Sane(y) /\ Even(x, y) /\ Same(x, y, {"stack", "calls"})
             /\ Len(y.stack) = k /\ y.stack # <<>>
  OBVIOUS
<1>1. /\ Sane(x) /\ TypeW(x) /\ IsWalk(x) /\ x.stack \in Seq(Links) /\ x.stack # <<>>
      /\ ~x.stack[k].done /\ x.calls \in Int
  BY DEF Fit, Sane, TypeW, ToLink
<1>2. x.stack[k] \in Links /\ k \in Nat /\ DOMAIN x.stack = 1 .. k /\ k \in 1 .. k
  BY <1>1
<1>3. l \in Links /\ l.link = x.stack[k].link /\ l.done = v
  <2>1. ASSUME NEW a \in Links
        PROVE  LET b == [a EXCEPT !.done = v] IN b \in Links /\ b.link = a.link /\ b.done = v
    BY DEF Links
  <2> QED BY <1>2, <2>1
<1>4. IsWalk(y) /\ Same(x, y, {"stack", "calls"})
  BY <1>1 DEF IsWalk, Fields, Same
<1>5. y.stack = t
  BY <1>1 DEF IsWalk, Fields
<1>6. y.calls = IF v THEN x.calls + 1 ELSE x.calls
  BY <1>1 DEF IsWalk, Fields
<1> HIDE DEF y, l
<1>7. /\ t \in Seq(Links) /\ Len(t) = k /\ SameLinks(t, x.stack, k)
      /\ t[k] = l /\ k \in Nat \ {0} /\ SameCalls(t, x.stack, k - 1)
  BY <1>1, <1>3, LinkSet
<1> HIDE DEF t
<1>8. Calls(t, k) = Calls(x.stack, k) + One(v) /\ Calls(x.stack, k) = x.calls
  <2>1. k - 1 \in Nat /\ (k - 1) + 1 = k
    BY <1>7
  <2>2. Calls(t, k - 1) = Calls(x.stack, k - 1)
    BY <1>7, <2>1, CallsCount
  <2>3. Calls(t, k) = Calls(t, k - 1) + One(t[k].done) /\ Calls(t, k - 1) \in Nat
    <3>1. PICK n \in Nat : n = k - 1 /\ n + 1 = k
      BY <2>1
    <3>2. Calls(t, n + 1) = Calls(t, n) + One(t[n + 1].done) /\ Calls(t, n) \in Nat
      BY CallsUp
    <3> QED BY <3>1, <3>2
  <2>4. Calls(x.stack, k) = Calls(x.stack, k - 1) + One(x.stack[k].done)
    <3>1. PICK n \in Nat : n = k - 1 /\ n + 1 = k
      BY <2>1
    <3>2. Calls(x.stack, n + 1) = Calls(x.stack, n) + One(x.stack[n + 1].done)
      BY CallsUp
    <3> QED BY <3>1, <3>2
  <2>5. One(x.stack[k].done) = 0 /\ One(t[k].done) = One(v)
    BY <1>1, <1>3, <1>7 DEF One
  <2>6. Calls(x.stack, k) = x.calls
    BY <1>1 DEF Sane, LinkCalls
  <2>7. One(v) \in Int
    BY OneInt
  <2> HIDE DEF k
  <2> QED BY <2>2, <2>3, <2>4, <2>5, <2>6, <2>7
<1>9. y.calls = Calls(y.stack, Len(y.stack)) /\ y.calls \in Int
  <2>1. y.calls = x.calls + One(v) /\ y.calls \in Int
    BY <1>1, <1>6 DEF One
  <2> QED BY <1>5, <1>7, <1>8, <2>1
<1>10. TypeW(y)
  <2>1. y.stack \in Seq(Links)
    BY <1>5, <1>7
  <2> QED BY <1>1, <1>4, <1>9, <2>1 DEF TypeW, Same, Fields
<1>11. Same(x, y, {"stack", "name", "calls"})
  BY <1>4 DEF Same
<1>12. Len(y.stack) = k /\ SameLinks(y.stack, x.stack, k) /\ y.stack # <<>>
  <2>1. y.stack # <<>>
    BY <1>5, <1>7, <1>10, StackLen
  <2> QED BY <1>5, <1>7, <2>1
<1> QED BY <1>4, <1>9, <1>10, <1>11, <1>12, FitStack

\* The rest of the path above it.
LEMMA FitNamed ==
    ASSUME NEW x, Fit(x), x.stack # <<>>, NEW n \in Seq(Components) \union {Null},
           NEW c \in Seq(Components)
    PROVE  LET k == Len(x.stack)
               y == [x EXCEPT !.stack[k].name = n, !.name = c]
           IN  Fit(y) /\ Even(x, y)
<1> DEFINE k == Len(x.stack)
           y == [x EXCEPT !.stack[k].name = n, !.name = c]
           l == [x.stack[k] EXCEPT !.name = n]
           t == [x.stack EXCEPT ![k] = l]
<1> SUFFICES Fit(y) /\ Even(x, y)
  OBVIOUS
<1>1. /\ Sane(x) /\ TypeW(x) /\ IsWalk(x) /\ x.stack \in Seq(Links)
      /\ x.calls = Calls(x.stack, k)
  BY DEF Fit, Sane, TypeW, LinkCalls
<1>2. x.stack[k] \in Links /\ k \in Nat /\ DOMAIN x.stack = 1 .. k /\ k \in 1 .. k
  BY <1>1
<1>3. l \in Links /\ l.link = x.stack[k].link /\ l.done = x.stack[k].done
  <2>1. ASSUME NEW a \in Links
        PROVE  LET b == [a EXCEPT !.name = n] IN b \in Links /\ b.link = a.link /\ b.done = a.done
    BY DEF Links
  <2> QED BY <1>2, <2>1
<1>4. IsWalk(y) /\ Same(x, y, {"stack", "name"}) /\ y.name = c
  BY <1>1 DEF IsWalk, Fields, Same
<1>5. y.stack = t
  BY <1>1 DEF IsWalk, Fields
<1> HIDE DEF y, l
<1>6. /\ t \in Seq(Links) /\ Len(t) = k /\ SameLinks(t, x.stack, k) /\ SameCalls(t, x.stack, k)
  BY <1>1, <1>3, LinkSet
<1> HIDE DEF t
<1>7. TypeW(y)
  <2>1. y.stack \in Seq(Links)
    BY <1>5, <1>6
  <2> QED BY <1>1, <1>4, <2>1 DEF TypeW, Same, Fields
<1>8. y.calls = Calls(y.stack, Len(y.stack))
  <2>1. y.calls = x.calls
    BY <1>4 DEF Same, Fields
  <2> QED BY <1>1, <1>2, <1>5, <1>6, <2>1, CallsCount
<1>9. Same(x, y, {"stack", "name", "calls"})
  BY <1>4 DEF Same
<1> QED BY <1>5, <1>6, <1>7, <1>8, <1>9, FitStack

\* An absolute symlink starts at the root.
LEMMA FitJump ==
    ASSUME DcacheInv, NEW x, Fit(x), Owes(x, Nowhere, Nowhere)
    PROVE  LET z == nd_jump_root(set_root(x)) IN
           /\ Sane(z) /\ Room(z) /\ Owes(z, Nowhere, Nowhere) /\ z.result = Nowhere /\ z.err = ""
           /\ Same(x, z, {"root", "root_seq", "dref", "mref", "path", "inode", "seq"})
           /\ ~(x.rcu /\ seq[z.root.dentry] # z.root_seq) => Fit(z)
<1> DEFINE s == set_root(x)
           z == nd_jump_root(s)
<1> SUFFICES /\ Sane(z) /\ Room(z) /\ Owes(z, Nowhere, Nowhere) /\ z.result = Nowhere /\ z.err = ""
             /\ Same(x, z, {"root", "root_seq", "dref", "mref", "path", "inode", "seq"})
             /\ ~(x.rcu /\ seq[z.root.dentry] # z.root_seq) => Fit(z)
  OBVIOUS
<1>1. /\ Fit(s) /\ Sane(s) /\ Even(x, s) /\ Same(x, s, {"root", "root_seq", "dref", "mref"})
      /\ s.root \in Paths /\ Used(s.root.dentry)
  BY FitRoot
<1> HIDE DEF s
<1>2. Owes(s, Nowhere, Nowhere)
  BY <1>1, EvenOwes
<1>3. Room(s) /\ Base(s) /\ s.err = "" /\ s.rcu = x.rcu /\ s.rcu \in BOOLEAN
  BY <1>1 DEF Fit, Sane, TypeW, Same, Fields
<1>4. s.root.dentry \in Dentries /\ s.root.mnt # Null
  BY <1>1, PathParts
<1>5. ~s.rcu => s.root.dentry \notin killed
  <2>1. CASE s.lookup_root
    BY <1>3, <2>1 DEF Base, DcacheInv, Live
  <2>2. CASE ~s.lookup_root /\ ~s.rcu
    <3>1. OwnRoot(s)
      BY <1>4, <2>2 DEF OwnRoot
    <3> QED BY <1>1, <1>2, <1>4, <2>2, <3>1, HeldLive
  <2> QED BY <2>1, <2>2
<1>6. /\ Sane(z) /\ Even(s, z) /\ Same(s, z, {"path", "inode", "seq", "dref", "mref"})
      /\ z.path = s.root /\ z.inode = inode[s.root.dentry]
      /\ z.seq = IF s.rcu THEN s.root_seq ELSE seq[s.root.dentry]
  BY <1>1, <1>5, NdJumpRoot
<1> HIDE DEF z
<1>7. /\ z.stack = s.stack /\ z.total = s.total /\ z.alloc = s.alloc /\ z.err = s.err
      /\ z.root = s.root /\ z.lookup_root = s.lookup_root /\ z.result = s.result /\ z.rcu = s.rcu
      /\ z.root_seq = s.root_seq
  BY <1>6 DEF Same, Fields
<1>8. Room(z)
  BY <1>3, <1>7 DEF Room
<1>9. Owes(z, Nowhere, Nowhere)
  BY <1>2, <1>6, EvenOwes
<1>10. Same(x, z, {"root", "root_seq", "dref", "mref", "path", "inode", "seq"})
  BY <1>1, <1>6 DEF Same
<1>11. z.result = Nowhere /\ z.err = ""
  BY <1>3, <1>7 DEF Base
<1>12. ASSUME ~(x.rcu /\ seq[z.root.dentry] # z.root_seq) PROVE Base(z)
  <2>1. seq[s.root.dentry] \in Nat
    BY <1>4 DEF DcacheInv
  <2>2. Knows(z, z.path.dentry, z.seq, z.inode)
    <3>1. CASE s.rcu
      <4>1. z.seq = seq[s.root.dentry]
        BY <1>3, <1>6, <1>7, <1>12, <3>1
      <4> QED BY <1>6, <1>7, <2>1, <3>1, <4>1 DEF Knows
    <3>2. CASE ~s.rcu
      BY <1>6, <1>7, <3>2 DEF Knows
    <3> QED BY <3>1, <3>2
  <2> QED BY <1>1, <1>3, <1>6, <1>7, <1>11, <2>2 DEF Base
<1> QED BY <1>6, <1>8, <1>9, <1>10, <1>11, <1>12 DEF Fit

LEMMA GetLink == ASSUME WalkInv, get_link PROVE WalkInv'
<1> DEFINE b == Body[w.link_inode]
           k == Len(w.stack)
           y == [w EXCEPT !.stack[k].done = b.delayed, !.calls = IF b.delayed THEN @ + 1 ELSE @]
           j == nd_jump_root(set_root(y))
           z == IF b.abs THEN j ELSE y
           rest == IF z.mode = "last" THEN Null ELSE z.name
           v == [z EXCEPT !.stack[k].name = rest, !.name = b.comps]
<1>1. pc = "link" /\ UNCHANGED around /\ seen' = seen
  BY DEF get_link
<1>2. /\ DcacheInv /\ NamesOnce /\ Fit(w) /\ Owes(w, Nowhere, Nowhere) /\ TypeW(w) /\ IsWalk(w)
      /\ Sane(w) /\ Room(w) /\ Base(w) /\ w.err = "" /\ w.result = Nowhere
  BY <1>1, Ready
<1>3. ToLink(w)
  BY <1>1 DEF WalkInv, WalkW, PlaceW
<1>4. \/ b.abs /\ w.rcu /\ seq[z.root.dentry] # z.root_seq /\ Fail(z, "ECHILD")
      \/ ~(b.abs /\ w.rcu /\ seq[z.root.dentry] # z.root_seq) /\ Arrived(put_link(z))
      \/ ~(b.abs /\ w.rcu /\ seq[z.root.dentry] # z.root_seq) /\ Goto(v, "walk")
      \/ w.rcu /\ Unlazy(w, "link")
      \/ Fail(w, "EACCES")
  BY DEF get_link, FollowBody
<1>5. b.comps \in Seq(Components) /\ b.delayed \in BOOLEAN /\ b.abs \in BOOLEAN
  <2>1. b \in [abs : BOOLEAN, comps : Seq(Components), delayed : BOOLEAN]
    BY <1>3, BodyAssumption DEF ToLink
  <2> HIDE DEF b
  <2> QED BY <2>1
<1> HIDE DEF b
<1>6. /\ Fit(y) /\ Sane(y) /\ Even(w, y) /\ Same(w, y, {"stack", "calls"})
      /\ Len(y.stack) = k /\ y.stack # <<>>
  BY <1>2, <1>3, <1>5, FitBody
<1> HIDE DEF y
<1>7. Owes(y, Nowhere, Nowhere)
  BY <1>2, <1>6, EvenOwes
<1>8. y.rcu = w.rcu /\ y.err = "" /\ y.result = Nowhere
  BY <1>2, <1>6 DEF Same, Fields
<1>9. /\ Sane(z) /\ Room(z) /\ Owes(z, Nowhere, Nowhere) /\ z.result = Nowhere /\ z.err = ""
      /\ Same(y, z, {"root", "root_seq", "dref", "mref", "path", "inode", "seq"})
      /\ ~(b.abs /\ w.rcu /\ seq[z.root.dentry] # z.root_seq) => Fit(z)
  <2>1. CASE b.abs
    <3>1. /\ Sane(j) /\ Room(j) /\ Owes(j, Nowhere, Nowhere) /\ j.result = Nowhere /\ j.err = ""
          /\ Same(y, j, {"root", "root_seq", "dref", "mref", "path", "inode", "seq"})
          /\ ~(y.rcu /\ seq[j.root.dentry] # j.root_seq) => Fit(j)
      BY <1>2, <1>6, <1>7, FitJump
    <3>2. z = j
      BY <2>1
    <3> HIDE DEF j, z
    <3> QED BY <1>8, <2>1, <3>1, <3>2
  <2>2. CASE ~b.abs
    <3>1. z = y
      BY <2>2
    <3>2. Same(y, y, {"root", "root_seq", "dref", "mref", "path", "inode", "seq"})
      BY DEF Same
    <3> HIDE DEF z
    <3> QED BY <1>6, <1>7, <1>8, <3>1, <3>2 DEF Fit
  <2> QED BY <1>5, <2>1, <2>2
<1> HIDE DEF z
<1>10. z.stack = y.stack /\ z.stack # <<>> /\ Len(z.stack) = k
  BY <1>6, <1>9 DEF Same, Fields
<1>11. CASE Fail(z, "ECHILD")
  BY <1>1, <1>2, <1>9, <1>11, FailStep
<1>12. CASE Fit(z) /\ Arrived(put_link(z))
  <2> DEFINE p == put_link(z)
  <2>1. /\ Sane(p) /\ Even(z, p) /\ Same(z, p, {"stack", "calls", "dref", "mref"})
        /\ Len(p.stack) = Len(z.stack) - 1
    BY <1>9, <1>10, PutLink
  <2> HIDE DEF p
  <2>2. /\ Same(z, p, Fields \ {"path", "root", "lookup_root", "seq", "inode", "result", "rcu"})
        /\ p.total = z.total /\ p.alloc = z.alloc /\ p.err = z.err
    BY <2>1 DEF Same, Fields
  <2>3. Base(p)
    BY <1>12, <2>2, BaseSame DEF Fit
  <2>4. Room(p)
    <3>1. TypeW(p) /\ TypeW(z) /\ Len(z.stack) \in Nat
      BY <1>9, <2>1, StackLen DEF Sane
    <3>2. Len(p.stack) <= Len(z.stack)
      BY <2>1, <3>1
    <3> QED BY <1>9, <2>2, <3>1, <3>2, RoomSame
  <2>5. Fit(p)
    BY <1>9, <2>1, <2>2, <2>3, <2>4 DEF Fit
  <2>6. Owes(p, Nowhere, Nowhere)
    BY <1>9, <2>1, EvenOwes
  <2> QED BY <1>1, <1>2, <1>12, <2>5, <2>6, ArrivedStep DEF p
<1>13. CASE Fit(z) /\ Goto(v, "walk")
  <2>1. rest \in Seq(Components) \union {Null}
    <3>1. z.name \in Seq(Components)
      BY <1>9 DEF Sane, TypeW
    <3> QED BY <3>1
  <2> HIDE DEF rest
  <2>2. Fit(v) /\ Even(z, v)
    BY <1>5, <1>10, <1>13, <2>1, FitNamed
  <2>3. Goto(v, "walk")
    BY <1>13
  <2> HIDE DEF v
  <2>4. Owes(v, Nowhere, Nowhere)
    BY <1>9, <2>2, EvenOwes
  <2>5. WalkW(v, "walk") /\ LookW(v, "walk", seen)
    BY <2>2, <2>4, OnWalk
  <2> QED BY <1>1, <1>2, <2>3, <2>5, GoStep
<1>14. CASE w.rcu /\ Unlazy(w, "link")
  <2>1. Goto([w EXCEPT !.then = "link"], "unlazy")
    BY <1>14 DEF Unlazy
  <2>2. /\ WalkW([w EXCEPT !.then = "link"], "unlazy")
        /\ LookW([w EXCEPT !.then = "link"], "unlazy", seen)
    BY <1>2, <1>3, <1>14, OnUnlazy
  <2> QED BY <1>1, <1>2, <2>1, <2>2, GoStep
<1>15. CASE Fail(w, "EACCES")
  BY <1>1, <1>2, <1>15, FailStep
<1> QED BY <1>4, <1>9, <1>11, <1>12, <1>13, <1>14, <1>15

-----------------------------------------------------------------------------
(* Changes around the walk *)

\* The walk after a step, with the dcache that the step leaves.
LEMMA Primed ==
    ASSUME NEW x, NEW q, w' = x, pc' = q, TypeW(x), HoldsLive(w)', LinkCalls(x), Room(x),
           PlaceW(w, pc)', Owes(x, Held(x, q), x.result)
    PROVE  WalkW(w, pc)'
<1>1. TypeW(w)'
  BY DEF TypeW, IsWalk
<1>2. LinkCalls(w)'
  BY DEF LinkCalls, Calls, One
<1>3. Room(w)'
  BY DEF Room
<1>4. Owes(w, Held(w, pc), w.result)'
  <2>1. Held(w, pc)' = Held(x, q)
    BY DEF Held, Beside
  <2>2. \A d \in Dentries : DebtD(w, d)' = DebtD(x, d)
    BY DEF DebtD, CoreD, OwnRoot, One, StackD
  <2>3. \A m \in Mounts : DebtM(w, m)' = DebtM(x, m)
    BY DEF DebtM, CoreM, OwnRoot, One, StackM
  <2> QED BY <2>1, <2>2, <2>3 DEF Owes, One
<1> QED BY <1>1, <1>2, <1>3, <1>4 DEF WalkW, Sane

\* What changes: a dentry stays one, a sequence count tells of a change, and a dentry the
\* walk holds keeps its inode and is not reclaimed.
Drift ==
    /\ \A d \in Dentries : Used(d) => Used(d)'
    /\ \A d \in Dentries : seq[d] <= seq'[d]
    /\ \A d \in Dentries : Used(d) /\ seq'[d] = seq[d] =>
         inode'[d] = inode[d] /\ place'[d] = place[d] /\ (d \in hashed => d \in hashed')
    /\ \A d \in Dentries : w.dref[d] > 0 =>
         inode'[d] = inode[d] /\ (d \in killed' => d \in killed)
    /\ top' = top

LEMMA DriftKnows ==
    ASSUME DcacheInv, DcacheInv', Drift, NEW d \in Dentries, Used(d), NEW s, NEW i,
           ~w.rcu => w.dref[d] > 0, w' = w, s \in Nat, Knows(w, d, s, i)
    PROVE  Knows(w, d, s, i)'
<1>1. seq[d] \in Nat /\ seq'[d] \in Nat
  BY DEF DcacheInv
<1>2. seq[d] <= seq'[d] /\ (seq'[d] = seq[d] => inode'[d] = inode[d])
  BY DEF Drift
<1>3. CASE w.rcu
  <2>1. s <= seq[d] /\ (s = seq[d] => i = inode[d])
    BY <1>3 DEF Knows
  <2>2. s <= seq'[d] /\ (s = seq'[d] => s = seq[d] /\ seq'[d] = seq[d])
    BY <1>1, <1>2, <2>1
  <2>3. s = seq'[d] => i = inode'[d]
    BY <1>2, <2>1, <2>2
  <2> QED BY <1>3, <2>2, <2>3 DEF Knows
<1>4. CASE ~w.rcu
  BY <1>4 DEF Knows, Drift
<1> QED BY <1>3, <1>4

LEMMA DriftWalk ==
    ASSUME DcacheInv, DcacheInv', Drift, WalkW(w, pc), w' = w, pc' = pc
    PROVE  WalkW(w, pc)'
<1>1. /\ Sane(w) /\ TypeW(w) /\ HoldsLive(w) /\ LinkCalls(w) /\ Room(w) /\ PlaceW(w, pc)
      /\ Owes(w, Held(w, pc), w.result)
  BY DEF WalkW, Sane
<1>2. HoldsLive(w)'
  BY <1>1 DEF HoldsLive, Drift
<1>3. ASSUME NEW p, p \in Paths, Used(p.dentry) PROVE Used(p.dentry)'
  BY <1>3, PathParts DEF Drift
<1>4. ASSUME Base(w) PROVE Base(w)'
  <2>1. w.path \in Paths /\ Used(w.path.dentry) /\ w.path.dentry \in Dentries
    BY <1>4, PathParts DEF Base
  <2>2. ~w.rcu => w.dref[w.path.dentry] > 0
    BY <1>1, <2>1, HeldUp
  <2>3. Knows(w, w.path.dentry, w.seq, w.inode)'
    <3>1. PICK d, s, i : d = w.path.dentry /\ s = w.seq /\ i = w.inode
      OBVIOUS
    <3>2. d \in Dentries /\ Used(d) /\ (~w.rcu => w.dref[d] > 0) /\ s \in Nat /\ Knows(w, d, s, i)
      BY <1>1, <1>4, <2>1, <2>2, <3>1 DEF Base, TypeW
    <3>3. Knows(w, d, s, i)'
      BY <3>2, DriftKnows
    <3> QED BY <3>1, <3>3 DEF Knows
  <2>4. w.root.mnt # Null => w.root \in Paths /\ Used(w.root.dentry)'
    BY <1>3, <1>4 DEF Base
  <2>5. Used(w.path.dentry)'
    BY <1>3, <2>1
  <2>6. w.lookup_root => w.root = top'
    BY <1>4 DEF Base, Drift
  <2> QED BY <1>4, <2>1, <2>3, <2>4, <2>5, <2>6 DEF Base, Used
<1>5. ASSUME HasFound(w) PROVE HasFound(w)'
  BY <1>3, <1>5 DEF HasFound, Used
<1>6. ASSUME ToStack(w) PROVE ToStack(w)'
  BY <1>5, <1>6 DEF ToStack
<1>7. ToLink(w) => ToLink(w)'
  BY DEF ToLink
<1>8. Cleared(w) => Cleared(w)'
  BY DEF Cleared
<1>9. Walking(pc)' <=> Walking(pc)
  BY DEF Walking
<1>10. ASSUME pc = "step" PROVE Knows(w, w.found.dentry, w.fseq, w.finode)'
  <2>1. /\ w.found \in Paths /\ Used(w.found.dentry) /\ w.found.dentry \in Dentries
        /\ Knows(w, w.found.dentry, w.fseq, w.finode)
    BY <1>1, <1>10, PathParts DEF PlaceW, HasFound
  <2>2. ~w.rcu => w.dref[w.found.dentry] > 0
    <3>1. ~w.rcu => Held(w, pc).dentry = w.found.dentry
      BY <1>10 DEF Held, Beside
    <3> QED BY <1>1, <2>1, <3>1, HeldUp
  <2>3. PICK d, s, i : d = w.found.dentry /\ s = w.fseq /\ i = w.finode
    OBVIOUS
  <2>4. d \in Dentries /\ Used(d) /\ (~w.rcu => w.dref[d] > 0) /\ s \in Nat /\ Knows(w, d, s, i)
    BY <1>1, <2>1, <2>2, <2>3 DEF TypeW
  <2>5. Knows(w, d, s, i)'
    BY <2>4, DriftKnows
  <2> QED BY <2>3, <2>5 DEF Knows
<1>11. PlaceW(w, pc)'
  BY <1>1, <1>4, <1>5, <1>6, <1>7, <1>8, <1>9, <1>10 DEF PlaceW
<1> QED BY <1>1, <1>2, <1>11, Primed

LEMMA DriftLook ==
    ASSUME DcacheInv, DcacheInv', Drift, WalkW(w, pc), LookW(w, pc, seen), w' = w, pc' = pc,
           seen' = IF Looking THEN seen \union StandsFor' ELSE seen
    PROVE  LookW(w, pc, seen)'
<1>1. seen \subseteq seen' /\ (Looking => StandsFor' \subseteq seen')
  OBVIOUS
<1>2. Stands(w.path.dentry, w.comp)' = StandsFor'
  BY DEF Stands, StandsFor
<1>3. Looking <=> (pc \in {"found", "check", "slow", "step"} \/ (pc = "unlazy" /\ w.then = "slow"))
  BY DEF Looking
<1>4. ASSUME pc \in {"found", "check"}
      PROVE  /\ w.cseq <= seq'[w.child]
             /\ w.cseq = seq'[w.child] =>
                  /\ w.child \in hashed' /\ place'[w.child] = <<w.path.dentry, w.comp>>
                  /\ pc = "check" => w.cinode = inode'[w.child]
  <2>1. w.child \in Dentries /\ w.cseq \in Nat
    BY <1>4 DEF WalkW, PlaceW, Sane, TypeW
  <2>2. /\ w.cseq <= seq[w.child]
        /\ w.cseq = seq[w.child] =>
             /\ w.child \in hashed /\ place[w.child] = <<w.path.dentry, w.comp>>
             /\ pc = "check" => w.cinode = inode[w.child]
    BY <1>4 DEF LookW
  <2>3. PICK c, s, t, u : c = w.child /\ s = w.cseq /\ t = seq[c] /\ u = seq'[c]
    OBVIOUS
  <2>4. t \in Nat /\ u \in Nat /\ s \in Nat /\ t <= u /\ s <= t
    BY <2>1, <2>2, <2>3 DEF DcacheInv, Drift
  <2>5. s <= u /\ (s = u => s = t /\ u = t)
    BY <2>4
  <2>6. w.child \in hashed => Used(w.child)
    BY DEF DcacheInv, Live
  <2> QED BY <2>1, <2>2, <2>3, <2>5, <2>6 DEF Drift
<1>5. pc = "step" => <<w.child, w.cinode>> \in seen'
  BY <1>1 DEF LookW
<1>6. pc = "end" /\ w.err = "ENOENT" => Absent \in seen'
  BY <1>1 DEF LookW
<1>7. Looking => w.comp \in Names
  BY <1>3 DEF LookW
<1> QED BY <1>1, <1>2, <1>3, <1>4, <1>5, <1>6, <1>7 DEF LookW, Absent

LEMMA Around ==
    ASSUME WalkInv, Changed, DcacheInv', NamesOnce', Drift
    PROVE  WalkInv'
<1>1. DcacheInv /\ WalkW(w, pc) /\ LookW(w, pc, seen)
  BY DEF WalkInv
<1>2. w' = w /\ pc' = pc /\ seen' = IF Looking THEN seen \union StandsFor' ELSE seen
  BY DEF Changed
<1>3. WalkW(w, pc)'
  BY <1>1, <1>2, DriftWalk
<1>4. LookW(w, pc, seen)'
  BY <1>1, <1>2, DriftLook
<1> QED BY <1>3, <1>4 DEF WalkInv

LEMMA MoveStep ==
    ASSUME WalkInv, NEW d, d \in Dentries, Move(d)
    PROVE  WalkInv'
<1>1. DcacheInv /\ NamesOnce /\ Changed /\ pwd' = pwd /\ top' = top
  BY DEF WalkInv, Move, Changed
<1>2. d \in hashed /\ inode' = inode /\ killed' = killed /\ at' = at /\ mroot' = mroot /\ mseq' = mseq
  BY DEF Move, mounts
<1>3. PICK e, n, victims :
        /\ e \in hashed /\ n \in Names
        /\ victims = Find(e, n) /\ place[d] # <<e, n>>
        /\ place' = [v \in Dentries |-> IF v = d THEN <<e, n>>
                                       ELSE IF v \in victims THEN place[d] ELSE place[v]]
        /\ hashed' = hashed \ victims
        /\ seq' = [v \in Dentries |-> IF v \in victims \union {d} THEN seq[v] + 1 ELSE seq[v]]
  BY DEF Move
<1>4. d \in Dentries /\ e \in Dentries /\ Live(d) /\ Live(e) /\ Null \notin Dentries
  BY <1>1, <1>2, <1>3, WalkAssumption DEF DcacheInv
<1>5. /\ place \in [Dentries -> (Dentries \X (Names \union {Null})) \union {Unused}]
      /\ hashed \subseteq Dentries /\ killed \subseteq Dentries /\ seq \in [Dentries -> Nat]
  BY <1>1 DEF DcacheInv
<1>6. \A v \in victims : v \in hashed /\ place[v] = <<e, n>>
  BY <1>3 DEF Find
<1>7. <<e, n>> \in Dentries \X (Names \union {Null}) /\ <<e, n>> # Unused /\ <<e, n>>[1] = e
  BY <1>3, <1>4 DEF Unused
<1>8. place[d] \in Dentries \X (Names \union {Null}) /\ place[d] # Unused /\ Live(place[d][1])
      /\ place[d][1] \in Dentries
  BY <1>1, <1>4, <1>5 DEF Live, Used, DcacheInv
<1>9. \A v \in Dentries : /\ Used(v)' <=> Used(v)
                          /\ Live(v)' <=> Live(v)
  BY <1>2, <1>3, <1>4, <1>6, <1>7, <1>8, <1>5 DEF Live, Used
<1>10. place' \in [Dentries -> (Dentries \X (Names \union {Null})) \union {Unused}]
  BY <1>3, <1>5, <1>7, <1>8
<1>11. seq' \in [Dentries -> Nat]
  BY <1>3, <1>5
<1>12. \A v \in Dentries : Used(v) => Used(place'[v][1]) /\ place'[v][1] \in Dentries
  <2>1. \A v \in Dentries : place'[v] \in {<<e, n>>, place[d], place[v]}
    BY <1>3
  <2>2. \A v \in Dentries : Used(v) => Used(place[v][1])
    BY <1>1 DEF DcacheInv
  <2> QED BY <2>1, <2>2, <1>4, <1>7, <1>8 DEF Live, Used
<1>13. \A v \in Dentries : Live(v) => Live(place'[v][1]) /\ place'[v][1] \in Dentries
  <2>1. \A v \in Dentries : place'[v] \in {<<e, n>>, place[d], place[v]}
    BY <1>3
  <2>2. \A v \in Dentries : Live(v) => Live(place[v][1])
    BY <1>1 DEF DcacheInv
  <2> QED BY <2>1, <2>2, <1>4, <1>7, <1>8 DEF Live, Used
<1>14. DcacheInv'
  <2>1. hashed' \subseteq Dentries /\ killed' \subseteq Dentries
    BY <1>2, <1>3, <1>5
  <2>2. inode' \in [Dentries -> Inos \union {Null}] /\ mseq' \in Nat
    BY <1>1, <1>2 DEF DcacheInv
  <2>3. \A v \in Dentries : Used(v)' => Used(place[v][1])'
    BY <1>9, <1>12 DEF Used
  <2>4. \A v \in Dentries : Live(v)' => Live(place[v][1])'
    BY <1>9, <1>13 DEF Live, Used
  <2>5. \A v \in hashed' : Live(v)'
    BY <1>1, <1>3, <1>5, <1>9 DEF DcacheInv
  <2>6. \A v \in killed' : Used(v)'
    BY <1>1, <1>2, <1>5, <1>9 DEF DcacheInv
  <2>7. at' \in [Mounts -> Paths \union {Nowhere}] /\ mroot' \in [Mounts -> Dentries]
    BY <1>1, <1>2 DEF DcacheInv
  <2>8. \A m \in Mounts : Live(mroot[m])' /\ (at'[m] # Nowhere => Live(at[m].dentry)')
    <3>1. \A x : Live(x) => Live(x)'
      BY <1>9 DEF Live, Used
    <3> QED BY <1>1, <1>2, <3>1 DEF DcacheInv, Live, Used
  <2>9. pwd' \in Paths /\ Live(pwd.dentry)' /\ top' \in Paths /\ Live(top.dentry)'
    <3>1. \A x : Live(x) => Live(x)'
      BY <1>9 DEF Live, Used
    <3> QED BY <1>1, <3>1 DEF DcacheInv, Live, Used
  <2> QED BY <1>10, <1>11, <2>1, <2>2, <2>3, <2>4, <2>5, <2>6, <2>7, <2>8, <2>9 DEF DcacheInv
<1>15. NamesOnce'
  <2> SUFFICES ASSUME NEW a \in hashed', NEW b \in hashed', place'[a] = place'[b],
                      place'[a][2] \in Names
               PROVE  a = b
    BY DEF NamesOnce
  <2>1. a \in hashed /\ b \in hashed /\ a \notin victims /\ b \notin victims
        /\ a \in Dentries /\ b \in Dentries
    BY <1>3, <1>5
  <2>2. \A v \in hashed : v \notin victims => place[v] # <<e, n>>
    BY <1>3 DEF Find
  <2>3. (a # d => place'[a] = place[a]) /\ (b # d => place'[b] = place[b]) /\ place'[d] = <<e, n>>
    BY <1>3, <1>4, <2>1
  <2> QED BY <1>1, <2>1, <2>2, <2>3 DEF NamesOnce
<1>16. Drift
  <2>1. \A v \in Dentries : seq[v] \in Nat /\ seq[v] <= seq'[v]
            /\ (seq'[v] = seq[v] => v \notin victims \union {d})
    BY <1>3, <1>5
  <2>2. \A v \in Dentries : v \notin victims \union {d} =>
            place'[v] = place[v] /\ (v \in hashed => v \in hashed')
    BY <1>3
  <2> QED BY <1>1, <1>2, <1>9, <2>1, <2>2 DEF Drift
<1> QED BY <1>1, <1>14, <1>15, <1>16, Around

LEMMA DeleteStep ==
    ASSUME WalkInv, NEW d, d \in Dentries, Delete(d)
    PROVE  WalkInv'
<1>1. DcacheInv /\ NamesOnce /\ Changed /\ pwd' = pwd /\ top' = top
  BY DEF WalkInv, Delete, Changed
<1>2. /\ place' = place /\ killed' = killed /\ at' = at /\ mroot' = mroot /\ mseq' = mseq
      /\ seq' = [seq EXCEPT ![d] = @ + 1] /\ hashed' \subseteq hashed /\ hashed \ hashed' \subseteq {d}
  BY DEF Delete, mounts, Bump
<1>3. /\ inode' = inode \/ (w.dref[d] = 0 /\ inode' = [inode EXCEPT ![d] = Null])
  BY DEF Delete
<1>4. /\ hashed \subseteq Dentries /\ seq \in [Dentries -> Nat]
      /\ inode \in [Dentries -> Inos \union {Null}]
  BY <1>1 DEF DcacheInv
<1>5. \A v : (Used(v)' <=> Used(v)) /\ (Live(v)' <=> Live(v))
  BY <1>2 DEF Live, Used
<1>6. DcacheInv'
  <2>1. seq' \in [Dentries -> Nat] /\ inode' \in [Dentries -> Inos \union {Null}]
        /\ hashed' \subseteq Dentries
    BY <1>2, <1>3, <1>4
  <2>2. \A v \in hashed' : Live(v)'
    BY <1>1, <1>2, <1>5 DEF DcacheInv
  <2>3. /\ \A v \in Dentries : Used(v)' => Used(place[v][1])'
        /\ \A v \in Dentries : Live(v)' => Live(place[v][1])'
        /\ \A v \in killed' : Used(v)'
        /\ \A m \in Mounts : Live(mroot[m])' /\ (at'[m] # Nowhere => Live(at[m].dentry)')
        /\ Live(pwd.dentry)' /\ Live(top.dentry)'
    BY <1>1, <1>2 DEF DcacheInv, Live, Used
  <2> QED BY <1>1, <1>2, <2>1, <2>2, <2>3 DEF DcacheInv
<1>7. NamesOnce'
  BY <1>1, <1>2 DEF NamesOnce
<1>8. Drift
  <2>1. \A v \in Dentries : seq[v] <= seq'[v] /\ (seq'[v] = seq[v] => v # d)
    BY <1>2, <1>4
  <2>2. \A v \in Dentries : v # d => inode'[v] = inode[v] /\ (v \in hashed => v \in hashed')
    BY <1>2, <1>3, <1>4
  <2>3. \A v \in Dentries : w.dref[v] > 0 => inode'[v] = inode[v]
    BY <1>3, <1>4
  <2> QED BY <1>1, <1>2, <1>5, <2>1, <2>2, <2>3 DEF Drift
<1> QED BY <1>1, <1>6, <1>7, <1>8, Around

LEMMA KillStep ==
    ASSUME WalkInv, NEW d, d \in Dentries, Kill(d)
    PROVE  WalkInv'
<1>1. DcacheInv /\ NamesOnce /\ Changed /\ pwd' = pwd /\ top' = top
  BY DEF WalkInv, Kill, Changed
<1>2. /\ place' = place /\ killed' = killed \union {d} /\ at' = at /\ mroot' = mroot
      /\ mseq' = mseq /\ seq' = [seq EXCEPT ![d] = @ + 1] /\ hashed' = hashed \ {d}
      /\ inode' = [inode EXCEPT ![d] = Null]
  BY DEF Kill, mounts, Bump
<1>3. d \notin Pinned /\ Used(d) /\ w.dref[d] = 0 /\ Children(d) = {}
  BY DEF Kill, Used
<1>4. /\ hashed \subseteq Dentries /\ killed \subseteq Dentries /\ seq \in [Dentries -> Nat]
      /\ inode \in [Dentries -> Inos \union {Null}]
  BY <1>1 DEF DcacheInv
<1>5. \A v : (Used(v)' <=> Used(v)) /\ (Live(v)' <=> Live(v) /\ v # d)
  BY <1>2 DEF Live, Used
<1>6. DcacheInv'
  <2>1. seq' \in [Dentries -> Nat] /\ inode' \in [Dentries -> Inos \union {Null}]
        /\ hashed' \subseteq Dentries /\ killed' \subseteq Dentries
    BY <1>2, <1>4
  <2>2. \A v \in hashed' : Live(v)'
    BY <1>1, <1>2, <1>5 DEF DcacheInv
  <2>3. /\ \A v \in Dentries : Used(v)' => Used(place[v][1])'
        /\ \A v \in killed' : Used(v)'
    BY <1>1, <1>2, <1>3 DEF DcacheInv, Used
  <2>4. \A v \in Dentries : Live(v)' => Live(place[v][1])'
    <3> SUFFICES ASSUME NEW v \in Dentries, Live(v), v # d PROVE Live(place[v][1]) /\ place[v][1] # d
      BY <1>2, <1>5 DEF Live, Used
    <3>1. place[v][1] # d
      BY <1>3 DEF Children, Live
    <3> QED BY <1>1, <3>1 DEF DcacheInv
  <2>5. \A m \in Mounts : Live(mroot[m])' /\ (at'[m] # Nowhere => Live(at[m].dentry)')
    <3>1. \A m \in Mounts : mroot[m] # d /\ at[m].dentry # d
      BY <1>3 DEF Pinned, Mounted
    <3> QED BY <1>1, <1>2, <3>1 DEF DcacheInv, Live, Used
  <2>6. Live(pwd.dentry)' /\ Live(top.dentry)'
    <3>1. pwd.dentry # d /\ top.dentry # d
      BY <1>3 DEF Pinned, Mounted
    <3> QED BY <1>1, <1>2, <3>1 DEF DcacheInv, Live, Used
  <2> QED BY <1>1, <1>2, <2>1, <2>2, <2>3, <2>4, <2>5, <2>6 DEF DcacheInv
<1>7. NamesOnce'
  BY <1>1, <1>2 DEF NamesOnce
<1>8. Drift
  <2>1. \A v \in Dentries : seq[v] <= seq'[v] /\ (seq'[v] = seq[v] => v # d)
    BY <1>2, <1>4
  <2>2. \A v \in Dentries : v # d => inode'[v] = inode[v] /\ (v \in hashed => v \in hashed')
            /\ (v \in killed' => v \in killed)
    BY <1>2, <1>4
  <2>3. \A v \in Dentries : w.dref[v] > 0 => v # d
    BY <1>3
  <2> QED BY <1>1, <1>2, <1>5, <2>1, <2>2, <2>3 DEF Drift
<1> QED BY <1>1, <1>6, <1>7, <1>8, Around

\* A mount changes neither a dentry nor a sequence count of one.
LEMMA MountsMove ==
    ASSUME WalkInv, Changed, UNCHANGED <<dcache, mroot>>, mseq' = mseq + 1,
           at' \in [Mounts -> Paths \union {Nowhere}],
           \A m \in Mounts : at'[m] # Nowhere => Live(at'[m].dentry)
    PROVE  WalkInv'
<1>1. DcacheInv /\ NamesOnce /\ pwd' = pwd /\ top' = top
  BY DEF WalkInv, Changed
<1>2. /\ place' = place /\ hashed' = hashed /\ inode' = inode /\ seq' = seq /\ killed' = killed
      /\ mroot' = mroot
  BY DEF dcache
<1>3. DcacheInv'
  <2>1. \A m \in Mounts : at'[m] # Nowhere => Live(at[m].dentry)'
    BY <1>2 DEF Live, Used
  <2>2. mseq' \in Nat
    BY <1>1 DEF DcacheInv
  <2>3. /\ \A v \in Dentries : Used(v)' => Used(place[v][1])'
        /\ \A v \in Dentries : Live(v)' => Live(place[v][1])'
        /\ \A v \in killed' : Used(v)'
        /\ \A v \in hashed' : Live(v)'
        /\ \A m \in Mounts : Live(mroot[m])'
        /\ Live(pwd.dentry)' /\ Live(top.dentry)'
    BY <1>1, <1>2 DEF DcacheInv, Live, Used
  <2> QED BY <1>1, <1>2, <2>1, <2>2, <2>3 DEF DcacheInv
<1>4. NamesOnce'
  BY <1>1, <1>2 DEF NamesOnce
<1>5. Drift
  <2>1. \A v \in Dentries : seq[v] \in Nat
    BY <1>1 DEF DcacheInv
  <2> QED BY <1>1, <1>2, <2>1 DEF Drift, Used
<1> QED BY <1>3, <1>4, <1>5, Around

LEMMA UmountStep ==
    ASSUME WalkInv, NEW m, m \in Mounts, Umount(m)
    PROVE  WalkInv'
<1>1. DcacheInv
  BY DEF WalkInv
<1>2. at' = [at EXCEPT ![m] = Nowhere] /\ Changed /\ UNCHANGED <<dcache, mroot>> /\ mseq' = mseq + 1
  BY DEF Umount
<1>3. at' \in [Mounts -> Paths \union {Nowhere}]
  BY <1>1, <1>2 DEF DcacheInv
<1>4. \A x \in Mounts : at'[x] # Nowhere => Live(at'[x].dentry)
  BY <1>1, <1>2 DEF DcacheInv
<1> QED BY <1>2, <1>3, <1>4, MountsMove

LEMMA MountStep ==
    ASSUME WalkInv, NEW m, m \in Mounts, Mount(m)
    PROVE  WalkInv'
<1>1. DcacheInv
  BY DEF WalkInv
<1>2. Changed /\ UNCHANGED <<dcache, mroot>> /\ mseq' = mseq + 1
  BY DEF Mount
<1>3. PICK d \in hashed : at' = [at EXCEPT ![m] = [mnt |-> top.mnt, dentry |-> d]]
  BY DEF Mount
<1>4. d \in Dentries /\ Live(d) /\ top.mnt \in Mounts
  BY <1>1, PathParts DEF DcacheInv
<1>5. PICK p : p = [mnt |-> top.mnt, dentry |-> d]
  OBVIOUS
<1>6. p \in Paths /\ p.dentry = d
  BY <1>4, <1>5 DEF Paths
<1>7. at' = [at EXCEPT ![m] = p]
  BY <1>3, <1>5
<1>8. at' \in [Mounts -> Paths \union {Nowhere}]
  BY <1>1, <1>6, <1>7 DEF DcacheInv
<1>9. \A x \in Mounts : at'[x] # Nowhere => Live(at'[x].dentry)
  BY <1>1, <1>4, <1>6, <1>7 DEF DcacheInv
<1> QED BY <1>2, <1>8, <1>9, MountsMove

\* A name that is not in the dcache gets a dentry.
LEMMA Grown ==
    ASSUME DcacheInv, NamesOnce, NEW dir, NEW c, c \in Names, Find(dir, c) = {}, dir \in hashed,
           NEW d0, d0 \in Dentries, d0 \notin hashed, d0 \notin killed, place[d0] = Unused,
           NEW ino, ino \in Inos \union {Null},
           place' = [place EXCEPT ![d0] = <<dir, c>>], inode' = [inode EXCEPT ![d0] = ino],
           hashed' = hashed \union {d0}, UNCHANGED <<seq, killed, mounts, pwd, top>>
    PROVE  /\ DcacheInv' /\ NamesOnce' /\ Live(d0)' /\ inode'[d0] = ino
           /\ \A v : Used(v) => Used(v)' /\ v # d0 /\ inode'[v] = inode[v]
           /\ Find(dir, c)' = {d0}
<1>1. /\ seq' = seq /\ killed' = killed /\ at' = at /\ mroot' = mroot /\ mseq' = mseq
      /\ pwd' = pwd /\ top' = top
  BY DEF mounts
<1>2. /\ place \in [Dentries -> (Dentries \X (Names \union {Null})) \union {Unused}]
      /\ hashed \subseteq Dentries /\ killed \subseteq Dentries
      /\ inode \in [Dentries -> Inos \union {Null}] /\ Live(dir) /\ dir \in Dentries
  BY DEF DcacheInv
<1>3. <<dir, c>> \in Dentries \X (Names \union {Null}) /\ <<dir, c>> # Unused /\ <<dir, c>>[1] = dir
  BY <1>2, NullOut DEF Unused
<1>4. \A v \in Dentries : place'[v] = IF v = d0 THEN <<dir, c>> ELSE place[v]
  BY <1>2
<1>5. \A v : Used(v) => Used(v)' /\ v # d0 /\ inode'[v] = inode[v] /\ place'[v] = place[v]
  BY <1>2, <1>4 DEF Used
<1>6. \A v : Live(v) => Live(v)'
  BY <1>1, <1>5 DEF Live
<1>7. Live(d0)' /\ inode'[d0] = ino
  BY <1>1, <1>2, <1>3, <1>4 DEF Live, Used
<1>8. \A v \in Dentries : v # d0 => (Used(v)' => Used(v)) /\ (Live(v)' => Live(v))
  BY <1>1, <1>4 DEF Live, Used
<1>9. place' \in [Dentries -> (Dentries \X (Names \union {Null})) \union {Unused}]
  BY <1>2, <1>3
<1>10. inode' \in [Dentries -> Inos \union {Null}] /\ hashed' \subseteq Dentries
  BY <1>2
<1>11. \A v \in Dentries : Used(v)' => Used(place[v][1])'
  <2>1. \A v \in Dentries : v # d0 /\ Used(v)' => Used(place[v][1]) /\ place'[v] = place[v]
    BY <1>4, <1>8 DEF DcacheInv
  <2>2. Used(place'[d0][1])
    BY <1>2, <1>3, <1>4 DEF Live
  <2>3. \A v \in Dentries : Used(v)' => Used(place'[v][1])
    BY <2>1, <2>2
  <2> QED BY <1>5, <2>3 DEF Used
<1>12. \A v \in Dentries : Live(v)' => Live(place[v][1])'
  <2>1. \A v \in Dentries : v # d0 /\ Live(v)' => Live(place[v][1]) /\ place'[v] = place[v]
    BY <1>4, <1>8 DEF DcacheInv
  <2>2. Live(place'[d0][1])
    BY <1>2, <1>3, <1>4
  <2>3. \A v \in Dentries : Live(v)' => Live(place'[v][1])
    BY <2>1, <2>2
  <2> QED BY <1>6, <2>3 DEF Live, Used
<1>13. \A v \in hashed' : Live(v)'
  BY <1>6, <1>7 DEF DcacheInv
<1>14. \A v \in killed' : Used(v)'
  BY <1>1, <1>5 DEF DcacheInv
<1>15. \A m \in Mounts : Live(mroot[m])' /\ (at'[m] # Nowhere => Live(at[m].dentry)')
  BY <1>1, <1>6 DEF DcacheInv, Live, Used
<1>16. Live(pwd.dentry)' /\ Live(top.dentry)'
  BY <1>1, <1>6 DEF DcacheInv, Live, Used
<1>17. DcacheInv'
  BY <1>1, <1>2, <1>9, <1>10, <1>11, <1>12, <1>13, <1>14, <1>15, <1>16 DEF DcacheInv
<1>18. \A v \in hashed : place'[v] = place[v] /\ place[v] # <<dir, c>> /\ v # d0
  BY <1>2, <1>4 DEF Find
<1>19. NamesOnce'
  BY <1>4, <1>18 DEF NamesOnce
<1>20. Find(dir, c)' = {d0}
  BY <1>4, <1>18 DEF Find
<1> QED BY <1>5, <1>7, <1>17, <1>19, <1>20

\* The child found with a reference, where it is the new dentry.
LEMMA NewFound ==
    ASSUME NEW x, Fit(x), ~x.rcu, Owes(x, Nowhere, Nowhere), NEW d0, d0 \in Dentries, d0 \notin killed,
           NEW ino
    PROVE  LET y == [x EXCEPT !.dref = Add(@, d0, 1), !.child = d0, !.cinode = ino,
                              !.found = [x.path EXCEPT !.dentry = d0],
                              !.finode = ino, !.fseq = 0] IN
           /\ Sane(y) /\ Room(y)
           /\ Same(x, y, {"dref", "child", "cinode", "found", "finode", "fseq"})
           /\ y.child = d0 /\ y.cinode = ino /\ y.finode = ino /\ y.fseq = 0
           /\ y.found \in Paths /\ y.found.dentry = d0 /\ Owes(y, Beside(y.found, y), Nowhere)
<1> DEFINE v == [x EXCEPT !.dref = Add(@, d0, 1)]
           p == [x.path EXCEPT !.dentry = d0]
           y == [x EXCEPT !.dref = Add(@, d0, 1), !.child = d0, !.cinode = ino,
                          !.found = p, !.finode = ino, !.fseq = 0]
           u == [v EXCEPT !.child = d0, !.cinode = ino, !.found = p, !.finode = ino, !.fseq = 0]
<1> SUFFICES /\ Sane(y) /\ Room(y)
             /\ Same(x, y, {"dref", "child", "cinode", "found", "finode", "fseq"})
             /\ y.child = d0 /\ y.cinode = ino /\ y.finode = ino /\ y.fseq = 0
             /\ y.found \in Paths /\ y.found.dentry = d0 /\ Owes(y, Beside(y.found, y), Nowhere)
  OBVIOUS
<1>1. Sane(x) /\ TypeW(x) /\ IsWalk(x) /\ Room(x) /\ x.path \in Paths
  BY DEF Fit, Sane, TypeW, Base
<1>2. p \in Paths /\ p.dentry = d0 /\ p.mnt = x.path.mnt
  BY <1>1 DEF Paths
<1> HIDE DEF p
<1>3. y = u
  BY <1>1 DEF IsWalk, Fields
<1>4. /\ Sane(v) /\ TypeW(v) /\ IsWalk(v) /\ Same(x, v, {"dref"})
      /\ \A d \in Dentries : v.dref[d] = x.dref[d] + (IF d0 = d THEN 1 ELSE 0)
  <2>1. 1 \in Int /\ (1 <= 0 \/ d0 \notin killed)
    OBVIOUS
  <2>2. /\ Sane(v) /\ TypeW(v) /\ Same(x, v, {"dref"})
        /\ \A d \in Dentries : v.dref[d] = x.dref[d] + (IF d0 = d THEN 1 ELSE 0)
    BY <1>1, <2>1, SaneD
  <2> QED BY <2>2 DEF TypeW
<1> HIDE DEF v, y
<1>5. Moves(x, v, Alone(d0), Nowhere)
  <2>1. \A d \in Dentries : v.dref[d] = x.dref[d] + One(d0 = d)
    BY <1>4 DEF One
  <2> QED BY <1>1, <1>4, <2>1, DrefMoves
<1>6. Owes(v, Alone(d0), Nowhere)
  BY <1>1, <1>4, <1>5, MovesOwes
<1>7. IsWalk(u) /\ Same(v, u, {"child", "cinode", "found", "finode", "fseq"})
  BY <1>4, ZenonT(80) DEF IsWalk, Fields, Same
<1>8. u.child = d0 /\ u.cinode = ino /\ u.found = p /\ u.finode = ino /\ u.fseq = 0
  BY <1>4 DEF IsWalk, Fields
<1> HIDE DEF u
<1>9. TypeW(u)
  <2>1. p \in MaybePaths /\ 0 \in Nat
    BY <1>2, PathParts
  <2> QED BY <1>4, <1>7, <1>8, <2>1 DEF TypeW, Same, Fields
<1>10. /\ Same(v, u, Fields \ {"dref", "stack", "calls", "rcu", "rcu_lock"})
       /\ Same(v, u, Fields \ {"dref", "mref", "stack", "rcu", "path", "root", "lookup_root"})
  BY <1>7 DEF Same, Fields
<1>11. Sane(u) /\ Even(v, u)
  BY <1>4, <1>9, <1>10, SaneSame, EvenSame
<1>12. Same(x, u, {"dref", "child", "cinode", "found", "finode", "fseq"})
  BY <1>4, <1>7 DEF Same, Fields
<1>13. u.stack = x.stack /\ u.total = x.total /\ u.alloc = x.alloc /\ u.err = x.err /\ u.path = x.path
  BY <1>12 DEF Same, Fields
<1>14. Room(u)
  BY <1>1, <1>13 DEF Room
<1>15. Owes(u, Alone(d0), Nowhere)
  BY <1>6, <1>11, EvenOwes
<1>16. Beside(u.found, u) = Alone(d0)
  BY <1>2, <1>8, <1>13 DEF Beside, Alone
<1> QED BY <1>2, <1>3, <1>8, <1>11, <1>12, <1>14, <1>15, <1>16

LEMMA LookupSlow == ASSUME WalkInv, lookup_slow PROVE WalkInv'
<1> DEFINE dir == w.path.dentry
           c == w.comp
<1>1. pc = "slow"
  BY DEF lookup_slow
<1>2. /\ DcacheInv /\ NamesOnce /\ Fit(w) /\ Owes(w, Nowhere, Nowhere) /\ TypeW(w) /\ IsWalk(w)
      /\ Sane(w) /\ Room(w) /\ Base(w) /\ w.err = "" /\ w.result = Nowhere
  BY <1>1, Ready
<1>3. ~w.rcu /\ c \in Names /\ Stands(dir, c) \subseteq seen
  BY <1>1 DEF WalkInv, WalkW, PlaceW, LookW
<1>4. Find(dir, c) = {} => Absent \in seen
  BY <1>3 DEF Stands
<1>5. CASE /\ Find(dir, c) = {} /\ UNCHANGED <<around, seen>>
           /\ \E e \in {"ENOENT", "ESTALE"} : Fail(w, e)
  <2>1. PICK e \in {"ENOENT", "ESTALE"} : Fail(w, e)
    BY <1>5
  <2>2. UNCHANGED around /\ seen' = seen /\ Absent \in seen
    BY <1>4, <1>5
  <2> QED BY <1>2, <2>1, <2>2, FailStep
<1>6. ASSUME NEW d \in Find(dir, c), UNCHANGED <<around, seen>>,
             LET x == [w EXCEPT !.dref = Add(@, d, 1)] IN
             IF inode[d] = Null
             THEN Fail(path_to_nameidata(x, [x.path EXCEPT !.dentry = d]), "ENOENT")
             ELSE Goto(follow_managed(x, d), "step")
      PROVE  WalkInv'
  <2> DEFINE x == [w EXCEPT !.dref = Add(@, d, 1)]
             p == [x.path EXCEPT !.dentry = d]
             y == path_to_nameidata(x, p)
             z == follow_managed(x, d)
  <2>1. \/ inode[d] = Null /\ Fail(y, "ENOENT")
        \/ inode[d] # Null /\ Goto(z, "step")
    BY <1>6
  <2>2. /\ Live(d) /\ d \in Dentries
        /\ inode[d] # Null => <<d, inode[d]>> \in seen
        /\ inode[d] = Null => Absent \in seen
    <3> HIDE DEF dir, c
    <3>1. c \in Names /\ d \in Find(dir, c)
      BY <1>3, <1>6
    <3>2. /\ Live(d) /\ d \in Dentries
          /\ inode[d] # Null => <<d, inode[d]>> \in Stands(dir, c)
          /\ inode[d] = Null => Absent \in Stands(dir, c)
      BY <1>2, <3>1, StandsIs
    <3> QED BY <1>3, <3>2
  <2>3. Fit(x) /\ Same(w, x, {"dref"}) /\ Owes(x, Alone(d), Nowhere)
    BY <1>2, <2>2, FitTook
  <2>4. UNCHANGED around /\ seen' = seen
    BY <1>6
  <2> HIDE DEF x
  <2>5. ~x.rcu /\ x.path = w.path /\ x.comp = w.comp
    BY <1>3, <2>3 DEF Same, Fields
  <2>6. x.comp \in Names /\ Stands(x.path.dentry, x.comp) \subseteq seen
    BY <1>3, <2>5
  <2>7. Sane(x) /\ TypeW(x) /\ Room(x) /\ x.path \in Paths /\ x.result = Nowhere /\ x.err = ""
    BY <2>3 DEF Fit, Sane, Base
  <2>8. p \in Paths /\ Beside(p, x) = Alone(d)
    BY <2>2, <2>7 DEF Paths, Beside, Alone
  <2> HIDE DEF p
  <2>9. CASE inode[d] = Null /\ Fail(y, "ENOENT")
    <3>1. /\ Sane(y) /\ Same(x, y, {"path", "dref", "mref"})
          /\ Moves(x, y, Nowhere, Beside(p, x))
      BY <2>5, <2>7, <2>8, PathToNameidata
    <3> HIDE DEF y
    <3>2. /\ y.result = x.result /\ y.stack = x.stack /\ y.total = x.total /\ y.alloc = x.alloc
          /\ y.err = x.err
      BY <3>1 DEF Same, Fields
    <3>3. Room(y) /\ TypeW(y)
      BY <2>7, <3>1, <3>2 DEF Room, Sane
    <3>4. Owes(y, Nowhere, Nowhere)
      BY <2>3, <2>7, <2>8, <3>1, <3>3, MovesOwes
    <3>5. Absent \in seen /\ y.err # "ELOOP" /\ y.result = Nowhere
      BY <2>2, <2>7, <2>9, <3>2
    <3> QED BY <1>2, <2>4, <2>9, <3>1, <3>3, <3>4, <3>5, FailStep
  <2>10. CASE inode[d] # Null /\ Goto(z, "step")
    <3>1. WalkW(z, "step") /\ LookW(z, "step", seen)
      BY <1>2, <2>2, <2>3, <2>5, <2>6, <2>10, ManagedStep
    <3> HIDE DEF z
    <3> QED BY <1>2, <2>4, <2>10, <3>1, GoStep
  <2> QED BY <2>1, <2>9, <2>10
<1>7. ASSUME Find(dir, c) = {}, dir \in hashed, NEW d0, d0 \in Dentries, d0 \notin hashed,
             d0 \notin killed, place[d0] = Unused,
             NEW ino, ino \in Inos \union {Null},
             place' = [place EXCEPT ![d0] = <<dir, c>>], inode' = [inode EXCEPT ![d0] = ino],
             hashed' = hashed \union {d0}, seen' = seen \union {<<d0, ino>>},
             IF ino = Null THEN Fail(w, "ENOENT")
             ELSE Goto([w EXCEPT !.dref = Add(@, d0, 1), !.child = d0, !.cinode = ino,
                                 !.found = [w.path EXCEPT !.dentry = d0],
                                 !.finode = ino, !.fseq = 0], "step"),
             UNCHANGED <<seq, killed, mounts, pwd, top>>
      PROVE  WalkInv'
  <2> DEFINE x == [w EXCEPT !.err = "ENOENT"]
             y == [w EXCEPT !.dref = Add(@, d0, 1), !.child = d0, !.cinode = ino,
                            !.found = [w.path EXCEPT !.dentry = d0], !.finode = ino, !.fseq = 0]
  <2>1. \/ ino = Null /\ w' = x /\ pc' = "end"
        \/ ino # Null /\ w' = y /\ pc' = "step"
    BY <1>7 DEF Fail, Goto
  <2>2. PICK dd, cc : dd = dir /\ cc = c
    OBVIOUS
  <2>3. /\ cc \in Names /\ Find(dd, cc) = {} /\ dd \in hashed
        /\ place' = [place EXCEPT ![d0] = <<dd, cc>>]
    BY <1>3, <1>7, <2>2
  <2>4. /\ d0 \in Dentries /\ d0 \notin hashed /\ d0 \notin killed /\ place[d0] = Unused
        /\ ino \in Inos \union {Null} /\ inode' = [inode EXCEPT ![d0] = ino]
        /\ hashed' = hashed \union {d0} /\ UNCHANGED <<seq, killed, mounts, pwd, top>>
    BY <1>7
  <2>5. /\ DcacheInv' /\ NamesOnce' /\ Live(d0)' /\ inode'[d0] = ino
        /\ \A v : Used(v) => Used(v)' /\ v # d0 /\ inode'[v] = inode[v]
        /\ Find(dd, cc)' = {d0}
    BY <1>2, <2>3, <2>4, Grown
  <2>6. killed' = killed /\ top' = top /\ seen' = seen \union {<<d0, ino>>}
    BY <1>7
  <2>7. CASE ino = Null /\ w' = x /\ pc' = "end"
    <3>1. IsWalk(x) /\ Same(w, x, {"err"}) /\ x.err = "ENOENT"
      BY <1>2 DEF IsWalk, Fields, Same
    <3>2. w' = x /\ pc' = "end"
      BY <2>7
    <3> HIDE DEF x
    <3>3. TypeW(x)
      BY <1>2, <3>1 DEF TypeW, Same, Fields
    <3>4. /\ Same(w, x, Fields \ {"dref", "stack", "calls", "rcu", "rcu_lock"})
          /\ Same(w, x, Fields \ {"dref", "mref", "stack", "rcu", "path", "root", "lookup_root"})
          /\ x.result = w.result /\ x.stack = w.stack /\ x.total = w.total /\ x.alloc = w.alloc
          /\ x.dref = w.dref
      BY <3>1 DEF Same, Fields
    <3>5. Sane(x) /\ Even(w, x)
      BY <1>2, <3>3, <3>4, SaneSame, EvenSame
    <3>6. Owes(x, Held(x, "end"), x.result)
      <4>1. Held(x, "end") = Nowhere /\ x.result = Nowhere
        BY <1>2, <3>4 DEF Held
      <4> QED BY <1>2, <3>5, <4>1, EvenOwes
    <3>7. Room(x)
      BY <1>2, <3>1, <3>4 DEF Room
    <3>8. HoldsLive(x) /\ LinkCalls(x)
      BY <3>5 DEF Sane
    <3>9. HoldsLive(w)'
      BY <2>6, <3>2, <3>8 DEF HoldsLive
    <3>10. PlaceW(w, pc)'
      BY <1>2, <3>2, <3>4 DEF PlaceW, Walking
    <3>11. WalkW(w, pc)'
      BY <3>2, <3>3, <3>6, <3>7, <3>8, <3>9, <3>10, Primed
    <3>12. LookW(w, pc, seen)'
      <4>1. Absent \in seen'
        BY <1>4, <1>7, <2>6
      <4> QED BY <3>2, <4>1 DEF LookW, Absent
    <3> QED BY <2>5, <3>11, <3>12 DEF WalkInv
  <2>8. CASE ino # Null /\ w' = y /\ pc' = "step"
    <3>1. /\ Sane(y) /\ Room(y)
          /\ Same(w, y, {"dref", "child", "cinode", "found", "finode", "fseq"})
          /\ y.child = d0 /\ y.cinode = ino /\ y.finode = ino /\ y.fseq = 0
          /\ y.found \in Paths /\ y.found.dentry = d0 /\ Owes(y, Beside(y.found, y), Nowhere)
      BY <1>2, <1>3, <2>4, NewFound
    <3>2. w' = y /\ pc' = "step"
      BY <2>8
    <3> HIDE DEF y
    <3>3. /\ y.rcu = w.rcu /\ y.path = w.path /\ y.root = w.root /\ y.lookup_root = w.lookup_root
          /\ y.seq = w.seq /\ y.inode = w.inode /\ y.result = w.result /\ y.err = w.err
          /\ y.comp = w.comp
      BY <3>1 DEF Same, Fields
    <3>4. ~y.rcu /\ y.result = Nowhere /\ y.err = ""
      BY <1>2, <1>3, <3>3
    <3>5. Owes(y, Held(y, "step"), y.result)
      <4>1. Held(y, "step") = Beside(y.found, y)
        BY <3>4 DEF Held
      <4> QED BY <3>1, <3>4, <4>1
    <3>6. TypeW(y) /\ HoldsLive(y) /\ LinkCalls(y)
      BY <3>1 DEF Sane
    <3>7. HoldsLive(w)'
      BY <2>6, <3>2, <3>6 DEF HoldsLive
    <3>8. Base(w)'
      <4>1. /\ w.path \in Paths /\ Used(w.path.dentry) /\ w.inode = inode[w.path.dentry]
            /\ w.root.mnt # Null => w.root \in Paths /\ Used(w.root.dentry)
            /\ w.lookup_root => w.root = top
        BY <1>2, <1>3 DEF Base, Knows
      <4>2. PICK e : e = w.path.dentry
        OBVIOUS
      <4>3. Used(e)' /\ inode'[e] = inode[e]
        BY <2>5, <4>1, <4>2
      <4>4. Used(w.path.dentry)' /\ w'.inode = inode'[w'.path.dentry]
        BY <3>2, <3>3, <4>1, <4>2, <4>3 DEF Used
      <4>5. w.root.mnt # Null => Used(w.root.dentry)'
        <5>1. PICK r : r = w.root.dentry
          OBVIOUS
        <5>2. w.root.mnt # Null => Used(r)'
          BY <2>5, <4>1, <5>1
        <5> QED BY <3>2, <3>3, <5>1, <5>2 DEF Used
      <4> QED BY <2>6, <3>2, <3>3, <3>4, <4>1, <4>4, <4>5 DEF Base, Knows
    <3>9. HasFound(w)' /\ Knows(w, w.found.dentry, w.fseq, w.finode)'
      BY <2>5, <3>1, <3>2, <3>4 DEF HasFound, Knows, Live, Used
    <3>10. PlaceW(w, pc)'
      BY <3>2, <3>4, <3>8, <3>9 DEF PlaceW
    <3>11. WalkW(w, pc)'
      BY <3>1, <3>2, <3>5, <3>6, <3>7, <3>10, Primed
    <3>12. LookW(w, pc, seen)'
      <4>1. {e \in Find(dd, cc)' : inode'[e] # Null} = {d0}
        BY <2>5, <2>8
      <4>2. Stands(dd, cc)' = {<<d0, ino>>}
        BY <2>5, <4>1 DEF Stands
      <4>3. Stands(w.path.dentry, w.comp)' = Stands(dd, cc)'
        BY <2>2, <3>2, <3>3 DEF Stands, Find
      <4>4. w'.comp \in Names /\ Stands(w.path.dentry, w.comp)' \subseteq seen'
        BY <1>3, <2>6, <3>2, <3>3, <4>2, <4>3
      <4>5. <<w'.child, w'.cinode>> \in seen'
        BY <2>6, <3>1, <3>2
      <4> QED BY <3>2, <4>4, <4>5 DEF LookW
    <3> QED BY <2>5, <3>11, <3>12 DEF WalkInv
  <2> QED BY <2>1, <2>7, <2>8
<1>8. CASE /\ \E d \in Find(dir, c) :
               LET x == [w EXCEPT !.dref = Add(@, d, 1)] IN
               IF inode[d] = Null
               THEN Fail(path_to_nameidata(x, [x.path EXCEPT !.dentry = d]), "ENOENT")
               ELSE Goto(follow_managed(x, d), "step")
           /\ UNCHANGED <<around, seen>>
  BY <1>6, <1>8
<1>9. CASE /\ Find(dir, w.comp) = {} /\ dir \in hashed
           /\ \E d \in Dentries \ (hashed \union killed) :
                /\ place[d] = Unused
                /\ \E ino \in (Inos \ {inode[e] : e \in Dentries}) \union {Null} :
                    /\ place' = [place EXCEPT ![d] = <<dir, w.comp>>]
                    /\ inode' = [inode EXCEPT ![d] = ino]
                    /\ hashed' = hashed \union {d}
                    /\ seen' = seen \union {<<d, ino>>}
                    /\ IF ino = Null THEN Fail(w, "ENOENT")
                       ELSE Goto([w EXCEPT !.dref = Add(@, d, 1), !.child = d, !.cinode = ino,
                                           !.found = [w.path EXCEPT !.dentry = d],
                                           !.finode = ino, !.fseq = 0], "step")
           /\ UNCHANGED <<seq, killed, mounts, pwd, top>>
  BY <1>7, <1>9, Zenon
<1> QED BY <1>5, <1>8, <1>9, Zenon DEF lookup_slow

-----------------------------------------------------------------------------
(* The invariant *)

LEMMA WalkStart == ASSUME Init PROVE WalkInv
<1>1. PICK s \in Starts :
        /\ place = s.place /\ inode = s.inode /\ at = s.at /\ mroot = s.mroot
        /\ pwd = s.pwd /\ top = s.top
        /\ w = [start |-> s.path, follow |-> s.follow, lookup_root |-> s.lookup_root,
                attempt |-> "rcu", rcu |-> FALSE, rcu_lock |-> 0, err |-> "",
                path |-> Nowhere, inode |-> Null, seq |-> 0, root |-> Nowhere,
                root_seq |-> 0, m_seq |-> 0, stack |-> <<>>, alloc |-> FALSE, total |-> 0,
                name |-> <<>>, comp |-> Null, mode |-> "last", then |-> "end",
                link_inode |-> Null,
                child |-> Null, cseq |-> 0, cinode |-> Null, found |-> Nowhere,
                finode |-> Null, fseq |-> 0, result |-> Nowhere,
                dref |-> [d \in Dentries |-> 0], mref |-> [m \in Mounts |-> 0], calls |-> 0]
  BY DEF Init
<1>2. /\ hashed = {d \in Dentries : inode[d] # Null \/ place[d] # Unused}
      /\ seq = [d \in Dentries |-> 0] /\ killed = {} /\ mseq = 0 /\ seen = {} /\ pc = "init"
  BY DEF Init
<1>3. /\ place \in [Dentries -> (Dentries \X (Names \union {Null})) \union {Unused}]
      /\ inode \in [Dentries -> Inos \union {Null}]
      /\ at \in [Mounts -> Paths \union {Nowhere}] /\ pwd \in Paths /\ top \in Paths
  BY <1>1, StartsAssumption
<1>4. s.path \in [abs : BOOLEAN, comps : Seq(Components), directory : BOOLEAN] /\ s.lookup_root \in BOOLEAN
  BY <1>1, StartsAssumption
<1>5. PICK used : used = {d \in Dentries : place[d] # Unused}
  OBVIOUS
<1>6. /\ \A d \in used : place[d][1] \in used
      /\ \A d, e \in used : place[d] = place[e] /\ place[d][2] \in Names => d = e
      /\ \A d \in Dentries \ used : inode[d] = Null
      /\ mroot \in [Mounts -> used]
      /\ \A m \in Mounts : at[m] # Nowhere => at[m].dentry \in used
      /\ pwd.dentry \in used /\ top.dentry \in used
  <2>1. used = {d \in Dentries : s.place[d] # Unused}
    BY <1>1, <1>5
  <2>2. /\ \A d \in used : s.place[d][1] \in used
        /\ \A d, e \in used : s.place[d] = s.place[e] /\ s.place[d][2] \in Names => d = e
        /\ \A d \in Dentries \ used : s.inode[d] = Null
        /\ s.mroot \in [Mounts -> used]
        /\ \A m \in Mounts : s.at[m] # Nowhere => s.at[m].dentry \in used
        /\ {s.pwd.dentry, s.top.dentry} \subseteq used
    BY <1>1, <2>1, StartsAssumption, Zenon
  <2> QED BY <1>1, <2>2
<1>7. \A d : (Used(d) <=> d \in used) /\ (Live(d) <=> d \in used)
  BY <1>2, <1>5 DEF Used, Live
<1>8. hashed = used /\ used \subseteq Dentries
  BY <1>2, <1>5, <1>6
<1>9. DcacheInv
  <2>1. \A m \in Mounts : mroot[m] \in used
    BY <1>6
  <2>2. mroot \in [Mounts -> Dentries] /\ seq \in [Dentries -> Nat] /\ mseq \in Nat
    BY <1>2, <1>6, <1>8
  <2> QED BY <1>2, <1>3, <1>6, <1>7, <1>8, <2>1, <2>2 DEF DcacheInv
<1>10. NamesOnce
  BY <1>6, <1>8 DEF NamesOnce
<1>11. IsWalk(w)
  BY <1>1 DEF IsWalk, Fields
<1>12. /\ w.start = s.path /\ w.lookup_root = s.lookup_root /\ w.rcu = FALSE /\ w.rcu_lock = 0
       /\ w.err = "" /\ w.path = Nowhere /\ w.seq = 0 /\ w.root = Nowhere /\ w.root_seq = 0
  BY <1>1
<1>13. /\ w.stack = <<>> /\ w.alloc = FALSE /\ w.total = 0 /\ w.name = <<>> /\ w.cseq = 0
       /\ w.found = Nowhere /\ w.fseq = 0 /\ w.result = Nowhere /\ w.calls = 0
       /\ w.dref = [d \in Dentries |-> 0] /\ w.mref = [m \in Mounts |-> 0]
  BY <1>1
<1>14. TypeW(w)
  <2>1. w.stack \in Seq(Links) /\ w.name \in Seq(Components)
    BY <1>13, EmptySeq
  <2>2. w.dref \in [Dentries -> Int] /\ w.mref \in [Mounts -> Int]
    BY <1>13
  <2>3. w.rcu \in BOOLEAN /\ w.lookup_root \in BOOLEAN /\ w.alloc \in BOOLEAN
    BY <1>4, <1>12, <1>13, Zenon
  <2>4. /\ w.seq \in Nat /\ w.cseq \in Nat /\ w.fseq \in Nat /\ w.root_seq \in Nat /\ w.total \in Nat
        /\ w.calls \in Int /\ w.rcu_lock \in Int
    <3>1. 0 \in Nat /\ 0 \in Int
      OBVIOUS
    <3> QED BY <1>12, <1>13, <3>1, Zenon
  <2>5. /\ w.path \in MaybePaths /\ w.root \in MaybePaths /\ w.found \in MaybePaths
        /\ w.result \in MaybePaths
    BY <1>12, <1>13, NowhereIs
  <2> QED BY <1>4, <1>11, <1>12, <2>1, <2>2, <2>3, <2>4, <2>5 DEF TypeW
<1>15. HoldsLive(w)
  BY <1>13 DEF HoldsLive
<1>16. LinkCalls(w)
  <2>1. Len(w.stack) = 0 /\ Calls(w.stack, 0) = 0
    BY <1>13, NoLinks
  <2> QED BY <1>12, <1>13, <2>1 DEF LinkCalls, One
<1>17. Room(w)
  <2>1. Len(w.stack) = 0 /\ w.total = 0
    BY <1>13
  <2>2. MAXSYMLINKS \in Nat /\ EMBEDDED_LEVELS \in Nat
    BY WalkAssumption
  <2> QED BY <2>1, <2>2 DEF Room
<1>18. PlaceW(w, pc)
  BY <1>2, <1>12, <1>13 DEF PlaceW, Walking, Cleared
<1>19. Owes(w, Held(w, pc), w.result)
  <2>1. Held(w, pc) = Nowhere /\ w.result = Nowhere
    BY <1>2, <1>13 DEF Held
  <2>2. ~OwnRoot(w)
    BY <1>12, NowhereIs DEF OwnRoot
  <2>3. /\ \A d \in Dentries : DebtD(w, d) = w.dref[d]
        /\ \A m \in Mounts : DebtM(w, m) = w.mref[m]
    BY <1>12, <1>13, <1>14, <2>2, BareOwes
  <2> QED BY <1>13, <2>1, <2>3, NoOne DEF Owes
<1>20. LookW(w, pc, seen)
  BY <1>2 DEF LookW
<1> QED BY <1>9, <1>10, <1>14, <1>15, <1>16, <1>17, <1>18, <1>19, <1>20 DEF WalkInv, WalkW, Sane

LEMMA WalkStutter == ASSUME WalkInv, UNCHANGED vars PROVE WalkInv'
<1>1. DcacheInv /\ NamesOnce /\ WalkW(w, pc) /\ LookW(w, pc, seen)
  BY DEF WalkInv
<1>2. PICK x, q, sn : x = w /\ q = pc /\ sn = seen
  OBVIOUS
<1>3. UNCHANGED around /\ w' = x /\ pc' = q /\ seen' = sn
  BY <1>2 DEF vars
<1>4. WalkW(x, q) /\ LookW(x, q, sn)
  BY <1>1, <1>2
<1> QED BY <1>1, <1>3, <1>4, Keep

LEMMA WalkNext == ASSUME WalkInv, [Next]_vars PROVE WalkInv'
<1>1. CASE Step
  BY <1>1, PathInit, LinkPathWalk, HandleDots, LookupFast, ReadsInode, LookupFastRcu, LookupSlow,
     StepInto, NdAllocStack, GetLink, LeavesRcu, CompleteWalk, FilenameLookup, Zenon DEF Step
<1>2. ASSUME NEW d \in Dentries, Move(d) \/ Delete(d) \/ Kill(d) PROVE WalkInv'
  BY <1>2, MoveStep, DeleteStep, KillStep
<1>3. ASSUME NEW m \in Mounts, Umount(m) \/ Mount(m) PROVE WalkInv'
  BY <1>3, UmountStep, MountStep
<1>4. CASE UNCHANGED vars
  BY <1>4, WalkStutter
<1> QED BY <1>1, <1>2, <1>3, <1>4 DEF Next

\* A walk always owes what its nameidata stands for, and knows what it remembers, whatever
\* happens around it: the inductive invariant of Walk.
THEOREM WalkInvariant == Spec => []WalkInv
<1>1. Init => WalkInv
  BY WalkStart
<1>2. WalkInv /\ [Next]_vars => WalkInv'
  BY WalkNext
<1> QED BY <1>1, <1>2, PTL DEF Spec

\* The symlinks a walk remembers fit where they are kept, and it follows no more than
\* MAXSYMLINKS of them over all its attempts (nd_alloc_stack, pick_link).
THEOREM WalkStackFits == Spec => []StackFits
<1>1. WalkInv => StackFits
  BY DEF WalkInv, WalkW, Room, StackFits
<1> QED BY <1>1, WalkInvariant, PTL

\* A lookup answers what the name stood for at some moment of it, however the dcache
\* changed between its steps (lookup_fast, lookup_slow).
THEOREM WalkFoundThere == Spec => []FoundThere
<1>1. WalkInv => FoundThere
  BY DEF WalkInv, LookW, FoundThere
<1> QED BY <1>1, WalkInvariant, PTL


-----------------------------------------------------------------------------
(* Where a walk is *)

Somewhere(q) == Walking(q) \/ q \in {"init", "end", "done"}

LEMMA ArrivedAt == ASSUME NEW v, Arrived(v) PROVE pc' \in {"complete", "walk", "unlazy", "end"}
BY Zenon DEF Arrived, Goto, Fail, Unlazy

LEMMA PickedAt == ASSUME NEW x, pick_link(x) PROVE pc' \in {"end", "stack", "link"}
BY Zenon DEF pick_link, Push, Goto, Fail

LEMMA StepAt == ASSUME WalkInv, Step PROVE Somewhere(pc')
<1>1. \A q \in {"walk", "component", "found", "check", "slow", "step", "stack", "link", "unlazy",
                "complete", "init", "end", "done"} : Somewhere(q)
  BY DEF Somewhere, Walking
<1>2. path_init => pc' = "walk"
  BY Zenon DEF path_init, Goto
<1>3. link_path_walk => pc' \in {"component", "unlazy", "end"}
  BY Zenon DEF link_path_walk, NextComponent, Goto, Fail, Unlazy
<1>4. handle_dots => pc' \in {"complete", "walk", "unlazy", "end"}
  BY ArrivedAt, Zenon DEF handle_dots, Goto, Fail
<1>5. lookup_fast => pc' \in {"unlazy", "slow", "found", "end", "step"}
  BY Zenon DEF lookup_fast, Goto, Fail, Unlazy
<1>6. ReadInode => pc' = "check"
  BY Zenon DEF ReadInode, Goto
<1>7. lookup_fast_rcu => pc' \in {"end", "step"}
  BY Zenon DEF lookup_fast_rcu, Goto, Fail
<1>8. lookup_slow => pc' \in {"end", "step"}
  BY Zenon DEF lookup_slow, Goto, Fail
<1>9. step_into => pc' \in {"complete", "walk", "unlazy", "end", "stack", "link"}
  BY ArrivedAt, PickedAt, Zenon DEF step_into, Fail, Goto
<1>10. nd_alloc_stack => pc' \in {"link", "end", "unlazy"}
  BY Zenon DEF nd_alloc_stack, Push, Fail, Goto, Unlazy
<1>11. get_link => pc' \in {"complete", "walk", "unlazy", "end"}
  BY ArrivedAt, Zenon DEF get_link, FollowBody, Fail, Goto, Unlazy
<1>12. LeaveRcu => pc' \in {"walk", "slow", "end", "stack", "link", "complete"}
  <2> SUFFICES ASSUME LeaveRcu PROVE pc' \in {"walk", "slow", "end", "stack", "link", "complete"}
    OBVIOUS
  <2>1. pc = "unlazy" /\ pc' \in {w.then, "end"}
    BY Zenon DEF LeaveRcu, Goto, Fail
  <2>2. w.then \in {"walk", "slow", "end", "stack", "link", "complete"}
    BY <2>1 DEF WalkInv, WalkW, PlaceW
  <2> QED BY <2>1, <2>2
<1>13. complete_walk => pc' \in {"unlazy", "end"}
  BY Zenon DEF complete_walk, path_lookupat, Fail, Goto, Unlazy
<1>14. filename_lookup => pc' \in {"done", "init"}
  BY Zenon DEF filename_lookup, Goto
<1> QED
  BY <1>1, <1>2, <1>3, <1>4, <1>5, <1>6, <1>7, <1>8, <1>9, <1>10, <1>11, <1>12, <1>13, <1>14
  DEF Step

LEMMA NextAt == ASSUME WalkInv, Somewhere(pc), [Next]_vars PROVE Somewhere(pc')
<1>1. CASE Step
  BY <1>1, StepAt
<1>2. CASE pc' = pc
  BY <1>2
<1>3. ASSUME NEW d, Move(d) \/ Delete(d) \/ Kill(d) \/ Umount(d) \/ Mount(d) PROVE pc' = pc
  <2>1. Changed
    BY <1>3 DEF Move, Delete, Kill, Umount, Mount
  <2> QED BY <2>1 DEF Changed
<1> QED BY <1>1, <1>2, <1>3 DEF Next, vars

\* A dentry a walk holds is not reclaimed, and in ref-walk the inode it remembers is the
\* one of its dentry (unlazy_walk, lookup_fast, step_into).
THEOREM WalkInodeAgrees == Spec => []InodeAgrees
<1>1. Init => Somewhere(pc)
  BY DEF Init, Somewhere
<1>2. WalkInv /\ Somewhere(pc) /\ [Next]_vars => Somewhere(pc)'
  BY NextAt DEF Somewhere, Walking
<1>3. ASSUME WalkInv, Somewhere(pc) PROVE InodeAgrees
  <2>1. WalkW(w, pc) /\ HoldsLive(w) /\ PlaceW(w, pc)
    BY <1>3 DEF WalkInv, WalkW, Sane
  <2>2. CASE Walking(pc)
    BY <2>1, <2>2 DEF InodeAgrees, HoldsLive, PlaceW, Base, Knows
  <2>3. CASE pc \in {"init", "end"}
    BY <2>1, <2>3 DEF InodeAgrees, HoldsLive
  <2>4. CASE pc = "done"
    BY <2>1, <2>4, NowhereIs DEF InodeAgrees, HoldsLive, PlaceW, Cleared
  <2> QED BY <1>3, <2>2, <2>3, <2>4 DEF Somewhere
<1>4. Spec => []Somewhere(pc)
  BY <1>1, <1>2, WalkInvariant, PTL DEF Spec
<1> QED BY <1>3, <1>4, WalkInvariant, PTL

-----------------------------------------------------------------------------
(* Counting what a walk owns *)

\* How many entries of a sequence are in a set.
Among(s, S) == Cardinality({i \in DOMAIN s : s[i] \in S})

LEMMA AmongNat ==
    ASSUME NEW T, NEW s \in Seq(T), NEW S
    PROVE  IsFiniteSet({i \in 1 .. Len(s) : s[i] \in S}) /\ Among(s, S) \in Nat
           /\ DOMAIN s = 1 .. Len(s) /\ Len(s) \in Nat
<1>1. Len(s) \in Nat /\ DOMAIN s = 1 .. Len(s)
  OBVIOUS
<1>2. IsFiniteSet(1 .. Len(s))
  BY <1>1, FS_Interval
<1>3. IsFiniteSet({i \in 1 .. Len(s) : s[i] \in S})
  BY <1>2, FS_Subset
<1> QED BY <1>1, <1>3, FS_CardinalityType DEF Among

LEMMA AmongNone == ASSUME NEW S PROVE Among(<<>>, S) = 0
<1>1. {i \in DOMAIN <<>> : <<>>[i] \in S} = {}
  OBVIOUS
<1> QED BY <1>1, FS_EmptySet DEF Among

LEMMA AmongOne == ASSUME NEW a, NEW S PROVE Among(<<a>>, S) = One(a \in S)
<1>1. CASE a \in S
  <2>1. {i \in DOMAIN <<a>> : <<a>>[i] \in S} = {1}
    BY <1>1
  <2>2. Cardinality({1}) = 1
    BY FS_Singleton
  <2> QED BY <1>1, <2>1, <2>2 DEF Among, One
<1>2. CASE a \notin S
  <2>1. {i \in DOMAIN <<a>> : <<a>>[i] \in S} = {}
    BY <1>2
  <2> QED BY <1>2, <2>1, FS_EmptySet DEF Among, One
<1> QED BY <1>1, <1>2

LEMMA AmongBoth ==
    ASSUME NEW T, NEW s \in Seq(T), NEW t \in Seq(T), NEW S
    PROVE  s \o t \in Seq(T) /\ Among(s \o t, S) = Among(s, S) + Among(t, S)
<1> DEFINE A == {i \in 1 .. Len(s) : s[i] \in S}
           B == {i \in 1 .. Len(t) : t[i] \in S}
           C == {Len(s) + j : j \in B}
           f == [j \in B |-> Len(s) + j]
<1>1. /\ Len(s) \in Nat /\ Len(t) \in Nat /\ DOMAIN s = 1 .. Len(s) /\ DOMAIN t = 1 .. Len(t)
      /\ IsFiniteSet(A) /\ IsFiniteSet(B)
  BY AmongNat
<1>2. /\ s \o t \in Seq(T) /\ DOMAIN (s \o t) = 1 .. (Len(s) + Len(t))
      /\ \A i \in 1 .. (Len(s) + Len(t)) : (s \o t)[i] = IF i <= Len(s) THEN s[i] ELSE t[i - Len(s)]
  BY ConcatProperties
<1>3. {i \in DOMAIN (s \o t) : (s \o t)[i] \in S} = A \union C
  <2>1. ASSUME NEW i \in DOMAIN (s \o t), (s \o t)[i] \in S PROVE i \in A \union C
    <3>1. CASE i <= Len(s)
      BY <1>1, <1>2, <2>1, <3>1
    <3>2. CASE ~(i <= Len(s))
      <4>1. i - Len(s) \in B /\ i = Len(s) + (i - Len(s))
        BY <1>1, <1>2, <2>1, <3>2
      <4> QED BY <4>1
    <3> QED BY <3>1, <3>2
  <2>2. ASSUME NEW i \in A PROVE i \in DOMAIN (s \o t) /\ (s \o t)[i] \in S
    BY <1>1, <1>2
  <2>3. ASSUME NEW j \in B PROVE Len(s) + j \in DOMAIN (s \o t) /\ (s \o t)[Len(s) + j] \in S
    <3>1. /\ Len(s) + j \in 1 .. (Len(s) + Len(t)) /\ ~(Len(s) + j <= Len(s))
          /\ (Len(s) + j) - Len(s) = j
      BY <1>1
    <3> QED BY <1>2, <3>1
  <2> QED BY <2>1, <2>2, <2>3
<1>4. f \in Bijection(B, C)
  <2>1. f \in Injection(B, C)
    BY <1>1 DEF Injection, IsInjective
  <2>2. f \in Surjection(B, C)
    BY DEF Surjection
  <2> QED BY <2>1, <2>2 DEF Bijection
<1>5. IsFiniteSet(C) /\ Cardinality(C) = Cardinality(B)
  <2>1. ExistsBijection(B, C)
    BY <1>4 DEF ExistsBijection
  <2> HIDE DEF B, C, f
  <2> QED BY <1>1, <2>1, FS_Bijection
<1>6. A \intersect C = {}
  BY <1>1
<1>7. Cardinality(A \union C) = Cardinality(A) + Cardinality(C)
  <2> HIDE DEF A, C
  <2>1. Cardinality(A \union C) = Cardinality(A) + Cardinality(C) - Cardinality(A \intersect C)
    BY <1>1, <1>5, FS_Union
  <2>2. Cardinality(A) \in Nat /\ Cardinality(C) \in Nat
    BY <1>1, <1>5, FS_CardinalityType
  <2>3. Cardinality(A \intersect C) = 0
    BY <1>6, FS_EmptySet
  <2> QED BY <2>1, <2>2, <2>3
<1> QED BY <1>1, <1>2, <1>3, <1>5, <1>7 DEF Among

\* What it owns, in the order of Owned.
LinksOf(x) == [i \in DOMAIN x.stack |-> x.stack[i].link]

LEMMA LinksAmong ==
    ASSUME NEW x, TypeW(x)
    PROVE  /\ LinksOf(x) \in Seq(MaybePaths)
           /\ \A d : Among(LinksOf(x), {p \in MaybePaths : p.dentry = d})
                        = StackD(x.stack, Len(x.stack), d)
           /\ \A m : Among(LinksOf(x), {p \in MaybePaths : p.mnt = m})
                        = StackM(x.stack, Len(x.stack), m)
<1>1. x.stack \in Seq(Links)
  BY DEF TypeW
<1>2. PICK s : s = x.stack
  OBVIOUS
<1>3. s \in Seq(Links) /\ DOMAIN s = 1 .. Len(s) /\ Len(s) \in Nat
  BY <1>1, <1>2
<1>4. \A i \in 1 .. Len(s) : s[i].link \in MaybePaths
  <2>1. \A i \in 1 .. Len(s) : s[i] \in Links
    BY <1>3
  <2> QED BY <2>1 DEF Links
<1>5. PICK t : t = LinksOf(x)
  OBVIOUS
<1>6. t = [i \in 1 .. Len(s) |-> s[i].link]
  BY <1>2, <1>3, <1>5 DEF LinksOf
<1>7. t \in Seq(MaybePaths) /\ DOMAIN t = 1 .. Len(s)
  BY <1>3, <1>4, <1>6, IsASeq
<1>8. ASSUME NEW d PROVE Among(t, {p \in MaybePaths : p.dentry = d}) = StackD(s, Len(s), d)
  <2>1. {i \in DOMAIN t : t[i] \in {p \in MaybePaths : p.dentry = d}}
          = {i \in 1 .. Len(s) : s[i].link.dentry = d}
    BY <1>4, <1>6
  <2> QED BY <2>1 DEF Among, StackD
<1>9. ASSUME NEW m PROVE Among(t, {p \in MaybePaths : p.mnt = m}) = StackM(s, Len(s), m)
  <2>1. {i \in DOMAIN t : t[i] \in {p \in MaybePaths : p.mnt = m}}
          = {i \in 1 .. Len(s) : s[i].link.mnt = m}
    BY <1>4, <1>6
  <2> QED BY <2>1 DEF Among, StackM
<1> QED BY <1>2, <1>5, <1>7, <1>8, <1>9

\* A piece of Owned that is one path or nothing.
LEMMA AmongMaybe ==
    ASSUME NEW b \in BOOLEAN, NEW a \in MaybePaths, NEW S
    PROVE  LET s == IF b THEN <<a>> ELSE <<>> IN
           s \in Seq(MaybePaths) /\ Among(s, S) = One(b /\ a \in S)
<1>1. CASE b
  <2>1. <<a>> \in Seq(MaybePaths)
    OBVIOUS
  <2>2. One(b /\ a \in S) = One(a \in S)
    BY <1>1 DEF One
  <2> QED BY <1>1, <2>1, <2>2, AmongOne
<1>2. CASE ~b
  <2>1. <<>> \in Seq(MaybePaths)
    BY EmptySeq
  <2>2. One(b /\ a \in S) = 0
    BY <1>2 DEF One
  <2> QED BY <1>2, <2>1, <2>2, AmongNone
<1> QED BY <1>1, <1>2

LEMMA AmongFive ==
    ASSUME NEW T, NEW S, NEW a \in Seq(T), NEW b \in Seq(T), NEW c \in Seq(T), NEW d \in Seq(T),
           NEW e \in Seq(T)
    PROVE  /\ a \o b \o c \o d \o e \in Seq(T)
           /\ Among(a \o b \o c \o d \o e, S)
                = Among(a, S) + Among(b, S) + Among(c, S) + Among(d, S) + Among(e, S)
<1>1. a \o b \in Seq(T) /\ Among(a \o b, S) = Among(a, S) + Among(b, S)
  BY AmongBoth
<1>2. PICK f : f = a \o b
  OBVIOUS
<1>3. f \o c \in Seq(T) /\ Among(f \o c, S) = Among(f, S) + Among(c, S)
  <2>1. f \in Seq(T)
    BY <1>1, <1>2
  <2> QED BY <2>1, AmongBoth
<1>4. PICK g : g = f \o c
  OBVIOUS
<1>5. g \o d \in Seq(T) /\ Among(g \o d, S) = Among(g, S) + Among(d, S)
  <2>1. g \in Seq(T)
    BY <1>3, <1>4
  <2> QED BY <2>1, AmongBoth
<1>6. PICK h : h = g \o d
  OBVIOUS
<1>7. h \o e \in Seq(T) /\ Among(h \o e, S) = Among(h, S) + Among(e, S)
  <2>1. h \in Seq(T)
    BY <1>5, <1>6
  <2> QED BY <2>1, AmongBoth
<1>8. a \o b \o c \o d \o e = h \o e
  BY <1>2, <1>4, <1>6
<1>9. /\ Among(a, S) \in Nat /\ Among(b, S) \in Nat /\ Among(c, S) \in Nat /\ Among(d, S) \in Nat
      /\ Among(e, S) \in Nat
  BY AmongNat
<1> QED BY <1>1, <1>2, <1>3, <1>4, <1>5, <1>6, <1>7, <1>8, <1>9

LEMMA OwnedAmong ==
    ASSUME TypeW(w), PlaceW(w, pc), NEW S, Nowhere \notin S
    PROVE  /\ Owned \in Seq(MaybePaths)
           /\ Among(Owned, S) =
                (IF w.rcu \/ pc \in {"init", "done"} THEN 0
                 ELSE One(w.path \in S) + Among(LinksOf(w), S) + One(OwnRoot(w) /\ w.root \in S))
                + One(Held(w, pc) \in S) + One(w.result \in S)
<1> DEFINE A == <<w.path>>
           B == LinksOf(w)
           C == IF OwnRoot(w) THEN <<w.root>> ELSE <<>>
           D == IF pc = "step" THEN <<Beside(w.found, w)>> ELSE <<>>
           E == IF pc = "stack" THEN <<w.found>> ELSE <<>>
           F == IF pc = "unlazy" /\ w.then = "stack" THEN <<w.found>> ELSE <<>>
           G == <<w.result>>
           ref == A \o B \o C \o D \o E
           own == IF w.rcu \/ pc \in {"init", "done"} THEN <<>> ELSE ref
<1>1. /\ w.path \in MaybePaths /\ w.root \in MaybePaths /\ w.found \in MaybePaths
      /\ w.result \in MaybePaths /\ w.rcu \in BOOLEAN
  BY DEF TypeW
<1>2. /\ Beside(w.found, w) \in MaybePaths
      /\ Beside(w.found, w) = [w.found EXCEPT !.mnt = IF @ = w.path.mnt THEN Null ELSE @]
  BY <1>1 DEF Beside, MaybePaths
<1>3. Owned = own \o F \o G
  <2>1. D = (IF pc # "step" THEN <<>>
             ELSE <<[w.found EXCEPT !.mnt = IF @ = w.path.mnt THEN Null ELSE @]>>)
    BY <1>2, Zenon
  <2>2. C = (IF w.root.mnt # Null /\ ~w.lookup_root THEN <<w.root>> ELSE <<>>)
    BY Zenon DEF OwnRoot
  <2> HIDE DEF C, D
  <2> QED BY <2>1, <2>2, Zenon DEF Owned, LinksOf
<1>4. A \in Seq(MaybePaths) /\ Among(A, S) = One(w.path \in S)
  BY <1>1, AmongOne
<1>5. B \in Seq(MaybePaths)
  BY LinksAmong
<1>6. C \in Seq(MaybePaths) /\ Among(C, S) = One(OwnRoot(w) /\ w.root \in S)
  <2>1. PICK b : b = OwnRoot(w)
    OBVIOUS
  <2>2. b \in BOOLEAN
    BY <2>1 DEF OwnRoot
  <2> QED BY <1>1, <2>1, <2>2, AmongMaybe
<1>7. D \in Seq(MaybePaths) /\ Among(D, S) = One(pc = "step" /\ Beside(w.found, w) \in S)
  <2>1. PICK b, a : b = (pc = "step") /\ a = Beside(w.found, w)
    OBVIOUS
  <2>2. b \in BOOLEAN /\ a \in MaybePaths /\ D = IF b THEN <<a>> ELSE <<>>
    BY <1>2, <2>1
  <2> HIDE DEF D
  <2>3. D \in Seq(MaybePaths) /\ Among(D, S) = One(b /\ a \in S)
    BY <2>2, AmongMaybe
  <2>4. One(b /\ a \in S) = One(pc = "step" /\ Beside(w.found, w) \in S)
    BY <2>1 DEF One
  <2> QED BY <2>3, <2>4
<1>8. E \in Seq(MaybePaths) /\ Among(E, S) = One(pc = "stack" /\ w.found \in S)
  <2>1. PICK b, a : b = (pc = "stack") /\ a = w.found
    OBVIOUS
  <2>2. b \in BOOLEAN /\ a \in MaybePaths /\ E = IF b THEN <<a>> ELSE <<>>
    BY <1>1, <2>1
  <2> HIDE DEF E
  <2>3. E \in Seq(MaybePaths) /\ Among(E, S) = One(b /\ a \in S)
    BY <2>2, AmongMaybe
  <2>4. One(b /\ a \in S) = One(pc = "stack" /\ w.found \in S)
    BY <2>1 DEF One
  <2> QED BY <2>3, <2>4
<1>9. F \in Seq(MaybePaths) /\ Among(F, S) = One(pc = "unlazy" /\ w.then = "stack" /\ w.found \in S)
  <2>1. PICK b, a : b = (pc = "unlazy" /\ w.then = "stack") /\ a = w.found
    OBVIOUS
  <2>2. b \in BOOLEAN /\ a \in MaybePaths /\ F = IF b THEN <<a>> ELSE <<>>
    BY <1>1, <2>1
  <2> HIDE DEF F
  <2>3. F \in Seq(MaybePaths) /\ Among(F, S) = One(b /\ a \in S)
    BY <2>2, AmongMaybe
  <2>4. One(b /\ a \in S) = One(pc = "unlazy" /\ w.then = "stack" /\ w.found \in S)
    BY <2>1 DEF One
  <2> QED BY <2>3, <2>4
<1>10. G \in Seq(MaybePaths) /\ Among(G, S) = One(w.result \in S)
  BY <1>1, AmongOne
<1> HIDE DEF A, B, C, D, E, F, G
<1>11. /\ ref \in Seq(MaybePaths)
       /\ Among(ref, S) = Among(A, S) + Among(B, S) + Among(C, S) + Among(D, S) + Among(E, S)
  BY <1>4, <1>5, <1>6, <1>7, <1>8, AmongFive
<1> HIDE DEF ref
<1>12. /\ own \in Seq(MaybePaths)
       /\ Among(own, S) = IF w.rcu \/ pc \in {"init", "done"} THEN 0 ELSE Among(ref, S)
  BY <1>11, EmptySeq, AmongNone
<1> HIDE DEF own
<1>13. /\ Owned \in Seq(MaybePaths) /\ Among(Owned, S) = Among(own, S) + Among(F, S) + Among(G, S)
  <2>1. own \o F \in Seq(MaybePaths) /\ Among(own \o F, S) = Among(own, S) + Among(F, S)
    BY <1>9, <1>12, AmongBoth
  <2>2. PICK f : f = own \o F
    OBVIOUS
  <2>3. f \o G \in Seq(MaybePaths) /\ Among(f \o G, S) = Among(f, S) + Among(G, S)
    <3>1. f \in Seq(MaybePaths)
      BY <2>1, <2>2
    <3> QED BY <1>10, <3>1, AmongBoth
  <2> QED BY <1>3, <2>1, <2>2, <2>3
<1>14. (pc = "unlazy" => w.rcu) /\ (pc \in {"init", "done"} => ~w.rcu)
  BY DEF PlaceW, Cleared
<1>15. Among(B, S) \in Nat /\ One(w.path \in S) \in Int /\ One(OwnRoot(w) /\ w.root \in S) \in Int
       /\ One(w.result \in S) \in Int
  <2>1. Among(B, S) \in Nat
    BY <1>5, AmongNat
  <2> QED BY <2>1, OneInt
<1>16. /\ pc # "step" => Among(D, S) = 0
       /\ pc # "stack" => Among(E, S) = 0
       /\ ~(pc = "unlazy" /\ w.then = "stack") => Among(F, S) = 0
       /\ pc = "step" => Among(D, S) = One(Beside(w.found, w) \in S)
       /\ pc = "stack" => Among(E, S) = One(w.found \in S)
       /\ pc = "unlazy" /\ w.then = "stack" => Among(F, S) = One(w.found \in S)
  BY <1>7, <1>8, <1>9 DEF One
<1>17. One(Nowhere \in S) = 0
  BY DEF One
<1>18. CASE pc = "step" /\ ~w.rcu
  <2>1. Held(w, pc) = Beside(w.found, w)
    BY <1>18 DEF Held
  <2>2. /\ Among(own, S) = Among(ref, S) /\ Among(E, S) = 0 /\ Among(F, S) = 0
        /\ Among(D, S) = One(Beside(w.found, w) \in S) /\ One(Beside(w.found, w) \in S) \in Int
    BY <1>12, <1>16, <1>18, OneInt
  <2>3. Among(own, S) = One(w.path \in S) + Among(B, S) + One(OwnRoot(w) /\ w.root \in S)
                        + One(Beside(w.found, w) \in S)
    BY <1>4, <1>6, <1>11, <1>15, <2>2
  <2>4. Among(Owned, S) = One(w.path \in S) + Among(B, S) + One(OwnRoot(w) /\ w.root \in S)
                          + One(Beside(w.found, w) \in S) + One(w.result \in S)
    BY <1>10, <1>13, <1>15, <2>2, <2>3
  <2>5. ~(w.rcu \/ pc \in {"init", "done"})
        /\ One(Held(w, pc) \in S) = One(Beside(w.found, w) \in S)
    BY <1>18, <2>1
  <2> QED BY <1>13, <2>4, <2>5 DEF B
<1>19. CASE pc = "stack" /\ ~w.rcu
  <2>1. Held(w, pc) = w.found
    BY <1>19 DEF Held
  <2>2. /\ Among(own, S) = Among(ref, S) /\ Among(D, S) = 0 /\ Among(F, S) = 0
        /\ Among(E, S) = One(w.found \in S) /\ One(w.found \in S) \in Int
    BY <1>12, <1>16, <1>19, OneInt
  <2>3. Among(own, S) = One(w.path \in S) + Among(B, S) + One(OwnRoot(w) /\ w.root \in S)
                        + One(w.found \in S)
    BY <1>4, <1>6, <1>11, <1>15, <2>2
  <2>4. Among(Owned, S) = One(w.path \in S) + Among(B, S) + One(OwnRoot(w) /\ w.root \in S)
                          + One(w.found \in S) + One(w.result \in S)
    BY <1>10, <1>13, <1>15, <2>2, <2>3
  <2>5. ~(w.rcu \/ pc \in {"init", "done"}) /\ One(Held(w, pc) \in S) = One(w.found \in S)
    BY <1>19, <2>1
  <2> QED BY <1>13, <2>4, <2>5 DEF B
<1>20. CASE pc = "unlazy" /\ w.then = "stack"
  <2>1. Held(w, pc) = w.found
    BY <1>20 DEF Held
  <2>2. w.rcu /\ Among(own, S) = 0 /\ Among(F, S) = One(w.found \in S) /\ One(w.found \in S) \in Int
    BY <1>12, <1>14, <1>16, <1>20, OneInt
  <2>3. Among(Owned, S) = One(w.found \in S) + One(w.result \in S)
    BY <1>10, <1>13, <1>15, <2>2
  <2> QED BY <1>13, <1>15, <2>1, <2>2, <2>3
<1>21. CASE /\ ~(pc = "step" /\ ~w.rcu) /\ ~(pc = "stack" /\ ~w.rcu)
            /\ ~(pc = "unlazy" /\ w.then = "stack")
  <2>1. Held(w, pc) = Nowhere
    BY <1>21 DEF Held
  <2>2. Among(own, S) = IF w.rcu \/ pc \in {"init", "done"} THEN 0
                        ELSE One(w.path \in S) + Among(B, S) + One(OwnRoot(w) /\ w.root \in S)
    <3>1. CASE w.rcu \/ pc \in {"init", "done"}
      BY <1>12, <3>1
    <3>2. CASE ~(w.rcu \/ pc \in {"init", "done"})
      BY <1>4, <1>6, <1>11, <1>12, <1>15, <1>16, <1>21, <3>2
    <3> QED BY <3>1, <3>2
  <2>3. Among(F, S) = 0
    BY <1>16, <1>21
  <2>4. Among(own, S) \in Nat
    BY <1>12, AmongNat
  <2> QED BY <1>10, <1>13, <1>15, <1>17, <2>1, <2>2, <2>3, <2>4 DEF B
<1> QED BY <1>1, <1>13, <1>18, <1>19, <1>20, <1>21

\* A walk holds exactly the references, the delayed calls and the rcu_read_lock its
\* nameidata stands for, at every step and for every way a switch to ref-walk can fail
\* (legitimize_path, unlazy_walk, unlazy_child, pick_link, terminate_walk).
THEOREM WalkBalanced == Spec => []Balanced
<1>1. ASSUME WalkInv PROVE Balanced
  <2>1. /\ TypeW(w) /\ LinkCalls(w) /\ PlaceW(w, pc) /\ Owes(w, Held(w, pc), w.result)
    BY <1>1 DEF WalkInv, WalkW, Sane
  <2>2. /\ w.path \in MaybePaths /\ w.root \in MaybePaths /\ w.result \in MaybePaths
        /\ w.found \in MaybePaths /\ w.stack \in Seq(Links)
    BY <2>1 DEF TypeW
  <2>3. Held(w, pc) \in MaybePaths
    BY <2>2, NowhereIs DEF Held, Beside, MaybePaths
  <2>4. pc \in {"init", "done"} => Cleared(w)
    BY <2>1 DEF PlaceW
  <2>5. ASSUME NEW d \in Dentries
        PROVE  w.dref[d] = Cardinality({i \in DOMAIN Owned : Owned[i].dentry = d})
    <3> DEFINE S == {p \in MaybePaths : p.dentry = d}
    <3>1. \A p \in MaybePaths : p \in S <=> p.dentry = d
      OBVIOUS
    <3>2. Nowhere \notin S
      BY NowhereIs, NullOut
    <3>3. Among(LinksOf(w), S) = StackD(w.stack, Len(w.stack), d)
      BY <2>1, LinksAmong
    <3>4. PICK o : o = Owned
      OBVIOUS
    <3> HIDE DEF S
    <3>5. o \in Seq(MaybePaths)
          /\ Among(o, S) =
                (IF w.rcu \/ pc \in {"init", "done"} THEN 0
                 ELSE One(w.path \in S) + Among(LinksOf(w), S) + One(OwnRoot(w) /\ w.root \in S))
                + One(Held(w, pc) \in S) + One(w.result \in S)
      BY <2>1, <3>2, <3>4, OwnedAmong
    <3>6. Among(o, S) = Cardinality({i \in DOMAIN o : o[i].dentry = d})
      <4>1. {i \in DOMAIN o : o[i] \in S} = {i \in DOMAIN o : o[i].dentry = d}
        BY <3>1, <3>5
      <4> QED BY <4>1 DEF Among
    <3>7. /\ One(w.path \in S) = One(w.path.dentry = d)
          /\ One(OwnRoot(w) /\ w.root \in S) = One(OwnRoot(w) /\ w.root.dentry = d)
          /\ One(Held(w, pc) \in S) = One(Held(w, pc).dentry = d)
          /\ One(w.result \in S) = One(w.result.dentry = d)
      BY <2>2, <2>3, <3>1 DEF One
    <3>8. CoreD(w, d) = IF w.rcu \/ pc \in {"init", "done"} THEN 0
                        ELSE One(w.path \in S) + Among(LinksOf(w), S)
                             + One(OwnRoot(w) /\ w.root \in S)
      <4>1. CASE pc \in {"init", "done"}
        <5>1. w.path = Nowhere /\ w.stack = <<>> /\ ~OwnRoot(w)
          BY <2>4, <4>1, NowhereIs DEF Cleared, OwnRoot
        <5> QED BY <2>1, <4>1, <5>1, BareOwes
      <4>2. CASE pc \notin {"init", "done"}
        BY <3>3, <3>7, <4>2 DEF CoreD
      <4> QED BY <4>1, <4>2
    <3>9. w.dref[d] - CoreD(w, d) = One(Held(w, pc).dentry = d) + One(w.result.dentry = d)
      BY <2>1 DEF Owes, DebtD
    <3>10. w.dref[d] \in Int /\ CoreD(w, d) \in Int
      BY <2>1, DebtInt, CoreInt
    <3>11. One(Held(w, pc).dentry = d) \in Int /\ One(w.result.dentry = d) \in Int
      BY OneInt
    <3>12. Among(o, S) = CoreD(w, d) + One(Held(w, pc).dentry = d) + One(w.result.dentry = d)
      BY <3>5, <3>7, <3>8
    <3> QED BY <3>4, <3>6, <3>9, <3>10, <3>11, <3>12
  <2>6. ASSUME NEW m \in Mounts
        PROVE  w.mref[m] = Cardinality({i \in DOMAIN Owned : Owned[i].mnt = m})
    <3> DEFINE S == {p \in MaybePaths : p.mnt = m}
    <3>1. \A p \in MaybePaths : p \in S <=> p.mnt = m
      OBVIOUS
    <3>2. Nowhere \notin S
      BY NowhereIs, NullOut
    <3>3. Among(LinksOf(w), S) = StackM(w.stack, Len(w.stack), m)
      BY <2>1, LinksAmong
    <3>4. PICK o : o = Owned
      OBVIOUS
    <3> HIDE DEF S
    <3>5. o \in Seq(MaybePaths)
          /\ Among(o, S) =
                (IF w.rcu \/ pc \in {"init", "done"} THEN 0
                 ELSE One(w.path \in S) + Among(LinksOf(w), S) + One(OwnRoot(w) /\ w.root \in S))
                + One(Held(w, pc) \in S) + One(w.result \in S)
      BY <2>1, <3>2, <3>4, OwnedAmong
    <3>6. Among(o, S) = Cardinality({i \in DOMAIN o : o[i].mnt = m})
      <4>1. {i \in DOMAIN o : o[i] \in S} = {i \in DOMAIN o : o[i].mnt = m}
        BY <3>1, <3>5
      <4> QED BY <4>1 DEF Among
    <3>7. /\ One(w.path \in S) = One(w.path.mnt = m)
          /\ One(OwnRoot(w) /\ w.root \in S) = One(OwnRoot(w) /\ w.root.mnt = m)
          /\ One(Held(w, pc) \in S) = One(Held(w, pc).mnt = m)
          /\ One(w.result \in S) = One(w.result.mnt = m)
      BY <2>2, <2>3, <3>1 DEF One
    <3>8. CoreM(w, m) = IF w.rcu \/ pc \in {"init", "done"} THEN 0
                        ELSE One(w.path \in S) + Among(LinksOf(w), S)
                             + One(OwnRoot(w) /\ w.root \in S)
      <4>1. CASE pc \in {"init", "done"}
        <5>1. w.path = Nowhere /\ w.stack = <<>> /\ ~OwnRoot(w)
          BY <2>4, <4>1, NowhereIs DEF Cleared, OwnRoot
        <5> QED BY <2>1, <4>1, <5>1, BareOwes
      <4>2. CASE pc \notin {"init", "done"}
        BY <3>3, <3>7, <4>2 DEF CoreM
      <4> QED BY <4>1, <4>2
    <3>9. w.mref[m] - CoreM(w, m) = One(Held(w, pc).mnt = m) + One(w.result.mnt = m)
      BY <2>1 DEF Owes, DebtM
    <3>10. w.mref[m] \in Int /\ CoreM(w, m) \in Int
      BY <2>1, DebtInt, CoreInt
    <3>11. One(Held(w, pc).mnt = m) \in Int /\ One(w.result.mnt = m) \in Int
      BY OneInt
    <3>12. Among(o, S) = CoreM(w, m) + One(Held(w, pc).mnt = m) + One(w.result.mnt = m)
      BY <3>5, <3>7, <3>8
    <3> QED BY <3>4, <3>6, <3>9, <3>10, <3>11, <3>12
  <2>7. w.calls = Cardinality({i \in DOMAIN w.stack : w.stack[i].done})
    <3>1. DOMAIN w.stack = 1 .. Len(w.stack)
      BY <2>2
    <3> QED BY <2>1, <3>1 DEF LinkCalls, Calls
  <2>8. w.rcu_lock = IF w.rcu THEN 1 ELSE 0
    BY <2>1 DEF LinkCalls, One
  <2> QED BY <2>5, <2>6, <2>7, <2>8 DEF Balanced
<1> QED BY <1>1, WalkInvariant, PTL

=============================================================================
