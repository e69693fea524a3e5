---------------------------- MODULE ReaddirProofs ----------------------------
(***************************************************************************)
(* Proofs about Readdir, for any readers, any sizes of the tables and of   *)
(* the list, and any number of changes: a reader that has the directory to *)
(* itself is given each entry once, and its listing ends.                  *)
(*                                                                         *)
(* The invariant says what the shared cursors count: in the first call of  *)
(* such a reader, the entries before the place its loop is at; after it,   *)
(* all entries of each part, so that the second call skips all of them.    *)
(***************************************************************************)
EXTENDS Readdir, FiniteSetTheorems, WellFoundedInduction, TLAPS

Files == [pc : {"rest"} \union Parts, ctx : BOOLEAN, later : BOOLEAN, moved : BOOLEAN,
          at : Nat, full : BOOLEAN, ended : BOOLEAN]

DirInv ==
    /\ cells \in 0 .. MaxCells
    /\ slots \in [Tables -> SUBSET Nat]
    /\ \A t \in Tables : slots[t] \subseteq 0 .. Size[t] - 1
    /\ is_big_dir \in BOOLEAN
    /\ ~is_big_dir => slots["big"] = {}
CursorInv == pos \in [Parts -> Nat] /\ file \in [Readers -> Files]
SeenInv ==
    /\ alone \in Readers \union {Nobody}
    /\ got \in [Entries -> Nat]
    /\ dropped \in BOOLEAN
TypeInv == DirInv /\ CursorInv /\ SeenInv

\* What a listing is about: the places of the parts and their entries, and how far it is.
View ==
    [occ |-> [part \in Parts |-> Occupied(part)],
     ent |-> [part \in Parts |-> [x \in Occupied(part) |-> <<part, x>>]],
     big |-> is_big_dir, pos |-> pos, got |-> got, dropped |-> dropped]

\* The loop over a part has come to a place: the cursor counts the entries before it, and
\* the reader has those (all of them, if its buffer took them) and no others.
Before(v, part, at) == {x \in v.occ[part] : x < at}
Given(v, e) == v.got[e] <= 1 /\ (~v.dropped => v.got[e] = 1)
Reached(v, part, at) ==
    /\ v.pos[part] = Cardinality(Before(v, part, at))
    /\ \A x \in v.occ[part] : IF x < at THEN Given(v, v.ent[part][x])
                                      ELSE v.got[v.ent[part][x]] = 0
\* The loop is still to come, or is over.
Fresh(v, part) == v.pos[part] = 0 /\ \A x \in v.occ[part] : v.got[v.ent[part][x]] = 0
Done(v, part) ==
    /\ v.pos[part] = Cardinality(v.occ[part])
    /\ \A x \in v.occ[part] : Given(v, v.ent[part][x])
AllDone(v) == Done(v, "dirs") /\ Done(v, "small") /\ (v.big => Done(v, "big"))
\* Nothing but an entry of the directory was given.
HasPlace(v, e) == \E part \in Parts : \E x \in v.occ[part] : v.ent[part][x] = e
NoStray(v) == \A e \in Entries : ~HasPlace(v, e) => v.got[e] = 0

\* Where the first call of the reader that is alone has got to, at the open file f.
FirstCall(v, f) ==
    /\ f.pc \in Parts /\ Reached(v, f.pc, f.at)
    /\ f.pc = "dirs" => Fresh(v, "small") /\ (v.big => Fresh(v, "big"))
    /\ f.pc = "small" => Done(v, "dirs") /\ (v.big => Fresh(v, "big"))
    /\ f.pc = "big" => v.big /\ Done(v, "dirs") /\ Done(v, "small")
\* The second call has skipped what the cursors count.
LaterCall(v, f) ==
    /\ f.pc \in Parts /\ AllDone(v) /\ ~f.moved
    /\ \A x \in v.occ[f.pc] : x < f.at
    /\ f.pc = "big" => v.big
Listed(v, f) ==
    /\ NoStray(v)
    /\ f.ended => f.pc = "rest"
    /\ \/ f.pc = "rest" /\ ~f.later /\ AllDone(v)
       \/ f.later /\ LaterCall(v, f)
       \/ ~f.later /\ FirstCall(v, f)
AloneInv ==
    alone # Nobody =>
        /\ \A o \in Readers \ {alone} : file[o].pc = "rest"
        /\ Listed(View, file[alone])
ListInv == TypeInv /\ AloneInv

-----------------------------------------------------------------------------
(* The places and the entries *)

LEMMA PartNames ==
    /\ Tables = {"small", "big"} /\ Parts = {"dirs", "small", "big"}
    /\ Size["small"] \in Nat /\ Size["big"] \in Nat
<1>1. NB * NS \in Nat /\ NBig * NS \in Nat
  BY ListAssumption
<1> QED BY <1>1 DEF Tables, Parts, Size

\* Places are numbers below the end of the part, and finitely many.
LEMMA Places ==
    ASSUME DirInv, NEW part \in Parts
    PROVE  /\ Occupied(part) \subseteq Nat /\ End(part) \in Nat
           /\ \A x \in Occupied(part) : x < End(part)
           /\ IsFiniteSet(Occupied(part)) /\ Cardinality(Occupied(part)) \in Nat
<1>1. Occupied(part) \subseteq Nat /\ End(part) \in Nat /\ \A x \in Occupied(part) : x < End(part)
  <2>1. CASE part = "dirs"
    <3>1. cells \in Nat
      BY ListAssumption DEF DirInv
    <3> QED BY <3>1, <2>1 DEF Occupied, End
  <2>2. CASE part # "dirs"
    <3>1. part \in Tables /\ Size[part] \in Nat
      BY <2>2, PartNames
    <3>2. slots[part] \subseteq 0 .. Size[part] - 1
      BY <3>1 DEF DirInv
    <3> QED BY <3>1, <3>2, <2>2 DEF Occupied, End
  <2> QED BY <2>1, <2>2
<1>2. \A x \in Occupied(part) : x <= End(part)
  BY <1>1
<1>3. IsFiniteSet(Occupied(part))
  BY <1>1, <1>2, FS_BoundedSetOfNaturals
<1> QED BY <1>1, <1>3, FS_CardinalityType

\* A place is an entry.
LEMMA EntryType ==
    ASSUME DirInv, NEW part \in Parts, NEW x \in Occupied(part)
    PROVE  <<part, x>> \in Entries /\ <<part, x>> \in Present
<1>1. <<part, x>> \in Present
  BY DEF Present
<1>2. <<part, x>> \in Entries
  <2>1. CASE part = "dirs"
    <3>1. x \in 0 .. MaxCells - 1
      BY <2>1, ListAssumption DEF Occupied, DirInv
    <3> QED BY <2>1, <3>1 DEF Entries
  <2>2. CASE part # "dirs"
    <3>1. part \in Tables
      BY <2>2, PartNames
    <3>2. x \in 0 .. Size[part] - 1
      BY <2>2, <3>1 DEF Occupied, DirInv
    <3> QED BY <2>2, <3>1, <3>2 DEF Entries
  <2> QED BY <2>1, <2>2
<1> QED BY <1>1, <1>2

\* A set of natural numbers that is not empty has a least element.
LEMMA LeastNumber ==
    ASSUME NEW T \in SUBSET Nat, T # {}
    PROVE  \E x \in T : \A y \in T : x <= y
<1> DEFINE R == {ss \in Nat \X Nat : ss[1] < ss[2]}
<1>1. IsWellFoundedOn(R, Nat)
  BY NatLessThanWellFounded DEF OpToRel
<1>2. \E x \in T : \A y \in T : <<y, x>> \notin R
  BY <1>1, WFMin
<1>3. \A x, y \in Nat : <<y, x>> \notin R => x <= y
  OBVIOUS
<1> QED BY <1>2, <1>3

Ends(part, n) == {p \in 0 .. End(part) : Cardinality({x \in Occupied(part) : x < p}) >= n}
LEMMA BehindLeast ==
    ASSUME DirInv, NEW part \in Parts, NEW n \in Nat
    PROVE  /\ Behind(part, n) \in Nat
           /\ Behind(part, n) = End(part) \/ Behind(part, n) \in Ends(part, n)
           /\ \A q \in Ends(part, n) : Behind(part, n) <= q
<1>1. End(part) \in Nat
  BY Places
<1>2. Ends(part, n) \subseteq Nat
  BY <1>1 DEF Ends
<1>3. CASE Ends(part, n) = {}
  <2>1. Behind(part, n) = End(part)
    BY <1>3 DEF Behind, Ends
  <2> QED BY <2>1, <1>1, <1>3
<1>4. CASE Ends(part, n) # {}
  <2>1. \E p \in Ends(part, n) : \A q \in Ends(part, n) : p <= q
    BY <1>2, <1>4, LeastNumber
  <2>2. Behind(part, n) = CHOOSE p \in Ends(part, n) : \A q \in Ends(part, n) : p <= q
    BY <1>4 DEF Behind, Ends
  <2>3. Behind(part, n) \in Ends(part, n) /\ \A q \in Ends(part, n) : Behind(part, n) <= q
    BY <2>1, <2>2
  <2> QED BY <2>3, <1>2
<1> QED BY <1>3, <1>4

\* The place behind no entries is the first one, the place behind all entries has none
\* after it.
LEMMA BehindNone ==
    ASSUME DirInv, NEW part \in Parts
    PROVE  Behind(part, 0) = 0
<1>1. End(part) \in Nat /\ IsFiniteSet(Occupied(part))
  BY Places
<1>2. {x \in Occupied(part) : x < 0} \in SUBSET Occupied(part)
  OBVIOUS
<1>3. IsFiniteSet({x \in Occupied(part) : x < 0})
  BY <1>1, <1>2, FS_Subset
<1>4. Cardinality({x \in Occupied(part) : x < 0}) >= 0
  BY <1>3, FS_CardinalityType
<1>5. 0 \in Ends(part, 0)
  BY <1>1, <1>4 DEF Ends
<1>6. Behind(part, 0) \in Nat /\ Behind(part, 0) <= 0
  BY <1>5, BehindLeast
<1> QED BY <1>6

LEMMA BehindAll ==
    ASSUME DirInv, NEW part \in Parts
    PROVE  \A x \in Occupied(part) : x < Behind(part, Cardinality(Occupied(part)))
<1> DEFINE n == Cardinality(Occupied(part))
<1>1. /\ Occupied(part) \subseteq Nat /\ End(part) \in Nat /\ IsFiniteSet(Occupied(part)) /\ n \in Nat
      /\ \A x \in Occupied(part) : x < End(part)
  BY Places
<1>2. CASE Behind(part, n) = End(part)
  BY <1>1, <1>2
<1>3. CASE Behind(part, n) \in Ends(part, n)
  <2> DEFINE T == {x \in Occupied(part) : x < Behind(part, n)}
  <2>1. T \in SUBSET Occupied(part) /\ Cardinality(T) >= n
    BY <1>3 DEF Ends
  <2>2. IsFiniteSet(T) /\ Cardinality(T) <= n /\ (n = Cardinality(T) => Occupied(part) = T)
    BY <2>1, <1>1, FS_Subset
  <2>3. Cardinality(T) \in Nat
    BY <2>2, FS_CardinalityType
  <2> HIDE DEF T
  <2>4. Occupied(part) = T
    BY <1>1, <2>1, <2>2, <2>3
  <2> QED BY <2>4 DEF T
<1> QED BY <1>1, <1>2, <1>3, BehindLeast

-----------------------------------------------------------------------------
(* The view *)

ViewOK(v) ==
    /\ v.occ \in [Parts -> SUBSET Nat]
    /\ \A part \in Parts : IsFiniteSet(v.occ[part])
    /\ \A part \in Parts : \A x \in v.occ[part] : v.ent[part][x] \in Entries
    /\ \A part, other \in Parts : \A x \in v.occ[part], y \in v.occ[other] :
          v.ent[part][x] = v.ent[other][y] => part = other /\ x = y
    /\ v.pos \in [Parts -> Nat] /\ v.got \in [Entries -> Nat] /\ v.dropped \in BOOLEAN

LEMMA ViewFields ==
    /\ View.big = is_big_dir /\ View.pos = pos /\ View.got = got /\ View.dropped = dropped
    /\ View.occ = [part \in Parts |-> Occupied(part)]
    /\ View.ent = [part \in Parts |-> [x \in Occupied(part) |-> <<part, x>>]]
  BY DEF View
LEMMA ViewParts ==
    \A part \in Parts : /\ View.occ[part] = Occupied(part)
                        /\ \A x \in Occupied(part) : View.ent[part][x] = <<part, x>>
  BY ViewFields

LEMMA ViewIsOK == TypeInv => ViewOK(View)
<1> SUFFICES ASSUME TypeInv PROVE ViewOK(View)
  OBVIOUS
<1>1. DirInv /\ pos \in [Parts -> Nat] /\ got \in [Entries -> Nat] /\ dropped \in BOOLEAN
  BY DEF TypeInv, CursorInv, SeenInv
<1>2. \A part \in Parts : Occupied(part) \in SUBSET Nat /\ IsFiniteSet(Occupied(part))
  BY <1>1, Places
<1>3. View.occ \in [Parts -> SUBSET Nat]
  BY <1>2, ViewFields
<1>4. \A part \in Parts : \A x \in View.occ[part] : View.ent[part][x] \in Entries
  <2> SUFFICES ASSUME NEW part \in Parts, NEW x \in View.occ[part]
               PROVE  View.ent[part][x] \in Entries
    OBVIOUS
  <2>1. x \in Occupied(part) /\ View.ent[part][x] = <<part, x>>
    BY ViewParts
  <2>2. <<part, x>> \in Entries
    BY <2>1, <1>1, EntryType
  <2> QED BY <2>1, <2>2
<1>5. \A part, other \in Parts : \A x \in View.occ[part], y \in View.occ[other] :
          View.ent[part][x] = View.ent[other][y] => part = other /\ x = y
  BY <1>1, ViewParts
<1>6. \A part \in Parts : IsFiniteSet(View.occ[part])
  BY <1>2, ViewParts
<1>7. View.pos \in [Parts -> Nat] /\ View.got \in [Entries -> Nat] /\ View.dropped \in BOOLEAN
  BY <1>1, ViewFields
<1> QED BY <1>3, <1>4, <1>5, <1>6, <1>7 DEF ViewOK

\* A step that leaves the directory alone.
SameDir(v, w) == w.occ = v.occ /\ w.ent = v.ent /\ w.big = v.big
LEMMA DirKept ==
    ASSUME UNCHANGED dirVars
    PROVE  /\ (DirInv => DirInv') /\ SameDir(View, View')
           /\ View'.pos = pos' /\ View'.got = got' /\ View'.dropped = dropped'
<1>1. DirInv => DirInv'
  BY DEF dirVars, DirInv, Tables, Size
<1>2. /\ [part \in Parts |-> Occupied(part)]' = [part \in Parts |-> Occupied(part)]
      /\ [part \in Parts |-> [x \in Occupied(part) |-> <<part, x>>]]'
          = [part \in Parts |-> [x \in Occupied(part) |-> <<part, x>>]]
  BY DEF dirVars, Occupied, Parts, Tables, Size
<1>3. View' = [occ |-> View.occ, ent |-> View.ent, big |-> View.big, pos |-> pos', got |-> got',
               dropped |-> dropped']
  BY <1>2 DEF View, dirVars
<1> QED BY <1>1, <1>3 DEF SameDir

LEMMA TwoViews ==
    ASSUME UNCHANGED dirVars, NEW v, v = View, NEW w, w = View'
    PROVE  /\ SameDir(v, w)
           /\ v.pos = pos /\ v.got = got /\ v.dropped = dropped
           /\ w.pos = pos' /\ w.got = got' /\ w.dropped = dropped'
  BY ViewFields, DirKept

\* A loop that begins has reached the first place, one that ends the whole part.
LEMMA FreshReached ==
    ASSUME NEW v, NEW part, v.occ[part] \subseteq Nat, Fresh(v, part)
    PROVE  Reached(v, part, 0)
<1>1. Before(v, part, 0) = {}
  BY DEF Before
<1>2. \A x \in v.occ[part] : ~(x < 0)
  OBVIOUS
<1> QED BY <1>1, <1>2, FS_EmptySet DEF Fresh, Reached

LEMMA ReachedDone ==
    ASSUME NEW v, NEW part, NEW at, Reached(v, part, at), \A x \in v.occ[part] : x < at
    PROVE  Done(v, part)
<1>1. Before(v, part, at) = v.occ[part]
  BY DEF Before
<1> QED BY <1>1 DEF Reached, Done

\* What has been counted stays so where neither the cursors nor the reader move.
LEMMA SameListed ==
    ASSUME NEW v, NEW w, SameDir(v, w), w.pos = v.pos, w.got = v.got, w.dropped = v.dropped
    PROVE  /\ \A part : /\ Fresh(w, part) = Fresh(v, part) /\ Done(w, part) = Done(v, part)
                        /\ \A at : Reached(w, part, at) = Reached(v, part, at)
           /\ AllDone(w) = AllDone(v) /\ NoStray(w) = NoStray(v)
<1>1. \A part : Fresh(w, part) = Fresh(v, part) /\ Done(w, part) = Done(v, part)
  BY DEF SameDir, Fresh, Done, Given
<1>2. \A part, at : Reached(w, part, at) = Reached(v, part, at)
  BY DEF SameDir, Reached, Given, Before
<1>3. NoStray(w) = NoStray(v)
  BY DEF SameDir, NoStray, HasPlace
<1> QED BY <1>1, <1>2, <1>3 DEF AllDone, SameDir

\* The loop of the reader that is alone emits an entry.
Bumped(f, k) == [f EXCEPT ![k] = @ + 1]
LEMMA EmitReached ==
    ASSUME NEW v, ViewOK(v), NEW part \in Parts, NEW at \in Nat, Reached(v, part, at),
           NEW p \in v.occ[part], at <= p, \A q \in v.occ[part] : q < p => q < at,
           NEW full \in BOOLEAN, NEW w, SameDir(v, w),
           w.pos = Bumped(v.pos, part),
           w.got = IF full THEN v.got ELSE Bumped(v.got, v.ent[part][p]),
           w.dropped <=> v.dropped \/ full
    PROVE  /\ Reached(w, part, p + 1)
           /\ \A other \in Parts \ {part} : /\ Fresh(v, other) => Fresh(w, other)
                                            /\ Done(v, other) => Done(w, other)
           /\ NoStray(v) => NoStray(w)
           /\ w.got \in [Entries -> Nat]
<1>1. v.got \in [Entries -> Nat] /\ v.pos \in [Parts -> Nat] /\ v.dropped \in BOOLEAN
  BY DEF ViewOK
<1>2. v.occ[part] \subseteq Nat /\ IsFiniteSet(v.occ[part])
  BY DEF ViewOK
<1>3. PICK e : e = v.ent[part][p]
  OBVIOUS
<1>4. e \in Entries
  BY <1>3 DEF ViewOK
<1>5. \A other \in Parts : \A y \in v.occ[other] :
        v.ent[other][y] \in Entries /\ (v.ent[other][y] = e => other = part /\ y = p)
  BY <1>3 DEF ViewOK
<1>6. v.got[e] = 0
  BY <1>2, <1>3 DEF Reached
<1>7. /\ w.got \in [Entries -> Nat] /\ \A a \in Entries \ {e} : w.got[a] = v.got[a]
      /\ Given(w, e)
  <2>1. CASE full
    <3>1. w.got = v.got
      BY <2>1
    <3>2. w.dropped
      BY <2>1
    <3>3. Given(w, e)
      BY <3>1, <3>2, <1>6 DEF Given
    <3> QED BY <3>1, <3>3, <1>1
  <2>2. CASE ~full
    <3>1. w.got = [v.got EXCEPT ![e] = v.got[e] + 1]
      BY <2>2, <1>3 DEF Bumped
    <3>2. w.got \in [Entries -> Nat] /\ (\A a \in Entries \ {e} : w.got[a] = v.got[a]) /\ w.got[e] = 1
      BY <3>1, <1>1, <1>4, <1>6
    <3> QED BY <3>2 DEF Given
  <2> QED BY <2>1, <2>2
<1>8. w.pos[part] = v.pos[part] + 1 /\ \A o \in Parts \ {part} : w.pos[o] = v.pos[o]
  BY <1>1 DEF Bumped
<1>9. ~w.dropped => ~v.dropped
  BY <1>1
<1>10. \A a \in Entries \ {e} : Given(v, a) => Given(w, a)
  BY <1>7, <1>9 DEF Given
<1>11. Cardinality(Before(w, part, p + 1)) = Cardinality(Before(v, part, at)) + 1
  <2>1. Before(w, part, p + 1) = Before(v, part, at) \union {p}
    <3>1. \A q \in v.occ[part] : q < p + 1 <=> q < at \/ q = p
      BY <1>2
    <3> QED BY <3>1 DEF Before, SameDir
  <2>2. p \notin Before(v, part, at)
    BY <1>2 DEF Before
  <2>3. Before(v, part, at) \in SUBSET v.occ[part]
    BY DEF Before
  <2>4. IsFiniteSet(Before(v, part, at))
    BY <2>3, <1>2, FS_Subset
  <2> QED BY <2>1, <2>2, <2>4, FS_AddElement
<1>12. Reached(w, part, p + 1)
  <2>1. w.pos[part] = Cardinality(Before(w, part, p + 1))
    BY <1>8, <1>11 DEF Reached
  <2>2. ASSUME NEW x \in v.occ[part], x < p + 1
        PROVE  Given(w, v.ent[part][x])
    <3>1. CASE x = p
      BY <3>1, <1>3, <1>7
    <3>2. CASE x # p
      <4>1. x < at
        BY <2>2, <3>2, <1>2
      <4> QED BY <4>1, <3>2, <1>5, <1>10 DEF Reached
    <3> QED BY <3>1, <3>2
  <2>3. ASSUME NEW x \in v.occ[part], ~(x < p + 1)
        PROVE  w.got[v.ent[part][x]] = 0
    <3>1. ~(x < at) /\ x # p
      BY <2>3, <1>2
    <3>2. v.got[v.ent[part][x]] = 0 /\ v.ent[part][x] \in Entries \ {e}
      BY <3>1, <1>5 DEF Reached
    <3> QED BY <3>2, <1>7
  <2> QED BY <2>1, <2>2, <2>3 DEF Reached, SameDir
<1>13. ASSUME NEW other \in Parts \ {part}
       PROVE  (Fresh(v, other) => Fresh(w, other)) /\ (Done(v, other) => Done(w, other))
  <2>1. \A y \in v.occ[other] : v.ent[other][y] \in Entries \ {e}
    BY <1>5
  <2>2. \A y \in v.occ[other] : w.got[v.ent[other][y]] = v.got[v.ent[other][y]]
    BY <2>1, <1>7
  <2>3. w.pos[other] = v.pos[other]
    BY <1>8
  <2> QED BY <2>1, <2>2, <2>3, <1>10 DEF Fresh, Done, SameDir
<1>14. NoStray(v) => NoStray(w)
  <2>1. HasPlace(v, e)
    BY <1>3 DEF HasPlace
  <2>2. \A a \in Entries : HasPlace(w, a) = HasPlace(v, a)
    BY DEF HasPlace, SameDir
  <2> QED BY <2>1, <2>2, <1>7 DEF NoStray
<1> QED BY <1>7, <1>12, <1>13, <1>14

LEMMA EmitFirst ==
    ASSUME NEW v, NEW w, NEW f, NEW g, FirstCall(v, f), w.big = v.big,
           NEW part \in Parts, f.pc = part, g.pc = part, Reached(w, part, g.at),
           \A other \in Parts \ {part} : /\ Fresh(v, other) => Fresh(w, other)
                                         /\ Done(v, other) => Done(w, other)
    PROVE  FirstCall(w, g)
<1>1. CASE part = "dirs"
  BY <1>1, PartNames DEF FirstCall
<1>2. CASE part = "small"
  BY <1>2, PartNames DEF FirstCall
<1>3. CASE part = "big"
  BY <1>3, PartNames DEF FirstCall
<1> QED BY <1>1, <1>2, <1>3, PartNames

-----------------------------------------------------------------------------
(* The steps *)

\* The records an open file changes to.
Emitted(f, at, full) == [f EXCEPT !.ctx = TRUE, !.moved = TRUE, !.at = at, !.full = full]
Entered(f, part, at) == [f EXCEPT !.pc = part, !.at = at]
Left(f) == [Rewound EXCEPT !.ctx = f.ctx, !.ended = ~f.moved]
Started(f, at) == [Rewound EXCEPT !.pc = "dirs", !.ctx = f.ctx, !.later = f.ctx, !.at = at]
LEMMA EmittedFile ==
    ASSUME NEW f \in Files, NEW at \in Nat, NEW full \in BOOLEAN
    PROVE  LET g == Emitted(f, at, full) IN
           g \in Files /\ g.pc = f.pc /\ g.at = at /\ g.later = f.later /\ g.ended = f.ended
  BY DEF Files, Emitted
LEMMA EnteredFile ==
    ASSUME NEW f \in Files, NEW at \in Nat, NEW part \in Parts
    PROVE  LET g == Entered(f, part, at) IN
           /\ g \in Files /\ g.pc = part /\ g.at = at
           /\ g.later = f.later /\ g.moved = f.moved /\ g.ended = f.ended
  BY DEF Files, Entered
LEMMA LeftFile ==
    ASSUME NEW f \in Files
    PROVE  LET g == Left(f) IN g \in Files /\ g.pc = "rest" /\ g.later = FALSE
  BY DEF Files, Left, Rewound
LEMMA StartedFile ==
    ASSUME NEW f \in Files, NEW at \in Nat
    PROVE  LET g == Started(f, at) IN
           /\ g \in Files /\ g.pc = "dirs" /\ g.later = f.ctx /\ g.moved = FALSE
           /\ g.ended = FALSE /\ g.at = at
  BY PartNames DEF Files, Started, Rewound
LEMMA RewoundFile == Rewound \in Files /\ Rewound.pc = "rest"
  BY DEF Files, Rewound

\* A step of r leaves the other open files alone.
LEMMA OtherFiles ==
    ASSUME CursorInv, NEW r \in Readers, NEW g \in Files, file' = [file EXCEPT ![r] = g]
    PROVE  /\ file' \in [Readers -> Files] /\ file'[r] = g
           /\ \A o \in Readers \ {r} : file'[o] = file[o]
  BY DEF CursorInv

\* While a reader is alone no other one is in a call.
LEMMA CallerIsAlone ==
    ASSUME ListInv, NEW r \in Readers, file[r].pc # "rest", alone # Nobody
    PROVE  r = alone
  BY DEF ListInv, AloneInv

LEMMA EmitKeeps ==
    ASSUME ListInv, NEW r \in Readers, NEW part \in Parts, file[r].pc = part,
           Emit(r, part), UNCHANGED dirVars
    PROVE  ListInv'
<1>1. TypeInv /\ AloneInv /\ DirInv /\ CursorInv /\ SeenInv /\ file[r] \in Files /\ file[r].at \in Nat
  BY DEF ListInv, TypeInv, CursorInv, Files
<1>2. PICK p \in Occupied(part), full \in BOOLEAN :
        /\ file[r].at <= p /\ \A q \in Occupied(part) : q < p => q < file[r].at
        /\ file' = [file EXCEPT ![r] = [@ EXCEPT !.ctx = TRUE, !.moved = TRUE,
                                                !.at = p + 1, !.full = full]]
        /\ pos' = [pos EXCEPT ![part] = @ + 1]
        /\ got' = IF r = alone /\ ~full THEN [got EXCEPT ![<<part, p>>] = @ + 1] ELSE got
        /\ dropped' = (dropped \/ (r = alone /\ full))
        /\ UNCHANGED alone
  BY DEF Emit
<1>3. Occupied(part) \subseteq Nat /\ p + 1 \in Nat
  BY <1>1, Places
<1>4. PICK g : g = Emitted(file[r], p + 1, full)
  OBVIOUS
<1>5. /\ g \in Files /\ g.pc = file[r].pc /\ g.at = p + 1 /\ g.later = file[r].later
      /\ g.ended = file[r].ended
  BY <1>1, <1>3, <1>4, EmittedFile
<1>6. file' = [file EXCEPT ![r] = g]
  BY <1>1, <1>2, <1>4 DEF CursorInv, Emitted
<1>7. /\ file' \in [Readers -> Files] /\ file'[r] = g
      /\ \A o \in Readers \ {r} : file'[o] = file[o]
  BY <1>1, <1>5, <1>6, OtherFiles
<1>8. pos' \in [Parts -> Nat]
  BY <1>1, <1>2 DEF CursorInv
<1>9. DirInv'
  BY <1>1, DirKept
<1>10. file[r].pc # "rest"
  BY PartNames
<1>11. CASE alone = Nobody
  <2>1. r # alone
    BY <1>11, ListAssumption
  <2>2. got' = got /\ dropped' = dropped
    BY <2>1, <1>1, <1>2 DEF SeenInv
  <2>3. SeenInv'
    BY <2>2, <1>1, <1>2 DEF SeenInv
  <2>4. AloneInv'
    BY <1>2, <1>11 DEF AloneInv
  <2> QED BY <2>3, <2>4, <1>7, <1>8, <1>9 DEF ListInv, TypeInv, CursorInv
<1>12. CASE alone # Nobody
  <2>1. r = alone
    BY <1>10, <1>12, CallerIsAlone
  <2>2. PICK v, w : v = View /\ w = View'
    OBVIOUS
  <2>3. ViewOK(v) /\ SameDir(v, w) /\ v.occ[part] = Occupied(part) /\ v.ent[part][p] = <<part, p>>
    BY <2>2, <1>1, ViewIsOK, ViewParts, DirKept
  <2>4. Listed(v, file[r])
    BY <2>1, <2>2, <1>1, <1>12 DEF AloneInv
  <2>5. ~file[r].later
    <3>1. SUFFICES ASSUME file[r].later PROVE FALSE
      OBVIOUS
    <3>2. p < file[r].at
      BY <3>1, <2>3, <2>4, <1>10 DEF Listed, LaterCall
    <3> QED BY <3>2, <1>1, <1>2, <1>3
  <2>6. FirstCall(v, file[r]) /\ NoStray(v) /\ ~file[r].ended
    BY <2>4, <2>5, <1>10 DEF Listed
  <2>7. Reached(v, part, file[r].at)
    BY <2>6 DEF FirstCall
  <2>8. /\ v.pos = pos /\ v.got = got /\ v.dropped = dropped
        /\ w.pos = pos' /\ w.got = got' /\ w.dropped = dropped'
    BY <2>2, ViewFields, DirKept
  <2>9. /\ w.pos = Bumped(v.pos, part)
        /\ w.got = IF full THEN v.got ELSE Bumped(v.got, v.ent[part][p])
        /\ w.dropped <=> v.dropped \/ full
    BY <2>1, <2>3, <2>8, <1>2 DEF Bumped
  <2>10. /\ Reached(w, part, p + 1)
         /\ \A other \in Parts \ {part} : /\ Fresh(v, other) => Fresh(w, other)
                                          /\ Done(v, other) => Done(w, other)
         /\ NoStray(w)
         /\ w.got \in [Entries -> Nat]
    <3>1. /\ p \in v.occ[part] /\ file[r].at <= p /\ file[r].at \in Nat
          /\ \A q \in v.occ[part] : q < p => q < file[r].at
      BY <1>1, <1>2, <2>3
    <3>2. ViewOK(v) /\ SameDir(v, w) /\ NoStray(v)
      BY <2>3, <2>6
    <3> QED BY <3>1, <3>2, <2>7, <2>9, EmitReached
  <2>11. FirstCall(w, g)
    <3>1. w.big = v.big
      BY <2>3 DEF SameDir
    <3>2. g.pc = part /\ g.at = p + 1
      BY <1>5
    <3> QED BY <2>6, <2>10, <3>1, <3>2, EmitFirst
  <2>12. AloneInv'
    <3>1. alone' = r /\ file'[alone'] = g
      BY <1>2, <1>7, <2>1
    <3>2. \A o \in Readers \ {r} : file'[o].pc = "rest"
      BY <1>1, <1>7, <1>12, <2>1 DEF AloneInv
    <3>3. Listed(w, g)
      BY <2>5, <2>6, <2>10, <2>11, <1>5 DEF Listed
    <3>4. Listed(View', file'[alone'])
      BY <3>1, <3>3, <2>2
    <3> QED BY <3>1, <3>2, <3>4 DEF AloneInv
  <2>13. dropped' \in BOOLEAN
    BY <1>2
  <2>14. SeenInv'
    BY <2>8, <2>10, <2>13, <1>1, <1>2 DEF SeenInv
  <2> QED BY <2>12, <2>14, <1>7, <1>8, <1>9 DEF ListInv, TypeInv, CursorInv
<1> QED BY <1>11, <1>12

\* The place a loop starts at: the first one in the first call, the end in the second.
LEMMA ResumeAt ==
    ASSUME DirInv, CursorInv, NEW part \in Parts
    PROVE  /\ Resume(part) \in Nat
           /\ pos[part] = 0 => Resume(part) = 0
           /\ pos[part] = Cardinality(Occupied(part)) => \A x \in Occupied(part) : x < Resume(part)
<1>1. pos[part] \in Nat
  BY DEF CursorInv
<1>2. Resume(part) \in Nat
  BY <1>1, BehindLeast DEF Resume
<1>3. pos[part] = 0 => Resume(part) = 0
  BY BehindNone DEF Resume
<1>4. pos[part] = Cardinality(Occupied(part)) => \A x \in Occupied(part) : x < Resume(part)
  BY BehindAll DEF Resume
<1> QED BY <1>2, <1>3, <1>4

\* A loop that is over leaves its part done.
LEMMA LoopOver ==
    ASSUME NEW v, NEW f, Listed(v, f), NEW part \in Parts, f.pc = part, part # "rest",
           \A x \in v.occ[part] : x < f.at
    PROVE  Done(v, part)
<1>1. CASE f.later
  BY <1>1, PartNames DEF Listed, LaterCall, AllDone
<1>2. CASE ~f.later
  <2>1. Reached(v, part, f.at)
    BY <1>2 DEF Listed, FirstCall
  <2> QED BY <2>1, ReachedDone
<1> QED BY <1>1, <1>2

\* The next step of the order of the parts.
Follows(part, next) == <<part, next>> \in {<<"dirs", "small">>, <<"small", "big">>}
LEMMA EnterListed ==
    ASSUME NEW v, ViewOK(v), NEW f, Listed(v, f), NEW part \in Parts, f.pc = part, part # "rest",
           \A x \in v.occ[part] : x < f.at,
           NEW next \in Parts, Follows(part, next), next = "big" => v.big,
           NEW g, g.pc = next, g.later = f.later, g.moved = f.moved, ~g.ended,
           v.pos[next] = 0 => g.at = 0,
           v.pos[next] = Cardinality(v.occ[next]) => \A x \in v.occ[next] : x < g.at
    PROVE  Listed(v, g)
<1>1. CASE f.later
  <2>1. AllDone(v) /\ ~f.moved /\ NoStray(v)
    BY <1>1 DEF Listed, LaterCall
  <2>2. Done(v, next)
    BY <2>1, PartNames DEF AllDone
  <2>3. \A x \in v.occ[next] : x < g.at
    BY <2>2 DEF Done
  <2> QED BY <1>1, <2>1, <2>3 DEF Listed, LaterCall
<1>2. CASE ~f.later
  <2>1. FirstCall(v, f) /\ NoStray(v)
    BY <1>2 DEF Listed
  <2>2. Done(v, part)
    BY <1>2, LoopOver
  <2>3. CASE part = "dirs" /\ next = "small"
    <3>1. Fresh(v, "small") /\ (v.big => Fresh(v, "big"))
      BY <2>1, <2>3 DEF FirstCall
    <3>2. g.at = 0
      BY <2>3, <3>1 DEF Fresh
    <3>3. Reached(v, next, g.at)
      BY <3>1, <3>2, <2>3, FreshReached DEF ViewOK
    <3> QED BY <1>2, <2>1, <2>2, <2>3, <3>1, <3>3 DEF Listed, FirstCall
  <2>4. CASE part = "small" /\ next = "big"
    <3>1. Done(v, "dirs") /\ Fresh(v, "big")
      BY <2>1, <2>4 DEF FirstCall
    <3>2. g.at = 0
      BY <2>4, <3>1 DEF Fresh
    <3>3. Reached(v, next, g.at)
      BY <3>1, <3>2, <2>4, FreshReached DEF ViewOK
    <3> QED BY <1>2, <2>1, <2>2, <2>4, <3>1, <3>3 DEF Listed, FirstCall
  <2> QED BY <2>3, <2>4 DEF Follows
<1> QED BY <1>1, <1>2

LEMMA LeaveListed ==
    ASSUME NEW v, NEW f, Listed(v, f), NEW part \in Parts, f.pc = part, part # "rest",
           \A x \in v.occ[part] : x < f.at,
           (part = "small" /\ ~v.big) \/ part = "big",
           NEW g, g.pc = "rest", ~g.later
    PROVE  Listed(v, g)
<1>1. NoStray(v)
  BY DEF Listed
<1>2. AllDone(v)
  <2>1. CASE f.later
    BY <2>1 DEF Listed, LaterCall
  <2>2. CASE ~f.later
    <3>1. FirstCall(v, f)
      BY <2>2 DEF Listed
    <3>2. Done(v, part)
      BY <2>2, LoopOver
    <3> QED BY <3>1, <3>2, PartNames DEF FirstCall, AllDone
  <2> QED BY <2>1, <2>2
<1> QED BY <1>1, <1>2 DEF Listed

\* A listing is as it was where neither the cursors nor the reader move.
LEMMA ListedKept ==
    ASSUME NEW v, NEW w, SameDir(v, w), w.pos = v.pos, w.got = v.got, w.dropped = v.dropped,
           NEW f, Listed(v, f)
    PROVE  Listed(w, f)
<1>1. (FirstCall(v, f) => FirstCall(w, f)) /\ (LaterCall(v, f) => LaterCall(w, f))
  BY SameListed DEF FirstCall, LaterCall, SameDir
<1> QED BY <1>1, SameListed DEF Listed

\* A step of a call that moves neither.
LEMMA TurnKeeps ==
    ASSUME ListInv, NEW r \in Readers, file[r].pc # "rest", UNCHANGED <<dirVars, pos, seenVars>>,
           NEW g \in Files, file' = [file EXCEPT ![r] = g],
           r = alone /\ Listed(View, file[r]) => Listed(View, g)
    PROVE  ListInv'
<1>1. AloneInv /\ DirInv /\ CursorInv /\ SeenInv
  BY DEF ListInv, TypeInv
<1>2. /\ file' \in [Readers -> Files] /\ file'[r] = g
      /\ \A o \in Readers \ {r} : file'[o] = file[o]
  BY <1>1, OtherFiles
<1>3. TypeInv'
  BY <1>1, <1>2, DirKept DEF TypeInv, CursorInv, SeenInv, seenVars
<1>4. AloneInv'
  <2>1. SUFFICES ASSUME alone # Nobody
                 PROVE  /\ \A o \in Readers \ {alone} : file'[o].pc = "rest"
                        /\ Listed(View', file'[alone])
    BY DEF AloneInv, seenVars
  <2>2. r = alone
    BY <2>1, CallerIsAlone
  <2>3. \A o \in Readers \ {alone} : file'[o].pc = "rest"
    BY <1>1, <1>2, <2>1, <2>2 DEF AloneInv
  <2>4. PICK v, w : v = View /\ w = View'
    OBVIOUS
  <2>5. Listed(v, g)
    BY <1>1, <2>1, <2>2, <2>4 DEF AloneInv
  <2>6. SameDir(v, w) /\ w.pos = v.pos /\ w.got = v.got /\ w.dropped = v.dropped
    <3>1. UNCHANGED dirVars /\ pos' = pos /\ got' = got /\ dropped' = dropped
      BY DEF seenVars
    <3> QED BY <3>1, <2>4, TwoViews
  <2>7. Listed(w, g)
    BY <2>5, <2>6, ListedKept
  <2> QED BY <2>2, <2>3, <2>4, <2>7, <1>2
<1> QED BY <1>3, <1>4 DEF ListInv

LEMMA EnterKeeps ==
    ASSUME ListInv, NEW r \in Readers, NEW part \in Parts, file[r].pc = part, AtEnd(r, part),
           NEW next \in Parts, Follows(part, next), next = "big" => is_big_dir,
           Enter(r, next), UNCHANGED dirVars
    PROVE  ListInv'
<1>1. TypeInv /\ AloneInv /\ DirInv /\ CursorInv /\ file[r] \in Files
  BY DEF ListInv, TypeInv, CursorInv
<1>2. Resume(next) \in Nat
  BY <1>1, ResumeAt
<1>3. PICK g : g = Entered(file[r], next, Resume(next))
  OBVIOUS
<1>4. /\ g \in Files /\ g.pc = next /\ g.at = Resume(next)
      /\ g.later = file[r].later /\ g.moved = file[r].moved /\ g.ended = file[r].ended
  BY <1>1, <1>2, <1>3, EnteredFile
<1>5. file' = [file EXCEPT ![r] = g] /\ UNCHANGED <<pos, seenVars>>
  BY <1>1, <1>3 DEF Enter, Entered, CursorInv
<1>6. file[r].pc # "rest"
  BY PartNames
<1>7. ASSUME r = alone, Listed(View, file[r])
      PROVE  Listed(View, g)
  <2>1. PICK v : v = View
    OBVIOUS
  <2>2. ViewOK(v) /\ Listed(v, file[r]) /\ v.occ[part] = Occupied(part) /\ v.occ[next] = Occupied(next)
    BY <2>1, <1>1, <1>7, ViewIsOK, ViewParts
  <2>3. v.pos = pos /\ v.big = is_big_dir
    BY <2>1, ViewFields
  <2>4. ~g.ended
    BY <1>4, <1>6, <2>2 DEF Listed
  <2>5. \A x \in v.occ[part] : x < file[r].at
    BY <2>2 DEF AtEnd
  <2>6. /\ v.pos[next] = 0 => g.at = 0
        /\ v.pos[next] = Cardinality(v.occ[next]) => \A x \in v.occ[next] : x < g.at
    BY <2>2, <2>3, <1>1, <1>4, ResumeAt
  <2>7. Listed(v, g)
    BY <2>2, <2>3, <2>4, <2>5, <2>6, <1>4, <1>6, EnterListed
  <2> QED BY <2>1, <2>7
<1> QED BY <1>4, <1>5, <1>6, <1>7, TurnKeeps

LEMMA LeaveKeeps ==
    ASSUME ListInv, NEW r \in Readers, NEW part \in Parts, file[r].pc = part, AtEnd(r, part),
           (part = "small" /\ ~is_big_dir) \/ part = "big",
           Leave(r), UNCHANGED dirVars
    PROVE  ListInv'
<1>1. TypeInv /\ AloneInv /\ CursorInv /\ file[r] \in Files
  BY DEF ListInv, TypeInv, CursorInv
<1>2. PICK g : g = Left(file[r])
  OBVIOUS
<1>3. g \in Files /\ g.pc = "rest" /\ g.later = FALSE
  BY <1>1, <1>2, LeftFile
<1>4. file' = [file EXCEPT ![r] = g] /\ UNCHANGED <<pos, seenVars>>
  BY <1>2 DEF Leave, Left
<1>5. file[r].pc # "rest"
  BY PartNames
<1>6. ASSUME r = alone, Listed(View, file[r])
      PROVE  Listed(View, g)
  <2>1. PICK v : v = View
    OBVIOUS
  <2>2. Listed(v, file[r]) /\ v.occ[part] = Occupied(part) /\ v.big = is_big_dir
    BY <2>1, <1>6, ViewParts, ViewFields
  <2>3. \A x \in v.occ[part] : x < file[r].at
    BY <2>2 DEF AtEnd
  <2>4. Listed(v, g)
    BY <2>2, <2>3, <1>3, <1>5, LeaveListed
  <2> QED BY <2>1, <2>4
<1> QED BY <1>3, <1>4, <1>5, <1>6, TurnKeeps

\* A listing begins with everything to come, and goes on with nothing to come.
LEMMA BeginListed ==
    ASSUME NEW w, w.occ["dirs"] \subseteq Nat, Fresh(w, "dirs"), Fresh(w, "small"),
           w.big => Fresh(w, "big"), \A e \in Entries : w.got[e] = 0,
           NEW g, g.pc = "dirs", g.at = 0, ~g.later, ~g.ended
    PROVE  Listed(w, g)
<1>1. NoStray(w)
  BY DEF NoStray
<1>2. Reached(w, g.pc, g.at)
  BY FreshReached
<1>3. FirstCall(w, g)
  BY <1>2, PartNames DEF FirstCall
<1> QED BY <1>1, <1>3 DEF Listed

LEMMA GoOnListed ==
    ASSUME NEW v, NEW f, Listed(v, f), f.pc = "rest", NEW g, g.pc = "dirs", g.later, ~g.moved,
           ~g.ended,
           v.pos["dirs"] = Cardinality(v.occ["dirs"]) => \A x \in v.occ["dirs"] : x < g.at
    PROVE  Listed(v, g)
<1>1. NoStray(v) /\ AllDone(v)
  BY PartNames DEF Listed, LaterCall, FirstCall
<1>2. LaterCall(v, g)
  BY <1>1, PartNames DEF LaterCall, AllDone, Done
<1> QED BY <1>1, <1>2 DEF Listed

LEMMA StartKeeps ==
    ASSUME ListInv, NEW r \in Readers, ffs_readdir(r)
    PROVE  ListInv'
<1>1. TypeInv /\ AloneInv /\ DirInv /\ CursorInv /\ SeenInv /\ file[r] \in Files
  BY DEF ListInv, TypeInv, CursorInv
<1>2. "dirs" \in Parts /\ "small" \in Parts /\ "big" \in Parts
  BY PartNames
<1>3. PICK at : at = IF file[r].ctx THEN Resume("dirs") ELSE 0
  OBVIOUS
<1>4. Resume("dirs") \in Nat
  BY <1>1, <1>2, ResumeAt
<1>5. at \in Nat
  BY <1>3, <1>4
<1>6. PICK g : g = Started(file[r], at)
  OBVIOUS
<1>7. /\ g \in Files /\ g.pc = "dirs" /\ g.later = file[r].ctx /\ g.moved = FALSE
      /\ g.ended = FALSE /\ g.at = at
  BY <1>1, <1>5, <1>6, StartedFile
<1>8. UNCHANGED dirVars /\ file[r].pc = "rest" /\ BeginAlone(r) /\ pos' = Reset(r)
  BY DEF ffs_readdir
<1>9. file' = [file EXCEPT ![r] = g]
  BY <1>3, <1>6 DEF ffs_readdir, Started
<1>10. /\ file' \in [Readers -> Files] /\ file'[r] = g
       /\ \A o \in Readers \ {r} : file'[o] = file[o]
  BY <1>1, <1>7, <1>9, OtherFiles
<1>11. pos' \in [Parts -> Nat]
  BY <1>1, <1>8 DEF Reset, CursorInv
<1>12. CursorInv' /\ DirInv'
  BY <1>1, <1>8, <1>10, <1>11, DirKept DEF CursorInv
<1>13. (alone' = r \/ alone' = Nobody) /\ got' \in [Entries -> Nat]
  BY <1>1, <1>8 DEF BeginAlone, SeenInv
<1>14. dropped' \in BOOLEAN
  BY <1>8 DEF BeginAlone
<1>15. TypeInv'
  BY <1>12, <1>13, <1>14 DEF TypeInv, SeenInv
<1>16. CASE alone' = Nobody
  BY <1>15, <1>16 DEF ListInv, AloneInv
<1>17. CASE alone' # Nobody /\ alone = r /\ file[r].ctx
  <2>1. alone' = r /\ alone # Nobody /\ got' = got
    BY <1>8, <1>13, <1>17, ListAssumption DEF BeginAlone
  <2>2. dropped' = dropped
    BY <1>1, <1>8, <1>17 DEF BeginAlone, SeenInv
  <2>3. pos' = pos
    BY <1>1, <1>8, <1>17 DEF Reset, CursorInv
  <2>4. PICK v, w : v = View /\ w = View'
    OBVIOUS
  <2>5. SameDir(v, w) /\ w.pos = v.pos /\ w.got = v.got /\ w.dropped = v.dropped
    BY <2>1, <2>2, <2>3, <2>4, <1>8, TwoViews
  <2>6. Listed(v, file[r])
    BY <1>1, <1>17, <2>1, <2>4 DEF AloneInv
  <2>7. v.pos["dirs"] = Cardinality(v.occ["dirs"]) => \A x \in v.occ["dirs"] : x < g.at
    <3>1. v.pos = pos /\ v.occ["dirs"] = Occupied("dirs") /\ g.at = Resume("dirs")
      BY <2>4, <1>2, <1>3, <1>7, <1>17, ViewFields, ViewParts
    <3> QED BY <3>1, <1>1, <1>2, ResumeAt
  <2>8. Listed(v, g)
    BY <2>6, <2>7, <1>7, <1>8, <1>17, GoOnListed
  <2>9. Listed(w, g)
    BY <2>5, <2>8, ListedKept
  <2>10. \A o \in Readers \ {r} : file'[o].pc = "rest"
    BY <1>1, <1>10, <1>17, <2>1 DEF AloneInv
  <2>11. AloneInv'
    BY <2>1, <2>4, <2>9, <2>10, <1>10 DEF AloneInv
  <2> QED BY <2>11, <1>15 DEF ListInv
<1>18. CASE alone' # Nobody /\ ~(alone = r /\ file[r].ctx)
  <2>1. /\ ~file[r].ctx /\ \A o \in Readers \ {r} : file[o].pc = "rest"
        /\ got' = [e \in Entries |-> 0] /\ alone' = r
    BY <1>8, <1>13, <1>18 DEF BeginAlone
  <2>2. pos'["dirs"] = 0 /\ pos'["small"] = 0 /\ (is_big_dir => pos'["big"] = 0)
    BY <1>2, <1>8, <2>1, PartNames DEF Reset
  <2>3. PICK v, w : v = View /\ w = View'
    OBVIOUS
  <2>4. SameDir(v, w) /\ w.pos = pos' /\ w.got = got'
    BY <2>3, <1>8, TwoViews
  <2>5. ViewOK(v) /\ v.big = is_big_dir
    BY <2>3, <1>1, ViewIsOK, ViewFields
  <2>6. w.occ = v.occ /\ w.ent = v.ent /\ w.big = is_big_dir
    BY <2>4, <2>5 DEF SameDir
  <2>7. \A part \in Parts : w.pos[part] = 0 => Fresh(w, part)
    <3>1. \A part \in Parts : \A x \in w.occ[part] : w.ent[part][x] \in Entries
      BY <2>5, <2>6 DEF ViewOK
    <3> QED BY <3>1, <2>1, <2>4 DEF Fresh
  <2>8. w.occ["dirs"] \subseteq Nat
    BY <2>5, <2>6, <1>2 DEF ViewOK
  <2>9. \A e \in Entries : w.got[e] = 0
    BY <2>1, <2>4
  <2>10. g.at = 0 /\ ~g.later
    BY <1>3, <1>7, <2>1
  <2>11. Listed(w, g)
    <3>1. Fresh(w, "dirs") /\ Fresh(w, "small") /\ (w.big => Fresh(w, "big"))
      BY <2>2, <2>4, <2>6, <2>7, <1>2
    <3> QED BY <3>1, <2>8, <2>9, <2>10, <1>7, BeginListed
  <2>12. AloneInv'
    BY <2>1, <2>3, <2>11, <1>10 DEF AloneInv
  <2> QED BY <2>12, <1>15 DEF ListInv
<1> QED BY <1>16, <1>17, <1>18

LEMMA RewindKeeps ==
    ASSUME ListInv, NEW r \in Readers, Rewind(r)
    PROVE  ListInv'
<1>1. AloneInv /\ DirInv /\ CursorInv /\ SeenInv
  BY DEF ListInv, TypeInv
<1>2. UNCHANGED dirVars /\ pos' = pos /\ file' = [file EXCEPT ![r] = Rewound]
  BY DEF Rewind
<1>3. /\ file' \in [Readers -> Files] /\ file'[r] = Rewound /\ Rewound.pc = "rest"
      /\ \A o \in Readers \ {r} : file'[o] = file[o]
  BY <1>1, <1>2, RewoundFile, OtherFiles
<1>4. alone' \in Readers \union {Nobody} /\ got' \in [Entries -> Nat]
  BY <1>1 DEF Rewind, SeenInv
<1>5. dropped' \in BOOLEAN
  BY DEF Rewind
<1>6. TypeInv'
  BY <1>1, <1>2, <1>3, <1>4, <1>5, DirKept DEF TypeInv, CursorInv, SeenInv
<1>7. CASE alone = r \/ alone = Nobody
  <2>1. alone' = Nobody
    BY <1>7 DEF Rewind
  <2> QED BY <2>1, <1>6 DEF ListInv, AloneInv
<1>8. CASE alone # r /\ alone # Nobody
  <2>1. alone' = alone /\ got' = got /\ alone \in Readers \ {r}
    BY <1>1, <1>8 DEF Rewind, SeenInv
  <2>2. dropped' = dropped
    BY <1>1, <1>8 DEF Rewind, SeenInv
  <2>3. PICK v, w : v = View /\ w = View'
    OBVIOUS
  <2>4. SameDir(v, w) /\ w.pos = v.pos /\ w.got = v.got /\ w.dropped = v.dropped
    BY <2>1, <2>2, <2>3, <1>2, TwoViews
  <2>5. Listed(w, file[alone])
    BY <2>3, <2>4, <1>1, <1>8, ListedKept DEF AloneInv
  <2>6. Listed(View', file'[alone'])
    BY <2>1, <2>3, <2>5, <1>3
  <2>7. \A o \in Readers \ {alone} : file'[o].pc = "rest"
    BY <1>1, <1>3, <1>8 DEF AloneInv
  <2>8. AloneInv'
    BY <2>1, <2>6, <2>7 DEF AloneInv
  <2> QED BY <2>8, <1>6 DEF ListInv
<1> QED BY <1>7, <1>8

\* A change of the directory ends every listing.
LEMMA ChangeKeeps ==
    ASSUME ListInv, DirInv', pos' \in [Parts -> Nat], Changed
    PROVE  ListInv'
<1>1. CursorInv' /\ SeenInv' /\ alone' = Nobody
  BY DEF Changed, ListInv, TypeInv, CursorInv, SeenInv
<1> QED BY <1>1 DEF ListInv, TypeInv, AloneInv

LEMMA CreateKeeps == ListInv /\ Create => ListInv'
<1> SUFFICES ASSUME ListInv, Create PROVE ListInv'
  OBVIOUS
<1>1. DirInv /\ pos \in [Parts -> Nat]
  BY DEF ListInv, TypeInv, CursorInv
<1>2. PICK big \in {is_big_dir, TRUE}, x \in 0 .. Size["big"] - 1 :
        LET t == IF big THEN "big" ELSE "small" IN
        /\ x < Size[t] /\ x \notin slots[t]
        /\ slots' = [slots EXCEPT ![t] = @ \union {x}]
        /\ is_big_dir' = big
        /\ IF big = is_big_dir THEN UNCHANGED pos
           ELSE \E n \in 0 .. Size["big"] : pos' = [pos EXCEPT !["big"] = n]
  BY DEF Create
<1>3. PICK t : t = IF big THEN "big" ELSE "small"
  OBVIOUS
<1>4. /\ x < Size[t] /\ slots' = [slots EXCEPT ![t] = slots[t] \union {x}] /\ is_big_dir' = big
      /\ t \in Tables /\ Size[t] \in Nat /\ x \in Nat
  BY <1>2, <1>3, PartNames
<1>5. pos' \in [Parts -> Nat]
  BY <1>1, <1>2, PartNames
<1>6. big \in BOOLEAN /\ (~big => ~is_big_dir)
  BY <1>1, <1>2 DEF DirInv
<1>7. slots \in [Tables -> SUBSET Nat] /\ \A s \in Tables : slots[s] \subseteq 0 .. Size[s] - 1
  BY <1>1 DEF DirInv
<1>8. x \in 0 .. Size[t] - 1
  BY <1>4
<1>9. slots' \in [Tables -> SUBSET Nat] /\ \A s \in Tables : slots'[s] \subseteq 0 .. Size[s] - 1
  <2>1. slots'[t] = slots[t] \union {x} /\ \A s \in Tables \ {t} : slots'[s] = slots[s]
    BY <1>4, <1>7
  <2>2. slots' \in [Tables -> SUBSET Nat]
    BY <1>4, <1>7
  <2> QED BY <2>1, <2>2, <1>7, <1>8
<1>10. ~is_big_dir' => slots'["big"] = {}
  <2>1. SUFFICES ASSUME ~big PROVE slots'["big"] = {}
    BY <1>4
  <2>2. t = "small" /\ ~is_big_dir
    BY <2>1, <1>3, <1>6
  <2>3. slots'["big"] = slots["big"]
    BY <2>2, <1>4, <1>7, PartNames
  <2> QED BY <2>2, <2>3, <1>1 DEF DirInv
<1>11. cells' = cells /\ Changed
  BY DEF Create
<1>12. DirInv'
  BY <1>1, <1>4, <1>6, <1>9, <1>10, <1>11 DEF DirInv
<1> QED BY <1>5, <1>11, <1>12, ChangeKeeps

LEMMA ClearKeeps == ListInv /\ SlotCleared => ListInv'
<1> SUFFICES ASSUME ListInv, SlotCleared PROVE ListInv'
  OBVIOUS
<1>1. DirInv /\ pos \in [Parts -> Nat]
  BY DEF ListInv, TypeInv, CursorInv
<1>2. PICK t \in Tables : \E x \in slots[t] : slots' = [slots EXCEPT ![t] = @ \ {x}]
  BY DEF SlotCleared
<1>3. UNCHANGED <<cells, is_big_dir, pos>> /\ Changed
  BY DEF SlotCleared
<1>4. slots' \in [Tables -> SUBSET Nat] /\ \A s \in Tables : slots'[s] \subseteq slots[s]
  BY <1>1, <1>2 DEF DirInv
<1>5. "big" \in Tables
  BY PartNames
<1>6. DirInv'
  BY <1>1, <1>3, <1>4, <1>5 DEF DirInv
<1> QED BY <1>1, <1>3, <1>6, ChangeKeeps

LEMMA SubdirKeeps == ListInv /\ SubdirChange => ListInv'
<1> SUFFICES ASSUME ListInv, SubdirChange PROVE ListInv'
  OBVIOUS
<1>1. DirInv /\ pos \in [Parts -> Nat]
  BY DEF ListInv, TypeInv, CursorInv
<1>2. UNCHANGED <<slots, is_big_dir, pos>> /\ Changed
  BY DEF SubdirChange
<1>4. cells' \in 0 .. MaxCells
  BY DEF SubdirChange
<1>5. DirInv'
  BY <1>1, <1>2, <1>4 DEF DirInv
<1>6. pos' \in [Parts -> Nat]
  BY <1>1, <1>2
<1> QED BY <1>2, <1>5, <1>6, ChangeKeeps

-----------------------------------------------------------------------------
(* The theorems *)

LEMMA InitKeeps == Init => ListInv
<1> SUFFICES ASSUME Init PROVE ListInv
  OBVIOUS
<1>1. alone = Nobody /\ got = [e \in Entries |-> 0] /\ dropped = FALSE
  BY DEF Init
<1>2. SeenInv /\ AloneInv
  BY <1>1 DEF SeenInv, AloneInv
<1>3. cells \in 0 .. MaxCells
  BY DEF Init
<1>4. DirInv
  <2>1. slots \in [Tables -> SUBSET Nat]
    <3>1. slots \in [Tables -> SUBSET (0 .. Size["big"] - 1)] /\ Size["big"] \in Nat
      BY PartNames DEF Init
    <3> QED BY <3>1
  <2> QED BY <2>1, <1>3 DEF DirInv, Init
<1>5. pos \in [Parts -> Nat]
  <2>1. \A part \in Parts : Cardinality(Occupied(part)) \in Nat
    BY <1>4, Places
  <2> QED BY <2>1 DEF Init
<1>6. file \in [Readers -> Files]
  BY RewoundFile DEF Init
<1> QED BY <1>2, <1>4, <1>5, <1>6 DEF ListInv, TypeInv, CursorInv

LEMMA NextKeeps == ListInv /\ [Next]_vars => ListInv'
<1> SUFFICES ASSUME ListInv, [Next]_vars PROVE ListInv'
  OBVIOUS
<1>1. "dirs" \in Parts /\ "small" \in Parts /\ "big" \in Parts
  BY PartNames
<1>2. ASSUME NEW r \in Readers, ffs_readdir(r) PROVE ListInv'
  BY <1>2, StartKeeps
<1>3. ASSUME NEW r \in Readers, read_dir_dirs(r) PROVE ListInv'
  <2>1. file[r].pc = "dirs" /\ UNCHANGED dirVars
    BY <1>3 DEF read_dir_dirs
  <2>2. CASE Emit(r, "dirs")
    BY <2>1, <2>2, <1>1, EmitKeeps
  <2>3. CASE AtEnd(r, "dirs") /\ Enter(r, "small")
    <3>1. Follows("dirs", "small")
      BY DEF Follows
    <3> QED BY <3>1, <2>1, <2>3, <1>1, EnterKeeps
  <2> QED BY <1>3, <2>2, <2>3 DEF read_dir_dirs
<1>4. ASSUME NEW r \in Readers, read_dir_files(r) PROVE ListInv'
  <2>1. file[r].pc = "small" /\ UNCHANGED dirVars
    BY <1>4 DEF read_dir_files
  <2>2. CASE Emit(r, "small")
    BY <2>1, <2>2, <1>1, EmitKeeps
  <2>3. CASE AtEnd(r, "small") /\ is_big_dir /\ Enter(r, "big")
    <3>1. Follows("small", "big")
      BY DEF Follows
    <3> QED BY <3>1, <2>1, <2>3, <1>1, EnterKeeps
  <2>4. CASE AtEnd(r, "small") /\ ~is_big_dir /\ Leave(r)
    BY <2>1, <2>4, <1>1, LeaveKeeps
  <2> QED BY <1>4, <2>2, <2>3, <2>4 DEF read_dir_files
<1>5. ASSUME NEW r \in Readers, read_big_dir_files(r) PROVE ListInv'
  <2>1. file[r].pc = "big" /\ UNCHANGED dirVars
    BY <1>5 DEF read_big_dir_files
  <2>2. CASE Emit(r, "big")
    BY <2>1, <2>2, <1>1, EmitKeeps
  <2>3. CASE AtEnd(r, "big") /\ Leave(r)
    BY <2>1, <2>3, <1>1, LeaveKeeps
  <2> QED BY <1>5, <2>2, <2>3 DEF read_big_dir_files
<1>6. ASSUME NEW r \in Readers, Rewind(r) PROVE ListInv'
  BY <1>6, RewindKeeps
<1>7. CASE Create \/ SlotCleared \/ SubdirChange
  BY <1>7, CreateKeeps, ClearKeeps, SubdirKeeps
<1>8. CASE UNCHANGED vars
  <2>1. UNCHANGED <<cells, slots, is_big_dir, changes>> /\ UNCHANGED <<pos, file, alone, got, dropped>>
    BY <1>8 DEF vars, dirVars, seenVars
  <2>2. View' = View
    BY <2>1 DEF View, Occupied, Parts, Tables, Size
  <2>3. TypeInv'
    BY <2>1 DEF ListInv, TypeInv, DirInv, CursorInv, SeenInv, Tables, Size
  <2>4. AloneInv'
    BY <2>1, <2>2 DEF ListInv, AloneInv
  <2> QED BY <2>3, <2>4 DEF ListInv
<1> QED BY <1>2, <1>3, <1>4, <1>5, <1>6, <1>7, <1>8 DEF Next

\* What the shared cursors count, for a reader that has the directory to itself.
THEOREM CursorsCount == Spec => []ListInv
  BY InitKeeps, NextKeeps, PTL DEF Spec

\* A reader that has the directory to itself is given no cell of the list and no slot
\* twice, and has all of them when its listing ends, unless its buffer was too small: the
\* cursors of ffs_readdir and its three loops agree about which entries have been
\* emitted, whatever earlier listings and changes left in the cursors and whatever
\* remove_dir has made of the list.
THEOREM ListsEachOnce == Spec => []Listing
<1>1. ListInv => Listing
  <2> SUFFICES ASSUME ListInv, alone # Nobody
               PROVE  /\ \A e \in Entries : got[e] <= 1
                      /\ file[alone].ended /\ ~dropped => \A e \in Present : got[e] = 1
    BY DEF Listing
  <2>1. PICK v : v = View
    OBVIOUS
  <2>2. /\ ViewOK(v) /\ Listed(v, file[alone]) /\ v.got = got /\ v.dropped = dropped
        /\ v.big = is_big_dir
    BY <2>1, ViewIsOK, ViewFields DEF ListInv, AloneInv
  <2>3. \A part \in Parts : /\ v.occ[part] = Occupied(part)
                            /\ \A x \in Occupied(part) : v.ent[part][x] = <<part, x>>
    BY <2>1, ViewParts
  <2>4. DirInv /\ Parts = {"dirs", "small", "big"}
    BY PartNames DEF ListInv, TypeInv
  <2>5. ~is_big_dir => Occupied("big") = {}
    BY <2>4 DEF DirInv, Occupied
  <2>6. ASSUME NEW e \in Entries PROVE got[e] <= 1
    <3>1. CASE ~HasPlace(v, e)
      BY <3>1, <2>2 DEF Listed, NoStray
    <3>2. CASE HasPlace(v, e)
      <4>1. PICK part \in Parts : \E x \in v.occ[part] : v.ent[part][x] = e
        BY <3>2 DEF HasPlace
      <4>2. PICK x \in v.occ[part] : v.ent[part][x] = e
        BY <4>1
      <4>3. Done(v, part) \/ Fresh(v, part) \/ \E at : Reached(v, part, at)
        <5>1. v.occ["big"] # {} => v.big
          BY <2>2, <2>3, <2>4, <2>5
        <5>2. CASE AllDone(v)
          BY <5>1, <5>2, <2>4 DEF AllDone
        <5>3. CASE FirstCall(v, file[alone])
          BY <5>1, <5>3, <2>4 DEF FirstCall
        <5> QED BY <5>2, <5>3, <2>2 DEF Listed, LaterCall
      <4>4. Given(v, e) \/ v.got[e] = 0
        BY <4>2, <4>3 DEF Done, Fresh, Reached
      <4> QED BY <4>4, <2>2 DEF Given
    <3> QED BY <3>1, <3>2
  <2>7. ASSUME file[alone].ended, ~dropped, NEW e \in Present PROVE got[e] = 1
    <3>1. PICK part \in Parts : \E x \in Occupied(part) : e = <<part, x>>
      BY DEF Present
    <3>2. PICK x \in Occupied(part) : e = <<part, x>>
      BY <3>1
    <3>3. AllDone(v)
      BY <2>2, <2>4, <2>7 DEF Listed, LaterCall, FirstCall
    <3>4. Done(v, part)
      BY <3>2, <3>3, <2>2, <2>4, <2>5 DEF AllDone
    <3>5. Given(v, e)
      BY <3>2, <3>4, <2>3 DEF Done
    <3> QED BY <3>5, <2>2, <2>7 DEF Given
  <2> QED BY <2>6, <2>7
<1> QED BY <1>1, CursorsCount, PTL

\* The second call of such a reader finds nothing more, even when its buffer was too small
\* for the first: read_dir_dirs, read_dir_files and read_big_dir_files skip as many entries
\* as the cursors have counted, which are all.
THEOREM SecondCallEnds == Spec => []SecondCallEmpty
<1>1. ListInv => SecondCallEmpty
  BY DEF ListInv, AloneInv, SecondCallEmpty, Listed, LaterCall
<1> QED BY <1>1, CursorsCount, PTL

=============================================================================
