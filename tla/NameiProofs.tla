----------------------------- MODULE NameiProofs -----------------------------
(***************************************************************************)
(* Proofs about Namei, for any processes, inodes and names: the locks of   *)
(* the VFS keep the tree whole, every call takes effect in one step, and   *)
(* no processes wait for each other in a circle.                           *)
(*                                                                         *)
(* The argument is by rely and guarantee.  StepInv(p) is what a process p  *)
(* knows where it stands; Rely(p) is what the other processes leave alone  *)
(* because p holds its locks.  Each step of a process establishes what it  *)
(* knows next and grants the others what they rely on.                     *)
(***************************************************************************)
EXTENDS Namei, FiniteSetTheorems, WellFoundedInduction, TLAPS

Kinds == {"free", "dir", "file", "link"}
Places == {"look", "act"}
InodeOrNone == Inodes \union {None}
Components == Names \union {Dots}
Errors == {"", "EBUSY", "EEXIST", "EINTR", "EINVAL", "EISDIR", "ELOOP", "ENOENT",
           "ENOTDIR", "ENOTEMPTY", "EPERM", "EROFS", "ESTALE", "EWOULDBLOCK", "error"}
              \union Refusals
Locals == [call : AllCalls, d : Inodes, n : Components, d2 : Inodes, n2 : Components,
           old : InodeOrNone, new : InodeOrNone, trap : InodeOrNone,
           todo : Seq(Inodes), then : Places, links : 0 .. MAXSYMLINKS,
           reval : BOOLEAN, brk : InodeOrNone, err : Errors, did : BOOLEAN]

TreeType ==
    /\ kind \in [Inodes -> Kinds]
    /\ child \in [Inodes -> [Names -> InodeOrNone]]
    /\ up \in [Inodes -> Inodes] /\ body \in [Inodes -> Names]
    /\ data \subseteq Inodes /\ dead \subseteq Inodes /\ linkable \subseteq Inodes
LockType ==
    /\ owner \in [Inodes -> Procs \union {None}]
    /\ readers \in [Inodes -> SUBSET Procs]
    /\ rename_mutex \in Procs \union {None} /\ flatfs_spinlock \in Procs \union {None}
EnvType ==
    /\ writers \subseteq Procs /\ mount \in {"rw", "ro", "freezing", "frozen"}
    /\ admin \in Nat /\ deleg \subseteq Inodes
ProcType == pc \in [Procs -> Pcs] /\ st \in [Procs -> Locals]
TypeInv == TreeType /\ LockType /\ EnvType /\ ProcType

\* A mount that is read-only or frozen has no writers.
MountInv == mount \in {"ro", "frozen"} => writers = {}

\* The parent of a directory is one, and the way up from each ends at the root.
UpInv ==
    /\ up[Root] = Root
    /\ \A d \in Directories : up[d] \in Directories /\ Root \in Above(d)
TreeInv == Abstract!TreeOK /\ UpInv /\ dead \subseteq Directories

-----------------------------------------------------------------------------
(* What a process knows *)

\* It has found what it goes on with, or is taking the locks for that.
Found(p) == pc[p] = "act" \/ (pc[p] = "lock" /\ st[p].then = "act")
Creating(p) == pc[p] \in {"spin", "create"}
\* It is on the way to its parents' locks, or has them.
Inside(p) == pc[p] \in {"lock", "look", "act", "spin", "create", "unlock"}

\* The places a call comes to.
CallInv(p) ==
    LET s == st[p] IN
    /\ pc[p] = "mutex" => s.call \in Renames /\ s.d # s.d2
    /\ Creating(p) => s.call \in {"creat", "excl"}
    /\ pc[p] \in {"opened", "truncate"} => s.call \in Opens
    /\ pc[p] = "truncate" => s.call # "excl"
    /\ pc[p] \in {"lock", "look"} => s.call # "tmpfile"
    /\ pc[p] = "break" => s.call \in Renames \union {"link", "unlink"}
    /\ s.brk # None => s.call \in Renames \union {"link", "unlink"}
    /\ Found(p) => s.call \notin Opens
    /\ pc[p] = "lock" => s.todo # <<>>

\* The names and the inodes it has there.
NameInv(p) ==
    LET s == st[p] IN
    /\ s.d \in Directories /\ s.d2 \in Directories
    /\ s.call \notin Opens \union {"tmpfile"} /\ pc[p] \notin {"walk", "done"}
        => s.n \in Names /\ (s.call \in Renames => s.n2 \in Names)
    /\ s.call \in Opens /\ pc[p] \in {"lock", "look", "spin", "create"} => s.n \in Names
    /\ s.call = "link" /\ pc[p] \in {"want", "lock", "look", "act"}
        => s.old \in Inodes /\ kind[s.old] # "free"
    /\ pc[p] \in {"opened", "truncate"} => s.new \in Inodes
    /\ pc[p] = "opened" /\ s.call = "excl" /\ ~s.did => kind[s.new] = "dir"
    /\ pc[p] = "unlock" /\ s.call \in Opens /\ s.did => s.new \in Inodes

\* The locks it may hold.
LockInv(p) ==
    /\ ~Inside(p) => \A i \in Inodes : owner[i] # p /\ p \notin readers[i]
    /\ ~Inside(p) => rename_mutex # p
    /\ flatfs_spinlock = p => pc[p] = "create"

\* The write access to the mount it has.
WriteInv(p) ==
    LET s == st[p] IN
    /\ s.call \in Removes \union Renames
        /\ pc[p] \in {"mutex", "lock", "look", "act", "unlock", "break"} => p \in writers
    /\ Found(p) \/ Creating(p) \/ pc[p] = "truncate" => p \in writers

\* The locks it does hold: on its parents, and on the directory it removes.
Parents(s) == IF s.call \in Renames THEN {s.d, s.d2} ELSE {s.d}
Victims(s) ==
    IF s.call = "rmdir" THEN {s.old}
    ELSE IF s.call \in {"rename", "noreplace"} /\ IsDir(s.new) THEN {s.new} ELSE {}
InTodo(i, s) == \E k \in 1 .. Len(s.todo) : s.todo[k] = i
HoldInv(p) ==
    LET s == st[p] IN
    s.call \notin {"open", "trunc", "tmpfile"} =>
        /\ pc[p] = "look" \/ Found(p) \/ Creating(p) => \A i \in Parents(s) : owner[i] = p
        /\ pc[p] = "lock" => \A i \in Parents(s) : owner[i] = p \/ InTodo(i, s)
        /\ pc[p] = "act" => \A i \in Victims(s) : owner[i] = p
        /\ Found(p) => \A i \in Victims(s) : owner[i] = p \/ InTodo(i, s)

\* What it has found is still so.
FreeName(s) == child[s.d][s.n] = None /\ s.d \notin dead
FoundOK(s) ==
    /\ s.call \in Creates \union {"link"} => FreeName(s)
    /\ s.call = "link" => ~IsDir(s.old)
    /\ s.call \in Removes =>
        /\ s.old # None /\ child[s.d][s.n] = s.old /\ s.d \notin dead
        /\ s.call = "rmdir" <=> IsDir(s.old)
    /\ s.call \in Renames =>
        /\ s.old # None /\ child[s.d][s.n] = s.old /\ s.d \notin dead
        /\ child[s.d2][s.n2] = s.new /\ s.d2 \notin dead
        /\ s.old # s.new /\ s.old # s.trap /\ (s.new # None => s.new # s.trap)
        /\ s.call = "noreplace" => s.new = None
        /\ s.call = "exchange" => s.new # None
        /\ s.call # "exchange" /\ s.new # None => (IsDir(s.old) <=> IsDir(s.new))
ActInv(p) ==
    /\ Found(p) => FoundOK(st[p])
    /\ Creating(p) => FreeName(st[p])

\* A rename between two directories holds s_vfs_rename_mutex, and what is below one of
\* them on the way up from the other is the trap.
TrapOK(s) ==
    \A i \in Directories \ {Root} :
        (up[i] = s.d /\ i \in Above(s.d2)) \/ (up[i] = s.d2 /\ i \in Above(s.d))
            => i = s.trap
TrapInv(p) ==
    st[p].call \in Renames /\ st[p].d # st[p].d2 /\ pc[p] \in {"lock", "look", "act"} =>
        rename_mutex = p /\ TrapOK(st[p])

\* Whether it acted, and what it will say.
DidInv(p) ==
    LET s == st[p] IN
    /\ s.did => pc[p] \in {"unlock", "opened", "done"} /\ s.brk = None
    /\ s.did => s.call \notin {"open", "trunc"}
    /\ s.brk # None => pc[p] \in {"unlock", "break"}
    /\ pc[p] = "unlock" /\ s.did => s.err = ""
    /\ pc[p] = "unlock" /\ ~s.did /\ s.call \notin Opens \union {"rename", "exchange"}
        => s.err # ""

StepInv(p) ==
    /\ CallInv(p) /\ NameInv(p) /\ LockInv(p) /\ WriteInv(p)
    /\ HoldInv(p) /\ ActInv(p) /\ TrapInv(p) /\ DidInv(p)

Inv == TypeInv /\ MountInv /\ TreeInv /\ \A p \in Procs : StepInv(p)

-----------------------------------------------------------------------------
(* The local variables of a call, as its steps change them *)

LEMMA StartType ==
    /\ Start \in Locals
    /\ Start.call = "open" /\ Start.d = Root /\ Start.d2 = Root /\ Start.n = Dots
    /\ Start.n2 = Dots /\ Start.brk = None /\ ~Start.did /\ Start.err = ""
<1>1. 0 \in Inodes /\ 0 \in 0 .. MAXSYMLINKS
  <2>1. N \in Nat \ {0} /\ MAXSYMLINKS \in Nat
    BY NameiAssumption
  <2> QED BY <2>1 DEF Inodes
<1>2. <<>> \in Seq(Inodes) /\ "open" \in AllCalls
  BY DEF AllCalls, Opens
<1>3. /\ Root \in Inodes /\ Dots \in Components /\ None \in InodeOrNone
      /\ "look" \in Places /\ "" \in Errors
  BY <1>1 DEF Root, Components, InodeOrNone, Places, Errors
<1>4. Start \in Locals
  BY <1>1, <1>2, <1>3 DEF Start, Locals
<1> QED BY <1>4 DEF Start

PutTodo(s, q, w) == [s EXCEPT !.todo = q, !.then = w]
LEMMA SetTodo ==
    ASSUME NEW s \in Locals, NEW q \in Seq(Inodes), NEW w \in Places
    PROVE  LET t == PutTodo(s, q, w) IN
           /\ t \in Locals /\ t.todo = q /\ t.then = w
           /\ t.call = s.call /\ t.d = s.d /\ t.n = s.n /\ t.d2 = s.d2 /\ t.n2 = s.n2
           /\ t.old = s.old /\ t.new = s.new /\ t.trap = s.trap /\ t.links = s.links
           /\ (t.reval <=> s.reval) /\ t.brk = s.brk /\ t.err = s.err
           /\ (t.did <=> s.did)
<1> DEFINE t == PutTodo(s, q, w)
<1>1. t \in Locals
  BY DEF Locals, PutTodo
<1>2. /\ t.todo = q /\ t.then = w
  BY DEF Locals, PutTodo
<1>3. /\ t.call = s.call /\ t.d = s.d /\ t.n = s.n /\ t.d2 = s.d2 /\ t.n2 = s.n2
      /\ t.old = s.old
  BY DEF Locals, PutTodo
<1>4. /\ t.new = s.new /\ t.trap = s.trap /\ t.links = s.links /\ (t.reval <=> s.reval)
      /\ t.brk = s.brk /\ t.err = s.err /\ (t.did <=> s.did)
  BY DEF Locals, PutTodo
<1> QED BY <1>1, <1>2, <1>3, <1>4

PutRest(s, q) == [s EXCEPT !.todo = q]
LEMMA SetRest ==
    ASSUME NEW s \in Locals, NEW q \in Seq(Inodes)
    PROVE  LET t == PutRest(s, q) IN
           /\ t \in Locals /\ t.todo = q
           /\ t.call = s.call /\ t.d = s.d /\ t.n = s.n /\ t.d2 = s.d2 /\ t.n2 = s.n2
           /\ t.old = s.old /\ t.new = s.new /\ t.trap = s.trap /\ t.then = s.then
           /\ t.links = s.links /\ (t.reval <=> s.reval) /\ t.brk = s.brk
           /\ t.err = s.err /\ (t.did <=> s.did)
BY DEF Locals, PutRest

PutErr(s, e) == [s EXCEPT !.err = e]
LEMMA SetErr ==
    ASSUME NEW s \in Locals, NEW e \in Errors
    PROVE  LET t == PutErr(s, e) IN
           /\ t \in Locals /\ t.err = e
           /\ t.call = s.call /\ t.d = s.d /\ t.n = s.n /\ t.d2 = s.d2 /\ t.n2 = s.n2
           /\ t.old = s.old /\ t.new = s.new /\ t.trap = s.trap /\ t.todo = s.todo
           /\ t.then = s.then /\ t.links = s.links /\ (t.reval <=> s.reval)
           /\ t.brk = s.brk /\ (t.did <=> s.did)
BY DEF Locals, PutErr

PutDid(s) == [s EXCEPT !.did = TRUE]
LEMMA SetDid ==
    ASSUME NEW s \in Locals
    PROVE  LET t == PutDid(s) IN
           /\ t \in Locals /\ t.did
           /\ t.call = s.call /\ t.d = s.d /\ t.n = s.n /\ t.d2 = s.d2 /\ t.n2 = s.n2
           /\ t.old = s.old /\ t.new = s.new /\ t.trap = s.trap /\ t.todo = s.todo
           /\ t.then = s.then /\ t.links = s.links /\ (t.reval <=> s.reval)
           /\ t.brk = s.brk /\ t.err = s.err
BY DEF Locals, PutDid

PutNew(s, x) == [s EXCEPT !.new = x]
LEMMA SetNew ==
    ASSUME NEW s \in Locals, NEW x \in InodeOrNone
    PROVE  LET t == PutNew(s, x) IN
           /\ t \in Locals /\ t.new = x
           /\ t.call = s.call /\ t.d = s.d /\ t.n = s.n /\ t.d2 = s.d2 /\ t.n2 = s.n2
           /\ t.old = s.old /\ t.trap = s.trap /\ t.todo = s.todo /\ t.then = s.then
           /\ t.links = s.links /\ (t.reval <=> s.reval) /\ t.brk = s.brk
           /\ t.err = s.err /\ (t.did <=> s.did)
BY DEF Locals, PutNew

PutOld(s, x) == [s EXCEPT !.old = x]
LEMMA SetOld ==
    ASSUME NEW s \in Locals, NEW x \in InodeOrNone
    PROVE  LET t == PutOld(s, x) IN
           /\ t \in Locals /\ t.old = x
           /\ t.call = s.call /\ t.d = s.d /\ t.n = s.n /\ t.d2 = s.d2 /\ t.n2 = s.n2
           /\ t.new = s.new /\ t.trap = s.trap /\ t.todo = s.todo /\ t.then = s.then
           /\ t.links = s.links /\ (t.reval <=> s.reval) /\ t.brk = s.brk
           /\ t.err = s.err /\ (t.did <=> s.did)
BY DEF Locals, PutOld

PutTrap(s, x) == [s EXCEPT !.trap = x]
LEMMA SetTrap ==
    ASSUME NEW s \in Locals, NEW x \in InodeOrNone
    PROVE  LET t == PutTrap(s, x) IN
           /\ t \in Locals /\ t.trap = x
           /\ t.call = s.call /\ t.d = s.d /\ t.n = s.n /\ t.d2 = s.d2 /\ t.n2 = s.n2
           /\ t.old = s.old /\ t.new = s.new /\ t.todo = s.todo /\ t.then = s.then
           /\ t.links = s.links /\ (t.reval <=> s.reval) /\ t.brk = s.brk
           /\ t.err = s.err /\ (t.did <=> s.did)
BY DEF Locals, PutTrap

PutBrk(s, x) == [s EXCEPT !.brk = x]
LEMMA SetBrk ==
    ASSUME NEW s \in Locals, NEW x \in InodeOrNone
    PROVE  LET t == PutBrk(s, x) IN
           /\ t \in Locals /\ t.brk = x
           /\ t.call = s.call /\ t.d = s.d /\ t.n = s.n /\ t.d2 = s.d2 /\ t.n2 = s.n2
           /\ t.old = s.old /\ t.new = s.new /\ t.trap = s.trap /\ t.todo = s.todo
           /\ t.then = s.then /\ t.links = s.links /\ (t.reval <=> s.reval)
           /\ t.err = s.err /\ (t.did <=> s.did)
BY DEF Locals, PutBrk

PutReval(s, b) == [s EXCEPT !.reval = b]
LEMMA SetReval ==
    ASSUME NEW s \in Locals, NEW b \in BOOLEAN
    PROVE  LET t == PutReval(s, b) IN
           /\ t \in Locals /\ (t.reval <=> b)
           /\ t.call = s.call /\ t.d = s.d /\ t.n = s.n /\ t.d2 = s.d2 /\ t.n2 = s.n2
           /\ t.old = s.old /\ t.new = s.new /\ t.trap = s.trap /\ t.todo = s.todo
           /\ t.then = s.then /\ t.links = s.links /\ t.brk = s.brk /\ t.err = s.err
           /\ (t.did <=> s.did)
BY DEF Locals, PutReval

PutParents(s, x, y) == [s EXCEPT !.d = x, !.d2 = y]
LEMMA SetParents ==
    ASSUME NEW s \in Locals, NEW x \in Inodes, NEW y \in Inodes
    PROVE  LET t == PutParents(s, x, y) IN
           /\ t \in Locals /\ t.d = x /\ t.d2 = y
           /\ t.call = s.call /\ t.n = s.n /\ t.n2 = s.n2 /\ t.old = s.old
           /\ t.new = s.new /\ t.trap = s.trap /\ t.todo = s.todo /\ t.then = s.then
           /\ t.links = s.links /\ (t.reval <=> s.reval) /\ t.brk = s.brk
           /\ t.err = s.err /\ (t.did <=> s.did)
<1> DEFINE t == PutParents(s, x, y)
<1>1. t \in Locals
  BY DEF Locals, PutParents
<1>2. /\ t.d = x /\ t.d2 = y
  BY DEF Locals, PutParents
<1>3. /\ t.call = s.call /\ t.n = s.n /\ t.n2 = s.n2 /\ t.old = s.old /\ t.new = s.new
      /\ t.trap = s.trap
  BY DEF Locals, PutParents
<1>4. /\ t.todo = s.todo /\ t.then = s.then /\ t.links = s.links
      /\ (t.reval <=> s.reval) /\ t.brk = s.brk /\ t.err = s.err /\ (t.did <=> s.did)
  BY DEF Locals, PutParents
<1> QED BY <1>1, <1>2, <1>3, <1>4

PutLink(s, x, y, z) == [s EXCEPT !.d = x, !.d2 = y, !.old = z]
LEMMA SetLink ==
    ASSUME NEW s \in Locals, NEW x \in Inodes, NEW y \in Inodes, NEW z \in InodeOrNone
    PROVE  LET t == PutLink(s, x, y, z) IN
           /\ t \in Locals /\ t.d = x /\ t.d2 = y /\ t.old = z
           /\ t.call = s.call /\ t.n = s.n /\ t.n2 = s.n2 /\ t.new = s.new
           /\ t.trap = s.trap /\ t.todo = s.todo /\ t.then = s.then /\ t.links = s.links
           /\ (t.reval <=> s.reval) /\ t.brk = s.brk /\ t.err = s.err
           /\ (t.did <=> s.did)
<1> DEFINE t == PutLink(s, x, y, z)
<1>1. t \in Locals
  BY DEF Locals, PutLink
<1>2. /\ t.d = x /\ t.d2 = y /\ t.old = z
  BY DEF Locals, PutLink
<1>3. /\ t.call = s.call /\ t.n = s.n /\ t.n2 = s.n2 /\ t.new = s.new /\ t.trap = s.trap
      /\ t.todo = s.todo
  BY DEF Locals, PutLink
<1>4. /\ t.then = s.then /\ t.links = s.links /\ (t.reval <=> s.reval) /\ t.brk = s.brk
      /\ t.err = s.err /\ (t.did <=> s.did)
  BY DEF Locals, PutLink
<1> QED BY <1>1, <1>2, <1>3, <1>4

PutBoth(s, x, y) == [s EXCEPT !.old = x, !.new = y]
LEMMA SetBoth ==
    ASSUME NEW s \in Locals, NEW x \in InodeOrNone, NEW y \in InodeOrNone
    PROVE  LET t == PutBoth(s, x, y) IN
           /\ t \in Locals /\ t.old = x /\ t.new = y
           /\ t.call = s.call /\ t.d = s.d /\ t.n = s.n /\ t.d2 = s.d2 /\ t.n2 = s.n2
           /\ t.trap = s.trap /\ t.todo = s.todo /\ t.then = s.then /\ t.links = s.links
           /\ (t.reval <=> s.reval) /\ t.brk = s.brk /\ t.err = s.err
           /\ (t.did <=> s.did)
<1> DEFINE t == PutBoth(s, x, y)
<1>1. t \in Locals
  BY DEF Locals, PutBoth
<1>2. /\ t.old = x /\ t.new = y
  BY DEF Locals, PutBoth
<1>3. /\ t.call = s.call /\ t.d = s.d /\ t.n = s.n /\ t.d2 = s.d2 /\ t.n2 = s.n2
      /\ t.trap = s.trap
  BY DEF Locals, PutBoth
<1>4. /\ t.todo = s.todo /\ t.then = s.then /\ t.links = s.links
      /\ (t.reval <=> s.reval) /\ t.brk = s.brk /\ t.err = s.err /\ (t.did <=> s.did)
  BY DEF Locals, PutBoth
<1> QED BY <1>1, <1>2, <1>3, <1>4

PutCreated(s, x) == [s EXCEPT !.new = x, !.did = TRUE]
LEMMA SetCreated ==
    ASSUME NEW s \in Locals, NEW x \in InodeOrNone
    PROVE  LET t == PutCreated(s, x) IN
           /\ t \in Locals /\ t.new = x /\ t.did
           /\ t.call = s.call /\ t.d = s.d /\ t.n = s.n /\ t.d2 = s.d2 /\ t.n2 = s.n2
           /\ t.old = s.old /\ t.trap = s.trap /\ t.todo = s.todo /\ t.then = s.then
           /\ t.links = s.links /\ (t.reval <=> s.reval) /\ t.brk = s.brk
           /\ t.err = s.err
<1> DEFINE t == PutCreated(s, x)
<1>1. t \in Locals
  BY DEF Locals, PutCreated
<1>2. /\ t.new = x /\ t.did
  BY DEF Locals, PutCreated
<1>3. /\ t.call = s.call /\ t.d = s.d /\ t.n = s.n /\ t.d2 = s.d2 /\ t.n2 = s.n2
      /\ t.old = s.old
  BY DEF Locals, PutCreated
<1>4. /\ t.trap = s.trap /\ t.todo = s.todo /\ t.then = s.then /\ t.links = s.links
      /\ (t.reval <=> s.reval) /\ t.brk = s.brk /\ t.err = s.err
  BY DEF Locals, PutCreated
<1> QED BY <1>1, <1>2, <1>3, <1>4

PutAgain(s, c, x, y) == [s EXCEPT !.call = c, !.n = x, !.n2 = y, !.reval = TRUE]
LEMMA SetAgain ==
    ASSUME NEW s \in Locals, NEW c \in AllCalls, NEW x \in Components,
           NEW y \in Components
    PROVE  LET t == PutAgain(s, c, x, y) IN
           /\ t \in Locals /\ t.call = c /\ t.n = x /\ t.n2 = y /\ t.reval
           /\ t.d = s.d /\ t.d2 = s.d2 /\ t.old = s.old /\ t.new = s.new
           /\ t.trap = s.trap /\ t.todo = s.todo /\ t.then = s.then /\ t.links = s.links
           /\ t.brk = s.brk /\ t.err = s.err /\ (t.did <=> s.did)
<1> DEFINE t == PutAgain(s, c, x, y)
<1>1. t \in Locals
  BY DEF Locals, PutAgain
<1>2. /\ t.call = c /\ t.n = x /\ t.n2 = y /\ t.reval
  BY DEF Locals, PutAgain
<1>3. /\ t.d = s.d /\ t.d2 = s.d2 /\ t.old = s.old /\ t.new = s.new /\ t.trap = s.trap
  BY DEF Locals, PutAgain
<1>4. /\ t.todo = s.todo /\ t.then = s.then /\ t.links = s.links /\ t.brk = s.brk
      /\ t.err = s.err /\ (t.did <=> s.did)
  BY DEF Locals, PutAgain
<1> QED BY <1>1, <1>2, <1>3, <1>4

PutEnd(s, c, b, e) == [s EXCEPT !.call = c, !.did = b, !.err = e]
LEMMA SetEnd ==
    ASSUME NEW s \in Locals, NEW c \in AllCalls, NEW b \in BOOLEAN, NEW e \in Errors
    PROVE  LET t == PutEnd(s, c, b, e) IN
           /\ t \in Locals /\ t.call = c /\ (t.did <=> b) /\ t.err = e
           /\ t.d = s.d /\ t.n = s.n /\ t.d2 = s.d2 /\ t.n2 = s.n2 /\ t.old = s.old
           /\ t.new = s.new /\ t.trap = s.trap /\ t.todo = s.todo /\ t.then = s.then
           /\ t.links = s.links /\ (t.reval <=> s.reval) /\ t.brk = s.brk
<1> DEFINE t == PutEnd(s, c, b, e)
<1>1. t \in Locals
  BY DEF Locals, PutEnd
<1>2. /\ t.call = c /\ (t.did <=> b) /\ t.err = e
  BY DEF Locals, PutEnd
<1>3. /\ t.d = s.d /\ t.n = s.n /\ t.d2 = s.d2 /\ t.n2 = s.n2 /\ t.old = s.old
      /\ t.new = s.new
  BY DEF Locals, PutEnd
<1>4. /\ t.trap = s.trap /\ t.todo = s.todo /\ t.then = s.then /\ t.links = s.links
      /\ (t.reval <=> s.reval) /\ t.brk = s.brk
  BY DEF Locals, PutEnd
<1> QED BY <1>1, <1>2, <1>3, <1>4

PutCall(s, c, x, y) == [s EXCEPT !.call = c, !.n = x, !.n2 = y]
LEMMA SetCall ==
    ASSUME NEW s \in Locals, NEW c \in AllCalls, NEW x \in Components,
           NEW y \in Components
    PROVE  LET t == PutCall(s, c, x, y) IN
           /\ t \in Locals /\ t.call = c /\ t.n = x /\ t.n2 = y
           /\ t.d = s.d /\ t.d2 = s.d2 /\ t.old = s.old /\ t.new = s.new
           /\ t.trap = s.trap /\ t.todo = s.todo /\ t.then = s.then /\ t.links = s.links
           /\ (t.reval <=> s.reval) /\ t.brk = s.brk /\ t.err = s.err
           /\ (t.did <=> s.did)
<1> DEFINE t == PutCall(s, c, x, y)
<1>1. t \in Locals
  BY DEF Locals, PutCall
<1>2. /\ t.call = c /\ t.n = x /\ t.n2 = y
  BY DEF Locals, PutCall
<1>3. /\ t.d = s.d /\ t.d2 = s.d2 /\ t.old = s.old /\ t.new = s.new /\ t.trap = s.trap
      /\ t.todo = s.todo
  BY DEF Locals, PutCall
<1>4. /\ t.then = s.then /\ t.links = s.links /\ (t.reval <=> s.reval) /\ t.brk = s.brk
      /\ t.err = s.err /\ (t.did <=> s.did)
  BY DEF Locals, PutCall
<1> QED BY <1>1, <1>2, <1>3, <1>4

PutBreak(s, e, x, y, z, w) == [s EXCEPT !.err = e, !.brk = x, !.old = y, !.new = z, !.trap = w]
LEMMA SetBreak ==
    ASSUME NEW s \in Locals, NEW e \in Errors, NEW x \in InodeOrNone,
           NEW y \in InodeOrNone, NEW z \in InodeOrNone, NEW w \in InodeOrNone
    PROVE  LET t == PutBreak(s, e, x, y, z, w) IN
           /\ t \in Locals /\ t.err = e /\ t.brk = x /\ t.old = y /\ t.new = z
           /\ t.trap = w
           /\ t.call = s.call /\ t.d = s.d /\ t.n = s.n /\ t.d2 = s.d2 /\ t.n2 = s.n2
           /\ t.todo = s.todo /\ t.then = s.then /\ t.links = s.links
           /\ (t.reval <=> s.reval) /\ (t.did <=> s.did)
<1> DEFINE t == PutBreak(s, e, x, y, z, w)
<1>1. t \in Locals
  BY DEF Locals, PutBreak
<1>2. /\ t.err = e /\ t.brk = x /\ t.old = y /\ t.new = z /\ t.trap = w
  BY DEF Locals, PutBreak
<1>3. /\ t.call = s.call /\ t.d = s.d /\ t.n = s.n /\ t.d2 = s.d2 /\ t.n2 = s.n2
  BY DEF Locals, PutBreak
<1>4. /\ t.todo = s.todo /\ t.then = s.then /\ t.links = s.links
      /\ (t.reval <=> s.reval) /\ (t.did <=> s.did)
  BY DEF Locals, PutBreak
<1> QED BY <1>1, <1>2, <1>3, <1>4

PutTarget(s, x, y, z, k) == [s EXCEPT !.d = x, !.n = y, !.new = z, !.links = k]
LEMMA SetTarget ==
    ASSUME NEW s \in Locals, NEW x \in Inodes, NEW y \in Components,
           NEW z \in InodeOrNone, NEW k \in 0 .. MAXSYMLINKS
    PROVE  LET t == PutTarget(s, x, y, z, k) IN
           /\ t \in Locals /\ t.d = x /\ t.n = y /\ t.new = z /\ t.links = k
           /\ t.call = s.call /\ t.d2 = s.d2 /\ t.n2 = s.n2 /\ t.old = s.old
           /\ t.trap = s.trap /\ t.todo = s.todo /\ t.then = s.then
           /\ (t.reval <=> s.reval) /\ t.brk = s.brk /\ t.err = s.err
           /\ (t.did <=> s.did)
<1> DEFINE t == PutTarget(s, x, y, z, k)
<1>1. t \in Locals
  BY DEF Locals, PutTarget
<1>2. /\ t.d = x /\ t.n = y /\ t.new = z /\ t.links = k
  BY DEF Locals, PutTarget
<1>3. /\ t.call = s.call /\ t.d2 = s.d2 /\ t.n2 = s.n2 /\ t.old = s.old
      /\ t.trap = s.trap
  BY DEF Locals, PutTarget
<1>4. /\ t.todo = s.todo /\ t.then = s.then /\ (t.reval <=> s.reval) /\ t.brk = s.brk
      /\ t.err = s.err /\ (t.did <=> s.did)
  BY DEF Locals, PutTarget
<1> QED BY <1>1, <1>2, <1>3, <1>4

-----------------------------------------------------------------------------
(* The way up *)

\* Above for any assignment u of parents.
UpSet(u, i) ==
    {a \in Inodes : \A S \in SUBSET Inodes :
        i \in S /\ (\A x \in S : u[x] \in S) => a \in S}

LEMMA UpSetLeast ==
    ASSUME NEW u, NEW i \in Inodes, NEW S \in SUBSET Inodes, i \in S, \A x \in S : u[x] \in S
    PROVE  UpSet(u, i) \subseteq S
BY DEF UpSet

LEMMA UpSetClosed ==
    ASSUME NEW u \in [Inodes -> Inodes], NEW i \in Inodes
    PROVE  /\ i \in UpSet(u, i) /\ UpSet(u, i) \subseteq Inodes
           /\ \A x \in UpSet(u, i) : u[x] \in UpSet(u, i)
BY DEF UpSet

LEMMA UpSetTrans ==
    ASSUME NEW u \in [Inodes -> Inodes], NEW i \in Inodes, NEW j \in UpSet(u, i)
    PROVE  j \in Inodes /\ UpSet(u, j) \subseteq UpSet(u, i)
<1>1. j \in Inodes /\ UpSet(u, i) \in SUBSET Inodes
  BY UpSetClosed
<1> QED BY <1>1, UpSetClosed, UpSetLeast

\* What is above an inode is the inode or above its parent.
LEMMA UpSetSplit ==
    ASSUME NEW u \in [Inodes -> Inodes], NEW i \in Inodes, NEW a \in UpSet(u, i), a # i
    PROVE  a \in UpSet(u, u[i])
<1> DEFINE S == {i} \union UpSet(u, u[i])
<1>1. u[i] \in Inodes /\ S \in SUBSET Inodes /\ i \in S
  BY UpSetClosed
<1>2. \A x \in S : u[x] \in S
  BY <1>1, UpSetClosed
<1> HIDE DEF S
<1>3. UpSet(u, i) \subseteq S
  BY <1>1, <1>2, UpSetLeast
<1> QED BY <1>3 DEF S

LEMMA UpSetRoot ==
    ASSUME NEW u \in [Inodes -> Inodes], NEW i \in Inodes, u[i] = i
    PROVE  UpSet(u, i) = {i}
<1> DEFINE S == {i}
<1>1. S \in SUBSET Inodes /\ i \in S /\ \A x \in S : u[x] \in S
  OBVIOUS
<1> HIDE DEF S
<1>2. UpSet(u, i) \subseteq S
  BY <1>1, UpSetLeast
<1>3. i \in UpSet(u, i)
  BY UpSetClosed
<1> QED BY <1>2, <1>3 DEF S

LEMMA UpSetParent ==
    ASSUME NEW u \in [Inodes -> Inodes], NEW i \in Inodes
    PROVE  u[i] \in Inodes /\ u[i] \in UpSet(u, i) /\ UpSet(u, u[i]) \subseteq UpSet(u, i)
BY UpSetClosed, UpSetTrans

\* The ways up that end at the root have no cycle.
LEMMA NoCycle ==
    ASSUME NEW u \in [Inodes -> Inodes], NEW r \in Inodes, u[r] = r,
           NEW a \in Inodes, NEW b \in Inodes,
           r \in UpSet(u, a), b \in UpSet(u, a), a \in UpSet(u, b), a # b
    PROVE  a = r
<1> DEFINE C == {y \in UpSet(u, a) : a \in UpSet(u, y)}
<1>1. C \in SUBSET Inodes /\ a \in C
  BY UpSetClosed
<1>2. a \in UpSet(u, u[a])
  <2>1. b \in UpSet(u, u[a]) /\ u[a] \in Inodes
    BY UpSetSplit
  <2> QED BY <2>1, UpSetTrans
<1>3. ASSUME NEW y \in C PROVE u[y] \in C
  <2>1. y \in Inodes /\ u[y] \in UpSet(u, a)
    BY UpSetClosed
  <2>2. CASE y = a
    BY <1>2, <2>1, <2>2
  <2>3. CASE y # a
    BY <2>1, <2>3, UpSetSplit
  <2> QED BY <2>2, <2>3
<1>4. r \in C
  BY <1>1, <1>3, UpSetLeast
<1> QED BY <1>4, UpSetRoot

\* Of two inodes on a way up, one is above the other.
LEMMA OneWay ==
    ASSUME NEW u \in [Inodes -> Inodes], NEW i \in Inodes,
           NEW a \in UpSet(u, i), NEW b \in UpSet(u, i)
    PROVE  a \in UpSet(u, b) \/ b \in UpSet(u, a)
<1> DEFINE S == {z \in Inodes : a \in UpSet(u, z) \/ z \in UpSet(u, a)}
<1>1. S \in SUBSET Inodes /\ i \in S /\ a \in Inodes /\ b \in Inodes
  BY UpSetClosed
<1>2. ASSUME NEW z \in S PROVE u[z] \in S
  <2>1. z \in Inodes /\ u[z] \in Inodes
    OBVIOUS
  <2>2. CASE z \in UpSet(u, a)
    BY <1>1, <2>1, <2>2, UpSetClosed
  <2>3. CASE z \notin UpSet(u, a)
    <3>1. a \in UpSet(u, z) /\ a # z
      BY <1>1, <2>3, UpSetClosed
    <3> QED BY <2>1, <3>1, UpSetSplit
  <2> QED BY <2>2, <2>3
<1>3. b \in S
  BY <1>1, <1>2, UpSetLeast
<1> QED BY <1>3

\* An inode is not above its parent.
LEMMA NotAboveParent ==
    ASSUME NEW u \in [Inodes -> Inodes], NEW r \in Inodes, u[r] = r,
           NEW a \in Inodes \ {r}, r \in UpSet(u, a)
    PROVE  a \notin UpSet(u, u[a]) /\ u[a] # a
<1>1. u[a] # a
  BY UpSetRoot
<1>2. ASSUME a \in UpSet(u, u[a]) PROVE FALSE
  <2>1. u[a] \in Inodes /\ u[a] \in UpSet(u, a)
    BY UpSetParent
  <2> QED BY <1>1, <1>2, <2>1, NoCycle
<1> QED BY <1>1, <1>2

\* Only one inode below a directory is on a way up: the one d_ancestor returns.
LEMMA OneBelow ==
    ASSUME NEW u \in [Inodes -> Inodes], NEW r \in Inodes, u[r] = r, NEW i \in Inodes,
           NEW a \in UpSet(u, i) \ {r}, NEW b \in UpSet(u, i) \ {r}, u[a] = u[b],
           r \in UpSet(u, a), r \in UpSet(u, b)
    PROVE  a = b
<1>1. a \in Inodes /\ b \in Inodes
  BY UpSetClosed
<1>2. ASSUME NEW x \in Inodes \ {r}, NEW y \in Inodes \ {r}, u[x] = u[y], x # y,
             r \in UpSet(u, x), r \in UpSet(u, y), x \in UpSet(u, y)
      PROVE FALSE
  <2>1. x \in UpSet(u, u[y])
    BY <1>2, UpSetSplit
  <2> QED BY <1>2, <2>1, NotAboveParent
<1>3. a \in UpSet(u, b) \/ b \in UpSet(u, a)
  BY OneWay
<1> QED BY <1>1, <1>2, <1>3

\* Parents that agree on a set closed under them have the same ways up in it.
LEMMA UpSetSame ==
    ASSUME NEW u \in [Inodes -> Inodes], NEW v \in [Inodes -> Inodes], NEW D \in SUBSET Inodes,
           \A x \in D : u[x] \in D /\ v[x] = u[x], NEW i \in D
    PROVE  UpSet(v, i) = UpSet(u, i) /\ UpSet(u, i) \subseteq D
<1>1. ASSUME NEW w \in [Inodes -> Inodes], NEW z \in [Inodes -> Inodes],
             \A x \in D : w[x] \in D /\ z[x] = w[x]
      PROVE  UpSet(w, i) \subseteq UpSet(z, i)
  <2> DEFINE S == UpSet(z, i) \intersect D
  <2>1. S \in SUBSET Inodes /\ i \in S
    BY UpSetClosed
  <2>2. \A x \in S : w[x] \in S
    BY <1>1, UpSetClosed
  <2>3. UpSet(w, i) \subseteq S
    BY <2>1, <2>2, UpSetLeast
  <2> QED BY <2>3
<1>2. UpSet(u, i) \subseteq UpSet(v, i) /\ UpSet(v, i) \subseteq UpSet(u, i)
  BY <1>1
<1>3. UpSet(u, i) \subseteq D
  BY UpSetLeast
<1> QED BY <1>2, <1>3

-----------------------------------------------------------------------------
(* What a process relies on *)

Rely(p) ==
    /\ pc'[p] = pc[p] /\ st'[p] = st[p]
    /\ \A i \in Inodes : (owner'[i] = p) <=> (owner[i] = p)
    /\ \A i \in Inodes : (p \in readers'[i]) <=> (p \in readers[i])
    /\ (rename_mutex' = p) <=> (rename_mutex = p)
    /\ flatfs_spinlock' = p => flatfs_spinlock = p
    /\ p \in writers => p \in writers'
    /\ \A i \in Inodes : kind[i] # "free" => kind'[i] = kind[i]
    /\ \A i \in Inodes : owner[i] = p => child'[i] = child[i] /\ (i \in dead' => i \in dead)
    /\ rename_mutex = p => \A i \in Directories : up'[i] = up[i]

LEMMA AboveIsUpSet ==
    ASSUME NEW i
    PROVE  Above(i) = UpSet(up, i) /\ Above(i)' = UpSet(up', i)
BY DEF Above, UpSet

\* What has a name is not free.
LEMMA NamedInUse ==
    ASSUME TreeType, Abstract!TreeOK, NEW d \in Inodes, NEW n \in Names, child[d][n] # None
    PROVE  /\ child[d][n] \in Inodes /\ kind[child[d][n]] # "free"
           /\ d \in Directories
           /\ child[d][n] # Root /\ child[d][n] \notin dead
BY DEF TreeType, Abstract!TreeOK, Abstract!Live, InodeOrNone, Directories

LEMMA RelyCall ==
    ASSUME NEW p \in Procs, CallInv(p), DidInv(p), Rely(p)
    PROVE  CallInv(p)' /\ DidInv(p)'
<1>1. pc'[p] = pc[p] /\ st'[p] = st[p]
  BY DEF Rely
<1>2. Found(p)' = Found(p) /\ Creating(p)' = Creating(p)
  BY <1>1 DEF Found, Creating
<1>3. CallInv(p)'
  BY <1>1, <1>2 DEF CallInv
<1>4. DidInv(p)'
  BY <1>1 DEF DidInv
<1> QED BY <1>3, <1>4

LEMMA RelyName ==
    ASSUME TypeInv, NEW p \in Procs, NameInv(p), Rely(p)
    PROVE  NameInv(p)'
<1>1. pc'[p] = pc[p] /\ st'[p] = st[p]
  BY DEF Rely
<1>2. \A i \in Inodes : kind[i] # "free" => kind'[i] = kind[i]
  BY DEF Rely
<1>3. \A i \in Directories : i \in Directories'
  BY <1>2 DEF Directories
<1> QED BY <1>1, <1>2, <1>3 DEF NameInv

LEMMA RelyLocks ==
    ASSUME NEW p \in Procs, LockInv(p), WriteInv(p), Rely(p)
    PROVE  LockInv(p)' /\ WriteInv(p)'
<1>1. pc'[p] = pc[p] /\ st'[p] = st[p]
  BY DEF Rely
<1>2. Found(p)' = Found(p) /\ Creating(p)' = Creating(p) /\ Inside(p)' = Inside(p)
  BY <1>1 DEF Found, Creating, Inside
<1>3. LockInv(p)'
  BY <1>1, <1>2 DEF LockInv, Rely
<1>4. WriteInv(p)'
  BY <1>1, <1>2 DEF WriteInv, Rely
<1> QED BY <1>3, <1>4

LEMMA FoundFields ==
    ASSUME TypeInv, Abstract!TreeOK, NEW p \in Procs, CallInv(p), NameInv(p), ActInv(p),
           Found(p), st[p].call # "tmpfile"
    PROVE  /\ st[p].d \in Inodes /\ st[p].d2 \in Inodes
           /\ st[p].n \in Names /\ (st[p].call \in Renames => st[p].n2 \in Names)
           /\ st[p].call \in Removes \union Renames \union {"link"} =>
                st[p].old \in Inodes /\ kind[st[p].old] # "free"
           /\ st[p].call \in Renames /\ st[p].new # None =>
                st[p].new \in Inodes /\ kind[st[p].new] # "free"
<1> DEFINE s == st[p]
<1>1. s \in Locals
  BY DEF TypeInv, ProcType
<1>2. s.d \in Inodes /\ s.d2 \in Inodes
  BY <1>1 DEF Locals
<1>3. s.n \in Names /\ (s.call \in Renames => s.n2 \in Names)
  BY DEF NameInv, CallInv, Found
<1>4. CASE s.call = "link"
  <2>1. s.old \in Inodes /\ kind[s.old] # "free"
    BY <1>4 DEF NameInv, Found
  <2> QED BY <1>2, <1>3, <1>4, <2>1 DEF Renames
<1>5. CASE s.call \in Removes
  <2>1. s.old # None /\ child[s.d][s.n] = s.old
    BY <1>5 DEF ActInv, FoundOK
  <2>2. s.old \in Inodes /\ kind[s.old] # "free"
    BY <1>2, <1>3, <2>1, NamedInUse DEF TypeInv
  <2> QED BY <1>2, <1>3, <1>5, <2>2 DEF Renames, Removes
<1>6. CASE s.call \in Renames
  <2>1. s.old # None /\ child[s.d][s.n] = s.old /\ child[s.d2][s.n2] = s.new
    BY <1>6 DEF ActInv, FoundOK
  <2>2. s.old \in Inodes /\ kind[s.old] # "free"
    BY <1>2, <1>3, <2>1, NamedInUse DEF TypeInv
  <2>3. s.new # None => s.new \in Inodes /\ kind[s.new] # "free"
    BY <1>2, <1>3, <1>6, <2>1, NamedInUse DEF TypeInv
  <2> QED BY <1>2, <1>3, <2>2, <2>3
<1> QED BY <1>2, <1>3, <1>4, <1>5, <1>6

LEMMA RelyHold ==
    ASSUME TypeInv, Abstract!TreeOK, NEW p \in Procs, CallInv(p), NameInv(p), HoldInv(p),
           ActInv(p), Rely(p)
    PROVE  HoldInv(p)' /\ ActInv(p)'
<1> DEFINE s == st[p]
<1>1. pc'[p] = pc[p] /\ st'[p] = st[p]
  BY DEF Rely
<1>2. Found(p)' = Found(p) /\ Creating(p)' = Creating(p)
  BY <1>1 DEF Found, Creating
<1>3. \A i : i = None \/ (i \in Inodes /\ kind[i] # "free") => IsDir(i)' = IsDir(i)
  BY DEF IsDir, Rely
<1>4. \A i \in Inodes : (owner'[i] = p) <=> (owner[i] = p)
  BY DEF Rely
<1>5. s \in Locals
  BY DEF TypeInv, ProcType
<1>6. s.d \in Inodes /\ s.d2 \in Inodes
  BY <1>5 DEF Locals
<1>7. Found(p) /\ s.call # "tmpfile" =>
        /\ s.call \in Removes \union Renames \union {"link"} => IsDir(s.old)' = IsDir(s.old)
        /\ s.call \in Renames => IsDir(s.new)' = IsDir(s.new)
  BY <1>1, <1>3, FoundFields DEF IsDir
<1>8. HoldInv(p)'
  <2>1. Found(p) /\ s.call # "tmpfile" => Victims(s)' = Victims(s)
    BY <1>1, <1>7 DEF Victims, Removes, Renames
  <2>2. Parents(s)' = Parents(s) /\ Parents(s) \subseteq Inodes
    BY <1>1, <1>6 DEF Parents
  <2>3. \A i : InTodo(i, s)' = InTodo(i, s)
    BY <1>1 DEF InTodo
  <2>4. Found(p) /\ s.call # "tmpfile" => Victims(s) \subseteq Inodes
    BY FoundFields, NameiAssumption DEF Victims, IsDir, Removes, Renames
  <2>5. pc[p] = "act" => Found(p)
    BY DEF Found
  <2> QED BY <1>1, <1>2, <1>4, <2>1, <2>2, <2>3, <2>4, <2>5 DEF HoldInv
<1>9. ActInv(p)'
  <2>1. \A i \in Inodes : owner[i] = p => child'[i] = child[i] /\ (i \in dead' => i \in dead)
    BY DEF Rely
  <2>2. ASSUME Found(p) \/ Creating(p), s.call # "tmpfile"
        PROVE  \A i \in Parents(s) : owner[i] = p
    BY <2>2 DEF HoldInv, CallInv, Opens
  <2>3. CASE Creating(p)
    <3>1. s.call \in {"creat", "excl"} /\ ~Found(p) /\ owner[s.d] = p
      BY <2>2, <2>3 DEF CallInv, Creating, Found, Parents, Renames
    <3> QED BY <1>1, <1>2, <1>6, <2>1, <2>3, <3>1 DEF ActInv, FreeName
  <2>4. ASSUME Found(p), s.call \in Creates \union {"link"} PROVE FoundOK(s)'
    <3>1. s.call \notin Removes /\ s.call \notin Renames /\ owner[s.d] = p /\ FoundOK(s)
      BY <2>2, <2>4 DEF Creates, Removes, Renames, Parents, ActInv
    <3> QED BY <1>1, <1>6, <1>7, <2>1, <2>4, <3>1 DEF FoundOK, FreeName
  <2>5. ASSUME Found(p), s.call \in Removes PROVE FoundOK(s)'
    <3>1. /\ s.call \notin Creates \union {"link"} /\ s.call \notin Renames
          /\ owner[s.d] = p /\ FoundOK(s)
      BY <2>2, <2>5 DEF Creates, Removes, Renames, Parents, ActInv
    <3> QED BY <1>1, <1>6, <1>7, <2>1, <2>5, <3>1 DEF FoundOK, Removes
  <2>6. ASSUME Found(p), s.call \in Renames PROVE FoundOK(s)'
    <3>1. /\ s.call \notin Creates \union {"link"} /\ s.call \notin Removes
          /\ owner[s.d] = p /\ owner[s.d2] = p /\ FoundOK(s)
      BY <2>2, <2>6 DEF Creates, Removes, Renames, Parents, ActInv
    <3> QED BY <1>1, <1>6, <1>7, <2>1, <2>6, <3>1 DEF FoundOK, Renames
  <2>7. ASSUME Found(p), s.call \notin Creates \union {"link"} \union Removes \union Renames
        PROVE  FoundOK(s)'
    BY <1>1, <2>7 DEF FoundOK
  <2>8. Found(p) => ~Creating(p)
    BY DEF Found, Creating
  <2> QED BY <1>1, <1>2, <2>3, <2>4, <2>5, <2>6, <2>7, <2>8 DEF ActInv
<1> QED BY <1>8, <1>9

\* While a process holds s_vfs_rename_mutex no directory moves, so the trap stays right.
LEMMA RelyTrap ==
    ASSUME TypeInv, TypeInv', UpInv, NEW p \in Procs, NameInv(p), TrapInv(p), Rely(p)
    PROVE  TrapInv(p)'
<1> DEFINE s == st[p]
<1>1. pc'[p] = pc[p] /\ st'[p] = st[p]
  BY DEF Rely
<1> SUFFICES ASSUME s.call \in Renames, s.d # s.d2, pc[p] \in {"lock", "look", "act"}
             PROVE  TrapInv(p)'
  BY <1>1 DEF TrapInv
<1>2. rename_mutex = p /\ rename_mutex' = p /\ \A i \in Directories : up'[i] = up[i]
  BY DEF TrapInv, Rely
<1>3. up \in [Inodes -> Inodes] /\ up' \in [Inodes -> Inodes] /\ Directories \in SUBSET Inodes
  BY DEF TypeInv, TreeType, Directories
<1>4. \A i \in Directories : up[i] \in Directories /\ up'[i] = up[i]
  BY <1>2 DEF UpInv
<1>5. s.d \in Directories /\ s.d2 \in Directories
  BY DEF NameInv
<1>6. \A i \in Directories : Above(i)' = Above(i) /\ Above(i) \subseteq Directories
  BY <1>3, <1>4, UpSetSame, AboveIsUpSet
<1>7. \A i \in Directories' \ {Root} :
        (up'[i] = s.d /\ i \in Above(s.d2)) \/ (up'[i] = s.d2 /\ i \in Above(s.d)) => i = s.trap
  BY <1>2, <1>5, <1>6 DEF TrapInv, TrapOK
<1>8. Above(s.d)' = Above(s.d) /\ Above(s.d2)' = Above(s.d2)
  BY <1>1, <1>5, <1>6
<1> QED BY <1>1, <1>2, <1>7, <1>8 DEF TrapInv, TrapOK

LEMMA RelyKeeps ==
    ASSUME TypeInv, TypeInv', TreeInv, NEW p \in Procs, StepInv(p), Rely(p)
    PROVE  StepInv(p)'
BY RelyCall, RelyName, RelyLocks, RelyHold, RelyTrap DEF StepInv, TreeInv

-----------------------------------------------------------------------------
(* What the steps have in common *)

\* The answer of a call, and how a step that leaves the tree alone may change it.
Out(p) ==
    IF pc[p] = "done" THEN IF st[p].err = "" THEN "ok" ELSE "fail"
    ELSE IF st[p].did THEN "did" ELSE "busy"
Answers(p) ==
    /\ st'[p].call = st[p].call
    /\ \/ Out(p)' = Out(p)
       \/ Out(p) = "busy" /\ Out(p)' = "fail"
       \/ Out(p) = "did" /\ Out(p)' = "ok"
       \/ /\ Out(p) = "busy" /\ Out(p)' = "ok"
          /\ st[p].call \in {"open", "trunc", "creat", "rename", "exchange"}
       \/ /\ Out(p) = "did" /\ Out(p)' = "fail"
          /\ st[p].call \in {"creat", "excl", "tmpfile"}

Others(p) == \A q \in Procs \ {p} : pc'[q] = pc[q] /\ st'[q] = st[q]

LEMMA Moved ==
    ASSUME ProcType, NEW p \in Procs, NEW w \in Pcs, NEW t \in Locals,
           pc' = [pc EXCEPT ![p] = w], st' = [st EXCEPT ![p] = t]
    PROVE  ProcType' /\ pc'[p] = w /\ st'[p] = t /\ Others(p)
BY DEF ProcType, Others

LEMMA TreeKept ==
    ASSUME UNCHANGED tree
    PROVE  /\ TreeType => TreeType'
           /\ TreeInv => TreeInv'
           /\ Directories' = Directories
<1>1. /\ kind' = kind /\ child' = child /\ up' = up /\ body' = body /\ data' = data
      /\ dead' = dead /\ linkable' = linkable
  BY DEF tree
<1>2. TreeType => TreeType'
  BY <1>1 DEF TreeType
<1>3. Abstract!TreeOK => Abstract!TreeOK'
  BY <1>1 DEF Abstract!TreeOK, Abstract!Live
<1>4. UpInv => UpInv'
  BY <1>1 DEF UpInv, Directories, Above
<1>5. Directories' = Directories
  BY <1>1 DEF Directories
<1> QED BY <1>1, <1>2, <1>3, <1>4, <1>5 DEF TreeInv

\* The locks of the others, and their write access, are left alone.
LocksKept(p) ==
    \A q \in Procs \ {p} :
        /\ \A i \in Inodes : (owner'[i] = q) <=> (owner[i] = q)
        /\ \A i \in Inodes : (q \in readers'[i]) <=> (q \in readers[i])
        /\ (rename_mutex' = q) <=> (rename_mutex = q)
        /\ flatfs_spinlock' = q => flatfs_spinlock = q
        /\ q \in writers => q \in writers'

LEMMA QuietRely ==
    ASSUME UNCHANGED tree, NEW p \in Procs, Others(p), LocksKept(p)
    PROVE  \A q \in Procs \ {p} : Rely(q)
BY DEF tree, Others, LocksKept, Rely

\* A step that only changes where a process stands.
LEMMA Quiet ==
    ASSUME Inv, UNCHANGED <<tree, locks, env>>, NEW p \in Procs, Others(p), ProcType'
    PROVE  TypeInv' /\ MountInv' /\ TreeInv' /\ \A q \in Procs \ {p} : Rely(q)
<1>1. /\ UNCHANGED tree /\ owner' = owner /\ readers' = readers
      /\ rename_mutex' = rename_mutex /\ flatfs_spinlock' = flatfs_spinlock
      /\ writers' = writers /\ mount' = mount /\ admin' = admin /\ deleg' = deleg
  BY DEF locks, env, around
<1>2. TypeInv'
  BY <1>1, TreeKept DEF Inv, TypeInv, LockType, EnvType
<1>3. MountInv'
  BY <1>1 DEF Inv, MountInv
<1>4. TreeInv'
  BY <1>1, TreeKept DEF Inv
<1>5. LocksKept(p)
  BY <1>1 DEF LocksKept
<1> QED BY <1>1, <1>2, <1>3, <1>4, <1>5, QuietRely

\* Leave: on the way out with what was found and whether the call acted.
CanLeave(p, s, e) ==
    /\ pc[p] \in {"look", "act", "create"}
    /\ s.call = st[p].call /\ s.n = st[p].n /\ s.n2 = st[p].n2
    /\ s.d = st[p].d /\ s.d2 = st[p].d2
    /\ Directories \subseteq Directories'
    /\ s.call \in Removes \union Renames => p \in writers'
    /\ flatfs_spinlock' # p
    /\ s.brk # None => ~s.did /\ s.call \in Renames \union {"link", "unlink"}
    /\ s.did => e = "" /\ s.call \notin {"open", "trunc"}
    /\ s.did /\ s.call \in Opens => s.new \in Inodes
    /\ ~s.did /\ s.call \notin Opens \union {"rename", "exchange"} => e # ""

LEMMA LeaveStep ==
    ASSUME TypeInv, NEW p \in Procs, StepInv(p), NEW s \in Locals, NEW e \in Errors,
           Leave(p, s, e), CanLeave(p, s, e)
    PROVE  /\ ProcType' /\ StepInv(p)' /\ Others(p)
           /\ st'[p].call = st[p].call /\ Out(p) = "busy"
           /\ Out(p)' = IF s.did THEN "did" ELSE "busy"
<1>0. PICK t : t = PutErr(s, e)
  OBVIOUS
<1>1. /\ t \in Locals
      /\ t.call = s.call /\ t.d = s.d /\ t.n = s.n /\ t.d2 = s.d2 /\ t.n2 = s.n2
      /\ t.brk = s.brk /\ t.new = s.new /\ (t.did <=> s.did)
  BY <1>0, SetErr
<1>1e. t.err = e
  BY <1>0, SetErr
<1>2. pc' = [pc EXCEPT ![p] = "unlock"] /\ st' = [st EXCEPT ![p] = t]
  BY <1>0 DEF Leave, Goto, PutErr
<1>3. ProcType' /\ pc'[p] = "unlock" /\ st'[p] = t /\ Others(p)
  BY <1>1, <1>2, Moved DEF TypeInv, Pcs
<1>4. ~Found(p)' /\ ~Creating(p)' /\ Inside(p)'
  BY <1>3 DEF Found, Creating, Inside
<1>5. CallInv(p)'
  BY <1>1, <1>3, <1>4 DEF CallInv, CanLeave
<1>6. NameInv(p)'
  <2>1. s.d \in Directories' /\ s.d2 \in Directories'
    BY DEF StepInv, NameInv, CanLeave
  <2>2. s.call \notin Opens \union {"tmpfile"} =>
          s.n \in Names /\ (s.call \in Renames => s.n2 \in Names)
    BY DEF StepInv, NameInv, CanLeave
  <2>3. s.did /\ s.call \in Opens => s.new \in Inodes
    BY DEF CanLeave
  <2> QED BY <1>1, <1>3, <2>1, <2>2, <2>3 DEF NameInv
<1>7. LockInv(p)' /\ WriteInv(p)'
  BY <1>1, <1>3, <1>4 DEF LockInv, WriteInv, CanLeave
<1>8. HoldInv(p)' /\ ActInv(p)' /\ TrapInv(p)'
  BY <1>3, <1>4 DEF HoldInv, ActInv, TrapInv
<1>9. DidInv(p)'
  BY <1>1, <1>1e, <1>3 DEF DidInv, CanLeave
<1>10. st'[p].call = st[p].call
  BY <1>1, <1>3 DEF CanLeave
<1>11. Out(p) = "busy"
  BY DEF CanLeave, StepInv, DidInv, Out
<1>12. Out(p)' = IF s.did THEN "did" ELSE "busy"
  BY <1>1, <1>3 DEF Out
<1>13. StepInv(p)'
  BY <1>5, <1>6, <1>7, <1>8, <1>9 DEF StepInv
<1> QED BY <1>3, <1>10, <1>11, <1>12, <1>13

\* Return: the end of a call, or its start again.
CanReturn(p, s, e) ==
    /\ Root \in Directories'
    /\ \A i \in Inodes : owner'[i] # p /\ p \notin readers'[i]
    /\ rename_mutex' # p /\ flatfs_spinlock' # p
    /\ pc[p] # "done" /\ s.call = st[p].call /\ (s.did <=> st[p].did)
    /\ s.did => e # "ESTALE" /\ s.call \notin {"open", "trunc"}
    /\ s.did /\ e # "" => s.call \in {"creat", "excl", "tmpfile"}
    /\ ~s.did /\ e = "" => s.call \in {"open", "trunc", "creat", "rename", "exchange"}

LEMMA ReturnStep ==
    ASSUME TypeInv, NEW p \in Procs, NEW s \in Locals, NEW e \in Errors, Return(p, s, e),
           CanReturn(p, s, e)
    PROVE  ProcType' /\ StepInv(p)' /\ Others(p) /\ Answers(p)
<1>0. Start \in Locals
  BY StartType
<1>1. Start.d = Root /\ Start.d2 = Root /\ Start.brk = None /\ ~Start.did
  BY StartType
<1>2. /\ s.call \in AllCalls /\ s.n \in Components /\ s.n2 \in Components
      /\ s.did \in BOOLEAN
  BY DEF Locals
<1>3. ASSUME NEW w \in {"walk", "done"}, NEW t \in Locals,
             pc' = [pc EXCEPT ![p] = w], st' = [st EXCEPT ![p] = t],
             t.call = s.call, t.d = Root, t.d2 = Root, t.brk = None,
             t.did => w = "done" /\ s.did
      PROVE  ProcType' /\ StepInv(p)' /\ Others(p) /\ pc'[p] = w /\ st'[p] = t
  <2>1. ProcType' /\ pc'[p] = w /\ st'[p] = t /\ Others(p)
    BY <1>3, Moved DEF TypeInv, Pcs
  <2>2. ~Found(p)' /\ ~Creating(p)' /\ ~Inside(p)'
    BY <2>1 DEF Found, Creating, Inside
  <2>3. CallInv(p)'
    BY <1>3, <2>1, <2>2 DEF CallInv
  <2>4. NameInv(p)'
    BY <1>3, <2>1, <2>2 DEF NameInv, CanReturn
  <2>5. LockInv(p)' /\ WriteInv(p)'
    BY <1>3, <2>1, <2>2 DEF LockInv, WriteInv, CanReturn
  <2>6. HoldInv(p)' /\ ActInv(p)' /\ TrapInv(p)'
    BY <2>1, <2>2 DEF HoldInv, ActInv, TrapInv
  <2>7. DidInv(p)'
    BY <1>3, <2>1 DEF DidInv, CanReturn
  <2> QED BY <2>1, <2>3, <2>4, <2>5, <2>6, <2>7 DEF StepInv
<1>4. CASE e = "ESTALE" /\ ~s.reval
  <2> DEFINE x == IF s.call \in Opens THEN s.n2 ELSE s.n
  <2>0. PICK t : t = PutAgain(Start, s.call, x, s.n2)
    OBVIOUS
  <2>1. x \in Components
    BY <1>2
  <2>2. pc' = [pc EXCEPT ![p] = "walk"] /\ st' = [st EXCEPT ![p] = t]
    BY <1>4, <2>0 DEF Return, Goto, PutAgain
  <2> HIDE DEF x
  <2>3. /\ t \in Locals /\ t.call = s.call /\ t.d = Start.d /\ t.d2 = Start.d2
        /\ t.brk = Start.brk /\ (t.did <=> Start.did)
    BY <1>0, <1>2, <2>0, <2>1, SetAgain
  <2>4. ~s.did
    BY <1>4 DEF CanReturn
  <2>5. ProcType' /\ StepInv(p)' /\ Others(p) /\ pc'[p] = "walk" /\ st'[p] = t
    BY <1>1, <1>3, <2>2, <2>3
  <2>6. Answers(p)
    BY <1>1, <2>3, <2>4, <2>5 DEF Answers, Out, CanReturn
  <2> QED BY <2>5, <2>6
<1>5. CASE ~(e = "ESTALE" /\ ~s.reval)
  <2> DEFINE x == IF e = "" THEN "" ELSE "error"
  <2>0. PICK t : t = PutEnd(Start, s.call, s.did, x)
    OBVIOUS
  <2>1. x \in Errors
    BY DEF Errors
  <2>1e. x = "" <=> e = ""
    OBVIOUS
  <2>2. pc' = [pc EXCEPT ![p] = "done"] /\ st' = [st EXCEPT ![p] = t]
    BY <1>5, <2>0 DEF Return, Goto, PutEnd
  <2> HIDE DEF x
  <2>3. /\ t \in Locals /\ t.call = s.call /\ t.d = Start.d /\ t.d2 = Start.d2
        /\ t.brk = Start.brk /\ (t.did <=> s.did)
    BY <1>0, <1>2, <2>0, <2>1, SetEnd
  <2>4. t.err = x
    BY <1>0, <1>2, <2>0, <2>1, SetEnd
  <2>5. ProcType' /\ StepInv(p)' /\ Others(p) /\ pc'[p] = "done" /\ st'[p] = t
    BY <1>1, <1>3, <2>2, <2>3
  <2>6. Answers(p)
    BY <2>1e, <2>3, <2>4, <2>5 DEF Answers, Out, CanReturn
  <2> QED BY <2>5, <2>6
<1> QED BY <1>4, <1>5

\* What a step of p does: it keeps the invariant, grants the others what they rely on, and
\* is an answer or the effect of the call.
Commits(p) ==
    /\ st'[p].call = st[p].call /\ Out(p) = "busy" /\ Out(p)' = "did"
    /\ Abstract!Effect(st[p].call)
Good(p) ==
    /\ TypeInv' /\ MountInv' /\ TreeInv' /\ StepInv(p)'
    /\ \A q \in Procs \ {p} : Rely(q)
    /\ (Answers(p) /\ UNCHANGED <<kind, child, up, dead, linkable>>) \/ Commits(p)

LEMMA QuietGood ==
    ASSUME Inv, UNCHANGED <<tree, locks, env>>, NEW p \in Procs,
           ProcType', Others(p), StepInv(p)', Answers(p)
    PROVE  Good(p)
<1>1. UNCHANGED <<kind, child, up, dead, linkable>>
  BY DEF tree
<1> QED BY <1>1, Quiet DEF Good

NoLocks(p) ==
    /\ \A i \in Inodes : owner[i] # p /\ p \notin readers[i]
    /\ rename_mutex # p /\ flatfs_spinlock # p

LEMMA OutsideNoLocks ==
    ASSUME NEW p \in Procs, LockInv(p),
           pc[p] \in {"walk", "want", "mutex", "opened", "truncate", "break", "done"}
    PROVE  NoLocks(p)
BY DEF LockInv, Inside, NoLocks

\* A place outside of all locks.
CanStand(p, w, t) ==
    /\ t.d \in Directories' /\ t.d2 \in Directories'
    /\ w = "mutex" => t.call \in Renames /\ t.d # t.d2
    /\ w \in {"opened", "truncate"} => t.call \in Opens /\ t.new \in Inodes
    /\ w = "opened" /\ t.call = "excl" /\ ~t.did => kind'[t.new] = "dir"
    /\ w = "truncate" => t.call # "excl"
    /\ w = "break" => t.call \in Renames \union {"link", "unlink"}
    /\ t.brk # None => w = "break" /\ t.call \in Renames \union {"link", "unlink"}
    /\ t.call \notin Opens \union {"tmpfile"} /\ w # "walk"
        => t.n \in Names /\ (t.call \in Renames => t.n2 \in Names)
    /\ t.call = "link" /\ w = "want" => t.old \in Inodes /\ kind'[t.old] # "free"
    /\ t.call \in Removes \union Renames /\ w \in {"mutex", "break"} => p \in writers'
    /\ w = "truncate" => p \in writers'
    /\ t.did => w = "opened" /\ t.call \notin {"open", "trunc"} /\ t.brk = None
    /\ pc[p] # "done" /\ t.call = st[p].call /\ (t.did <=> st[p].did)

LEMMA StandStep ==
    ASSUME TypeInv, NEW p \in Procs, NEW t \in Locals,
           NEW w \in {"walk", "want", "mutex", "opened", "truncate", "break"},
           pc' = [pc EXCEPT ![p] = w], st' = [st EXCEPT ![p] = t], NoLocks(p)',
           CanStand(p, w, t)
    PROVE  ProcType' /\ StepInv(p)' /\ Others(p) /\ Answers(p)
<1>1. ProcType' /\ pc'[p] = w /\ st'[p] = t /\ Others(p)
  BY Moved DEF TypeInv, Pcs
<1>2. ~Found(p)' /\ ~Creating(p)' /\ ~Inside(p)'
  BY <1>1 DEF Found, Creating, Inside
<1>3. CallInv(p)'
  BY <1>1, <1>2 DEF CallInv, CanStand
<1>4. NameInv(p)'
  BY <1>1, <1>2 DEF NameInv, CanStand
<1>5. LockInv(p)' /\ WriteInv(p)'
  BY <1>1, <1>2 DEF LockInv, WriteInv, NoLocks, CanStand
<1>6. HoldInv(p)' /\ ActInv(p)' /\ TrapInv(p)'
  BY <1>1, <1>2 DEF HoldInv, ActInv, TrapInv
<1>7. DidInv(p)'
  BY <1>1 DEF DidInv, CanStand
<1>8. Answers(p)
  BY <1>1 DEF Answers, Out, CanStand
<1> QED BY <1>1, <1>3, <1>4, <1>5, <1>6, <1>7, <1>8 DEF StepInv

LEMMA LocalsOf ==
    ASSUME TypeInv, NEW p \in Procs
    PROVE  /\ st[p] \in Locals /\ pc[p] \in Pcs
           /\ st[p].call \in AllCalls /\ st[p].d \in Inodes /\ st[p].d2 \in Inodes
           /\ st[p].n \in Components /\ st[p].n2 \in Components /\ st[p].todo \in Seq(Inodes)
           /\ st[p].old \in InodeOrNone /\ st[p].new \in InodeOrNone
           /\ st[p].trap \in InodeOrNone /\ st[p].brk \in InodeOrNone
           /\ st[p].links \in 0 .. MAXSYMLINKS /\ st[p].err \in Errors
           /\ st[p].then \in Places /\ st[p].did \in BOOLEAN /\ st[p].reval \in BOOLEAN
<1>1. st[p] \in Locals /\ pc[p] \in Pcs
  BY DEF TypeInv, ProcType
<1> QED BY <1>1 DEF Locals

LEMMA RootIsDirectory ==
    ASSUME TreeType, Abstract!TreeOK
    PROVE  Root \in Directories /\ Root \in Inodes
<1>1. kind[Root] = "dir"
  BY DEF Abstract!TreeOK, Abstract!Live
<1>2. Root \in Inodes
  BY StartType DEF Locals
<1> QED BY <1>1, <1>2 DEF Directories

-----------------------------------------------------------------------------
(* The steps: walking to the parents *)

LEMMA DotsErrorType ==
    ASSUME NEW s
    PROVE  DotsError(s) \in Errors /\ DotsError(s) # "" /\ DotsError(s) # "ESTALE"
BY DEF DotsError, Errors

LEMMA WalkGood ==
    ASSUME Inv, NEW p \in Procs, filename_parentat(p)
    PROVE  Good(p)
<1>1. PICK d \in Directories, d2 \in Directories :
        LET c == st[p].call
            s == [st[p] EXCEPT !.d = d, !.d2 = d2]
        IN
        /\ c \notin Renames => d2 = d
        /\ IF Dots \in {s.n, s.n2} /\ c \notin Opens \union {"tmpfile"}
           THEN Return(p, s, DotsError(s))
           ELSE Goto(p, "want") /\ st' = [st EXCEPT ![p] = s]
  BY DEF filename_parentat
<1>2. pc[p] = "walk" /\ st[p].call # "link" /\ UNCHANGED <<tree, locks, env>>
  BY DEF filename_parentat
<1>3. PICK s : s = PutParents(st[p], d, d2)
  OBVIOUS
<1>4. TypeInv /\ StepInv(p) /\ TreeType /\ Abstract!TreeOK
  BY DEF Inv, TypeInv, TreeInv
<1>5. d \in Inodes /\ d2 \in Inodes /\ st[p] \in Locals
  BY <1>4, LocalsOf DEF Directories
<1>6. /\ s \in Locals /\ s.call = st[p].call /\ s.n = st[p].n /\ s.n2 = st[p].n2
      /\ s.d = d /\ s.d2 = d2 /\ s.brk = st[p].brk /\ (s.did <=> st[p].did)
  BY <1>3, <1>5, SetParents
<1>7. Directories' = Directories
  BY <1>2, TreeKept
<1>8. NoLocks(p)'
  <2>1. NoLocks(p)
    BY <1>2, <1>4, OutsideNoLocks DEF StepInv
  <2> QED BY <1>2, <2>1 DEF NoLocks, locks
<1>9. ~st[p].did /\ st[p].brk = None
  BY <1>2, <1>4 DEF StepInv, DidInv
<1>10. CASE Dots \in {s.n, s.n2} /\ s.call \notin Opens \union {"tmpfile"}
  <2>1. PICK e : e = DotsError(s)
    OBVIOUS
  <2>2. Return(p, s, e)
    BY <1>1, <1>3, <1>6, <1>10, <2>1 DEF PutParents
  <2>3. e \in Errors
    BY <2>1, DotsErrorType
  <2>4. CanReturn(p, s, e)
    <3>1. e # "" /\ e # "ESTALE"
      BY <2>1, DotsErrorType
    <3>2. Root \in Directories'
      BY <1>4, <1>7, RootIsDirectory
    <3> QED BY <1>2, <1>6, <1>8, <1>9, <3>1, <3>2 DEF CanReturn, NoLocks
  <2> QED BY <1>2, <1>4, <1>6, <2>2, <2>3, <2>4, ReturnStep, QuietGood
<1>11. CASE ~(Dots \in {s.n, s.n2} /\ s.call \notin Opens \union {"tmpfile"})
  <2>1. pc' = [pc EXCEPT ![p] = "want"] /\ st' = [st EXCEPT ![p] = s]
    BY <1>1, <1>3, <1>6, <1>11 DEF PutParents, Goto
  <2>2. st[p].n \in Components /\ st[p].n2 \in Components
    BY <1>4, LocalsOf
  <2>3. CanStand(p, "want", s)
    BY <1>2, <1>6, <1>7, <1>9, <1>11, <2>2 DEF CanStand, Components
  <2> QED BY <1>2, <1>4, <1>6, <1>8, <2>1, <2>3, StandStep, QuietGood
<1> QED BY <1>10, <1>11

LEMMA LinkatGood ==
    ASSUME Inv, NEW p \in Procs, do_linkat(p)
    PROVE  Good(p)
<1>1. pc[p] = "walk" /\ st[p].call = "link" /\ UNCHANGED <<tree, locks, env>>
  BY DEF do_linkat
<1>2. TypeInv /\ StepInv(p) /\ TreeType /\ Abstract!TreeOK
  BY DEF Inv, TypeInv, TreeInv
<1>3. Directories' = Directories /\ kind' = kind
  BY <1>1, TreeKept DEF tree
<1>4. NoLocks(p)'
  <2>1. NoLocks(p)
    BY <1>1, <1>2, OutsideNoLocks DEF StepInv
  <2> QED BY <1>1, <2>1 DEF NoLocks, locks
<1>5. ~st[p].did /\ st[p].brk = None /\ st[p] \in Locals
  BY <1>1, <1>2, LocalsOf DEF StepInv, DidInv
<1>6. Root \in Directories'
  BY <1>2, <1>3, RootIsDirectory
<1>7. ASSUME NEW s \in Locals, s.call = "link", ~s.did, NEW e \in Errors, e # "",
             Return(p, s, e)
      PROVE  Good(p)
  <2>1. CanReturn(p, s, e)
    BY <1>1, <1>4, <1>5, <1>6, <1>7 DEF CanReturn, NoLocks
  <2> QED BY <1>1, <1>2, <1>7, <2>1, ReturnStep, QuietGood
<1>8. CASE Return(p, st[p], "ENOENT")
  <2>1. "ENOENT" \in Errors /\ "ENOENT" # ""
    BY DEF Errors
  <2> QED BY <1>1, <1>5, <1>7, <1>8, <2>1
<1>9. ASSUME NEW d \in Directories, NEW old \in {i \in Inodes : kind[i] # "free"},
             LET s == [st[p] EXCEPT !.d = d, !.d2 = d, !.old = old] IN
             IF s.n = Dots THEN Return(p, s, DotsError(s))
             ELSE Goto(p, "want") /\ st' = [st EXCEPT ![p] = s]
      PROVE  Good(p)
  <2>1. PICK s : s = PutLink(st[p], d, d, old)
    OBVIOUS
  <2>2. d \in Inodes /\ old \in Inodes /\ old \in InodeOrNone /\ kind[old] # "free"
    BY DEF Directories, InodeOrNone
  <2>3. /\ s \in Locals /\ s.call = st[p].call /\ s.n = st[p].n /\ s.n2 = st[p].n2
        /\ s.d = d /\ s.d2 = d /\ s.old = old /\ s.brk = st[p].brk /\ (s.did <=> st[p].did)
    BY <1>5, <2>1, <2>2, SetLink
  <2>4. CASE s.n = Dots
    <3>1. DotsError(s) \in Errors /\ DotsError(s) # "" /\ Return(p, s, DotsError(s))
      BY <1>9, <2>1, <2>4, DotsErrorType DEF PutLink
    <3> QED BY <1>1, <1>5, <1>7, <2>3, <3>1
  <2>5. CASE s.n # Dots
    <3>1. pc' = [pc EXCEPT ![p] = "want"] /\ st' = [st EXCEPT ![p] = s]
      BY <1>9, <2>1, <2>5 DEF PutLink, Goto
    <3>2. s.n \in Names
      BY <1>2, <2>3, <2>5, LocalsOf DEF Components
    <3>3. CanStand(p, "want", s)
      BY <1>1, <1>3, <1>5, <2>2, <2>3, <3>2 DEF CanStand, Removes, Renames
    <3> QED BY <1>1, <1>2, <1>4, <2>3, <3>1, <3>3, StandStep, QuietGood
  <2> QED BY <2>4, <2>5
<1> QED BY <1>8, <1>9 DEF do_linkat

\* A step that changes locks or the write access of p, and where it stands.
LEMMA LockGood ==
    ASSUME Inv, UNCHANGED <<tree, around>>, LockType', writers' \subseteq Procs, MountInv',
           NEW p \in Procs, LocksKept(p), ProcType', Others(p), StepInv(p)', Answers(p)
    PROVE  Good(p)
<1>1. TypeInv'
  <2>1. TreeType'
    BY TreeKept DEF Inv, TypeInv
  <2>2. EnvType'
    BY DEF Inv, TypeInv, EnvType, around
  <2> QED BY <2>1, <2>2 DEF TypeInv
<1>2. TreeInv'
  BY TreeKept DEF Inv
<1>3. \A q \in Procs \ {p} : Rely(q)
  BY QuietRely
<1>4. UNCHANGED <<kind, child, up, dead, linkable>>
  BY DEF tree
<1> QED BY <1>1, <1>2, <1>3, <1>4 DEF Good

\* A place at the parents' locks, or with all of them.
CanLook(p, w, t) ==
    /\ t.d \in Directories' /\ t.d2 \in Directories'
    /\ t.call # "tmpfile" /\ t.n \in Names /\ (t.call \in Renames => t.n2 \in Names)
    /\ t.call = "link" => t.old \in Inodes /\ kind'[t.old] # "free"
    /\ t.call \in Removes \union Renames => p \in writers'
    /\ w = "lock" => t.todo # <<>> /\ t.then = "look"
    /\ t.call \notin {"open", "trunc"} =>
        \A i \in Parents(t) : owner'[i] = p \/ (w = "lock" /\ InTodo(i, t))
    /\ t.call \in Renames /\ t.d # t.d2 => rename_mutex' = p /\ TrapOK(t)'
    /\ flatfs_spinlock' # p
    /\ t.brk = None /\ ~t.did
    /\ pc[p] # "done" /\ t.call = st[p].call /\ ~st[p].did

LEMMA LookStep ==
    ASSUME NEW p \in Procs, NEW t \in Locals, NEW w \in {"lock", "look"},
           pc'[p] = w, st'[p] = t, CanLook(p, w, t)
    PROVE  StepInv(p)' /\ Answers(p)
<1>1. ~Found(p)' /\ ~Creating(p)' /\ Inside(p)'
  BY DEF Found, Creating, Inside, CanLook
<1>2. CallInv(p)'
  BY <1>1 DEF CallInv, CanLook
<1>3. NameInv(p)'
  BY <1>1 DEF NameInv, CanLook
<1>4. LockInv(p)' /\ WriteInv(p)'
  BY <1>1 DEF LockInv, WriteInv, CanLook
<1>5. HoldInv(p)'
  BY <1>1 DEF HoldInv, CanLook, Parents, InTodo
<1>6. ActInv(p)'
  BY <1>1 DEF ActInv
<1>7. TrapInv(p)'
  BY DEF TrapInv, CanLook, TrapOK
<1>8. DidInv(p)'
  BY DEF DidInv, CanLook
<1>9. Answers(p)
  BY DEF Answers, Out, CanLook
<1> QED BY <1>2, <1>3, <1>4, <1>5, <1>6, <1>7, <1>8, <1>9 DEF StepInv

\* A place at the victims' locks, or with all of them.
CanAct(p, w, t) ==
    /\ t.d \in Directories' /\ t.d2 \in Directories'
    /\ t.call \notin Opens \union {"tmpfile"} /\ t.n \in Names
    /\ t.call \in Renames => t.n2 \in Names
    /\ t.call = "link" => t.old \in Inodes /\ kind'[t.old] # "free"
    /\ p \in writers'
    /\ w = "lock" => t.todo # <<>> /\ t.then = "act"
    /\ \A i \in Parents(t) : owner'[i] = p
    /\ \A i \in Victims(t)' : owner'[i] = p \/ (w = "lock" /\ InTodo(i, t))
    /\ FoundOK(t)'
    /\ t.call \in Renames /\ t.d # t.d2 => rename_mutex' = p /\ TrapOK(t)'
    /\ flatfs_spinlock' # p
    /\ t.brk = None /\ ~t.did
    /\ pc[p] # "done" /\ t.call = st[p].call /\ ~st[p].did

LEMMA ActStep ==
    ASSUME NEW p \in Procs, NEW t \in Locals, NEW w \in {"lock", "act"},
           pc'[p] = w, st'[p] = t, CanAct(p, w, t)
    PROVE  StepInv(p)' /\ Answers(p)
<1>1. Found(p)' /\ ~Creating(p)' /\ Inside(p)'
  BY DEF Found, Creating, Inside, CanAct
<1>2. CallInv(p)'
  BY <1>1 DEF CallInv, CanAct
<1>3. NameInv(p)'
  BY <1>1 DEF NameInv, CanAct
<1>4. LockInv(p)' /\ WriteInv(p)'
  BY <1>1 DEF LockInv, WriteInv, CanAct
<1>5. HoldInv(p)'
  BY <1>1 DEF HoldInv, CanAct, Parents, InTodo, Victims, IsDir
<1>6. ActInv(p)'
  BY <1>1 DEF ActInv, CanAct, FoundOK, FreeName, IsDir
<1>7. TrapInv(p)'
  BY DEF TrapInv, CanAct, TrapOK
<1>8. DidInv(p)'
  BY DEF DidInv, CanAct
<1>9. Answers(p)
  BY DEF Answers, Out, CanAct
<1> QED BY <1>2, <1>3, <1>4, <1>5, <1>6, <1>7, <1>8, <1>9 DEF StepInv

LEMMA LockAllMoves ==
    ASSUME TypeInv, NEW p \in Procs, NEW s \in Locals, NEW q \in Seq(Inodes), NEW w \in Places,
           LockAll(p, s, q, w)
    PROVE  /\ ProcType' /\ Others(p)
           /\ pc'[p] = IF q = <<>> THEN w ELSE "lock"
           /\ st'[p] = PutTodo(s, q, w)
<1>1. PICK t : t = PutTodo(s, q, w)
  OBVIOUS
<1>2. t \in Locals
  BY <1>1, SetTodo
<1>3. PICK v : v = IF q = <<>> THEN w ELSE "lock"
  OBVIOUS
<1>4. v \in Pcs
  BY <1>3 DEF Places, Pcs
<1>5. pc' = [pc EXCEPT ![p] = v] /\ st' = [st EXCEPT ![p] = t]
  BY <1>1, <1>3 DEF LockAll, Goto, PutTodo
<1> QED BY <1>1, <1>2, <1>3, <1>4, <1>5, Moved DEF TypeInv

\* ToParents: at s_vfs_rename_mutex or at the lock of one parent.
CanEnter(p, s) ==
    /\ s.d \in Directories' /\ s.d2 \in Directories'
    /\ s.call # "tmpfile" /\ s.n \in Names /\ (s.call \in Renames => s.n2 \in Names)
    /\ s.call = "link" => s.old \in Inodes /\ kind'[s.old] # "free"
    /\ s.call \in Removes \union Renames => p \in writers'
    /\ s.brk = None /\ ~s.did
    /\ pc[p] # "done" /\ s.call = st[p].call /\ ~st[p].did

LEMMA ToParentsStep ==
    ASSUME TypeInv, NEW p \in Procs, NEW s \in Locals, ToParents(p, s), NoLocks(p)',
           CanEnter(p, s)
    PROVE  ProcType' /\ Others(p) /\ StepInv(p)' /\ Answers(p)
<1>1. CASE s.call \in Renames /\ s.d # s.d2
  <2>1. pc' = [pc EXCEPT ![p] = "mutex"] /\ st' = [st EXCEPT ![p] = s]
    BY <1>1 DEF ToParents, Goto
  <2>2. CanStand(p, "mutex", s)
    BY <1>1 DEF CanEnter, CanStand
  <2> QED BY <2>1, <2>2, StandStep
<1>2. CASE ~(s.call \in Renames /\ s.d # s.d2)
  <2>1. PICK q : q = <<s.d>>
    OBVIOUS
  <2>2. s.d \in Inodes
    BY DEF Locals
  <2>3. q \in Seq(Inodes) /\ q # <<>> /\ Len(q) = 1 /\ q[1] = s.d
    BY <2>1, <2>2
  <2>4. "look" \in Places
    BY DEF Places
  <2>5. LockAll(p, s, q, "look")
    BY <1>2, <2>1 DEF ToParents
  <2>6. PICK t : t = PutTodo(s, q, "look")
    OBVIOUS
  <2>7. ProcType' /\ Others(p) /\ pc'[p] = "lock" /\ st'[p] = t
    BY <2>3, <2>4, <2>5, <2>6, LockAllMoves
  <2>8. /\ t \in Locals /\ t.todo = q /\ t.then = "look" /\ t.call = s.call /\ t.d = s.d
        /\ t.n = s.n /\ t.d2 = s.d2 /\ t.n2 = s.n2 /\ t.old = s.old /\ t.brk = s.brk
        /\ (t.did <=> s.did)
    BY <2>3, <2>4, <2>6, SetTodo
  <2>9. Parents(t) = {t.d} /\ InTodo(t.d, t)
    BY <1>2, <2>3, <2>8 DEF Parents, InTodo
  <2>10. CanLook(p, "lock", t)
    BY <1>2, <2>3, <2>8, <2>9 DEF CanEnter, CanLook, NoLocks
  <2> QED BY <2>7, <2>8, <2>10, LookStep
<1> QED BY <1>1, <1>2

LEMMA WantGood ==
    ASSUME Inv, NEW p \in Procs, mnt_want_write(p)
    PROVE  Good(p)
<1> DEFINE s == st[p]
<1>1. pc[p] = "want" /\ (s.call \in Opens => s.n # Dots) /\ UNCHANGED <<tree, locks, around>>
  BY DEF mnt_want_write
<1>2. TypeInv /\ StepInv(p) /\ TreeType /\ Abstract!TreeOK
  BY DEF Inv, TypeInv, TreeInv
<1>3. Directories' = Directories /\ kind' = kind /\ mount' = mount
  BY <1>1, TreeKept DEF tree, around
<1>4. NoLocks(p)' /\ LockType'
  <2>1. NoLocks(p) /\ LockType
    BY <1>1, <1>2, OutsideNoLocks DEF StepInv, TypeInv
  <2> QED BY <1>1, <2>1 DEF NoLocks, locks, LockType
<1>5. ~s.did /\ s.brk = None /\ s \in Locals
  BY <1>1, <1>2, LocalsOf DEF StepInv, DidInv
<1>6. \/ s.call = "open" /\ writers' = writers
      \/ s.call # "open" /\ mount = "rw" /\ writers' = writers \union {p}
      \/ s.call # "open" /\ mount = "ro" /\ writers' = writers
  BY DEF mnt_want_write, sb_start_write
<1>7. writers' \subseteq Procs /\ MountInv' /\ LocksKept(p)
  <2>1. writers' \subseteq Procs
    BY <1>2, <1>6 DEF TypeInv, EnvType
  <2>2. MountInv'
    BY <1>3, <1>6 DEF Inv, MountInv
  <2>3. LocksKept(p)
    BY <1>1, <1>6 DEF LocksKept, locks
  <2> QED BY <2>1, <2>2, <2>3
<1>8. SUFFICES ProcType' /\ Others(p) /\ StepInv(p)' /\ Answers(p)
  BY <1>1, <1>4, <1>7, LockGood
<1>9. CASE mount = "ro" /\ s.call \in Removes \union Renames \union {"tmpfile"}
  <2>1. PICK e : e = "EROFS"
    OBVIOUS
  <2>2. Return(p, s, e)
    BY <1>9, <2>1 DEF mnt_want_write
  <2>3. e \in Errors
    BY <2>1 DEF Errors
  <2>4. Root \in Directories'
    BY <1>2, <1>3, RootIsDirectory
  <2>5. CanReturn(p, s, e)
    BY <1>1, <1>4, <1>5, <2>1, <2>4 DEF CanReturn, NoLocks
  <2> QED BY <1>2, <1>5, <2>2, <2>3, <2>5, ReturnStep
<1>10. CASE ~(mount = "ro" /\ s.call \in Removes \union Renames \union {"tmpfile"})
            /\ s.call = "tmpfile"
  <2>1. pc' = [pc EXCEPT ![p] = "act"] /\ st' = [st EXCEPT ![p] = st[p]]
    <3>1. pc' = [pc EXCEPT ![p] = "act"] /\ st' = st
      BY <1>10 DEF mnt_want_write, Goto
    <3> QED BY <1>2, <3>1 DEF TypeInv, ProcType
  <2>2. ProcType' /\ pc'[p] = "act" /\ st'[p] = s /\ Others(p)
    BY <1>2, <1>5, <2>1, Moved DEF TypeInv, Pcs
  <2>3. Found(p)' /\ ~Creating(p)' /\ Inside(p)'
    BY <2>2 DEF Found, Creating, Inside
  <2>4. CallInv(p)' /\ DidInv(p)'
    BY <1>5, <1>10, <2>2, <2>3 DEF CallInv, DidInv, Opens
  <2>5. NameInv(p)'
    BY <1>2, <1>3, <1>10, <2>2 DEF NameInv, StepInv, Opens
  <2>6. p \in writers'
    BY <1>6, <1>10
  <2>7. LockInv(p)' /\ WriteInv(p)'
    BY <1>4, <2>2, <2>3, <2>6 DEF LockInv, WriteInv, NoLocks
  <2>8. HoldInv(p)' /\ ActInv(p)' /\ TrapInv(p)'
    BY <1>10, <2>2, <2>3 DEF HoldInv, ActInv, FoundOK, TrapInv, Creates, Removes, Renames
  <2>9. Answers(p)
    BY <1>1, <1>5, <2>2 DEF Answers, Out
  <2> QED BY <2>2, <2>4, <2>5, <2>7, <2>8, <2>9 DEF StepInv
<1>11. CASE ~(mount = "ro" /\ s.call \in Removes \union Renames \union {"tmpfile"})
            /\ s.call # "tmpfile"
  <2>1. ToParents(p, s)
    BY <1>11 DEF mnt_want_write
  <2>2. s.n \in Names /\ (s.call \in Renames => s.n2 \in Names)
    <3>1. s.n \in Components
      BY <1>2, LocalsOf
    <3> QED BY <1>1, <1>2, <1>11, <3>1 DEF StepInv, NameInv, Components, Opens, Renames
  <2>3. s.call \in Removes \union Renames => p \in writers'
    BY <1>6, <1>11 DEF Removes, Renames
  <2>4. s.d \in Directories' /\ s.d2 \in Directories'
    BY <1>2, <1>3 DEF StepInv, NameInv
  <2>5. s.call = "link" => s.old \in Inodes /\ kind'[s.old] # "free"
    BY <1>1, <1>2, <1>3 DEF StepInv, NameInv
  <2>6. CanEnter(p, s)
    BY <1>1, <1>5, <1>11, <2>2, <2>3, <2>4, <2>5 DEF CanEnter
  <2> QED BY <1>2, <1>4, <1>5, <2>1, <2>6, ToParentsStep
<1> QED BY <1>9, <1>10, <1>11

\* What lock_rename takes for the trap is the one inode it may be.
Trap(d, d2) ==
    IF d_ancestor(d, d2) # None THEN d_ancestor(d, d2) ELSE d_ancestor(d2, d)

LEMMA AncestorFound ==
    ASSUME TreeType, UpInv, NEW d \in Directories, NEW e \in Directories
    PROVE  /\ d_ancestor(d, e) \in InodeOrNone
           /\ d_ancestor(d, e) # None => d \in Above(e)
           /\ \A i \in Directories \ {Root} : up[i] = d /\ i \in Above(e) => i = d_ancestor(d, e)
<1> DEFINE found == {a \in Above(e) \ {Root} : up[a] = d}
<1>1. up \in [Inodes -> Inodes] /\ Directories \in SUBSET Inodes
  BY DEF TreeType, Directories
<1>2. \A x \in Directories : up[x] \in Directories /\ Root \in UpSet(up, x)
  BY AboveIsUpSet DEF UpInv
<1>3. Above(e) = UpSet(up, e) /\ UpSet(up, e) \subseteq Directories
  BY <1>1, <1>2, AboveIsUpSet, UpSetSame
<1>4. Root \in Inodes /\ up[Root] = Root
  BY StartType DEF Locals, UpInv
<1>5. None \notin Inodes
  BY NameiAssumption
<1>6. \A a, b \in found : a = b
  BY <1>1, <1>2, <1>3, <1>4, OneBelow
<1>7. CASE found = {}
  BY <1>7 DEF d_ancestor, InodeOrNone
<1>8. CASE found # {}
  <2>1. PICK a : a \in found /\ d_ancestor(d, e) = a
    <3>1. d_ancestor(d, e) = CHOOSE a \in found : TRUE
      BY <1>8 DEF d_ancestor
    <3> QED BY <1>8, <3>1
  <2>2. a \in Inodes /\ up[a] = d
    BY <1>1, <1>3, <2>1
  <2>3. d \in Above(e)
    BY <1>1, <1>3, <2>1, UpSetClosed
  <2> QED BY <1>6, <2>1, <2>2, <2>3 DEF InodeOrNone
<1> QED BY <1>7, <1>8

LEMMA TrapFound ==
    ASSUME TreeType, UpInv, NEW d \in Directories, NEW e \in Directories, d # e
    PROVE  /\ Trap(d, e) \in InodeOrNone
           /\ \A i \in Directories \ {Root} :
                (up[i] = d /\ i \in Above(e)) \/ (up[i] = e /\ i \in Above(d)) => i = Trap(d, e)
<1>1. d_ancestor(d, e) \in InodeOrNone /\ d_ancestor(e, d) \in InodeOrNone
  BY AncestorFound
<1>2. \A i \in Directories \ {Root} :
        /\ up[i] = d /\ i \in Above(e) => i = d_ancestor(d, e)
        /\ up[i] = e /\ i \in Above(d) => i = d_ancestor(e, d)
  BY AncestorFound
<1>3. None \notin Inodes /\ Directories \subseteq Inodes
  BY NameiAssumption DEF Directories
<1>4. ASSUME d_ancestor(d, e) # None, NEW i \in Directories \ {Root}, up[i] = e, i \in Above(d)
      PROVE  FALSE
  <2>1. d \in UpSet(up, e) /\ i \in UpSet(up, d)
    BY <1>4, AncestorFound, AboveIsUpSet
  <2>2. up \in [Inodes -> Inodes] /\ i \in Inodes /\ d \in Inodes /\ e \in Inodes
    BY <1>3 DEF TreeType
  <2>3. Root \in Inodes /\ up[Root] = Root /\ Root \in UpSet(up, i)
    BY StartType, AboveIsUpSet DEF Locals, UpInv
  <2>4. i \in UpSet(up, up[i])
    BY <1>4, <2>1, <2>2, UpSetTrans
  <2> QED BY <2>2, <2>3, <2>4, NotAboveParent
<1> QED BY <1>1, <1>2, <1>3, <1>4 DEF Trap

LEMMA MutexGood ==
    ASSUME Inv, NEW p \in Procs, RenameMutex(p)
    PROVE  Good(p)
<1> DEFINE d == st[p].d
           d2 == st[p].d2
<1>1. /\ pc[p] = "mutex" /\ rename_mutex = None /\ rename_mutex' = p
      /\ UNCHANGED <<tree, owner, readers, flatfs_spinlock, env>>
      /\ lock_rename(p, d, d2)
  BY DEF RenameMutex
<1>2. TypeInv /\ StepInv(p) /\ TreeType /\ UpInv /\ MountInv
  BY DEF Inv, TypeInv, TreeInv
<1>3. Directories' = Directories /\ kind' = kind /\ up' = up
  BY <1>1, TreeKept DEF tree
<1>4. NoLocks(p)
  BY <1>1, <1>2, OutsideNoLocks DEF StepInv
<1>5. ~st[p].did /\ st[p].brk = None /\ st[p] \in Locals /\ d \in Inodes /\ d2 \in Inodes
  BY <1>1, <1>2, LocalsOf DEF StepInv, DidInv
<1>6. d \in Directories /\ d2 \in Directories /\ st[p].call \in Renames /\ d # d2
  BY <1>1, <1>2 DEF StepInv, NameInv, CallInv
<1>7. PICK s : s = PutTrap(st[p], Trap(d, d2))
  OBVIOUS
<1>8. Trap(d, d2) \in InodeOrNone
  BY <1>2, <1>6, TrapFound
<1>9. /\ s \in Locals /\ s.trap = Trap(d, d2) /\ s.call = st[p].call /\ s.d = d
      /\ s.n = st[p].n /\ s.d2 = d2 /\ s.n2 = st[p].n2 /\ s.old = st[p].old
      /\ s.brk = st[p].brk /\ (s.did <=> st[p].did)
  BY <1>5, <1>7, <1>8, SetTrap
<1>10. PICK q : q = IF d_ancestor(d, d2) # None THEN <<d, d2>> ELSE <<d2, d>>
  OBVIOUS
<1>11. q \in Seq(Inodes) /\ q # <<>> /\ Len(q) = 2 /\ {d, d2} = {q[1], q[2]}
  BY <1>5, <1>10
<1>12. LockAll(p, s, q, "look")
  BY <1>1, <1>7, <1>10 DEF lock_rename, PutTrap, Trap
<1>13. "look" \in Places
  BY DEF Places
<1>14. PICK t : t = PutTodo(s, q, "look")
  OBVIOUS
<1>15. ProcType' /\ Others(p) /\ pc'[p] = "lock" /\ st'[p] = t
  BY <1>2, <1>9, <1>11, <1>12, <1>13, <1>14, LockAllMoves
<1>16. /\ t \in Locals /\ t.todo = q /\ t.then = "look" /\ t.call = s.call /\ t.d = s.d
       /\ t.n = s.n /\ t.d2 = s.d2 /\ t.n2 = s.n2 /\ t.old = s.old /\ t.brk = s.brk
       /\ (t.did <=> s.did) /\ t.trap = s.trap
  BY <1>9, <1>11, <1>13, <1>14, SetTodo
<1>17. \A i \in Parents(t) : InTodo(i, t)
  <2>1. t.d = d /\ t.d2 = d2 /\ t.todo = q
    BY <1>9, <1>16
  <2>2. 1 \in 1 .. Len(t.todo) /\ 2 \in 1 .. Len(t.todo)
    BY <1>11, <2>1
  <2>3. Parents(t) \subseteq {t.todo[1], t.todo[2]}
    BY <1>11, <2>1 DEF Parents
  <2> QED BY <2>2, <2>3 DEF InTodo
<1>18. TrapOK(t)'
  <2>1. t.trap = Trap(d, d2) /\ t.d = d /\ t.d2 = d2
    BY <1>9, <1>16
  <2>2. Above(t.d)' = Above(t.d) /\ Above(t.d2)' = Above(t.d2)
    BY <1>3 DEF Above
  <2> QED BY <1>2, <1>3, <1>6, <2>1, <2>2, TrapFound DEF TrapOK
<1>19. p \in writers'
  BY <1>1, <1>2, <1>6 DEF StepInv, WriteInv, env
<1>20. /\ t.d \in Directories' /\ t.d2 \in Directories' /\ t.n \in Names
       /\ t.call \in Renames /\ t.n2 \in Names /\ t.call # "tmpfile" /\ t.call # "link"
  BY <1>1, <1>2, <1>3, <1>6, <1>9, <1>16 DEF StepInv, NameInv, Renames, Opens
<1>21. CanLook(p, "lock", t)
  BY <1>1, <1>4, <1>5, <1>9, <1>11, <1>16, <1>17, <1>18, <1>19, <1>20 DEF CanLook, NoLocks
<1>22. StepInv(p)' /\ Answers(p)
  BY <1>15, <1>16, <1>21, LookStep
<1>23. LockType' /\ LocksKept(p) /\ writers' \subseteq Procs /\ MountInv'
  <2>1. None \notin Procs
    BY NameiAssumption
  <2>2. LockType'
    BY <1>1, <1>2 DEF TypeInv, LockType
  <2>3. LocksKept(p)
    BY <1>1, <2>1 DEF LocksKept, env
  <2>4. writers' \subseteq Procs /\ MountInv'
    BY <1>1, <1>2 DEF TypeInv, EnvType, MountInv, env, around
  <2> QED BY <2>2, <2>3, <2>4
<1> QED BY <1>1, <1>15, <1>22, <1>23, LockGood DEF env

LEMMA TodoSplit ==
    ASSUME NEW q \in Seq(Inodes), q # <<>>
    PROVE  /\ Head(q) \in Inodes /\ Tail(q) \in Seq(Inodes)
           /\ \A k \in 1 .. Len(q) :
                q[k] = Head(q) \/ \E m \in 1 .. Len(Tail(q)) : Tail(q)[m] = q[k]
<1>1. Head(q) \in Inodes /\ Tail(q) \in Seq(Inodes)
  OBVIOUS
<1>2. ASSUME NEW k \in 1 .. Len(q), q[k] # Head(q)
      PROVE  \E m \in 1 .. Len(Tail(q)) : Tail(q)[m] = q[k]
  <2>1. k # 1 /\ k - 1 \in 1 .. Len(Tail(q)) /\ Tail(q)[k - 1] = q[k]
    BY <1>2
  <2> QED BY <2>1
<1> QED BY <1>1, <1>2

LEMMA TakeLockGood ==
    ASSUME Inv, NEW p \in Procs, Lock(p)
    PROVE  Good(p)
<1> DEFINE s == st[p]
           i == Head(st[p].todo)
           rest == Tail(st[p].todo)
<1>1. pc[p] = "lock" /\ UNCHANGED <<tree, rename_mutex, flatfs_spinlock, env>>
  BY DEF Lock
<1>2. TypeInv /\ StepInv(p) /\ MountInv
  BY DEF Inv
<1>3. s \in Locals /\ s.todo \in Seq(Inodes) /\ s.then \in Places /\ s.todo # <<>>
  BY <1>1, <1>2, LocalsOf DEF StepInv, CallInv
<1>4. i \in Inodes /\ rest \in Seq(Inodes)
  BY <1>3, TodoSplit
<1>5. \A j : InTodo(j, s) => j = i \/ \E m \in 1 .. Len(rest) : rest[m] = j
  BY <1>3, TodoSplit DEF InTodo
<1>6. PICK t : t = PutRest(s, rest)
  OBVIOUS
<1>7. /\ t \in Locals /\ t.todo = rest /\ t.call = s.call /\ t.d = s.d
      /\ t.n = s.n /\ t.d2 = s.d2 /\ t.n2 = s.n2 /\ t.old = s.old /\ t.new = s.new
      /\ t.trap = s.trap /\ t.then = s.then /\ t.brk = s.brk /\ (t.did <=> s.did)
  BY <1>3, <1>4, <1>6, SetRest
<1>8. PICK w : w = IF rest = <<>> THEN s.then ELSE "lock"
  OBVIOUS
<1>9. ProcType' /\ pc'[p] = w /\ st'[p] = t /\ Others(p)
  <2>1. pc' = [pc EXCEPT ![p] = w]
    BY <1>8 DEF Lock
  <2>2. st' = [st EXCEPT ![p] = t]
    BY <1>6 DEF Lock, PutRest
  <2>3. w \in Pcs
    BY <1>3, <1>8 DEF Places, Pcs
  <2> QED BY <1>2, <1>7, <2>1, <2>2, <2>3, Moved DEF TypeInv
<1>10. Directories' = Directories /\ kind' = kind /\ child' = child /\ dead' = dead /\ up' = up
  BY <1>1, TreeKept DEF tree
<1>11. /\ LockType' /\ LocksKept(p) /\ writers' \subseteq Procs /\ MountInv'
       /\ \A j \in Inodes : owner[j] = p => owner'[j] = p
       /\ s.call \notin {"open", "trunc"} => owner'[i] = p
  <2>1. None \notin Procs
    BY NameiAssumption
  <2>2. writers' = writers /\ mount' = mount
    BY <1>1 DEF env, around
  <2>3. writers' \subseteq Procs /\ MountInv'
    BY <1>2, <2>2 DEF TypeInv, EnvType, MountInv
  <2>4. LockType
    BY <1>2 DEF TypeInv
  <2>5. CASE s.call \in {"open", "trunc"}
    <3>1. owner[i] = None /\ readers' = [readers EXCEPT ![i] = @ \union {p}] /\ owner' = owner
      BY <2>5 DEF Lock, inode_lock_shared
    <3>2. LockType'
      BY <1>1, <1>4, <2>4, <3>1 DEF LockType
    <3>3. LocksKept(p)
      BY <1>1, <1>4, <2>2, <2>4, <3>1 DEF LocksKept, LockType
    <3> QED BY <2>3, <2>5, <3>1, <3>2, <3>3
  <2>6. CASE s.call \notin {"open", "trunc"}
    <3>1. owner[i] = None /\ owner' = [owner EXCEPT ![i] = p] /\ readers' = readers
      BY <2>6 DEF Lock, inode_lock
    <3>2. LockType'
      BY <1>1, <1>4, <2>4, <3>1 DEF LockType
    <3>3. LocksKept(p)
      BY <1>1, <1>4, <2>1, <2>2, <2>4, <3>1 DEF LocksKept, LockType
    <3>4. owner'[i] = p /\ \A j \in Inodes : owner[j] = p => owner'[j] = p
      BY <1>4, <2>4, <3>1 DEF LockType
    <3> QED BY <2>3, <3>2, <3>3, <3>4
  <2> QED BY <2>5, <2>6
<1>12. \A j \in Inodes : s.call \notin {"open", "trunc"} /\ (owner[j] = p \/ InTodo(j, s))
         => owner'[j] = p \/ (rest # <<>> /\ InTodo(j, t))
  <2> SUFFICES ASSUME NEW j \in Inodes, s.call \notin {"open", "trunc"},
                      owner[j] = p \/ InTodo(j, s), owner'[j] # p
               PROVE  rest # <<>> /\ InTodo(j, t)
    OBVIOUS
  <2>1. PICK m \in 1 .. Len(rest) : rest[m] = j
    BY <1>5, <1>11
  <2>2. InTodo(j, t)
    BY <1>7, <2>1 DEF InTodo
  <2>3. \A r \in Seq(Inodes) : \A k \in 1 .. Len(r) : r # <<>>
    OBVIOUS
  <2>4. rest # <<>>
    BY <1>4, <2>1, <2>3
  <2> QED BY <2>2, <2>4
<1>13. Parents(t) = Parents(s) /\ Parents(s) \subseteq Inodes
  BY <1>2, <1>7, LocalsOf DEF Parents
<1>14. TrapOK(t)' <=> TrapOK(s)
  BY <1>7, <1>10 DEF TrapOK, Above
<1>15. s.call # "tmpfile" /\ s.brk = None /\ ~s.did
  BY <1>1, <1>2 DEF StepInv, CallInv, DidInv
<1>16. t.call \in Renames /\ t.d # t.d2 => rename_mutex' = p /\ TrapOK(t)'
  BY <1>1, <1>2, <1>7, <1>14 DEF StepInv, TrapInv
<1>17. flatfs_spinlock' # p
  BY <1>1, <1>2 DEF StepInv, LockInv
<1>18. /\ t.d \in Directories' /\ t.d2 \in Directories' /\ t.n \in Names
       /\ t.call \in Renames => t.n2 \in Names
       /\ t.call = "link" => t.old \in Inodes /\ kind'[t.old] # "free"
       /\ t.call \in Removes \union Renames => p \in writers'
  <2>1. /\ s.d \in Directories /\ s.d2 \in Directories /\ s.n \in Names
        /\ s.call \in Renames => s.n2 \in Names
        /\ s.call = "link" => s.old \in Inodes /\ kind[s.old] # "free"
    BY <1>1, <1>2, <1>15 DEF StepInv, NameInv, Opens, Renames
  <2>2. s.call \in Removes \union Renames => p \in writers'
    BY <1>1, <1>2 DEF StepInv, WriteInv, env
  <2> QED BY <1>7, <1>10, <2>1, <2>2
<1>19. SUFFICES StepInv(p)' /\ Answers(p)
  BY <1>1, <1>9, <1>11, LockGood DEF env
<1>20. CASE s.then = "look"
  <2>1. w \in {"lock", "look"} /\ (w = "lock" <=> rest # <<>>)
    BY <1>8, <1>20
  <2>2. t.call \notin {"open", "trunc"} =>
          \A j \in Parents(t) : owner'[j] = p \/ (w = "lock" /\ InTodo(j, t))
    <3>1. s.call \notin {"open", "trunc"} =>
            \A j \in Parents(s) : owner[j] = p \/ InTodo(j, s)
      BY <1>1, <1>2, <1>15 DEF StepInv, HoldInv
    <3> QED BY <1>7, <1>12, <1>13, <2>1, <3>1
  <2>3. CanLook(p, w, t)
    BY <1>1, <1>7, <1>15, <1>16, <1>17, <1>18, <1>20, <2>1, <2>2 DEF CanLook
  <2> QED BY <1>7, <1>9, <2>1, <2>3, LookStep
<1>21. CASE s.then = "act"
  <2>1. w \in {"lock", "act"} /\ (w = "lock" <=> rest # <<>>)
    BY <1>8, <1>21
  <2>2. Found(p)
    BY <1>1, <1>21 DEF Found
  <2>3. s.call \notin Opens /\ s.call \notin {"open", "trunc"} /\ p \in writers'
    BY <1>1, <1>2, <2>2 DEF StepInv, CallInv, WriteInv, Opens, env
  <2>4. \A j \in Parents(t) : owner'[j] = p
    BY <1>2, <1>11, <1>13, <1>15, <2>2, <2>3 DEF StepInv, HoldInv
  <2>5. \A j \in Victims(t)' : owner'[j] = p \/ (w = "lock" /\ InTodo(j, t))
    <3>1. Victims(t)' = Victims(s)
      BY <1>7, <1>10 DEF Victims, IsDir
    <3>2. \A j \in Victims(s) : owner[j] = p \/ InTodo(j, s)
      BY <1>2, <1>15, <2>2, <2>3 DEF StepInv, HoldInv
    <3>3. Victims(s) \subseteq Inodes
      BY <1>2, <1>15, <2>2, FoundFields, NameiAssumption
      DEF Inv, TreeInv, StepInv, Victims, IsDir, Removes, Renames
    <3> QED BY <1>12, <2>1, <2>3, <3>1, <3>2, <3>3
  <2>6. FoundOK(t)'
    <3>1. FoundOK(s)
      BY <1>2, <2>2 DEF StepInv, ActInv
    <3> QED BY <1>7, <1>10, <3>1 DEF FoundOK, FreeName, IsDir
  <2>7. CanAct(p, w, t)
    BY <1>1, <1>7, <1>15, <1>16, <1>17, <1>18, <1>21, <2>1, <2>3, <2>4, <2>5, <2>6 DEF CanAct
  <2> QED BY <1>7, <1>9, <2>1, <2>7, ActStep
<1> QED BY <1>3, <1>20, <1>21 DEF Places

-----------------------------------------------------------------------------
(* The steps: with the parents locked *)

\* A call leaves without having acted.
CanGiveUp(p, s, e) ==
    /\ s.call = st[p].call /\ s.n = st[p].n /\ s.n2 = st[p].n2
    /\ s.d = st[p].d /\ s.d2 = st[p].d2 /\ ~s.did
    /\ s.brk # None => s.call \in Renames \union {"link", "unlink"}
    /\ s.call \notin Opens \union {"rename", "exchange"} => e # ""

LEMMA GiveUpGood ==
    ASSUME Inv, NEW p \in Procs, pc[p] \in {"look", "act"}, UNCHANGED <<tree, locks, env>>,
           NEW s \in Locals, NEW e \in Errors, CanGiveUp(p, s, e), Leave(p, s, e)
    PROVE  Good(p)
<1>1. TypeInv /\ StepInv(p)
  BY DEF Inv
<1>2. Directories' = Directories /\ writers' = writers /\ flatfs_spinlock' = flatfs_spinlock
  BY TreeKept DEF env, locks
<1>3. flatfs_spinlock' # p
  BY <1>1, <1>2 DEF StepInv, LockInv
<1>4. s.call \in Removes \union Renames => p \in writers'
  BY <1>1, <1>2 DEF StepInv, WriteInv, CanGiveUp
<1>5. CanLeave(p, s, e)
  BY <1>2, <1>3, <1>4 DEF CanLeave, CanGiveUp
<1>6. /\ ProcType' /\ StepInv(p)' /\ Others(p) /\ st'[p].call = st[p].call
      /\ Out(p) = "busy" /\ Out(p)' = IF s.did THEN "did" ELSE "busy"
  BY <1>1, <1>5, LeaveStep
<1>7. Answers(p)
  BY <1>6 DEF Answers, CanGiveUp
<1> QED BY <1>6, <1>7, QuietGood

\* It goes on to the locks of its victims.
LEMMA VictimsGood ==
    ASSUME Inv, NEW p \in Procs, pc[p] = "look", UNCHANGED <<tree, locks, env>>,
           NEW s \in Locals, NEW q \in Seq(Inodes), LockAll(p, s, q, "act"),
           s.call = st[p].call, s.n = st[p].n, s.n2 = st[p].n2,
           s.d = st[p].d, s.d2 = st[p].d2, s.trap = st[p].trap, s.brk = st[p].brk,
           (s.did <=> st[p].did), s.call = "link" => s.old = st[p].old,
           s.call \notin Opens, p \in writers, FoundOK(s),
           \A i \in Victims(s) : \E k \in 1 .. Len(q) : q[k] = i
    PROVE  Good(p)
<1>1. TypeInv /\ StepInv(p)
  BY DEF Inv
<1>2. /\ Directories' = Directories /\ kind' = kind /\ child' = child /\ dead' = dead
      /\ up' = up /\ writers' = writers /\ flatfs_spinlock' = flatfs_spinlock
      /\ owner' = owner /\ rename_mutex' = rename_mutex
  BY TreeKept DEF tree, env, locks
<1>3. PICK t : t = PutTodo(s, q, "act")
  OBVIOUS
<1>4. "act" \in Places
  BY DEF Places
<1>5. PICK w : w = IF q = <<>> THEN "act" ELSE "lock"
  OBVIOUS
<1>6. ProcType' /\ Others(p) /\ pc'[p] = w /\ st'[p] = t
  BY <1>1, <1>3, <1>4, <1>5, LockAllMoves
<1>7. /\ t \in Locals /\ t.todo = q /\ t.then = "act" /\ t.call = s.call /\ t.d = s.d
      /\ t.n = s.n /\ t.d2 = s.d2 /\ t.n2 = s.n2 /\ t.old = s.old /\ t.new = s.new
      /\ t.trap = s.trap /\ t.brk = s.brk /\ (t.did <=> s.did)
  BY <1>3, <1>4, SetTodo
<1>8. st[p].call # "tmpfile" /\ st[p].brk = None /\ ~st[p].did
  BY <1>1 DEF StepInv, CallInv, DidInv
<1>9. /\ t.d \in Directories' /\ t.d2 \in Directories' /\ t.n \in Names
      /\ t.call \in Renames => t.n2 \in Names
      /\ t.call = "link" => t.old \in Inodes /\ kind'[t.old] # "free"
  <2>1. /\ st[p].d \in Directories /\ st[p].d2 \in Directories /\ st[p].n \in Names
        /\ st[p].call \in Renames => st[p].n2 \in Names
        /\ st[p].call = "link" => st[p].old \in Inodes /\ kind[st[p].old] # "free"
    BY <1>1, <1>8 DEF StepInv, NameInv, Opens, Renames
  <2> QED BY <1>2, <1>7, <2>1
<1>10. \A i \in Parents(t) : owner'[i] = p
  <2>1. \A i \in Parents(st[p]) : owner[i] = p
    BY <1>1, <1>8 DEF StepInv, HoldInv, Opens
  <2> QED BY <1>2, <1>7, <2>1 DEF Parents
<1>11. \A i \in Victims(t)' : w = "lock" /\ InTodo(i, t)
  <2>1. Victims(t)' = Victims(s)
    BY <1>2, <1>7 DEF Victims, IsDir
  <2>2. \A k \in 1 .. Len(q) : q # <<>>
    OBVIOUS
  <2>3. \A i \in Victims(s) : w = "lock" /\ InTodo(i, t)
    BY <1>5, <1>7, <2>2 DEF InTodo
  <2> QED BY <2>1, <2>3
<1>12. FoundOK(t)'
  BY <1>2, <1>7 DEF FoundOK, FreeName, IsDir
<1>13. t.call \in Renames /\ t.d # t.d2 => rename_mutex' = p /\ TrapOK(t)'
  <2>1. TrapOK(t)' <=> TrapOK(st[p])
    BY <1>2, <1>7 DEF TrapOK, Above
  <2> QED BY <1>1, <1>2, <1>7, <2>1 DEF StepInv, TrapInv
<1>14. flatfs_spinlock' # p
  BY <1>1, <1>2 DEF StepInv, LockInv
<1>15. w \in {"lock", "act"} /\ (w = "lock" => q # <<>>)
  BY <1>5
<1>16. CanAct(p, w, t)
  BY <1>2, <1>7, <1>8, <1>9, <1>10, <1>11, <1>12, <1>13, <1>14, <1>15 DEF CanAct
<1>17. StepInv(p)' /\ Answers(p)
  BY <1>6, <1>7, <1>15, <1>16, ActStep
<1> QED BY <1>6, <1>17, QuietGood

LEMMA LookCreateGood ==
    ASSUME Inv, NEW p \in Procs, LookCreate(p)
    PROVE  Good(p)
<1> DEFINE s == st[p]
<1>1. pc[p] = "look" /\ s.call \in Creates \union {"link"} /\ UNCHANGED <<tree, locks, env>>
  BY DEF LookCreate
<1>2. PICK e : e = IF s.d \in dead THEN "ENOENT"
                   ELSE IF child[s.d][s.n] # None THEN "EEXIST"
                   ELSE IF p \notin writers THEN "EROFS"
                   ELSE IF s.call = "link" /\ IsDir(s.old) THEN "EPERM" ELSE ""
  OBVIOUS
<1>3. IF e # "" THEN Leave(p, s, e)
      ELSE LockAll(p, s, IF s.call = "link" THEN <<s.old>> ELSE <<>>, "act")
  BY <1>2 DEF LookCreate
<1>4. TypeInv /\ StepInv(p)
  BY DEF Inv
<1>5. s \in Locals /\ ~s.did /\ s.brk = None
  BY <1>1, <1>4, LocalsOf DEF StepInv, DidInv
<1>6. CASE e # ""
  <2>1. e \in Errors
    BY <1>2 DEF Errors
  <2>2. CanGiveUp(p, s, e)
    BY <1>5, <1>6 DEF CanGiveUp
  <2> QED BY <1>1, <1>3, <1>5, <1>6, <2>1, <2>2, GiveUpGood
<1>7. CASE e = ""
  <2>1. /\ s.d \notin dead /\ child[s.d][s.n] = None /\ p \in writers
        /\ ~(s.call = "link" /\ IsDir(s.old))
    BY <1>2, <1>7
  <2>2. PICK q : q = IF s.call = "link" THEN <<s.old>> ELSE <<>>
    OBVIOUS
  <2>3. s.call = "link" => s.old \in Inodes
    BY <1>1, <1>4 DEF StepInv, NameInv
  <2>4. q \in Seq(Inodes)
    BY <2>2, <2>3
  <2>5. LockAll(p, s, q, "act")
    BY <1>3, <1>7, <2>2
  <2>6. s.call \notin Removes /\ s.call \notin Renames /\ s.call \notin Opens
    BY <1>1 DEF Creates, Removes, Renames, Opens
  <2>7. FoundOK(s)
    BY <2>1, <2>6 DEF FoundOK, FreeName
  <2>8. Victims(s) = {}
    BY <1>1 DEF Victims, Creates
  <2> QED BY <1>1, <1>5, <2>1, <2>4, <2>5, <2>6, <2>7, <2>8, VictimsGood
<1> QED BY <1>6, <1>7

LEMMA MayDelete ==
    ASSUME NEW d, NEW v, NEW b \in BOOLEAN
    PROVE  /\ may_delete(d, v, b) \in Errors
           /\ may_delete(d, v, b) = "" => v # None /\ (b <=> IsDir(v)) /\ d \notin dead
BY DEF may_delete, Errors, IsDir

LEMMA LookRemoveGood ==
    ASSUME Inv, NEW p \in Procs, LookRemove(p)
    PROVE  Good(p)
<1> DEFINE s == st[p]
           victim == child[st[p].d][st[p].n]
<1>1. pc[p] = "look" /\ s.call \in Removes /\ UNCHANGED <<tree, locks, env>>
  BY DEF LookRemove
<1>2. PICK e : e = may_delete(s.d, victim, s.call = "rmdir")
  OBVIOUS
<1>3. IF e # "" THEN Leave(p, s, e)
      ELSE LockAll(p, [s EXCEPT !.old = victim], <<victim>>, "act")
  BY <1>2 DEF LookRemove
<1>4. TypeInv /\ StepInv(p)
  BY DEF Inv
<1>5. s \in Locals /\ ~s.did /\ s.brk = None
  BY <1>1, <1>4, LocalsOf DEF StepInv, DidInv
<1>6. e \in Errors
  BY <1>2, MayDelete
<1>7. CASE e # ""
  <2>1. CanGiveUp(p, s, e)
    BY <1>5, <1>7 DEF CanGiveUp
  <2> QED BY <1>1, <1>3, <1>5, <1>6, <1>7, <2>1, GiveUpGood
<1>8. CASE e = ""
  <2>1. victim # None /\ (s.call = "rmdir" <=> IsDir(victim)) /\ s.d \notin dead
    BY <1>2, <1>8, MayDelete
  <2>2. s.d \in Inodes /\ s.n \in Names
    BY <1>1, <1>4, LocalsOf DEF StepInv, NameInv, Removes, Opens
  <2>3. victim \in Inodes /\ victim \in InodeOrNone
    BY <1>4, <2>1, <2>2 DEF TypeInv, TreeType, InodeOrNone
  <2>4. PICK t : t = PutOld(s, victim)
    OBVIOUS
  <2>5. /\ t \in Locals /\ t.old = victim /\ t.call = s.call /\ t.d = s.d
        /\ t.n = s.n /\ t.d2 = s.d2 /\ t.n2 = s.n2 /\ t.trap = s.trap /\ t.brk = s.brk
        /\ (t.did <=> s.did)
    BY <1>5, <2>3, <2>4, SetOld
  <2>6. PICK q : q = <<victim>>
    OBVIOUS
  <2>7. q \in Seq(Inodes) /\ 1 \in 1 .. Len(q) /\ q[1] = victim
    BY <2>3, <2>6
  <2>8. LockAll(p, t, q, "act")
    BY <1>3, <1>8, <2>4, <2>6 DEF PutOld
  <2>9. p \in writers
    BY <1>1, <1>4 DEF StepInv, WriteInv
  <2>10. /\ t.call \notin Opens /\ t.call \notin Creates \union {"link"}
         /\ t.call \notin Renames /\ t.call \in Removes
    BY <1>1, <2>5 DEF Creates, Removes, Renames, Opens
  <2>11. FoundOK(t)
    BY <2>1, <2>5, <2>10 DEF FoundOK
  <2>12. Victims(t) \subseteq {victim}
    BY <2>5, <2>10 DEF Victims, Renames
  <2> QED BY <1>1, <2>5, <2>7, <2>8, <2>9, <2>10, <2>11, <2>12, VictimsGood
<1> QED BY <1>7, <1>8

LEMMA TwoNonDirectories ==
    ASSUME NEW x \in InodeOrNone, NEW y \in InodeOrNone
    PROVE  LET q == lock_two_nondirectories(x, y) IN
           /\ q \in Seq(Inodes)
           /\ \A k \in 1 .. Len(q) : q[k] \in {x, y} \ Directories
           /\ \A j, k \in 1 .. Len(q) : j < k => q[j] < q[k]
<1> DEFINE both == {x, y} \ ({None} \union Directories)
           first == CHOOSE i \in both : \A j \in both : i <= j
           second == CHOOSE i \in both : i # first
<1>0. PICK q : q = lock_two_nondirectories(x, y)
  OBVIOUS
<1> SUFFICES /\ q \in Seq(Inodes)
             /\ \A k \in 1 .. Len(q) : q[k] \in {x, y} \ Directories
             /\ \A j, k \in 1 .. Len(q) : j < k => q[j] < q[k]
  BY <1>0
<1>1. both \subseteq Inodes /\ \A i \in both : i = x \/ i = y
  BY DEF InodeOrNone
<1>1d. \A i \in both : i \notin Directories
  OBVIOUS
<1>2. \A i \in Inodes : i \in Int
  <2>1. N \in Nat
    BY NameiAssumption
  <2> QED BY <2>1 DEF Inodes
<1>3. CASE both = {}
  <2>1. Cardinality(both) # 1
    BY <1>3, FS_EmptySet
  <2>2. q = <<>>
    BY <1>0, <1>3, <2>1 DEF lock_two_nondirectories
  <2> QED BY <2>2
<1>4. CASE both # {}
  <2>1. \E i \in both : \A j \in both : i <= j
    <3>1. PICK a \in both : TRUE
      BY <1>4
    <3>2. CASE \E b \in both : ~(a <= b)
      <4>1. PICK b \in both : ~(a <= b)
        BY <3>2
      <4>2. a \in Int /\ b \in Int /\ b <= a /\ b <= b /\ a # b
        BY <1>1, <1>2, <4>1
      <4>3. \A j \in both : j = a \/ j = b
        BY <1>1, <4>2
      <4> QED BY <4>2, <4>3
    <3> QED BY <3>1, <3>2
  <2>2. first \in both /\ \A j \in both : first <= j
    BY <2>1
  <2>3. CASE Cardinality(both) = 1
    <3>1. q = <<first>>
      BY <1>0, <1>4, <2>3 DEF lock_two_nondirectories
    <3> HIDE DEF first
    <3>2. first \in Inodes /\ first \in {x, y} \ Directories
      BY <1>1, <1>1d, <2>2
    <3> QED BY <3>1, <3>2
  <2>4. CASE Cardinality(both) # 1
    <3>1. q = <<first, second>>
      BY <1>0, <1>4, <2>4 DEF lock_two_nondirectories
    <3>2. both # {first}
      BY <2>4, FS_Singleton
    <3>3. \E i \in both : i # first
      BY <2>2, <3>2
    <3>4. second \in both /\ second # first
      BY <3>3
    <3> HIDE DEF first, second
    <3>5. /\ first \in Inodes /\ second \in Inodes /\ first <= second
          /\ first \in {x, y} \ Directories /\ second \in {x, y} \ Directories
      BY <1>1, <1>1d, <2>2, <3>4
    <3>6. first < second
      BY <1>2, <3>4, <3>5
    <3>7. Len(q) = 2 /\ q[1] = first /\ q[2] = second /\ q \in Seq(Inodes)
      BY <3>1, <3>5
    <3>8. \A k \in 1 .. Len(q) : k = 1 \/ k = 2
      BY <3>7
    <3>9. \A j, k \in 1 .. Len(q) : j < k => j = 1 /\ k = 2
      BY <3>7
    <3> QED BY <3>5, <3>6, <3>7, <3>8, <3>9
  <2> QED BY <2>3, <2>4
<1> QED BY <1>3, <1>4

LEMMA RenameErrors ==
    ASSUME NEW s, NEW x, NEW y
    PROVE  /\ RenameError(s, x, y) \in Errors /\ vfs_rename_error(s, x, y) \in Errors
           /\ RenameError(s, x, y) = "" =>
                /\ x # None /\ x # s.trap /\ (y # None => y # s.trap)
                /\ (s.call = "noreplace" => y = None) /\ (s.call = "exchange" => y # None)
           /\ vfs_rename_error(s, x, y) = "" =>
                /\ s.d \notin dead /\ s.d2 \notin dead
                /\ s.call # "exchange" /\ y # None => (IsDir(x) <=> IsDir(y))
<1>1. RenameError(s, x, y) \in Errors
  BY DEF RenameError, Errors
<1>2. RenameError(s, x, y) = "" =>
        /\ x # None /\ x # s.trap /\ (y # None => y # s.trap)
        /\ (s.call = "noreplace" => y = None) /\ (s.call = "exchange" => y # None)
  BY DEF RenameError
<1>3. IsDir(x) \in BOOLEAN /\ IsDir(y) \in BOOLEAN
  BY DEF IsDir
<1>4. PICK gone : gone = may_delete(s.d, x, IsDir(x))
  OBVIOUS
<1>5. PICK b \in BOOLEAN : b = IF s.call = "exchange" THEN IsDir(y) ELSE IsDir(x)
  BY <1>3
<1>6. PICK other : other = may_delete(s.d2, y, b)
  OBVIOUS
<1>7. /\ gone \in Errors /\ (gone = "" => s.d \notin dead)
      /\ other \in Errors /\ (other = "" => (b <=> IsDir(y)) /\ s.d2 \notin dead)
  BY <1>3, <1>4, <1>6, MayDelete
<1>8. vfs_rename_error(s, x, y) =
        IF gone # "" THEN gone
        ELSE IF y = None THEN IF s.d2 \in dead THEN "ENOENT" ELSE ""
        ELSE other
  BY <1>4, <1>5, <1>6 DEF vfs_rename_error
<1>9. vfs_rename_error(s, x, y) \in Errors
  BY <1>7, <1>8 DEF Errors
<1>10. vfs_rename_error(s, x, y) = "" =>
         /\ s.d \notin dead /\ s.d2 \notin dead
         /\ s.call # "exchange" /\ y # None => (IsDir(x) <=> IsDir(y))
  BY <1>5, <1>7, <1>8
<1> QED BY <1>1, <1>2, <1>9, <1>10

LEMMA LookRenameGood ==
    ASSUME Inv, NEW p \in Procs, LookRename(p)
    PROVE  Good(p)
<1> DEFINE s == st[p]
<1>1. pc[p] = "look" /\ s.call \in Renames /\ UNCHANGED <<tree, locks, env>>
  BY DEF LookRename
<1>2. PICK source : source = child[s.d][s.n]
  OBVIOUS
<1>3. PICK target : target = child[s.d2][s.n2]
  OBVIOUS
<1>4. PICK e1 : e1 = RenameError(s, source, target)
  OBVIOUS
<1>5. PICK e2 : e2 = vfs_rename_error(s, source, target)
  OBVIOUS
<1>6. PICK q : q = IF ~IsDir(source) \/ s.call = "exchange"
                   THEN lock_two_nondirectories(source, target)
                   ELSE IF target # None THEN <<target>> ELSE <<>>
  OBVIOUS
<1>7. PICK t : t = PutBoth(s, source, target)
  OBVIOUS
<1>8. IF source = target /\ e1 = "" THEN Leave(p, s, "")
      ELSE IF (IF e1 # "" THEN e1 ELSE e2) # "" THEN Leave(p, s, IF e1 # "" THEN e1 ELSE e2)
      ELSE LockAll(p, t, q, "act")
  BY <1>2, <1>3, <1>4, <1>5, <1>6, <1>7 DEF LookRename, PutBoth
<1>9. TypeInv /\ StepInv(p)
  BY DEF Inv
<1>10. s \in Locals /\ ~s.did /\ s.brk = None /\ s.d \in Inodes /\ s.d2 \in Inodes
  BY <1>1, <1>9, LocalsOf DEF StepInv, DidInv
<1>11. s.n \in Names /\ s.n2 \in Names
  BY <1>1, <1>9 DEF StepInv, NameInv, Renames, Opens
<1>12. source \in InodeOrNone /\ target \in InodeOrNone
  BY <1>2, <1>3, <1>9, <1>10, <1>11 DEF TypeInv, TreeType
<1>13. e1 \in Errors /\ e2 \in Errors
  BY <1>4, <1>5, RenameErrors
<1>14. CASE source = target /\ e1 = ""
  <2>1. Leave(p, s, e1)
    BY <1>8, <1>14
  <2>2. source # None /\ (s.call = "noreplace" => target = None)
    BY <1>4, <1>14, RenameErrors
  <2>3. s.call \in {"rename", "exchange"}
    BY <1>1, <1>14, <2>2 DEF Renames
  <2>4. CanGiveUp(p, s, e1)
    BY <1>10, <2>3 DEF CanGiveUp
  <2> QED BY <1>1, <1>10, <1>13, <2>1, <2>4, GiveUpGood
<1>15. CASE ~(source = target /\ e1 = "")
  <2>1. ASSUME NEW e \in Errors, e # "", Leave(p, s, e) PROVE Good(p)
    <3>1. CanGiveUp(p, s, e)
      BY <1>10, <2>1 DEF CanGiveUp
    <3> QED BY <1>1, <1>10, <2>1, <3>1, GiveUpGood
  <2>2. CASE e1 # ""
    BY <1>8, <1>13, <1>15, <2>1, <2>2
  <2>3. CASE e1 = "" /\ e2 # ""
    BY <1>8, <1>13, <1>15, <2>1, <2>3
  <2>4. CASE e1 = "" /\ e2 = ""
    <3>1. LockAll(p, t, q, "act")
      BY <1>8, <1>15, <2>4
    <3>2. /\ t \in Locals /\ t.old = source /\ t.new = target /\ t.call = s.call /\ t.d = s.d
          /\ t.n = s.n /\ t.d2 = s.d2 /\ t.n2 = s.n2 /\ t.trap = s.trap /\ t.brk = s.brk
          /\ (t.did <=> s.did)
      BY <1>7, <1>10, <1>12, SetBoth
    <3>3. /\ source # None /\ source # s.trap /\ (target # None => target # s.trap)
          /\ (s.call = "noreplace" => target = None)
          /\ (s.call = "exchange" => target # None)
      BY <1>4, <2>4, RenameErrors
    <3>4. /\ s.d \notin dead /\ s.d2 \notin dead
          /\ s.call # "exchange" /\ target # None => (IsDir(source) <=> IsDir(target))
      BY <1>5, <2>4, RenameErrors
    <3>5. q \in Seq(Inodes)
      <4>1. target # None => target \in Inodes
        BY <1>12 DEF InodeOrNone
      <4>2. CASE ~IsDir(source) \/ s.call = "exchange"
        BY <1>6, <1>12, <4>2, TwoNonDirectories
      <4>3. CASE ~(~IsDir(source) \/ s.call = "exchange")
        BY <1>6, <4>1, <4>3
      <4> QED BY <4>2, <4>3
    <3>6. /\ t.call \notin Opens /\ t.call \notin Creates \union {"link"}
          /\ t.call \notin Removes /\ t.call \in Renames /\ t.call # "rmdir"
      BY <1>1, <3>2 DEF Creates, Removes, Renames, Opens
    <3>7. source # target
      BY <1>15, <2>4
    <3>8. FoundOK(t)
      BY <1>2, <1>3, <3>2, <3>3, <3>4, <3>6, <3>7 DEF FoundOK
    <3>9. \A i \in Victims(t) : \E k \in 1 .. Len(q) : q[k] = i
      <4> SUFFICES ASSUME NEW i \in Victims(t) PROVE \E k \in 1 .. Len(q) : q[k] = i
        OBVIOUS
      <4>1. i = target /\ IsDir(target) /\ s.call # "exchange"
        BY <3>2, <3>6 DEF Victims
      <4>2. target # None
        BY <4>1 DEF IsDir
      <4>3. q = <<target>>
        BY <1>6, <3>4, <4>1, <4>2
      <4>4. 1 \in 1 .. Len(q) /\ q[1] = target
        BY <4>3
      <4> QED BY <4>1, <4>4
    <3>10. p \in writers
      BY <1>1, <1>9 DEF StepInv, WriteInv
    <3> QED BY <1>1, <3>1, <3>2, <3>5, <3>6, <3>8, <3>9, <3>10, VictimsGood
  <2> QED BY <2>2, <2>3, <2>4
<1> QED BY <1>14, <1>15

\* A place before flatfs_spinlock, or under it.
CanMake(p, w, t) ==
    /\ t.d \in Directories' /\ t.d2 \in Directories'
    /\ t.call \in {"creat", "excl"} /\ t.n \in Names
    /\ p \in writers' /\ owner'[t.d] = p
    /\ FreeName(t)'
    /\ flatfs_spinlock' = p => w = "create"
    /\ t.brk = None /\ ~t.did
    /\ pc[p] # "done" /\ t.call = st[p].call /\ ~st[p].did

LEMMA MakeStep ==
    ASSUME NEW p \in Procs, NEW t \in Locals, NEW w \in {"spin", "create"},
           pc'[p] = w, st'[p] = t, CanMake(p, w, t)
    PROVE  StepInv(p)' /\ Answers(p)
<1>1. ~Found(p)' /\ Creating(p)' /\ Inside(p)'
  BY DEF Found, Creating, Inside
<1>2. CallInv(p)'
  BY <1>1 DEF CallInv, CanMake
<1>3. NameInv(p)'
  BY <1>1 DEF NameInv, CanMake, Opens
<1>4. LockInv(p)' /\ WriteInv(p)'
  BY <1>1 DEF LockInv, WriteInv, CanMake, Removes, Renames
<1>5. HoldInv(p)'
  BY <1>1 DEF HoldInv, CanMake, Parents, Renames
<1>6. ActInv(p)'
  BY <1>1 DEF ActInv, CanMake, FreeName
<1>7. TrapInv(p)'
  BY DEF TrapInv
<1>8. DidInv(p)'
  BY DEF DidInv, CanMake
<1>9. Answers(p)
  BY DEF Answers, Out, CanMake
<1> QED BY <1>2, <1>3, <1>4, <1>5, <1>6, <1>7, <1>8, <1>9 DEF StepInv

LEMMA LookOpenGood ==
    ASSUME Inv, NEW p \in Procs, LookOpen(p)
    PROVE  Good(p)
<1> DEFINE s == st[p]
<1>1. pc[p] = "look" /\ s.call \in Opens /\ UNCHANGED <<tree, locks, env>>
  BY DEF LookOpen
<1>2. PICK x : x = child[s.d][s.n]
  OBVIOUS
<1>3. IF s.d \in dead THEN Leave(p, s, "ENOENT")
      ELSE IF x # None \/ s.call \in {"open", "trunc"}
      THEN Leave(p, PutNew(s, x), "")
      ELSE IF p \notin writers THEN Leave(p, s, "EROFS")
      ELSE Goto(p, "spin") /\ UNCHANGED st
  BY <1>2 DEF LookOpen, PutNew
<1>4. TypeInv /\ StepInv(p)
  BY DEF Inv
<1>5. s \in Locals /\ ~s.did /\ s.brk = None /\ s.d \in Inodes
  BY <1>1, <1>4, LocalsOf DEF StepInv, DidInv
<1>6. s.n \in Names /\ s.d \in Directories /\ s.d2 \in Directories
  BY <1>1, <1>4 DEF StepInv, NameInv
<1>7. x \in InodeOrNone
  BY <1>2, <1>4, <1>5, <1>6 DEF TypeInv, TreeType
<1>8. ASSUME NEW e \in Errors, Leave(p, s, e) PROVE Good(p)
  <2>1. CanGiveUp(p, s, e)
    BY <1>1, <1>5 DEF CanGiveUp
  <2> QED BY <1>1, <1>5, <1>8, <2>1, GiveUpGood
<1>9. CASE s.d \in dead
  <2>1. "ENOENT" \in Errors
    BY DEF Errors
  <2> QED BY <1>3, <1>8, <1>9, <2>1
<1>10. CASE s.d \notin dead /\ (x # None \/ s.call \in {"open", "trunc"})
  <2>1. PICK e : e = ""
    OBVIOUS
  <2>2. e \in Errors
    BY <2>1 DEF Errors
  <2>3. PICK t : t = PutNew(s, x)
    OBVIOUS
  <2>4. Leave(p, t, e)
    BY <1>3, <1>10, <2>1, <2>3
  <2>5. /\ t \in Locals /\ t.call = s.call /\ t.d = s.d /\ t.n = s.n /\ t.d2 = s.d2
        /\ t.n2 = s.n2 /\ t.brk = s.brk /\ (t.did <=> s.did)
    BY <1>5, <1>7, <2>3, SetNew
  <2>6. CanGiveUp(p, t, e)
    BY <1>1, <1>5, <2>5 DEF CanGiveUp
  <2> QED BY <1>1, <2>2, <2>4, <2>5, <2>6, GiveUpGood
<1>11. CASE /\ s.d \notin dead /\ x = None /\ s.call \notin {"open", "trunc"}
            /\ p \notin writers
  <2>1. "EROFS" \in Errors
    BY DEF Errors
  <2> QED BY <1>3, <1>8, <1>11, <2>1
<1>12. CASE /\ s.d \notin dead /\ x = None /\ s.call \notin {"open", "trunc"}
            /\ p \in writers
  <2>1. pc' = [pc EXCEPT ![p] = "spin"] /\ st' = [st EXCEPT ![p] = st[p]]
    <3>1. pc' = [pc EXCEPT ![p] = "spin"] /\ st' = st
      BY <1>3, <1>12 DEF Goto
    <3> QED BY <1>4, <3>1 DEF TypeInv, ProcType
  <2>2. ProcType' /\ pc'[p] = "spin" /\ st'[p] = s /\ Others(p)
    BY <1>4, <1>5, <2>1, Moved DEF TypeInv, Pcs
  <2>3. /\ Directories' = Directories /\ child' = child /\ dead' = dead /\ writers' = writers
        /\ owner' = owner /\ flatfs_spinlock' = flatfs_spinlock
    BY <1>1, TreeKept DEF tree, env, locks
  <2>4. owner[s.d] = p
    BY <1>1, <1>4, <1>12 DEF StepInv, HoldInv, Opens, Parents
  <2>6. flatfs_spinlock' # p
    BY <1>1, <1>4, <2>3 DEF StepInv, LockInv
  <2>7. s.call \in {"creat", "excl"}
    BY <1>1, <1>12 DEF Opens
  <2>9. child'[s.d][s.n] = None /\ s.d \notin dead'
    BY <1>2, <1>12, <2>3
  <2>10. PICK t : t = st[p]
    OBVIOUS
  <2>11. CanMake(p, "spin", t)
    BY <1>1, <1>5, <1>6, <1>12, <2>2, <2>3, <2>4, <2>6, <2>7, <2>9, <2>10 DEF CanMake, FreeName
  <2>12. StepInv(p)' /\ Answers(p)
    BY <1>5, <2>2, <2>10, <2>11, MakeStep
  <2> QED BY <1>1, <2>2, <2>12, QuietGood
<1> QED BY <1>9, <1>10, <1>11, <1>12

LEMMA SpinLockGood ==
    ASSUME Inv, NEW p \in Procs, SpinLock(p)
    PROVE  Good(p)
<1> DEFINE s == st[p]
<1>1. /\ pc[p] = "spin" /\ flatfs_spinlock = None /\ flatfs_spinlock' = p
      /\ pc' = [pc EXCEPT ![p] = "create"] /\ st' = st
      /\ UNCHANGED <<tree, owner, readers, rename_mutex, env>>
  BY DEF SpinLock, Goto
<1>2. TypeInv /\ StepInv(p) /\ MountInv
  BY DEF Inv
<1>3. s \in Locals /\ ~s.did /\ s.brk = None
  BY <1>1, <1>2, LocalsOf DEF StepInv, DidInv
<1>4. ProcType' /\ pc'[p] = "create" /\ st'[p] = s /\ Others(p)
  <2>1. st' = [st EXCEPT ![p] = st[p]]
    BY <1>1, <1>2 DEF TypeInv, ProcType
  <2> QED BY <1>1, <1>2, <1>3, <2>1, Moved DEF TypeInv, Pcs
<1>5. /\ Directories' = Directories /\ child' = child /\ dead' = dead /\ writers' = writers
      /\ owner' = owner /\ mount' = mount
  BY <1>1, TreeKept DEF tree, env, around
<1>6. Creating(p) /\ s.call \in {"creat", "excl"} /\ s.n \in Names
  BY <1>1, <1>2 DEF Creating, StepInv, CallInv, NameInv, Opens
<1>7. s.d \in Directories /\ s.d2 \in Directories /\ p \in writers
  BY <1>1, <1>2, <1>6 DEF StepInv, NameInv, WriteInv
<1>8. owner[s.d] = p /\ FreeName(s)
  BY <1>2, <1>6 DEF StepInv, HoldInv, ActInv, Parents
<1>9. PICK t : t = st[p]
  OBVIOUS
<1>10. CanMake(p, "create", t)
  BY <1>1, <1>3, <1>5, <1>6, <1>7, <1>8, <1>9 DEF CanMake, FreeName
<1>11. StepInv(p)' /\ Answers(p)
  BY <1>3, <1>4, <1>9, <1>10, MakeStep
<1>12. LockType' /\ LocksKept(p)
  <2>1. LockType'
    BY <1>1, <1>2 DEF TypeInv, LockType
  <2>2. LocksKept(p)
    BY <1>1, <1>5 DEF LocksKept
  <2> QED BY <2>1, <2>2
<1>13. writers' \subseteq Procs /\ MountInv'
  BY <1>2, <1>5 DEF TypeInv, EnvType, MountInv
<1> QED BY <1>1, <1>4, <1>11, <1>12, <1>13, LockGood DEF env

-----------------------------------------------------------------------------
(* The steps: the call of the file system *)

\* What a step of p that changes the tree leaves to the others.
Granted(p) ==
    /\ \A i \in Inodes : kind[i] # "free" => kind'[i] = kind[i]
    /\ \A i \in Inodes : owner[i] # p => child'[i] = child[i] /\ (i \in dead' => i \in dead)
    /\ rename_mutex # p => \A i \in Directories : up'[i] = up[i]

\* A call has acted, and leaves.
LEMMA ActGood ==
    ASSUME Inv, NEW p \in Procs, pc[p] \in {"act", "create"},
           UNCHANGED <<owner, readers, rename_mutex, env>>,
           flatfs_spinlock' = flatfs_spinlock \/ flatfs_spinlock' = None,
           flatfs_spinlock' # p, TreeType', TreeInv', Granted(p),
           NEW t \in Locals, t.call = st[p].call, t.n = st[p].n, t.n2 = st[p].n2,
           t.d = st[p].d, t.d2 = st[p].d2, t.brk = None, t.did,
           t.call \notin {"open", "trunc"}, t.call \in Opens => t.new \in Inodes, Leave(p, t, ""), Abstract!Effect(st[p].call)
    PROVE  Good(p)
<1>1. TypeInv /\ StepInv(p) /\ MountInv
  BY DEF Inv
<1>2. /\ owner' = owner /\ readers' = readers /\ rename_mutex' = rename_mutex
      /\ writers' = writers /\ mount' = mount /\ admin' = admin /\ deleg' = deleg
  BY DEF env, around
<1>3. Directories \subseteq Directories'
  BY DEF Directories, Granted
<1>4. t.call \in Removes \union Renames => p \in writers'
  BY <1>1, <1>2 DEF StepInv, WriteInv, CallInv, Creating, Removes, Renames
<1>5. PICK e : e = ""
  OBVIOUS
<1>6. CanLeave(p, t, e)
  BY <1>3, <1>4, <1>5 DEF CanLeave
<1>7. e \in Errors /\ Leave(p, t, e)
  BY <1>5 DEF Errors
<1>8. /\ ProcType' /\ StepInv(p)' /\ Others(p) /\ st'[p].call = st[p].call
      /\ Out(p) = "busy" /\ Out(p)' = "did"
  BY <1>1, <1>6, <1>7, LeaveStep
<1>9. LockType'
  BY <1>1, <1>2 DEF TypeInv, LockType
<1>10. EnvType' /\ MountInv'
  BY <1>1, <1>2 DEF TypeInv, EnvType, MountInv
<1>11. TypeInv'
  BY <1>8, <1>9, <1>10 DEF TypeInv
<1>12. ASSUME NEW q \in Procs \ {p} PROVE Rely(q)
  <2>1. pc'[q] = pc[q] /\ st'[q] = st[q]
    BY <1>8 DEF Others
  <2>2. flatfs_spinlock' = q => flatfs_spinlock = q
    BY NameiAssumption
  <2>3. \A i \in Inodes : owner[i] = q => child'[i] = child[i] /\ (i \in dead' => i \in dead)
    BY DEF Granted
  <2>4. rename_mutex = q => \A i \in Directories : up'[i] = up[i]
    BY DEF Granted
  <2>5. \A i \in Inodes : kind[i] # "free" => kind'[i] = kind[i]
    BY DEF Granted
  <2> QED BY <1>2, <2>1, <2>2, <2>3, <2>4, <2>5 DEF Rely
<1> QED BY <1>8, <1>10, <1>11, <1>12 DEF Good, Commits

\* What a free inode is not.
LEMMA FreeInode ==
    ASSUME TreeType, TreeInv, NEW i \in Inodes, kind[i] = "free"
    PROVE  /\ i \notin Directories /\ i \notin dead /\ i # Root
           /\ \A d \in Inodes, n \in Names : child[d][n] # i
           /\ \A n \in Names : child[i][n] = None
           /\ \A d \in Directories : up[d] # i
<1>1. i \notin Directories
  BY DEF Directories
<1>2. i \notin dead /\ \A d \in Directories : up[d] # i
  BY <1>1 DEF TreeInv, UpInv
<1>3. i # Root
  BY <1>1, RootIsDirectory DEF TreeInv
<1>4. None \notin Inodes
  BY NameiAssumption
<1>5. \A d \in Inodes, n \in Names : child[d][n] # i
  BY <1>4, NamedInUse DEF TreeInv
<1>6. \A n \in Names : child[i][n] = None
  BY <1>1, NamedInUse DEF TreeInv
<1> QED BY <1>1, <1>2, <1>3, <1>5, <1>6

\* Directories may be added below others.
LEMMA UpKept ==
    ASSUME TreeType, TreeType', Abstract!TreeOK, UpInv,
           \A x \in Directories : x \in Directories' /\ up'[x] = up[x],
           \A x \in Directories' \ Directories : up'[x] \in Directories
    PROVE  UpInv'
<1>1. up \in [Inodes -> Inodes] /\ up' \in [Inodes -> Inodes]
  BY DEF TreeType
<1>2. Directories \in SUBSET Inodes /\ Directories' \in SUBSET Inodes
  BY DEF Directories
<1>3. \A x \in Directories : up[x] \in Directories /\ up'[x] = up[x]
  BY DEF UpInv
<1>4. \A x \in Directories : Root \in UpSet(up', x)
  BY <1>1, <1>2, <1>3, UpSetSame, AboveIsUpSet DEF UpInv
<1>5. up'[Root] = Root
  BY <1>3, RootIsDirectory DEF UpInv
<1>6. \A x \in Directories' : up'[x] \in Directories' /\ Root \in UpSet(up', x)
  <2> SUFFICES ASSUME NEW x \in Directories'
               PROVE  up'[x] \in Directories' /\ Root \in UpSet(up', x)
    OBVIOUS
  <2>1. CASE x \in Directories
    BY <1>3, <1>4, <2>1
  <2>2. CASE x \notin Directories
    <3>1. UpSet(up', up'[x]) \subseteq UpSet(up', x)
      BY <1>1, <1>2, UpSetParent
    <3> QED BY <1>4, <2>2, <3>1
  <2> QED BY <2>1, <2>2
<1> QED BY <1>5, <1>6, AboveIsUpSet DEF UpInv

\* A new inode with a name leaves a tree.
LEMMA MakeTree ==
    ASSUME TreeType, TreeInv, NEW d \in Directories, d \notin dead, NEW n \in Names,
           child[d][n] = None, NEW i \in Inodes, kind[i] = "free",
           NEW k \in {"dir", "file", "link"}, kind' = [kind EXCEPT ![i] = k],
           child' = [child EXCEPT ![d][n] = i],
           up' = IF k = "dir" THEN [up EXCEPT ![i] = d] ELSE up,
           body' \in [Inodes -> Names], data' = data, dead' = dead, linkable' = linkable
    PROVE  TreeType' /\ TreeInv'
<1>1. /\ i \notin Directories /\ i \notin dead /\ i # Root
      /\ \A x \in Inodes, m \in Names : child[x][m] # i
      /\ \A m \in Names : child[i][m] = None
      /\ \A x \in Directories : up[x] # i
  BY FreeInode
<1>2. d \in Inodes /\ d # i /\ Directories \subseteq Inodes /\ None \notin Inodes
  BY <1>1, NameiAssumption DEF Directories
<1>3. TreeType'
  <2>1. kind' \in [Inodes -> Kinds]
    BY DEF TreeType, Kinds
  <2>2. child' \in [Inodes -> [Names -> InodeOrNone]]
    BY <1>2 DEF TreeType, InodeOrNone
  <2>3. up' \in [Inodes -> Inodes]
    BY <1>2 DEF TreeType
  <2> QED BY <2>1, <2>2, <2>3 DEF TreeType
<1>4. /\ \A x \in Inodes : kind'[x] = IF x = i THEN k ELSE kind[x]
      /\ \A x \in Inodes, m \in Names :
            child'[x][m] = IF x = d /\ m = n THEN i ELSE child[x][m]
      /\ \A x \in Inodes : up'[x] = IF x = i /\ k = "dir" THEN d ELSE up[x]
  <2>1. \A x \in Inodes : kind'[x] = IF x = i THEN k ELSE kind[x]
    BY DEF TreeType
  <2>2. \A x \in Inodes, m \in Names :
            child'[x][m] = IF x = d /\ m = n THEN i ELSE child[x][m]
    BY <1>2 DEF TreeType
  <2>3. \A x \in Inodes : up'[x] = IF x = i /\ k = "dir" THEN d ELSE up[x]
    BY DEF TreeType
  <2> QED BY <2>1, <2>2, <2>3
<1>5. /\ Directories' = IF k = "dir" THEN Directories \union {i} ELSE Directories
      /\ \A x \in Directories : up'[x] = up[x] /\ up[x] \in Directories
  BY <1>1, <1>2, <1>4 DEF Directories, TreeInv, UpInv
<1>6. UpInv'
  <2>1. k = "dir" => up'[i] = d
    BY <1>4
  <2>2. \A x \in Directories : x \in Directories' /\ up'[x] = up[x]
    BY <1>5
  <2>3. \A x \in Directories' \ Directories : up'[x] \in Directories
    BY <1>5, <2>1
  <2> QED BY <1>3, <2>2, <2>3, UpKept DEF TreeInv
<1>7. Abstract!TreeOK'
  <2>1. Abstract!TreeOK
    BY DEF TreeInv
  <2>2. Abstract!Live(Root)'
    BY <1>1, <1>2, <1>4, <2>1, RootIsDirectory DEF Abstract!TreeOK, Abstract!Live
  <2>3. \A x \in Inodes \ {Root} : kind'[x] = "dir" /\ x \notin dead =>
          /\ up'[x] \in Inodes /\ kind'[up'[x]] = "dir"
          /\ \E m \in Names : child'[up'[x]][m] = x
    <3> SUFFICES ASSUME NEW x \in Inodes \ {Root}, kind'[x] = "dir", x \notin dead
                 PROVE  /\ up'[x] \in Inodes /\ kind'[up'[x]] = "dir"
                        /\ \E m \in Names : child'[up'[x]][m] = x
      OBVIOUS
    <3>1. CASE x = i
      <4>1. k = "dir" /\ up'[x] = d /\ kind'[d] = "dir" /\ child'[d][n] = x
        BY <1>2, <1>4, <3>1 DEF Directories
      <4> QED BY <1>2, <4>1
    <3>2. CASE x # i
      <4>1. kind[x] = "dir" /\ up'[x] = up[x]
        BY <1>4, <3>2
      <4>2. up[x] \in Inodes /\ kind[up[x]] = "dir"
        BY <2>1, <4>1 DEF Abstract!TreeOK, Abstract!Live, TreeType
      <4>3. PICK m \in Names : child[up[x]][m] = x
        BY <2>1, <4>1 DEF Abstract!TreeOK, Abstract!Live
      <4>4. kind'[up[x]] = "dir"
        BY <1>4, <4>2
      <4>5. child'[up[x]][m] = x
        BY <1>2, <1>4, <4>2, <4>3
      <4> QED BY <4>1, <4>2, <4>4, <4>5
    <3> QED BY <3>1, <3>2
  <2>4. ASSUME NEW x \in Inodes, NEW y \in Inodes, NEW m \in Names, NEW l \in Names,
               child'[x][m] # None, kind'[child'[x][m]] = "dir", child'[y][l] = child'[x][m]
        PROVE  x = y /\ m = l /\ x = up'[child'[x][m]]
    <3>1. CASE child'[x][m] = i
      <4>1. x = d /\ m = n /\ y = d /\ l = n
        BY <1>1, <1>4, <2>4, <3>1
      <4>2. k = "dir" /\ up'[i] = d
        BY <1>4, <2>4, <3>1
      <4> QED BY <3>1, <4>1, <4>2
    <3>2. CASE child'[x][m] # i
      <4>1. child'[x][m] = child[x][m] /\ child'[y][l] = child[y][l] /\ child[x][m] \in Inodes
        BY <1>4, <2>4, <3>2 DEF TreeType, InodeOrNone
      <4>2. kind[child[x][m]] = "dir" /\ up'[child[x][m]] = up[child[x][m]]
        BY <1>4, <2>4, <3>2, <4>1
      <4> QED BY <2>1, <2>4, <4>1, <4>2 DEF Abstract!TreeOK
    <3> QED BY <3>1, <3>2
  <2>5. ASSUME NEW x \in Inodes, NEW m \in Names, child'[x][m] # None
        PROVE  /\ kind'[x] = "dir" /\ kind'[child'[x][m]] # "free"
               /\ child'[x][m] \notin dead \union {Root}
    <3>1. CASE child'[x][m] = i
      BY <1>1, <1>2, <1>4, <3>1 DEF Directories
    <3>2. CASE child'[x][m] # i
      <4>1. child'[x][m] = child[x][m]
        BY <1>4, <3>2
      <4>2. /\ child[x][m] \in Inodes /\ kind[child[x][m]] # "free" /\ x \in Directories
            /\ child[x][m] # Root /\ child[x][m] \notin dead
        BY <2>1, <2>5, <4>1, NamedInUse
      <4> QED BY <1>1, <1>4, <3>2, <4>1, <4>2 DEF Directories
    <3> QED BY <3>1, <3>2
  <2> QED BY <2>2, <2>3, <2>4, <2>5 DEF Abstract!TreeOK, Abstract!Live
<1>8. dead' \subseteq Directories'
  BY <1>5 DEF TreeInv
<1> QED BY <1>3, <1>6, <1>7, <1>8 DEF TreeInv

\* A call that acts has the locks on its parents, and what it found.
LEMMA ActHas ==
    ASSUME Inv, NEW p \in Procs, Found(p) \/ Creating(p), st[p].call # "tmpfile"
    PROVE  /\ st[p].d \in Directories /\ st[p].d2 \in Directories
           /\ st[p].d \in Inodes /\ st[p].d2 \in Inodes
           /\ st[p].n \in Names /\ (st[p].call \in Renames => st[p].n2 \in Names)
           /\ \A i \in Parents(st[p]) : owner[i] = p
           /\ Found(p) => FoundOK(st[p]) /\ st[p].call \notin Opens
           /\ pc[p] = "act" => \A i \in Victims(st[p]) : owner[i] = p
           /\ Creating(p) => FreeName(st[p]) /\ st[p].call \in {"creat", "excl"}
           /\ ~st[p].did /\ st[p].brk = None
<1>1. TypeInv /\ StepInv(p)
  BY DEF Inv
<1>2. st[p].d \in Inodes /\ st[p].d2 \in Inodes
  BY <1>1, LocalsOf
<1>3. st[p].d \in Directories /\ st[p].d2 \in Directories
  BY <1>1 DEF StepInv, NameInv
<1>4. /\ Found(p) => FoundOK(st[p]) /\ st[p].call \notin Opens
      /\ Creating(p) => FreeName(st[p]) /\ st[p].call \in {"creat", "excl"}
  BY <1>1 DEF StepInv, ActInv, CallInv
<1>5. st[p].n \in Names /\ (st[p].call \in Renames => st[p].n2 \in Names)
  BY <1>1, <1>4 DEF StepInv, NameInv, Found, Creating, Opens, Renames
<1>6. st[p].call \notin {"open", "trunc", "tmpfile"}
  BY <1>4 DEF Opens
<1>7. \A i \in Parents(st[p]) : owner[i] = p
  BY <1>1, <1>6 DEF StepInv, HoldInv
<1>8. pc[p] = "act" => \A i \in Victims(st[p]) : owner[i] = p
  BY <1>1, <1>6 DEF StepInv, HoldInv
<1>9. ~st[p].did /\ st[p].brk = None
  BY <1>1 DEF StepInv, DidInv, Found, Creating
<1> QED BY <1>2, <1>3, <1>4, <1>5, <1>7, <1>8, <1>9

LEMMA MadeGood ==
    ASSUME Inv, NEW p \in Procs, pc[p] \in {"act", "create"}, Found(p) \/ Creating(p),
           UNCHANGED <<owner, readers, rename_mutex, env>>,
           flatfs_spinlock' = flatfs_spinlock \/ flatfs_spinlock' = None,
           flatfs_spinlock' # p, NEW i \in Inodes, NEW k \in {"dir", "file", "link"},
           Fresh(i, k, st[p].d), SetChild(st[p].d, st[p].n, i),
           UNCHANGED <<data, dead, linkable>>,
           \/ k = "dir" /\ st[p].call = "mkdir"
           \/ k = "file" /\ st[p].call \in {"mknod", "creat", "excl"}
           \/ k = "link" /\ st[p].call = "symlink",
           NEW t \in Locals, t.call = st[p].call, t.n = st[p].n, t.n2 = st[p].n2,
           t.d = st[p].d, t.d2 = st[p].d2, t.brk = None, t.did, Leave(p, t, ""),
           t.call \in Opens => t.new \in Inodes
    PROVE  Good(p)
<1>1. PICK d : d = st[p].d
  OBVIOUS
<1>2. PICK n : n = st[p].n
  OBVIOUS
<1>3. PICK c : c = st[p].call
  OBVIOUS
<1>4. c # "tmpfile" /\ c \notin {"open", "trunc"}
  BY <1>3
<1>5. d \in Directories /\ d \in Inodes /\ n \in Names /\ owner[d] = p
  BY <1>1, <1>2, <1>3, <1>4, ActHas DEF Parents
<1>6. child[d][n] = None /\ d \notin dead
  <2>1. Found(p) => FreeName(st[p])
    BY <1>3, <1>4, ActHas DEF FoundOK, Creates, Opens
  <2>2. FreeName(st[p])
    BY <1>3, <1>4, <2>1, ActHas
  <2> QED BY <1>1, <1>2, <2>2 DEF FreeName
<1>7. TreeType /\ TreeInv
  BY DEF Inv, TypeInv
<1>8. /\ kind[i] = "free" /\ kind' = [kind EXCEPT ![i] = k]
      /\ up' = IF k = "dir" THEN [up EXCEPT ![i] = d] ELSE up
      /\ child' = [child EXCEPT ![d][n] = i]
      /\ data' = data /\ dead' = dead /\ linkable' = linkable
  BY <1>1, <1>2 DEF Fresh, SetChild
<1>9. body' \in [Inodes -> Names]
  BY <1>7 DEF Fresh, TreeType
<1>10. TreeType' /\ TreeInv'
  BY <1>5, <1>6, <1>7, <1>8, <1>9, MakeTree
<1>11. Granted(p)
  <2>1. \A x \in Inodes : kind[x] # "free" => kind'[x] = kind[x]
    BY <1>7, <1>8 DEF TreeType
  <2>2. \A x \in Inodes : owner[x] # p => child'[x] = child[x]
    BY <1>5, <1>7, <1>8 DEF TreeType
  <2>3. \A x \in Directories : up'[x] = up[x]
    BY <1>7, <1>8 DEF TreeType, Directories
  <2> QED BY <1>8, <2>1, <2>2, <2>3 DEF Granted
<1>12. Abstract!Effect(c)
  <2>1. Abstract!Make(i, k, d, n)
    BY <1>5, <1>6, <1>8 DEF Abstract!Make, Abstract!Live, Directories
  <2>2. \/ k = "dir" /\ c = "mkdir"
        \/ k = "file" /\ c \in {"mknod", "creat", "excl"}
        \/ k = "link" /\ c = "symlink"
    BY <1>3
  <2> QED BY <1>5, <2>1, <2>2 DEF Abstract!Effect
<1> QED BY <1>3, <1>4, <1>10, <1>11, <1>12, ActGood

LEMMA CreateGood ==
    ASSUME Inv, NEW p \in Procs, vfs_mknod(p) \/ vfs_mkdir(p) \/ vfs_symlink(p)
    PROVE  Good(p)
<1>1. PICK k \in {"dir", "file", "link"}, c \in {"mkdir", "mknod", "symlink"} :
        /\ Create(p, c, k)
        /\ \/ k = "dir" /\ c = "mkdir"
           \/ k = "file" /\ c \in {"mknod", "creat", "excl"}
           \/ k = "link" /\ c = "symlink"
  BY DEF vfs_mknod, vfs_mkdir, vfs_symlink
<1>2. /\ pc[p] = "act" /\ st[p].call = c /\ Leave(p, PutDid(st[p]), "")
      /\ UNCHANGED <<data, dead, linkable, locks, env>>
  BY <1>1 DEF Create, PutDid
<1>3. PICK i \in Inodes : Fresh(i, k, st[p].d) /\ SetChild(st[p].d, st[p].n, i)
  BY <1>1 DEF Create
<1>4. PICK t : t = PutDid(st[p])
  OBVIOUS
<1>5. TypeInv /\ StepInv(p) /\ st[p] \in Locals
  BY LocalsOf DEF Inv
<1>6. /\ t \in Locals /\ t.did /\ t.call = st[p].call /\ t.d = st[p].d /\ t.n = st[p].n
      /\ t.d2 = st[p].d2 /\ t.n2 = st[p].n2 /\ t.brk = st[p].brk
  BY <1>4, <1>5, SetDid
<1>7. Found(p) /\ st[p].brk = None
  BY <1>2, <1>5 DEF Found, StepInv, DidInv
<1>8. /\ UNCHANGED <<owner, readers, rename_mutex, env>> /\ flatfs_spinlock' = flatfs_spinlock
      /\ UNCHANGED <<data, dead, linkable>>
  BY <1>2 DEF locks
<1>9. flatfs_spinlock' # p
  BY <1>2, <1>5, <1>8 DEF StepInv, LockInv
<1>10. \/ k = "dir" /\ st[p].call = "mkdir"
       \/ k = "file" /\ st[p].call \in {"mknod", "creat", "excl"}
       \/ k = "link" /\ st[p].call = "symlink"
  BY <1>1, <1>2
<1>11. /\ Leave(p, t, "") /\ pc[p] \in {"act", "create"} /\ t.brk = None
       /\ t.call \notin Opens
  BY <1>2, <1>4, <1>6, <1>7 DEF Opens
<1> QED BY <1>3, <1>6, <1>7, <1>8, <1>9, <1>10, <1>11, MadeGood

LEMMA OpenCreateGood ==
    ASSUME Inv, NEW p \in Procs, OpenCreate(p)
    PROVE  Good(p)
<1>1. /\ pc[p] = "create" /\ flatfs_spinlock' = None
      /\ UNCHANGED <<data, dead, linkable, owner, readers, rename_mutex, env>>
  BY DEF OpenCreate
<1>2. PICK i \in Inodes : /\ Fresh(i, "file", st[p].d) /\ SetChild(st[p].d, st[p].n, i)
                          /\ Leave(p, PutCreated(st[p], i), "")
  BY DEF OpenCreate, PutCreated
<1>3. PICK t : t = PutCreated(st[p], i)
  OBVIOUS
<1>4. TypeInv /\ StepInv(p) /\ st[p] \in Locals /\ i \in InodeOrNone
  BY LocalsOf DEF Inv, InodeOrNone
<1>5. /\ t \in Locals /\ t.did /\ t.call = st[p].call /\ t.d = st[p].d /\ t.n = st[p].n
      /\ t.d2 = st[p].d2 /\ t.n2 = st[p].n2 /\ t.brk = st[p].brk /\ t.new = i
  BY <1>3, <1>4, SetCreated
<1>6. Creating(p) /\ st[p].brk = None /\ st[p].call \in {"creat", "excl"}
  BY <1>1, <1>4 DEF Creating, StepInv, DidInv, CallInv
<1>7. flatfs_spinlock' # p
  BY <1>1, NameiAssumption
<1>8. PICK k \in {"dir", "file", "link"} : k = "file"
  OBVIOUS
<1>9. /\ Leave(p, t, "") /\ pc[p] \in {"act", "create"} /\ t.brk = None
      /\ Fresh(i, k, st[p].d)
  BY <1>1, <1>2, <1>3, <1>5, <1>6, <1>8
<1>10. \/ k = "dir" /\ st[p].call = "mkdir"
       \/ k = "file" /\ st[p].call \in {"mknod", "creat", "excl"}
       \/ k = "link" /\ st[p].call = "symlink"
  BY <1>6, <1>8
<1>11. UNCHANGED <<owner, readers, rename_mutex, env>> /\ UNCHANGED <<data, dead, linkable>>
  BY <1>1
<1> QED BY <1>1, <1>2, <1>5, <1>6, <1>7, <1>9, <1>10, <1>11, MadeGood

\* The locals of a call that acts.
LEMMA DidLocals ==
    ASSUME Inv, NEW p \in Procs, pc[p] = "act", NEW t, t = PutDid(st[p]), UNCHANGED locks
    PROVE  /\ t \in Locals /\ t.did /\ t.call = st[p].call /\ t.d = st[p].d /\ t.n = st[p].n
           /\ t.d2 = st[p].d2 /\ t.n2 = st[p].n2 /\ t.brk = None
           /\ Found(p) /\ UNCHANGED <<owner, readers, rename_mutex>>
           /\ flatfs_spinlock' = flatfs_spinlock /\ flatfs_spinlock' # p
<1>1. TypeInv /\ StepInv(p) /\ st[p] \in Locals
  BY LocalsOf DEF Inv
<1>2. /\ t \in Locals /\ t.did /\ t.call = st[p].call /\ t.d = st[p].d /\ t.n = st[p].n
      /\ t.d2 = st[p].d2 /\ t.n2 = st[p].n2 /\ t.brk = st[p].brk
  BY <1>1, SetDid
<1>3. Found(p) /\ st[p].brk = None
  BY <1>1 DEF Found, StepInv, DidInv
<1>4. UNCHANGED <<owner, readers, rename_mutex>> /\ flatfs_spinlock' = flatfs_spinlock
  BY DEF locks
<1>5. flatfs_spinlock' # p
  BY <1>1, <1>4 DEF StepInv, LockInv
<1> QED BY <1>2, <1>3, <1>4, <1>5

LEMMA TmpfileGood ==
    ASSUME Inv, NEW p \in Procs, vfs_tmpfile(p)
    PROVE  Good(p)
<1>1. /\ pc[p] = "act" /\ st[p].call = "tmpfile" /\ Leave(p, PutDid(st[p]), "")
      /\ UNCHANGED locks /\ UNCHANGED env /\ UNCHANGED <<child, data, dead>>
  BY DEF vfs_tmpfile, PutDid
<1>2. PICK i \in Inodes : Fresh(i, "file", st[p].d) /\ linkable' = linkable \union {i}
  BY DEF vfs_tmpfile
<1>3. PICK t : t = PutDid(st[p])
  OBVIOUS
<1>4. /\ t \in Locals /\ t.did /\ t.call = st[p].call /\ t.d = st[p].d /\ t.n = st[p].n
      /\ t.d2 = st[p].d2 /\ t.n2 = st[p].n2 /\ t.brk = None
      /\ Found(p) /\ UNCHANGED <<owner, readers, rename_mutex>>
      /\ flatfs_spinlock' = flatfs_spinlock /\ flatfs_spinlock' # p
  BY <1>1, <1>3, DidLocals
<1>5. /\ kind[i] = "free" /\ kind' = [kind EXCEPT ![i] = "file"] /\ up' = up /\ body' = body
      /\ child' = child /\ data' = data /\ dead' = dead
  BY <1>1, <1>2 DEF Fresh
<1>6. TreeType /\ TreeInv
  BY DEF Inv, TypeInv
<1>7. TreeType'
  BY <1>2, <1>5, <1>6 DEF TreeType, Kinds
<1>8. \A x \in Inodes : kind'[x] = IF x = i THEN "file" ELSE kind[x]
  BY <1>5, <1>6 DEF TreeType
<1>9. Directories' = Directories
  BY <1>5, <1>8 DEF Directories
<1>10. UpInv'
  BY <1>5, <1>6, <1>7, <1>9, UpKept DEF TreeInv
<1>11. Abstract!TreeOK'
  <2>1. Abstract!TreeOK
    BY <1>6 DEF TreeInv
  <2>2. \A x \in Inodes, m \in Names : child[x][m] # None => child[x][m] \in Inodes
    BY <1>6 DEF TreeType, InodeOrNone
  <2>3. \A x \in Inodes : kind'[x] = "dir" <=> kind[x] = "dir"
    BY <1>5, <1>8
  <2>4. \A x \in Inodes : kind[x] # "free" => kind'[x] # "free"
    BY <1>8
  <2>5. \A x \in Inodes : up[x] \in Inodes
    BY <1>6 DEF TreeType
  <2>6. Root \in Inodes
    BY <1>6, RootIsDirectory DEF TreeInv
  <2>7. Abstract!Live(Root)'
    BY <1>5, <2>1, <2>3, <2>6 DEF Abstract!TreeOK, Abstract!Live
  <2>8. \A x \in Inodes \ {Root} : kind'[x] = "dir" /\ x \notin dead =>
          /\ kind'[up[x]] = "dir"
          /\ \E m \in Names : child[up[x]][m] = x
    BY <2>1, <2>3, <2>5 DEF Abstract!TreeOK, Abstract!Live
  <2>9. ASSUME NEW x \in Inodes, NEW y \in Inodes, NEW m \in Names, NEW l \in Names,
               child[x][m] # None, kind'[child[x][m]] = "dir", child[y][l] = child[x][m]
        PROVE  x = y /\ m = l /\ x = up[child[x][m]]
    BY <2>1, <2>2, <2>3, <2>9 DEF Abstract!TreeOK
  <2>10. ASSUME NEW x \in Inodes, NEW m \in Names, child[x][m] # None
         PROVE  /\ kind'[x] = "dir" /\ kind'[child[x][m]] # "free"
                /\ child[x][m] \notin dead \union {Root}
    BY <2>1, <2>2, <2>3, <2>4, <2>10 DEF Abstract!TreeOK, Abstract!Live
  <2> QED BY <1>5, <2>7, <2>8, <2>9, <2>10 DEF Abstract!TreeOK, Abstract!Live
<1>12. TreeInv'
  BY <1>5, <1>6, <1>9, <1>10, <1>11 DEF TreeInv
<1>13. Granted(p)
  BY <1>5, <1>8 DEF Granted
<1>14. Abstract!Effect(st[p].call)
  <2>1. Abstract!MakeUnnamed(i)
    BY <1>2, <1>5 DEF Abstract!MakeUnnamed
  <2>2. \E n : n \in Names
    <3>1. body \in [Inodes -> Names]
      BY <1>6 DEF TreeType
    <3> QED BY <3>1
  <2> QED BY <1>1, <2>1, <2>2 DEF Abstract!Effect
<1>15. /\ Leave(p, t, "") /\ pc[p] \in {"act", "create"} /\ t.call \notin {"open", "trunc"}
       /\ t.call \notin Opens
  BY <1>1, <1>3, <1>4 DEF Opens
<1> QED BY <1>1, <1>4, <1>7, <1>12, <1>13, <1>14, <1>15, ActGood

LEMMA DelegatedGood ==
    ASSUME Inv, NEW p \in Procs, pc[p] = "act", NEW i, Delegated(p, i),
           st[p].call \in Renames \union {"link", "unlink"}
    PROVE  Good(p)
<1>1. TypeInv /\ StepInv(p) /\ st[p] \in Locals
  BY LocalsOf DEF Inv
<1>2. i \in InodeOrNone /\ UNCHANGED <<tree, locks, env>>
  BY <1>1 DEF Delegated, TypeInv, EnvType, InodeOrNone
<1>3. PICK t : t = PutBrk(st[p], i)
  OBVIOUS
<1>4. PICK e : e = "EWOULDBLOCK"
  OBVIOUS
<1>5. Leave(p, t, e)
  BY <1>3, <1>4 DEF Delegated, PutBrk
<1>6. /\ t \in Locals /\ t.call = st[p].call /\ t.d = st[p].d /\ t.n = st[p].n
      /\ t.d2 = st[p].d2 /\ t.n2 = st[p].n2 /\ (t.did <=> st[p].did)
  BY <1>1, <1>2, <1>3, SetBrk
<1>7. ~st[p].did
  BY <1>1 DEF StepInv, DidInv
<1>8. e \in Errors /\ e # ""
  BY <1>4 DEF Errors
<1>9. CanGiveUp(p, t, e)
  BY <1>6, <1>7, <1>8 DEF CanGiveUp
<1> QED BY <1>2, <1>5, <1>6, <1>8, <1>9, GiveUpGood

\* An entry that appears for a file, or goes with what it named, leaves a tree.
LEMMA EntryTree ==
    ASSUME TreeType, TreeInv, NEW d \in Directories, d \notin dead, NEW n \in Names,
           NEW v \in InodeOrNone, v # None => v \in Inodes /\ kind[v] \in {"file", "link"},
           child' = [child EXCEPT ![d][n] = v],
           NEW g \in SUBSET Inodes,
           \A x \in g : kind[x] = "dir" /\ child[d][n] = x,
           child[d][n] # None /\ kind[child[d][n]] = "dir" => child[d][n] \in g,
           dead' = dead \union g, kind' = kind, up' = up, body' = body, data' = data,
           linkable' \subseteq Inodes
    PROVE  TreeType' /\ TreeInv'
<1>1. d \in Inodes /\ None \notin Inodes /\ kind[d] = "dir"
  BY NameiAssumption DEF Directories
<1>2. TreeType'
  BY <1>1 DEF TreeType
<1>3. \A x \in Inodes, m \in Names :
        child'[x][m] = IF x = d /\ m = n THEN v ELSE child[x][m]
  BY <1>1 DEF TreeType
<1>4. Directories' = Directories
  BY DEF Directories
<1>5. UpInv'
  BY <1>2, <1>4, UpKept DEF TreeInv
<1>6. Abstract!TreeOK
  BY DEF TreeInv
<1>7. \A x \in g : x # Root /\ x \in Directories
  <2> SUFFICES ASSUME NEW x \in g PROVE x # Root /\ x \in Directories
    OBVIOUS
  <2>1. kind[x] = "dir" /\ child[d][n] = x /\ x \in Inodes
    OBVIOUS
  <2>2. x # Root
    BY <1>1, <1>6, <2>1, NamedInUse
  <2> QED BY <1>1, <2>1, <2>2 DEF Directories
<1>8. \A x \in Inodes, m \in Names : child[x][m] # None => child[x][m] \in Inodes
  BY DEF TreeType, InodeOrNone
<1>9. \A x \in Inodes : up[x] \in Inodes
  BY DEF TreeType
<1>10. Abstract!TreeOK'
  <2>1. kind[Root] = "dir" /\ Root \notin dead'
    BY <1>6, <1>7 DEF Abstract!TreeOK, Abstract!Live
  <2>2. ASSUME NEW x \in Inodes \ {Root}, kind[x] = "dir", x \notin dead'
        PROVE  /\ kind[up[x]] = "dir"
               /\ \E m \in Names : child'[up[x]][m] = x
    <3>1. PICK m \in Names : child[up[x]][m] = x
      BY <1>6, <2>2 DEF Abstract!TreeOK, Abstract!Live
    <3>2. kind[up[x]] = "dir"
      BY <1>6, <2>2 DEF Abstract!TreeOK, Abstract!Live
    <3>4. ~(up[x] = d /\ m = n)
      <4>1. x # None
        BY <1>1
      <4> QED BY <2>2, <3>1, <4>1
    <3>5. child'[up[x]][m] = x
      BY <1>3, <1>9, <3>1, <3>4
    <3> QED BY <3>2, <3>5
  <2>3. ASSUME NEW x \in Inodes, NEW y \in Inodes, NEW m \in Names, NEW l \in Names,
               child'[x][m] # None, kind[child'[x][m]] = "dir", child'[y][l] = child'[x][m]
        PROVE  x = y /\ m = l /\ x = up[child'[x][m]]
    <3>1. child'[x][m] # v
      BY <2>3
    <3>2. child'[x][m] = child[x][m] /\ child'[y][l] = child[y][l]
      BY <1>3, <2>3, <3>1
    <3> QED BY <1>6, <2>3, <3>2 DEF Abstract!TreeOK
  <2>4. ASSUME NEW x \in Inodes, NEW m \in Names, child'[x][m] # None
        PROVE  /\ kind[x] = "dir" /\ kind[child'[x][m]] # "free"
               /\ child'[x][m] \notin dead' \union {Root}
    <3>1. CASE x = d /\ m = n
      <4>1. child'[x][m] = v /\ v \in Inodes /\ kind[v] # "free" /\ kind[v] # "dir"
        BY <1>3, <2>4, <3>1
      <4>2. v \notin dead' /\ v # Root
        BY <1>7, <2>1, <4>1 DEF TreeInv, Directories
      <4> QED BY <1>1, <3>1, <4>1, <4>2
    <3>2. CASE ~(x = d /\ m = n)
      <4>1. child'[x][m] = child[x][m]
        BY <1>3, <3>2
      <4>2. /\ child[x][m] \in Inodes /\ kind[child[x][m]] # "free" /\ x \in Directories
            /\ child[x][m] # Root /\ child[x][m] \notin dead
        BY <1>6, <2>4, <4>1, NamedInUse
      <4>3. child[x][m] \notin g
        <5>1. ASSUME child[x][m] \in g PROVE FALSE
          <6>1. child[d][n] = child[x][m] /\ kind[child[x][m]] = "dir" /\ child[x][m] # None
            BY <5>1, <2>4, <4>1
          <6> QED BY <1>1, <1>6, <3>2, <6>1 DEF Abstract!TreeOK
        <5> QED BY <5>1
      <4> QED BY <4>1, <4>2, <4>3 DEF Directories
    <3> QED BY <3>1, <3>2
  <2> QED BY <2>1, <2>2, <2>3, <2>4 DEF Abstract!TreeOK, Abstract!Live
<1>11. dead' \subseteq Directories'
  BY <1>4, <1>7 DEF TreeInv
<1> QED BY <1>2, <1>5, <1>10, <1>11 DEF TreeInv

LEMMA HasName ==
    ASSUME NEW i, i_nlink(i) # 0
    PROVE  Abstract!Named(i)
<1>1. Entries(i) # {}
  BY FS_EmptySet DEF i_nlink
<1> QED BY <1>1 DEF Entries, Abstract!Named

\* Other directories keep their entries.
LEMMA EntryGranted ==
    ASSUME TreeType, NEW p \in Procs, NEW d \in Inodes, owner[d] = p, NEW n, NEW v,
           child' = [child EXCEPT ![d][n] = v], kind' = kind, up' = up,
           \A x \in Inodes : owner[x] # p => (x \in dead' => x \in dead)
    PROVE  Granted(p)
BY DEF TreeType, Granted

LEMMA LinkGood ==
    ASSUME Inv, NEW p \in Procs, vfs_link(p)
    PROVE  Good(p)
<1> DEFINE s == st[p]
<1>1. pc[p] = "act" /\ s.call = "link"
  BY DEF vfs_link
<1>2. TypeInv /\ StepInv(p) /\ s \in Locals /\ TreeType /\ TreeInv
  BY LocalsOf DEF Inv, TypeInv
<1>3. Found(p) /\ ~s.did
  BY <1>1, <1>2 DEF Found, StepInv, DidInv
<1>4. CASE Leave(p, s, "ENOENT") /\ UNCHANGED <<tree, locks, env>>
  <2>1. PICK e : e = "ENOENT"
    OBVIOUS
  <2>2. e \in Errors /\ e # "" /\ Leave(p, s, e)
    BY <1>4, <2>1 DEF Errors
  <2>3. CanGiveUp(p, s, e)
    BY <1>1, <1>3, <2>2 DEF CanGiveUp
  <2> QED BY <1>1, <1>2, <1>4, <2>2, <2>3, GiveUpGood
<1>5. CASE Delegated(p, s.old)
  BY <1>1, <1>5, DelegatedGood
<1>6. CASE /\ ~(i_nlink(s.old) = 0 /\ s.old \notin linkable)
           /\ SetChild(s.d, s.n, s.old) /\ linkable' = linkable \ {s.old}
           /\ Leave(p, PutDid(s), "") /\ UNCHANGED <<kind, up, body, data, dead, locks, env>>
  <2>1. PICK t : t = PutDid(s)
    OBVIOUS
  <2>2. UNCHANGED locks /\ UNCHANGED env
    BY <1>6
  <2>3. /\ t \in Locals /\ t.did /\ t.call = s.call /\ t.d = s.d /\ t.n = s.n
        /\ t.d2 = s.d2 /\ t.n2 = s.n2 /\ t.brk = None
        /\ UNCHANGED <<owner, readers, rename_mutex>>
        /\ flatfs_spinlock' = flatfs_spinlock /\ flatfs_spinlock' # p
    BY <1>1, <2>1, <2>2, DidLocals
  <2>4. s.d \in Directories /\ s.d \in Inodes /\ s.n \in Names /\ owner[s.d] = p /\ FoundOK(s)
    BY <1>1, <1>3, ActHas DEF Parents
  <2>5. child[s.d][s.n] = None /\ s.d \notin dead /\ ~IsDir(s.old)
    BY <1>1, <2>4 DEF FoundOK, FreeName
  <2>6. s.old \in Inodes /\ kind[s.old] # "free" /\ s.old # None /\ s.old \in InodeOrNone
    BY <1>1, <1>2, NameiAssumption DEF StepInv, NameInv, InodeOrNone
  <2>7. kind[s.old] \in {"file", "link"}
    BY <1>2, <2>5, <2>6 DEF TreeType, Kinds, IsDir
  <2>8. /\ child' = [child EXCEPT ![s.d][s.n] = s.old] /\ kind' = kind /\ up' = up
        /\ body' = body /\ data' = data /\ dead' = dead
    BY <1>6 DEF SetChild
  <2>9. linkable' \subseteq Inodes
    BY <1>2, <1>6 DEF TreeType
  <2>10. TreeType' /\ TreeInv'
    <3>1. dead' = dead \union {} /\ {} \in SUBSET Inodes
      BY <2>8
    <3> QED BY <1>2, <2>4, <2>5, <2>6, <2>7, <2>8, <2>9, <3>1, EntryTree
  <2>11. Granted(p)
    BY <1>2, <2>4, <2>8, EntryGranted
  <2>12. Abstract!Effect(s.call)
    <3>1. Abstract!Named(s.old) \/ s.old \in linkable
      BY <1>6, HasName
    <3>2. Abstract!Live(s.d)
      BY <2>4, <2>5 DEF Abstract!Live, Directories
    <3>3. Abstract!Link(s.old, s.d, s.n)
      BY <1>6, <2>5, <2>7, <2>8, <3>1, <3>2 DEF Abstract!Link, Abstract!NonDirectory
    <3> QED BY <1>1, <2>4, <2>6, <3>3 DEF Abstract!Effect
  <2>13. /\ Leave(p, t, "") /\ pc[p] \in {"act", "create"} /\ t.call \notin {"open", "trunc"}
         /\ t.call \notin Opens
    BY <1>1, <1>6, <2>1, <2>3 DEF Opens
  <2> QED BY <2>2, <2>3, <2>10, <2>11, <2>12, <2>13, ActGood
<1> QED BY <1>4, <1>5, <1>6 DEF vfs_link, PutDid

\* An entry goes, of a file or of a directory whose lock is held.
LEMMA RemovedGood ==
    ASSUME Inv, NEW p \in Procs, pc[p] = "act", st[p].call \in Removes,
           SetChild(st[p].d, st[p].n, None), Leave(p, PutDid(st[p]), ""),
           UNCHANGED <<kind, up, body, data, linkable, locks, env>>,
           dead' = IF st[p].call = "rmdir" THEN dead \union {st[p].old} ELSE dead
    PROVE  Good(p)
<1> DEFINE s == st[p]
<1>1. TypeInv /\ StepInv(p) /\ s \in Locals /\ TreeType /\ TreeInv
  BY LocalsOf DEF Inv, TypeInv
<1>2. PICK t : t = PutDid(s)
  OBVIOUS
<1>3. UNCHANGED locks /\ UNCHANGED env
  OBVIOUS
<1>4. /\ t \in Locals /\ t.did /\ t.call = s.call /\ t.d = s.d /\ t.n = s.n
      /\ t.d2 = s.d2 /\ t.n2 = s.n2 /\ t.brk = None
      /\ Found(p) /\ UNCHANGED <<owner, readers, rename_mutex>>
      /\ flatfs_spinlock' = flatfs_spinlock /\ flatfs_spinlock' # p
  BY <1>2, <1>3, DidLocals
<1>5. /\ s.call # "tmpfile" /\ s.call \notin Renames /\ s.call \in {"rmdir", "unlink"}
      /\ s.call \notin {"open", "trunc"}
  BY DEF Removes, Renames
<1>6. /\ s.d \in Directories /\ s.d \in Inodes /\ s.n \in Names /\ owner[s.d] = p
      /\ FoundOK(s) /\ \A i \in Victims(s) : owner[i] = p
  BY <1>4, <1>5, ActHas DEF Parents
<1>7. /\ s.old # None /\ child[s.d][s.n] = s.old /\ s.d \notin dead
      /\ (s.call = "rmdir" <=> IsDir(s.old))
  BY <1>6 DEF FoundOK
<1>8. s.old \in Inodes /\ kind[s.old] # "free"
  BY <1>1, <1>6, <1>7, NamedInUse DEF TreeInv
<1>9. /\ child' = [child EXCEPT ![s.d][s.n] = None] /\ kind' = kind /\ up' = up
      /\ body' = body /\ data' = data /\ linkable' = linkable
  BY DEF SetChild
<1>10. PICK g : g = IF s.call = "rmdir" THEN {s.old} ELSE {}
  OBVIOUS
<1>11. /\ g \in SUBSET Inodes /\ dead' = dead \union g
       /\ \A x \in g : kind[x] = "dir" /\ child[s.d][s.n] = x
       /\ child[s.d][s.n] # None /\ kind[child[s.d][s.n]] = "dir" => child[s.d][s.n] \in g
  <2>1. g \in SUBSET Inodes /\ dead' = dead \union g
    BY <1>8, <1>10
  <2>2. ASSUME NEW x \in g
        PROVE  kind[x] = "dir" /\ child[s.d][s.n] = x
    BY <1>7, <1>10 DEF IsDir
  <2>3. kind[s.old] = "dir" => s.old \in g
    BY <1>7, <1>10 DEF IsDir
  <2> QED BY <1>7, <2>1, <2>2, <2>3
<1>12. TreeType' /\ TreeInv'
  <2>1. None \in InodeOrNone
    BY DEF InodeOrNone
  <2>2. linkable' \subseteq Inodes
    BY <1>1, <1>9 DEF TreeType
  <2>3. PICK d : d = s.d
    OBVIOUS
  <2>4. PICK n : n = s.n
    OBVIOUS
  <2>5. PICK v : v = None
    OBVIOUS
  <2>6. /\ d \in Directories /\ d \notin dead /\ n \in Names /\ v \in InodeOrNone
        /\ v # None => v \in Inodes /\ kind[v] \in {"file", "link"}
    BY <1>6, <1>7, <2>1, <2>3, <2>4, <2>5
  <2>7. child' = [child EXCEPT ![d][n] = v]
    BY <1>9, <2>3, <2>4, <2>5
  <2>8. /\ \A x \in g : kind[x] = "dir" /\ child[d][n] = x
        /\ child[d][n] # None /\ kind[child[d][n]] = "dir" => child[d][n] \in g
    BY <1>11, <2>3, <2>4
  <2>9. g \in SUBSET Inodes /\ dead' = dead \union g
    BY <1>11
  <2>10. kind' = kind /\ up' = up /\ body' = body /\ data' = data /\ TreeType /\ TreeInv
    BY <1>1, <1>9
  <2> QED BY <2>2, <2>6, <2>7, <2>8, <2>9, <2>10, EntryTree, ZenonT(30)
<1>13. Granted(p)
  <2>1. \A x \in g : owner[x] = p
    BY <1>6, <1>10 DEF Victims
  <2>2. \A x \in Inodes : owner[x] # p => (x \in dead' => x \in dead)
    BY <1>11, <2>1
  <2> QED BY <1>1, <1>6, <1>9, <2>2, EntryGranted
<1>14. Abstract!Effect(s.call)
  <2>1. Abstract!Live(s.d)
    BY <1>6, <1>7 DEF Abstract!Live, Directories
  <2>2. dead' = IF kind[s.old] = "dir" THEN dead \union {s.old} ELSE dead
    BY <1>5, <1>7 DEF IsDir
  <2>4. Abstract!Remove(s.d, s.n)
    BY <1>7, <1>9, <2>1, <2>2 DEF Abstract!Remove
  <2>5. CASE s.call = "rmdir"
    <3>1. child[s.d][s.n] # None /\ kind[child[s.d][s.n]] = "dir"
      BY <1>7, <2>5 DEF IsDir
    <3> QED BY <1>6, <2>4, <2>5, <3>1 DEF Abstract!Effect
  <2>6. CASE s.call = "unlink"
    <3>1. child[s.d][s.n] # None /\ Abstract!NonDirectory(child[s.d][s.n])
      BY <1>1, <1>7, <1>8, <2>6 DEF IsDir, Abstract!NonDirectory, TreeType, Kinds
    <3> QED BY <1>6, <2>4, <2>6, <3>1 DEF Abstract!Effect
  <2> QED BY <1>5, <2>5, <2>6
<1>15. /\ Leave(p, t, "") /\ pc[p] \in {"act", "create"} /\ t.call \notin {"open", "trunc"}
       /\ t.call \notin Opens
  BY <1>2, <1>4, <1>5 DEF Opens
<1> QED BY <1>3, <1>4, <1>12, <1>13, <1>14, <1>15, ActGood

LEMMA RmdirGood ==
    ASSUME Inv, NEW p \in Procs, vfs_rmdir(p)
    PROVE  Good(p)
<1> DEFINE s == st[p]
<1>1. /\ pc[p] = "act" /\ s.call = "rmdir" /\ s.call \in Removes
      /\ UNCHANGED <<kind, up, body, data, linkable, locks, env>>
  BY DEF vfs_rmdir, Removes
<1>2. /\ SetChild(s.d, s.n, None) /\ Leave(p, PutDid(s), "")
      /\ dead' = dead \union {s.old}
  BY DEF vfs_rmdir, PutDid
<1> QED BY <1>1, <1>2, RemovedGood

LEMMA UnlinkGood ==
    ASSUME Inv, NEW p \in Procs, vfs_unlink(p)
    PROVE  Good(p)
<1> DEFINE s == st[p]
<1>1. pc[p] = "act" /\ s.call = "unlink" /\ s.call \in Removes
  BY DEF vfs_unlink, Removes
<1>2. CASE Delegated(p, s.old)
  BY <1>1, <1>2, DelegatedGood
<1>3. CASE /\ SetChild(s.d, s.n, None) /\ Leave(p, PutDid(s), "")
           /\ UNCHANGED <<kind, up, body, data, dead, linkable, locks, env>>
  BY <1>1, <1>3, RemovedGood
<1> QED BY <1>2, <1>3 DEF vfs_unlink, PutDid

\* A directory that moves to where it is not above leaves the ways up whole.
LEMMA Reparent ==
    ASSUME NEW u \in [Inodes -> Inodes], NEW v \in [Inodes -> Inodes], NEW i \in Inodes,
           \A x \in Inodes \ {i} : v[x] = u[x], i \notin UpSet(u, v[i]),
           NEW r \in UpSet(u, v[i]), NEW x \in Inodes, r \in UpSet(u, x)
    PROVE  r \in UpSet(v, x)
<1> DEFINE e == v[i]
<1>1. UpSet(v, e) = UpSet(u, e)
  <2>1. e \in Inodes /\ UpSet(u, e) \in SUBSET Inodes /\ e \in UpSet(u, e)
    BY UpSetClosed
  <2>2. \A y \in UpSet(u, e) : u[y] \in UpSet(u, e) /\ v[y] = u[y]
    BY <2>1, UpSetClosed
  <2> HIDE DEF e
  <2> QED BY <2>1, <2>2, UpSetSame
<1>2. SUFFICES ASSUME NEW S \in SUBSET Inodes, x \in S, \A y \in S : v[y] \in S
               PROVE  r \in S
  BY DEF UpSet
<1>3. CASE i \in S
  <2>1. UpSet(v, e) \subseteq S
    BY <1>2, <1>3, UpSetLeast
  <2> QED BY <1>1, <2>1
<1>4. CASE i \notin S
  <2>1. \A y \in S : u[y] \in S
    BY <1>2, <1>4
  <2>2. UpSet(u, x) \subseteq S
    BY <1>2, <2>1, UpSetLeast
  <2> QED BY <2>2
<1> QED BY <1>3, <1>4

\* Entry n of d, that names i, becomes entry m of e, that named j; x for an exchange.
Renamed(d, n, e, m, i, j, x) ==
    /\ \A a \in Inodes, b \in Names :
        child'[a][b] = IF a = e /\ b = m THEN i
                       ELSE IF a = d /\ b = n THEN IF x THEN j ELSE None ELSE child[a][b]
    /\ \A a \in Inodes :
        up'[a] = IF a = i /\ IsDir(i) THEN e
                 ELSE IF a = j /\ IsDir(j) /\ x THEN d ELSE up[a]
    /\ dead' = IF ~x /\ IsDir(j) THEN dead \union {j} ELSE dead
CanRename(d, n, e, m, i, j, x) ==
    /\ d \in Directories /\ e \in Directories /\ d \notin dead /\ e \notin dead
    /\ n \in Names /\ m \in Names /\ child[d][n] = i /\ i # None /\ child[e][m] = j /\ i # j
    /\ (x => j # None) /\ (~x /\ j # None => (IsDir(i) <=> IsDir(j)))
    /\ (IsDir(i) => i \notin Above(e)) /\ (IsDir(j) /\ x => j \notin Above(d))

LEMMA RenameFacts ==
    ASSUME TreeType, TreeInv, NEW d, NEW n, NEW e, NEW m, NEW i, NEW j, NEW x \in BOOLEAN,
           CanRename(d, n, e, m, i, j, x)
    PROVE  /\ d \in Inodes /\ e \in Inodes /\ kind[d] = "dir" /\ kind[e] = "dir"
           /\ i \in Inodes /\ kind[i] # "free" /\ i \notin dead /\ i # Root
           /\ j # None => j \in Inodes /\ kind[j] # "free" /\ j \notin dead /\ j # Root
           /\ ~(d = e /\ n = m)
           /\ IsDir(i) => up[i] = d
                /\ \A a \in Inodes, b \in Names : child[a][b] = i => a = d /\ b = n
           /\ IsDir(j) => up[j] = e /\ j \in Inodes
                /\ \A a \in Inodes, b \in Names : child[a][b] = j => a = e /\ b = m
<1>1. d \in Inodes /\ e \in Inodes /\ kind[d] = "dir" /\ kind[e] = "dir"
  BY DEF CanRename, Directories
<1>2. i \in Inodes /\ kind[i] # "free" /\ i \notin dead /\ i # Root
  BY <1>1, NamedInUse DEF CanRename, TreeInv
<1>3. j # None => j \in Inodes /\ kind[j] # "free" /\ j \notin dead /\ j # Root
  BY <1>1, NamedInUse DEF CanRename, TreeInv
<1>4. ~(d = e /\ n = m)
  BY DEF CanRename
<1>5. ASSUME NEW a \in Inodes, NEW b \in Names, NEW y, child[a][b] = y, IsDir(y)
      PROVE  up[y] = a /\ \A a2 \in Inodes, b2 \in Names : child[a2][b2] = y => a2 = a /\ b2 = b
  BY <1>5 DEF TreeInv, Abstract!TreeOK, IsDir
<1>6. IsDir(i) => up[i] = d
        /\ \A a \in Inodes, b \in Names : child[a][b] = i => a = d /\ b = n
  BY <1>1, <1>5 DEF CanRename
<1>7. IsDir(j) => up[j] = e /\ j \in Inodes
        /\ \A a \in Inodes, b \in Names : child[a][b] = j => a = e /\ b = m
  BY <1>1, <1>3, <1>5 DEF CanRename, IsDir
<1> QED BY <1>1, <1>2, <1>3, <1>4, <1>6, <1>7

LEMMA RenameUp ==
    ASSUME TreeType, TreeType', TreeInv, kind' = kind, NEW d, NEW n, NEW e, NEW m, NEW i, NEW j,
           NEW x \in BOOLEAN, CanRename(d, n, e, m, i, j, x), Renamed(d, n, e, m, i, j, x)
    PROVE  UpInv'
<1>1. /\ up \in [Inodes -> Inodes] /\ up' \in [Inodes -> Inodes]
      /\ Directories \in SUBSET Inodes /\ Directories' = Directories /\ Root \in Inodes
  BY RootIsDirectory DEF TreeType, Directories, TreeInv
<1>2. up[Root] = Root /\ \A a \in Directories : up[a] \in Directories /\ Root \in UpSet(up, a)
  BY AboveIsUpSet DEF TreeInv, UpInv
<1>3. /\ d \in Directories /\ e \in Directories /\ i # j
      /\ (IsDir(i) => i \notin UpSet(up, e)) /\ (IsDir(j) /\ x => j \notin UpSet(up, d))
  BY AboveIsUpSet DEF CanRename
<1>4. /\ i \in Inodes /\ i # Root /\ j # Root /\ (IsDir(i) => up[i] = d)
      /\ IsDir(j) => j \in Inodes
  <2>1. i \in Inodes /\ i # Root /\ (IsDir(i) => up[i] = d) /\ (IsDir(j) => j \in Inodes)
    BY RenameFacts
  <2>2. j # None => j # Root
    BY RenameFacts
  <2> QED BY <1>1, <2>1, <2>2, NameiAssumption
<1>5. \A a \in Inodes : up'[a] = IF a = i /\ IsDir(i) THEN e
                                 ELSE IF a = j /\ IsDir(j) /\ x THEN d ELSE up[a]
  BY DEF Renamed
<1>6. \A a \in Directories : up'[a] \in Directories
  BY <1>1, <1>2, <1>3, <1>5
<1>7. up'[Root] = Root
  BY <1>1, <1>2, <1>4, <1>5
<1>8. (IsDir(i) => i \in Directories) /\ (IsDir(j) => j \in Directories)
  BY <1>4 DEF IsDir, Directories
<1>9. ASSUME NEW u \in [Inodes -> Inodes], NEW v \in [Inodes -> Inodes],
             NEW y \in Directories, NEW z \in Directories,
             \A a \in Directories : Root \in UpSet(u, a), v[y] = z,
             \A a \in Inodes \ {y} : v[a] = u[a], y \notin UpSet(u, z)
      PROVE  \A a \in Directories : Root \in UpSet(v, a)
  <2> SUFFICES ASSUME NEW a \in Directories PROVE Root \in UpSet(v, a)
    OBVIOUS
  <2>1. y \in Inodes /\ a \in Inodes /\ Root \in UpSet(u, a)
    BY <1>1, <1>9
  <2>2. Root \in UpSet(u, v[y]) /\ y \notin UpSet(u, v[y])
    BY <1>9
  <2> QED BY <1>9, <2>1, <2>2, Reparent
<1>10. \A a \in Directories : Root \in UpSet(up', a)
  <2>1. CASE ~IsDir(i) /\ ~(IsDir(j) /\ x)
    <3>1. \A a \in Directories : up[a] \in Directories /\ up'[a] = up[a]
      BY <1>1, <1>2, <1>5, <2>1
    <3> QED BY <1>1, <1>2, <3>1, UpSetSame
  <2>2. CASE IsDir(i) /\ ~(IsDir(j) /\ x)
    <3>1. up'[i] = e /\ \A a \in Inodes \ {i} : up'[a] = up[a]
      BY <1>4, <1>5, <2>2
    <3>2. i \in Directories /\ i \notin UpSet(up, e)
      BY <1>3, <1>8, <2>2
    <3>3. e \in Directories /\ \A a \in Directories : Root \in UpSet(up, a)
      BY <1>2, <1>3
    <3> QED BY <1>1, <1>9, <3>1, <3>2, <3>3
  <2>3. CASE ~IsDir(i) /\ IsDir(j) /\ x
    <3>1. up'[j] = d /\ \A a \in Inodes \ {j} : up'[a] = up[a]
      BY <1>4, <1>5, <2>3
    <3>2. j \in Directories /\ j \notin UpSet(up, d)
      BY <1>3, <1>8, <2>3
    <3>3. d \in Directories /\ \A a \in Directories : Root \in UpSet(up, a)
      BY <1>2, <1>3
    <3> QED BY <1>1, <1>9, <3>1, <3>2, <3>3
  <2>4. CASE IsDir(i) /\ IsDir(j) /\ x
    <3>1. PICK w : w = [up EXCEPT ![i] = e]
      OBVIOUS
    <3>2. /\ w \in [Inodes -> Inodes] /\ w[i] = e /\ \A a \in Inodes \ {i} : w[a] = up[a]
      BY <1>1, <1>3, <1>4, <3>1
    <3>3. up'[j] = d /\ \A a \in Inodes \ {j} : up'[a] = w[a]
      BY <1>3, <1>4, <1>5, <2>4, <3>2
    <3>4. /\ i \in Directories /\ i \notin UpSet(up, e) /\ j \in Directories
          /\ j \notin UpSet(up, d) /\ up[i] = d /\ i # Root
      BY <1>3, <1>4, <1>8, <2>4
    <3>5. \A a \in Directories : Root \in UpSet(w, a)
      <4>1. e \in Directories /\ \A a \in Directories : Root \in UpSet(up, a)
        BY <1>2, <1>3
      <4> QED BY <1>1, <1>9, <3>2, <3>4, <4>1
    <3>6. i \notin UpSet(up, d)
      BY <1>1, <1>2, <3>4, NotAboveParent
    <3>7. UpSet(w, d) = UpSet(up, d)
      <4>1. UpSet(up, d) \in SUBSET Inodes /\ d \in UpSet(up, d)
        BY <1>1, <1>3, UpSetClosed
      <4>2. \A a \in UpSet(up, d) : up[a] \in UpSet(up, d) /\ w[a] = up[a]
        BY <1>1, <1>3, <3>2, <3>6, <4>1, UpSetClosed
      <4> QED BY <1>1, <3>2, <4>1, <4>2, UpSetSame
    <3>8. d \in Directories /\ j \notin UpSet(w, d)
      BY <1>3, <3>4, <3>7
    <3> QED BY <1>1, <1>9, <3>2, <3>3, <3>4, <3>5, <3>8
  <2> QED BY <2>1, <2>2, <2>3, <2>4
<1> QED BY <1>1, <1>6, <1>7, <1>10, AboveIsUpSet DEF UpInv

LEMMA RenameTree ==
    ASSUME TreeType, TreeType', TreeInv, kind' = kind, NEW d, NEW n, NEW e, NEW m, NEW i, NEW j,
           NEW x \in BOOLEAN, CanRename(d, n, e, m, i, j, x), Renamed(d, n, e, m, i, j, x)
    PROVE  TreeInv'
<1>1. UpInv'
  BY RenameUp
<1>2. /\ d \in Inodes /\ e \in Inodes /\ kind[d] = "dir" /\ kind[e] = "dir"
      /\ i \in Inodes /\ kind[i] # "free" /\ i \notin dead /\ i # Root
      /\ j # None => j \in Inodes /\ kind[j] # "free" /\ j \notin dead /\ j # Root
      /\ ~(d = e /\ n = m)
  BY RenameFacts
<1>3. IsDir(i) => \A a \in Inodes, b \in Names : child[a][b] = i => a = d /\ b = n
  BY RenameFacts
<1>4. IsDir(j) => \A a \in Inodes, b \in Names : child[a][b] = j => a = e /\ b = m
  BY RenameFacts
<1>5. /\ d \notin dead /\ e \notin dead /\ n \in Names /\ m \in Names
      /\ child[d][n] = i /\ i # None /\ child[e][m] = j /\ i # j /\ (x => j # None)
  BY DEF CanRename
<1>6. \A a \in Inodes, b \in Names :
        child'[a][b] = IF a = e /\ b = m THEN i
                       ELSE IF a = d /\ b = n THEN IF x THEN j ELSE None ELSE child[a][b]
  BY DEF Renamed
<1>7. \A a \in Inodes : up'[a] = IF a = i /\ IsDir(i) THEN e
                                 ELSE IF a = j /\ IsDir(j) /\ x THEN d ELSE up[a]
  BY DEF Renamed
<1>8. dead' = IF ~x /\ IsDir(j) THEN dead \union {j} ELSE dead
  BY DEF Renamed
<1>9. Abstract!TreeOK /\ Root \in Inodes /\ None \notin Inodes /\ up \in [Inodes -> Inodes]
  BY RootIsDirectory, NameiAssumption DEF TreeInv, TreeType
<1>10. IsDir(j) => j # None /\ kind[j] = "dir"
  BY DEF IsDir
<1>11. i \notin dead' /\ (x => j \notin dead')
  BY <1>2, <1>5, <1>8
<1>12. kind'[Root] = "dir" /\ Root \notin dead'
  BY <1>2, <1>8, <1>9, <1>10 DEF Abstract!TreeOK, Abstract!Live
<1>13. ASSUME NEW a \in Inodes \ {Root}, kind[a] = "dir", a \notin dead'
       PROVE  /\ kind[up'[a]] = "dir"
              /\ \E b \in Names : child'[up'[a]][b] = a
  <2>1. IsDir(a) /\ a # None
    BY <1>9, <1>13 DEF IsDir
  <2>2. CASE a = i
    <3>1. up'[a] = e /\ child'[e][m] = a
      BY <1>2, <1>5, <1>6, <1>7, <2>1, <2>2
    <3> QED BY <1>2, <1>5, <1>11, <3>1
  <2>3. CASE a = j
    <3>1. x
      BY <1>8, <1>13, <2>1, <2>3
    <3>2. up'[a] = d /\ child'[d][n] = a
      BY <1>2, <1>5, <1>6, <1>7, <2>1, <2>3, <3>1
    <3> QED BY <1>2, <1>5, <1>11, <3>2
  <2>4. CASE a # i /\ a # j
    <3>1. a \notin dead
      BY <1>8, <1>13
    <3>2. kind[up[a]] = "dir" /\ up[a] \in Inodes
      BY <1>9, <1>13, <3>1 DEF Abstract!TreeOK, Abstract!Live
    <3>3. PICK b \in Names : child[up[a]][b] = a
      BY <1>9, <1>13, <3>1 DEF Abstract!TreeOK, Abstract!Live
    <3>4. up'[a] = up[a]
      BY <1>7, <2>4
    <3>5. child'[up[a]][b] = a
      BY <1>5, <1>6, <2>4, <3>2, <3>3
    <3> QED BY <3>2, <3>4, <3>5
  <2> QED BY <2>2, <2>3, <2>4
<1>14. ASSUME NEW a \in Inodes, NEW a2 \in Inodes, NEW b \in Names, NEW b2 \in Names,
              child'[a][b] # None, kind[child'[a][b]] = "dir", child'[a2][b2] = child'[a][b]
       PROVE  a = a2 /\ b = b2 /\ a = up'[child'[a][b]]
  <2>1. PICK y : y = child'[a][b]
    OBVIOUS
  <2>2. y # None /\ kind[y] = "dir" /\ IsDir(y) /\ child'[a2][b2] = y
    BY <1>14, <2>1 DEF IsDir
  <2>3. CASE y = i
    <3>1. \A c \in Inodes, f \in Names : child'[c][f] = i => c = e /\ f = m
      BY <1>3, <1>5, <1>6, <2>2, <2>3
    <3>2. up'[i] = e
      BY <1>2, <1>7, <2>2, <2>3
    <3> QED BY <2>1, <2>2, <2>3, <3>1, <3>2
  <2>4. CASE y = j
    <3>1. \A c \in Inodes, f \in Names : child'[c][f] = j => c = d /\ f = n /\ x
      BY <1>4, <1>5, <1>6, <2>2, <2>4
    <3>2. j \in Inodes /\ x
      BY <1>2, <2>1, <2>2, <2>4, <3>1
    <3>3. up'[j] = d
      BY <1>5, <1>7, <2>2, <2>4, <3>2
    <3> QED BY <2>1, <2>2, <2>4, <3>1, <3>3
  <2>5. CASE y # i /\ y # j
    <3>1. child[a][b] = y /\ child[a2][b2] = y
      BY <1>6, <2>1, <2>2, <2>5
    <3>2. y \in Inodes
      BY <2>2, <3>1 DEF TreeType, InodeOrNone
    <3>3. up'[y] = up[y]
      BY <1>7, <2>5, <3>2
    <3>4. a = a2 /\ b = b2 /\ a = up[y]
      BY <1>9, <2>2, <3>1 DEF Abstract!TreeOK
    <3> QED BY <2>1, <3>3, <3>4
  <2> QED BY <2>3, <2>4, <2>5
<1>15. ASSUME NEW a \in Inodes, NEW b \in Names, child'[a][b] # None
       PROVE  /\ kind[a] = "dir" /\ kind[child'[a][b]] # "free"
              /\ child'[a][b] \notin dead' \union {Root}
  <2>1. CASE a = e /\ b = m
    BY <1>2, <1>5, <1>6, <1>11, <2>1
  <2>2. CASE a = d /\ b = n
    <3>1. x /\ child'[a][b] = j
      BY <1>2, <1>5, <1>6, <1>15, <2>2
    <3> QED BY <1>2, <1>5, <1>11, <2>2, <3>1
  <2>3. CASE ~(a = e /\ b = m) /\ ~(a = d /\ b = n)
    <3>1. child'[a][b] = child[a][b]
      BY <1>6, <2>3
    <3>2. /\ child[a][b] \in Inodes /\ kind[child[a][b]] # "free" /\ a \in Directories
          /\ child[a][b] # Root /\ child[a][b] \notin dead
      BY <1>9, <1>15, <3>1, NamedInUse
    <3>4. child[a][b] \notin dead'
      BY <1>4, <1>8, <2>3, <3>2
    <3> QED BY <3>1, <3>2, <3>4 DEF Directories
  <2> QED BY <2>1, <2>2, <2>3
<1>16. Abstract!TreeOK'
  BY <1>12, <1>13, <1>14, <1>15 DEF Abstract!TreeOK, Abstract!Live
<1>17. dead' \subseteq Directories'
  <2>1. IsDir(j) => j \in Directories
    BY <1>2, <1>10 DEF Directories
  <2>2. Directories' = Directories
    BY DEF Directories
  <2> QED BY <1>8, <2>1, <2>2 DEF TreeInv
<1> QED BY <1>1, <1>16, <1>17 DEF TreeInv

\* The trap, or the one parent, keeps a rename from what it moves.
LEMMA RenameNotAbove ==
    ASSUME Inv, NEW p \in Procs, pc[p] = "act", st[p].call \in Renames
    PROVE  /\ IsDir(st[p].old) => st[p].old \notin Above(st[p].d2)
           /\ IsDir(st[p].new) => st[p].new \notin Above(st[p].d)
<1> DEFINE s == st[p]
<1>1. TreeType /\ TreeInv /\ StepInv(p)
  BY DEF Inv, TypeInv
<1>2. Found(p) /\ s.call # "tmpfile"
  BY DEF Found, Renames
<1>3. /\ s.d \in Inodes /\ s.d2 \in Inodes /\ s.n \in Names /\ s.n2 \in Names /\ FoundOK(s)
  BY <1>2, ActHas
<1>4. /\ s.old # None /\ child[s.d][s.n] = s.old /\ child[s.d2][s.n2] = s.new
      /\ s.old # s.trap /\ (s.new # None => s.new # s.trap)
  BY <1>3 DEF FoundOK
<1>5. up \in [Inodes -> Inodes] /\ Root \in Inodes /\ up[Root] = Root
  BY <1>1, RootIsDirectory DEF TreeType, TreeInv, UpInv
<1>6. ASSUME NEW a \in Inodes, NEW b \in Names, NEW y, child[a][b] = y, IsDir(y)
      PROVE  y \in Directories /\ y # Root /\ up[y] = a /\ Root \in UpSet(up, y)
  <2>1. y \in Inodes /\ y # Root
    BY <1>1, <1>6, NamedInUse DEF TreeInv, IsDir
  <2>2. y \in Directories
    BY <1>6, <2>1 DEF Directories, IsDir
  <2>3. up[y] = a
    BY <1>1, <1>6 DEF TreeInv, Abstract!TreeOK, IsDir
  <2>4. Root \in UpSet(up, y)
    BY <1>1, <2>2, AboveIsUpSet DEF TreeInv, UpInv
  <2> QED BY <2>1, <2>2, <2>3, <2>4
<1>7. CASE s.d = s.d2
  <2>1. ASSUME NEW a \in Inodes, NEW b \in Names, NEW y, child[a][b] = y, IsDir(y)
        PROVE  y \notin Above(a)
    <3>1. y \in Inodes /\ y # Root /\ up[y] = a /\ Root \in UpSet(up, y)
      BY <1>6, <2>1 DEF Directories
    <3>2. y \notin UpSet(up, a)
      BY <1>5, <3>1, NotAboveParent
    <3> QED BY <3>2, AboveIsUpSet
  <2> QED BY <1>3, <1>4, <1>7, <2>1
<1>8. CASE s.d # s.d2
  <2>1. TrapOK(s)
    BY <1>1, <1>8 DEF StepInv, TrapInv
  <2>2. IsDir(s.old) => s.old \in Directories \ {Root} /\ up[s.old] = s.d
    BY <1>3, <1>4, <1>6
  <2>3. IsDir(s.new) => s.new \in Directories \ {Root} /\ up[s.new] = s.d2 /\ s.new # None
    BY <1>3, <1>4, <1>6 DEF IsDir
  <2> QED BY <1>4, <2>1, <2>2, <2>3 DEF TrapOK
<1> QED BY <1>7, <1>8

PutTwo(d, n, v, e, m, i) == [child EXCEPT ![d][n] = v, ![e][m] = i]
TwoAt(d, n, v, e, m, i) ==
    \A a \in Inodes, b \in Names :
        child'[a][b] = IF a = e /\ b = m THEN i
                       ELSE IF a = d /\ b = n THEN v ELSE child[a][b]
LEMMA TwoEntries ==
    ASSUME TreeType, TreeType',
           NEW d \in Inodes, NEW n \in Names, NEW e \in Inodes, NEW m \in Names, NEW v, NEW i,
           TwoAt(d, n, v, e, m, i)
    PROVE  child' = PutTwo(d, n, v, e, m, i)
<1> DEFINE c == child
           f == child'
<1>0. c \in [Inodes -> [Names -> InodeOrNone]] /\ f \in [Inodes -> [Names -> InodeOrNone]]
  BY DEF TreeType
<1> HIDE DEF c, f
<1>1. PICK g : g = [c EXCEPT ![d][n] = v]
  OBVIOUS
<1>2. /\ g = [a \in Inodes |-> g[a]] /\ \A a \in Inodes : g[a] = [b \in Names |-> g[a][b]]
      /\ \A a \in Inodes, b \in Names : g[a][b] = IF a = d /\ b = n THEN v ELSE c[a][b]
  BY <1>0, <1>1
<1>3. PICK h : h = [g EXCEPT ![e][m] = i]
  OBVIOUS
<1>4. /\ h = [a \in Inodes |-> h[a]] /\ \A a \in Inodes : h[a] = [b \in Names |-> h[a][b]]
      /\ \A a \in Inodes, b \in Names : h[a][b] = IF a = e /\ b = m THEN i ELSE g[a][b]
  BY <1>2, <1>3
<1>5. \A a \in Inodes, b \in Names : h[a][b] = f[a][b]
  BY <1>2, <1>4 DEF TwoAt, c, f
<1>6. \A a \in Inodes : h[a] = f[a]
  <2> SUFFICES ASSUME NEW a \in Inodes PROVE h[a] = f[a]
    OBVIOUS
  <2>1. h[a] = [b \in Names |-> h[a][b]] /\ f[a] = [b \in Names |-> f[a][b]]
    BY <1>0, <1>4
  <2> QED BY <1>5, <2>1
<1>7. h = f
  BY <1>0, <1>4, <1>6
<1> QED BY <1>1, <1>3, <1>7 DEF PutTwo, c, f

LEMMA RenameEffect ==
    ASSUME TreeType, TreeType', TreeInv, kind' = kind, linkable' = linkable,
           NEW d, NEW n, NEW e, NEW m, NEW i, NEW j, NEW x \in BOOLEAN,
           CanRename(d, n, e, m, i, j, x), Renamed(d, n, e, m, i, j, x),
           NEW c \in Renames, x <=> c = "exchange", c = "noreplace" => j = None
    PROVE  Abstract!Effect(c)
<1>1. /\ d \in Inodes /\ e \in Inodes /\ n \in Names /\ m \in Names /\ i \in Inodes
      /\ child[d][n] = i /\ i # None /\ child[e][m] = j /\ i # j /\ (x => j # None)
      /\ ~x /\ j # None => (IsDir(i) <=> IsDir(j))
  <2>1. d \in Inodes /\ e \in Inodes /\ i \in Inodes
    BY RenameFacts
  <2> QED BY <2>1 DEF CanRename
<1>2. Abstract!Live(d) /\ Abstract!Live(e)
  BY DEF CanRename, Directories, Abstract!Live
<1>3. /\ IsDir(i) <=> kind[i] = "dir"
      /\ IsDir(j) <=> (j # None /\ kind[j] = "dir")
  BY <1>1 DEF IsDir
<1>4. /\ kind[i] = "dir" => i \notin Abstract!Ancestors(e)
      /\ x /\ kind[j] = "dir" => j \notin Abstract!Ancestors(d)
  BY <1>1, <1>3 DEF CanRename, Above, Abstract!Ancestors
<1>5. child' = [child EXCEPT ![d][n] = (IF x THEN j ELSE None), ![e][m] = i]
  <2>1. PICK v : v = IF x THEN j ELSE None
    OBVIOUS
  <2>2. TwoAt(d, n, v, e, m, i)
    BY <2>1 DEF Renamed, TwoAt
  <2>3. child' = PutTwo(d, n, v, e, m, i)
    <3>1. d \in Inodes /\ e \in Inodes /\ n \in Names /\ m \in Names
      BY <1>1
    <3> QED BY <2>2, <3>1, TwoEntries
  <2> QED BY <2>1, <2>3 DEF PutTwo
<1>6. up \in [Inodes -> Inodes] /\ up' \in [Inodes -> Inodes]
  BY DEF TreeType
<1>7. \A a \in Inodes : up'[a] = IF a = i /\ IsDir(i) THEN e
                                 ELSE IF a = j /\ IsDir(j) /\ x THEN d ELSE up[a]
  BY DEF Renamed
<1>8. CASE ~x
  <2>1. up' = IF kind[i] = "dir" THEN [up EXCEPT ![i] = e] ELSE up
    <3>1. CASE kind[i] = "dir"
      <4>1. \A a \in Inodes : up'[a] = [up EXCEPT ![i] = e][a]
        BY <1>1, <1>3, <1>6, <1>7, <1>8, <3>1
      <4> QED BY <1>1, <1>6, <3>1, <4>1
    <3>2. CASE kind[i] # "dir"
      <4>1. \A a \in Inodes : up'[a] = up[a]
        BY <1>3, <1>7, <1>8, <3>2
      <4> QED BY <1>6, <3>2, <4>1
    <3> QED BY <3>1, <3>2
  <2>2. dead' = IF j # None /\ kind[j] = "dir" THEN dead \union {j} ELSE dead
    BY <1>3, <1>8 DEF Renamed
  <2>3. child' = [child EXCEPT ![d][n] = None, ![e][m] = i]
    BY <1>5, <1>8
  <2>4. j # None => (kind[i] = "dir" <=> kind[j] = "dir")
    BY <1>1, <1>3, <1>8
  <2>5. Abstract!Move(d, n, e, m)
    BY <1>1, <1>2, <1>4, <2>1, <2>2, <2>3, <2>4 DEF Abstract!Move
  <2>6. c = "rename" \/ (c = "noreplace" /\ child[e][m] = None)
    BY <1>1, <1>8 DEF Renames
  <2> QED BY <1>1, <2>5, <2>6 DEF Abstract!Effect
<1>9. CASE x
  <2>1. up' = [a \in Inodes |-> IF a = i /\ kind[i] = "dir" THEN e
                                ELSE IF a = j /\ kind[j] = "dir" THEN d ELSE up[a]]
    <3>1. \A a \in Inodes : up'[a] = IF a = i /\ kind[i] = "dir" THEN e
                                     ELSE IF a = j /\ kind[j] = "dir" THEN d ELSE up[a]
      BY <1>1, <1>3, <1>7, <1>9
    <3> QED BY <1>6, <3>1
  <2>2. dead' = dead
    BY <1>9 DEF Renamed
  <2>3. child' = [child EXCEPT ![d][n] = j, ![e][m] = i]
    BY <1>5, <1>9
  <2>4. Abstract!Swap(d, n, e, m)
    BY <1>1, <1>2, <1>4, <1>9, <2>1, <2>2, <2>3 DEF Abstract!Swap
  <2> QED BY <1>1, <1>9, <2>4 DEF Abstract!Effect
<1> QED BY <1>8, <1>9

\* The last disjunct of vfs_rename.
DidRename(p) ==
    LET s == st[p]
        exchange == s.call = "exchange"
    IN
    /\ child' = [d \in Inodes |-> [n \in Names |->
          IF d = s.d2 /\ n = s.n2 THEN s.old
          ELSE IF d = s.d /\ n = s.n THEN IF exchange THEN s.new ELSE None
          ELSE child[d][n]]]
    /\ up' = [i \in Inodes |->
          IF i = s.old /\ IsDir(i) THEN s.d2
          ELSE IF i = s.new /\ IsDir(i) /\ exchange THEN s.d ELSE up[i]]
    /\ dead' = IF ~exchange /\ IsDir(s.new) THEN dead \union {s.new} ELSE dead
    /\ Leave(p, PutDid(s), "")
    /\ UNCHANGED <<kind, body, data, linkable, locks, env>>

LEMMA RenamedGood ==
    ASSUME Inv, NEW p \in Procs, pc[p] = "act", st[p].call \in Renames, DidRename(p)
    PROVE  Good(p)
<1> DEFINE s == st[p]
<1>1. TypeInv /\ StepInv(p) /\ s \in Locals /\ TreeType /\ TreeInv
  BY LocalsOf DEF Inv, TypeInv
<1>2. PICK t : t = PutDid(s)
  OBVIOUS
<1>3. UNCHANGED locks /\ UNCHANGED env
  BY DEF DidRename
<1>4. /\ t \in Locals /\ t.did /\ t.call = s.call /\ t.d = s.d /\ t.n = s.n
      /\ t.d2 = s.d2 /\ t.n2 = s.n2 /\ t.brk = None
      /\ Found(p) /\ UNCHANGED <<owner, readers, rename_mutex>>
      /\ flatfs_spinlock' = flatfs_spinlock /\ flatfs_spinlock' # p
  BY <1>2, <1>3, DidLocals
<1>5. s.call # "tmpfile" /\ s.call \notin {"open", "trunc"}
  BY DEF Renames
<1>6. PICK c : c = s.call
  OBVIOUS
<1>7. PICK d : d = s.d
  OBVIOUS
<1>8. PICK e : e = s.d2
  OBVIOUS
<1>9. PICK n : n = s.n
  OBVIOUS
<1>10. PICK m : m = s.n2
  OBVIOUS
<1>11. PICK i : i = s.old
  OBVIOUS
<1>12. PICK j : j = s.new
  OBVIOUS
<1>13. PICK x \in BOOLEAN : x <=> c = "exchange"
  OBVIOUS
<1>14. /\ d \in Directories /\ e \in Directories /\ d \in Inodes /\ e \in Inodes
       /\ n \in Names /\ m \in Names /\ owner[d] = p /\ owner[e] = p
       /\ FoundOK(s) /\ \A a \in Victims(s) : owner[a] = p
  BY <1>4, <1>5, <1>7, <1>8, <1>9, <1>10, ActHas DEF Parents
<1>15. /\ i # None /\ child[d][n] = i /\ d \notin dead /\ child[e][m] = j /\ e \notin dead
       /\ i # j /\ (c = "noreplace" => j = None) /\ (c = "exchange" => j # None)
       /\ c # "exchange" /\ j # None => (IsDir(i) <=> IsDir(j))
  BY <1>6, <1>7, <1>8, <1>9, <1>10, <1>11, <1>12, <1>14 DEF FoundOK
<1>16. (IsDir(i) => i \notin Above(e)) /\ (IsDir(j) => j \notin Above(d))
  BY <1>7, <1>8, <1>11, <1>12, RenameNotAbove
<1>18. CanRename(d, n, e, m, i, j, x)
  BY <1>13, <1>14, <1>15, <1>16 DEF CanRename
<1>19. /\ child' = [a \in Inodes |-> [b \in Names |->
                       IF a = e /\ b = m THEN i
                       ELSE IF a = d /\ b = n THEN IF x THEN j ELSE None ELSE child[a][b]]]
       /\ up' = [a \in Inodes |->
                       IF a = i /\ IsDir(a) THEN e
                       ELSE IF a = j /\ IsDir(a) /\ x THEN d ELSE up[a]]
       /\ dead' = IF ~x /\ IsDir(j) THEN dead \union {j} ELSE dead
       /\ kind' = kind /\ body' = body /\ data' = data /\ linkable' = linkable
  <2>1. /\ kind' = kind /\ body' = body /\ data' = data /\ linkable' = linkable
    BY DEF DidRename
  <2>2. dead' = IF ~x /\ IsDir(j) THEN dead \union {j} ELSE dead
    BY <1>6, <1>12, <1>13 DEF DidRename
  <2>3. up' = [a \in Inodes |->
                  IF a = i /\ IsDir(a) THEN e
                  ELSE IF a = j /\ IsDir(a) /\ x THEN d ELSE up[a]]
    BY <1>6, <1>7, <1>8, <1>11, <1>12, <1>13 DEF DidRename
  <2>4. child' = [a \in Inodes |-> [b \in Names |->
                     IF a = e /\ b = m THEN i
                     ELSE IF a = d /\ b = n THEN IF x THEN j ELSE None ELSE child[a][b]]]
    BY <1>6, <1>7, <1>8, <1>9, <1>10, <1>11, <1>12, <1>13 DEF DidRename
  <2> QED BY <2>1, <2>2, <2>3, <2>4
<1>20. Renamed(d, n, e, m, i, j, x)
  BY <1>19 DEF Renamed
<1>21. i \in Inodes /\ j \in InodeOrNone /\ (IsDir(j) => j \in Inodes)
  <2>1. child[d][n] \in InodeOrNone /\ child[e][m] \in InodeOrNone
    BY <1>1, <1>14 DEF TreeType
  <2> QED BY <1>15, <2>1 DEF InodeOrNone, IsDir
<1>22. TreeType'
  <2>1. child' \in [Inodes -> [Names -> InodeOrNone]]
    <3>1. \A a \in Inodes, b \in Names :
            (IF a = e /\ b = m THEN i
             ELSE IF a = d /\ b = n THEN IF x THEN j ELSE None ELSE child[a][b]) \in InodeOrNone
      BY <1>1, <1>21 DEF TreeType, InodeOrNone
    <3> QED BY <1>19, <3>1
  <2>2. up' \in [Inodes -> Inodes]
    BY <1>1, <1>14, <1>19 DEF TreeType
  <2>3. dead' \subseteq Inodes
    BY <1>1, <1>19, <1>21 DEF TreeType
  <2>4. kind' \in [Inodes -> Kinds] /\ body' \in [Inodes -> Names] /\ data' \subseteq Inodes
        /\ linkable' \subseteq Inodes
    BY <1>1, <1>19 DEF TreeType
  <2> QED BY <2>1, <2>2, <2>3, <2>4 DEF TreeType
<1>23. kind' = kind /\ linkable' = linkable
  BY <1>19
<1>24. TreeInv'
  BY <1>1, <1>18, <1>20, <1>22, <1>23, RenameTree
<1>25. Abstract!Effect(c)
  <2>1. c \in Renames /\ (c = "noreplace" => j = None)
    BY <1>6, <1>15
  <2> QED BY <1>1, <1>13, <1>18, <1>20, <1>22, <1>23, <2>1, RenameEffect
<1>26. Granted(p)
  <2>1. \A a \in Inodes : kind[a] # "free" => kind'[a] = kind[a]
    BY <1>19
  <2>2. \A a \in Inodes : owner[a] # p => child'[a] = child[a]
    <3> SUFFICES ASSUME NEW a \in Inodes, owner[a] # p PROVE child'[a] = child[a]
      OBVIOUS
    <3>1. a # d /\ a # e
      BY <1>14
    <3>2. child'[a] = [b \in Names |-> child[a][b]]
      BY <1>19, <3>1
    <3>3. child[a] \in [Names -> InodeOrNone]
      BY <1>1 DEF TreeType
    <3> QED BY <3>2, <3>3
  <2>3. \A a \in Inodes : owner[a] # p => (a \in dead' => a \in dead)
    <3>1. ~x /\ IsDir(j) => owner[j] = p
      <4>1. ~x => c \in {"rename", "noreplace"}
        BY <1>6, <1>13 DEF Renames
      <4>2. ~x /\ IsDir(j) => j \in Victims(s)
        BY <1>6, <1>12, <4>1 DEF Victims
      <4> QED BY <1>14, <4>2
    <3> QED BY <1>19, <3>1
  <2>4. rename_mutex # p => \A a \in Directories : up'[a] = up[a]
    <3> SUFFICES ASSUME rename_mutex # p, NEW a \in Directories PROVE up'[a] = up[a]
      OBVIOUS
    <3>1. d = e
      BY <1>1, <1>7, <1>8 DEF StepInv, TrapInv
    <3>2. (IsDir(i) => up[i] = d) /\ (IsDir(j) => up[j] = e)
      BY <1>1, <1>18, RenameFacts
    <3>3. a \in Inodes
      BY DEF Directories
    <3>4. up'[a] = IF a = i /\ IsDir(i) THEN e ELSE IF a = j /\ IsDir(j) /\ x THEN d ELSE up[a]
      BY <1>20, <3>3 DEF Renamed
    <3> QED BY <3>1, <3>2, <3>4
  <2> QED BY <2>1, <2>2, <2>3, <2>4 DEF Granted
<1>27. Leave(p, t, "") /\ t.call \notin Opens
  BY <1>2, <1>4 DEF DidRename, Renames, Opens
<1> QED BY <1>3, <1>4, <1>5, <1>6, <1>22, <1>24, <1>25, <1>26, <1>27, ActGood

LEMMA RenameGood ==
    ASSUME Inv, NEW p \in Procs, vfs_rename(p)
    PROVE  Good(p)
<1> DEFINE s == st[p]
<1>1. pc[p] = "act" /\ s.call \in Renames
  BY DEF vfs_rename
<1>2. \/ \E i : Delegated(p, i)
      \/ /\ ~(s.call = "exchange") /\ Leave(p, s, "ENOTEMPTY") /\ UNCHANGED <<tree, locks, env>>
      \/ DidRename(p)
  BY DEF vfs_rename, DidRename, PutDid
<1>3. CASE \E i : Delegated(p, i)
  BY <1>1, <1>3, DelegatedGood
<1>4. CASE Leave(p, s, "ENOTEMPTY") /\ UNCHANGED <<tree, locks, env>>
  <2>1. PICK e : e = "ENOTEMPTY"
    OBVIOUS
  <2>2. s \in Locals /\ ~s.did /\ s.brk = None
    BY <1>1, LocalsOf DEF Inv, StepInv, DidInv
  <2>3. e \in Errors /\ e # "" /\ Leave(p, s, e)
    BY <1>4, <2>1 DEF Errors
  <2>4. CanGiveUp(p, s, e)
    BY <2>2, <2>3 DEF CanGiveUp
  <2> QED BY <1>1, <1>4, <2>2, <2>3, <2>4, GiveUpGood
<1>5. CASE DidRename(p)
  BY <1>1, <1>5, RenamedGood
<1> QED BY <1>2, <1>3, <1>4, <1>5

-----------------------------------------------------------------------------
(* The steps: open *)

LEMMA StepIntoStep ==
    ASSUME Inv, NEW p \in Procs, UNCHANGED tree, NoLocks(p)', NEW x \in Inodes,
           step_into(p, st[p], x), pc[p] # "done", st[p].call \in Opens,
           st[p].call # "excl", ~st[p].did, st[p].brk = None
    PROVE  ProcType' /\ StepInv(p)' /\ Others(p) /\ Answers(p)
<1> DEFINE s == st[p]
<1>1. TypeInv /\ StepInv(p) /\ TreeType /\ Abstract!TreeOK
  BY DEF Inv, TypeInv, TreeInv
<1>2. Directories' = Directories /\ Root \in Directories /\ Root \in Inodes
  BY <1>1, TreeKept, RootIsDirectory
<1>3. s \in Locals /\ s.links \in 0 .. MAXSYMLINKS
  BY <1>1, LocalsOf
<1>4. s.d \in Directories /\ s.d2 \in Directories
  BY <1>1 DEF StepInv, NameInv
<1>5. s.call \notin Renames /\ s.call \notin Removes /\ s.call \notin {"link", "tmpfile"}
  BY DEF Opens, Renames, Removes
<1>6. CASE kind[x] # "link"
  <2>1. PICK t : t = PutNew(s, x)
    OBVIOUS
  <2>2. x \in InodeOrNone
    BY DEF InodeOrNone
  <2>3. /\ t \in Locals /\ t.new = x /\ t.call = s.call /\ t.d = s.d /\ t.d2 = s.d2
        /\ t.brk = s.brk /\ (t.did <=> s.did)
    BY <1>3, <2>1, <2>2, SetNew
  <2>4. pc' = [pc EXCEPT ![p] = "opened"] /\ st' = [st EXCEPT ![p] = t]
    BY <1>6, <2>1 DEF step_into, Goto, PutNew
  <2>5. CanStand(p, "opened", t)
    BY <1>2, <1>4, <1>5, <2>3 DEF CanStand
  <2> QED BY <1>1, <2>3, <2>4, <2>5, StandStep
<1>7. CASE kind[x] = "link" /\ s.links >= MAXSYMLINKS
  <2>1. PICK e : e = "ELOOP"
    OBVIOUS
  <2>2. Return(p, s, e)
    BY <1>7, <2>1 DEF step_into
  <2>3. e \in Errors
    BY <2>1 DEF Errors
  <2>4. CanReturn(p, s, e)
    BY <1>2, <2>1 DEF CanReturn, NoLocks
  <2> QED BY <1>1, <1>3, <2>2, <2>3, <2>4, ReturnStep
<1>8. CASE kind[x] = "link" /\ ~(s.links >= MAXSYMLINKS)
  <2>1. PICK t : t = PutTarget(s, Root, body[x], None, s.links + 1)
    OBVIOUS
  <2>2. MAXSYMLINKS \in Nat
    BY NameiAssumption
  <2>3. PICK k : k = s.links + 1
    OBVIOUS
  <2>4. k \in 0 .. MAXSYMLINKS
    BY <1>3, <1>8, <2>2, <2>3
  <2>5. body[x] \in Components /\ None \in InodeOrNone
    BY <1>1 DEF TreeType, Components, InodeOrNone
  <2>6. /\ t \in Locals /\ t.d = Root /\ t.call = s.call /\ t.d2 = s.d2
        /\ t.brk = s.brk /\ (t.did <=> s.did)
    BY <1>2, <1>3, <2>1, <2>3, <2>4, <2>5, SetTarget
  <2>7. pc' = [pc EXCEPT ![p] = "want"] /\ st' = [st EXCEPT ![p] = t]
    BY <1>8, <2>1 DEF step_into, Goto, PutTarget
  <2>8. CanStand(p, "want", t)
    BY <1>2, <1>4, <1>5, <2>6 DEF CanStand
  <2> QED BY <1>1, <2>6, <2>7, <2>8, StandStep
<1> QED BY <1>6, <1>7, <1>8

LEMMA FastGood ==
    ASSUME Inv, NEW p \in Procs, lookup_fast(p)
    PROVE  Good(p)
<1> DEFINE s == st[p]
<1>1. /\ pc[p] = "want" /\ s.call \in {"open", "trunc"} /\ s.n # Dots
      /\ UNCHANGED <<tree, locks, env>>
  BY DEF lookup_fast
<1>2. TypeInv /\ StepInv(p) /\ TreeType /\ Abstract!TreeOK
  BY DEF Inv, TypeInv, TreeInv
<1>3. /\ s \in Locals /\ s.d \in Inodes /\ s.n \in Components /\ ~s.did /\ s.brk = None
  BY <1>1, <1>2, LocalsOf DEF StepInv, DidInv
<1>4. NoLocks(p)'
  <2>1. NoLocks(p)
    BY <1>1, <1>2, OutsideNoLocks DEF StepInv
  <2> QED BY <1>1, <2>1 DEF NoLocks, locks
<1>5. CASE Return(p, s, "ENOENT")
  <2>1. PICK e : e = "ENOENT"
    OBVIOUS
  <2>2. Return(p, s, e)
    BY <1>5, <2>1
  <2>3. e \in Errors
    BY <2>1 DEF Errors
  <2>4. Root \in Directories'
    BY <1>1, <1>2, TreeKept, RootIsDirectory
  <2>5. CanReturn(p, s, e)
    BY <1>1, <1>3, <1>4, <2>1, <2>4 DEF CanReturn, NoLocks
  <2> QED BY <1>1, <1>2, <1>3, <2>2, <2>3, <2>5, ReturnStep, QuietGood
<1>6. CASE child[s.d][s.n] # None /\ step_into(p, s, child[s.d][s.n])
  <2>1. PICK x : x = child[s.d][s.n]
    OBVIOUS
  <2>2. s.n \in Names
    BY <1>1, <1>3 DEF Components
  <2>3. x \in Inodes
    BY <1>2, <1>3, <1>6, <2>1, <2>2 DEF TreeType, InodeOrNone
  <2>4. step_into(p, s, x)
    BY <1>6, <2>1
  <2>5. s.call \in Opens /\ s.call # "excl" /\ pc[p] # "done" /\ UNCHANGED tree
    BY <1>1 DEF Opens
  <2>6. ProcType' /\ StepInv(p)' /\ Others(p) /\ Answers(p)
    BY <1>3, <1>4, <2>3, <2>4, <2>5, StepIntoStep
  <2> QED BY <1>1, <2>6, QuietGood
<1> QED BY <1>5, <1>6 DEF lookup_fast

LEMMA DotsGood ==
    ASSUME Inv, NEW p \in Procs, handle_dots(p)
    PROVE  Good(p)
<1> DEFINE s == st[p]
<1>1. pc[p] = "want" /\ s.call \in Opens /\ UNCHANGED <<tree, locks, env>>
  BY DEF handle_dots
<1>2. PICK x \in {s.d, up[s.d]} : st' = [st EXCEPT ![p].new = x]
  BY DEF handle_dots
<1>3. TypeInv /\ StepInv(p) /\ UpInv
  BY DEF Inv, TreeInv
<1>4. s \in Locals /\ ~s.did /\ s.brk = None
  BY <1>1, <1>3, LocalsOf DEF StepInv, DidInv
<1>5. s.d \in Directories /\ s.d2 \in Directories /\ x \in Directories
  BY <1>2, <1>3 DEF StepInv, NameInv, UpInv
<1>6. NoLocks(p)'
  <2>1. NoLocks(p)
    BY <1>1, <1>3, OutsideNoLocks DEF StepInv
  <2> QED BY <1>1, <2>1 DEF NoLocks, locks
<1>7. PICK t : t = PutNew(s, x)
  OBVIOUS
<1>8. x \in Inodes /\ x \in InodeOrNone /\ kind[x] = "dir"
  BY <1>5 DEF Directories, InodeOrNone
<1>9. /\ t \in Locals /\ t.new = x /\ t.call = s.call /\ t.d = s.d /\ t.d2 = s.d2
      /\ t.brk = s.brk /\ (t.did <=> s.did)
  BY <1>4, <1>7, <1>8, SetNew
<1>10. pc' = [pc EXCEPT ![p] = "opened"] /\ st' = [st EXCEPT ![p] = t]
  BY <1>2, <1>7 DEF handle_dots, Goto, PutNew
<1>11. s.call \notin Renames /\ s.call \notin Removes /\ s.call \notin {"link", "tmpfile"}
  BY <1>1 DEF Opens, Renames, Removes
<1>12. Directories' = Directories /\ kind' = kind
  BY <1>1, TreeKept DEF tree
<1>13. CanStand(p, "opened", t)
  BY <1>1, <1>4, <1>5, <1>8, <1>9, <1>11, <1>12 DEF CanStand
<1> QED BY <1>1, <1>3, <1>6, <1>9, <1>10, <1>13, StandStep, QuietGood

LEMMA FinishGood ==
    ASSUME Inv, NEW p \in Procs, finish_open(p)
    PROVE  Good(p)
<1> DEFINE s == st[p]
<1>1. pc[p] = "opened" /\ UNCHANGED <<tree, locks, around>>
  BY DEF finish_open
<1>2. TypeInv /\ StepInv(p) /\ TreeType /\ Abstract!TreeOK /\ MountInv
  BY DEF Inv, TypeInv, TreeInv
<1>3. Directories' = Directories /\ kind' = kind /\ mount' = mount /\ Root \in Directories'
  BY <1>1, <1>2, TreeKept, RootIsDirectory DEF tree, around
<1>4. NoLocks(p)' /\ LockType'
  <2>1. NoLocks(p) /\ LockType
    BY <1>1, <1>2, OutsideNoLocks DEF StepInv, TypeInv
  <2> QED BY <1>1, <2>1 DEF NoLocks, locks, LockType
<1>5. /\ s \in Locals /\ s.brk = None /\ s.call \in Opens /\ s.new \in Inodes
      /\ s.did => s.call \notin {"open", "trunc"}
      /\ s.call = "excl" /\ ~s.did => kind[s.new] = "dir"
  <2>1. s \in Locals
    BY <1>2, LocalsOf
  <2>2. s.brk = None /\ (s.did => s.call \notin {"open", "trunc"})
    BY <1>1, <1>2 DEF StepInv, DidInv
  <2>3. s.call \in Opens
    BY <1>1, <1>2 DEF StepInv, CallInv
  <2>4. s.new \in Inodes /\ (s.call = "excl" /\ ~s.did => kind[s.new] = "dir")
    BY <1>1, <1>2 DEF StepInv, NameInv
  <2> QED BY <2>1, <2>2, <2>3, <2>4
<1>6. ASSUME NEW e \in Errors, e # "ESTALE", Return(p, s, e),
             writers' \in {writers, writers \ {p}},
             ~s.did /\ e = "" => s.call = "open",
             s.did /\ e # "" => s.call # "open"
      PROVE  Good(p)
  <2>1. s.did /\ e # "" => s.call \in {"creat", "excl", "tmpfile"}
    BY <1>5, <1>6 DEF Opens
  <2>2. CanReturn(p, s, e)
    BY <1>1, <1>3, <1>4, <1>5, <1>6, <2>1 DEF CanReturn, NoLocks
  <2>3. ProcType' /\ StepInv(p)' /\ Others(p) /\ Answers(p)
    BY <1>2, <1>5, <1>6, <2>2, ReturnStep
  <2>4. writers' \subseteq Procs /\ MountInv'
    BY <1>2, <1>3, <1>6 DEF TypeInv, EnvType, MountInv
  <2>5. LocksKept(p)
    BY <1>1, <1>6 DEF LocksKept, locks
  <2> QED BY <1>1, <1>4, <2>3, <2>4, <2>5, LockGood
<1>7. "EISDIR" \in Errors /\ "" \in Errors /\ "EROFS" \in Errors
  BY DEF Errors
<1>8. CASE IsDir(s.new) /\ s.call # "open"
  <2>1. PICK e : e = "EISDIR"
    OBVIOUS
  <2>2. e \in Errors /\ e # "ESTALE" /\ e # ""
    BY <1>7, <2>1
  <2>3. Return(p, s, e) /\ writers' \in {writers, writers \ {p}}
    BY <1>8, <2>1 DEF finish_open
  <2> QED BY <1>6, <1>8, <2>2, <2>3
<1>9. CASE ~(IsDir(s.new) /\ s.call # "open") /\ (s.call = "open" \/ s.did)
  <2>1. PICK e : e = ""
    OBVIOUS
  <2>2. e \in Errors /\ e # "ESTALE" /\ e = ""
    BY <1>7, <2>1
  <2>3. Return(p, s, e) /\ writers' \in {writers, writers \ {p}}
    BY <1>9, <2>1 DEF finish_open, sb_end_write
  <2> QED BY <1>6, <1>9, <2>2, <2>3
<1>10. CASE ~(IsDir(s.new) /\ s.call # "open") /\ ~(s.call = "open" \/ s.did) /\ mount = "ro"
  <2>1. PICK e : e = "EROFS"
    OBVIOUS
  <2>2. e \in Errors /\ e # "ESTALE" /\ e # ""
    BY <1>7, <2>1
  <2>3. Return(p, s, e) /\ writers' \in {writers, writers \ {p}}
    BY <1>10, <2>1 DEF finish_open
  <2> QED BY <1>6, <1>10, <2>2, <2>3
<1>11. CASE ~(IsDir(s.new) /\ s.call # "open") /\ ~(s.call = "open" \/ s.did) /\ mount # "ro"
  <2>1. sb_start_write /\ writers' = writers \union {p} /\ Goto(p, "truncate") /\ st' = st
    BY <1>11 DEF finish_open
  <2>2. st' = [st EXCEPT ![p] = st[p]] /\ pc' = [pc EXCEPT ![p] = "truncate"]
    BY <1>2, <2>1 DEF TypeInv, ProcType, Goto
  <2>3. mount = "rw"
    BY <1>11, <2>1 DEF sb_start_write
  <2>4. s.d \in Directories /\ s.d2 \in Directories
    BY <1>2 DEF StepInv, NameInv
  <2>5. s.call # "excl"
    BY <1>5, <1>11, NameiAssumption DEF IsDir
  <2>6. s.call \notin Renames /\ s.call \notin Removes /\ s.call \notin {"link", "tmpfile"}
    BY <1>5 DEF Opens, Renames, Removes
  <2>7. CanStand(p, "truncate", s)
    BY <1>1, <1>3, <1>5, <1>11, <2>1, <2>4, <2>5, <2>6 DEF CanStand
  <2>8. ProcType' /\ StepInv(p)' /\ Others(p) /\ Answers(p)
    BY <1>2, <1>4, <1>5, <2>2, <2>7, StandStep
  <2>9. writers' \subseteq Procs /\ MountInv'
    BY <1>2, <1>3, <2>1, <2>3 DEF TypeInv, EnvType, MountInv
  <2>10. LocksKept(p)
    BY <1>1, <2>1 DEF LocksKept, locks
  <2> QED BY <1>1, <1>4, <2>8, <2>9, <2>10, LockGood
<1> QED BY <1>8, <1>9, <1>10, <1>11

\* Truncating a file is no change of the name space.
LEMMA TruncateGood ==
    ASSUME Inv, NEW p \in Procs, handle_truncate(p)
    PROVE  Good(p)
<1> DEFINE s == st[p]
<1>1. /\ pc[p] = "truncate" /\ data' = data \ {s.new} /\ writers' = writers \ {p}
      /\ UNCHANGED <<kind, child, up, body, dead, linkable, locks, around>>
  BY DEF handle_truncate, sb_end_write
<1>2. TypeInv /\ StepInv(p) /\ TreeType /\ Abstract!TreeOK /\ MountInv /\ TreeInv
  BY DEF Inv, TypeInv, TreeInv
<1>3. /\ kind' = kind /\ child' = child /\ up' = up /\ body' = body /\ dead' = dead
      /\ linkable' = linkable /\ owner' = owner /\ readers' = readers
      /\ rename_mutex' = rename_mutex /\ flatfs_spinlock' = flatfs_spinlock
      /\ mount' = mount /\ admin' = admin /\ deleg' = deleg
  BY <1>1 DEF locks, around
<1>4. Directories' = Directories /\ Root \in Directories
  BY <1>2, <1>3, RootIsDirectory DEF Directories
<1>5. NoLocks(p)'
  <2>1. NoLocks(p)
    BY <1>1, <1>2, OutsideNoLocks DEF StepInv
  <2> QED BY <1>3, <2>1 DEF NoLocks
<1>6. s \in Locals /\ ~s.did /\ s.brk = None /\ s.call \in Opens /\ s.call # "excl"
  <2>1. ~s.did /\ s.brk = None
    BY <1>1, <1>2 DEF StepInv, DidInv
  <2>2. s.call \in Opens /\ s.call # "excl"
    BY <1>1, <1>2 DEF StepInv, CallInv
  <2> QED BY <1>2, <2>1, <2>2, LocalsOf
<1>7. ProcType' /\ StepInv(p)' /\ Others(p) /\ Answers(p)
  <2>1. PICK e : e = ""
    OBVIOUS
  <2>2. Return(p, s, e)
    BY <2>1 DEF handle_truncate
  <2>3. e \in Errors
    BY <2>1 DEF Errors
  <2>4. s.call \in {"open", "trunc", "creat", "rename", "exchange"}
    BY <1>6 DEF Opens
  <2>5. CanReturn(p, s, e)
    BY <1>1, <1>4, <1>5, <1>6, <2>4 DEF CanReturn, NoLocks
  <2> QED BY <1>2, <1>6, <2>2, <2>3, <2>5, ReturnStep
<1>8. TypeInv'
  <2>1. TreeType'
    BY <1>1, <1>2, <1>3 DEF TreeType
  <2>2. LockType'
    BY <1>2, <1>3 DEF TypeInv, LockType
  <2>3. EnvType'
    BY <1>1, <1>2, <1>3 DEF TypeInv, EnvType
  <2> QED BY <1>7, <2>1, <2>2, <2>3 DEF TypeInv
<1>9. MountInv'
  BY <1>1, <1>2, <1>3 DEF MountInv
<1>10. TreeInv'
  <2>1. Abstract!TreeOK'
    BY <1>2, <1>3 DEF Abstract!TreeOK, Abstract!Live
  <2>2. UpInv'
    BY <1>2, <1>3, <1>4 DEF TreeInv, UpInv, Above
  <2> QED BY <1>2, <1>3, <1>4, <2>1, <2>2 DEF TreeInv
<1>11. \A q \in Procs \ {p} : Rely(q)
  BY <1>1, <1>3, <1>7 DEF Rely, Others
<1> QED BY <1>1, <1>7, <1>8, <1>9, <1>10, <1>11 DEF Good

-----------------------------------------------------------------------------
(* The steps: letting go *)

LEMMA UnlockAllStep ==
    ASSUME Inv, NEW p \in Procs, UnlockAll(p), pc[p] = "unlock",
           flatfs_spinlock' = flatfs_spinlock, writers' \in {writers, writers \ {p}}
    PROVE  NoLocks(p)' /\ LockType' /\ LocksKept(p) /\ writers' \subseteq Procs
<1>1. TypeInv /\ StepInv(p) /\ LockType
  BY DEF Inv, TypeInv
<1>2. None \notin Procs /\ p # None
  BY NameiAssumption
<1>3. /\ owner \in [Inodes -> Procs \union {None}] /\ readers \in [Inodes -> SUBSET Procs]
      /\ rename_mutex \in Procs \union {None} /\ flatfs_spinlock \in Procs \union {None}
  BY <1>1 DEF LockType
<1>4. owner' = [i \in Inodes |-> IF owner[i] = p THEN None ELSE owner[i]]
  BY DEF UnlockAll, Without
<1>5. /\ readers' = [i \in Inodes |-> readers[i] \ {p}]
      /\ rename_mutex' = IF rename_mutex = p THEN None ELSE rename_mutex
  BY DEF UnlockAll
<1>6. flatfs_spinlock' # p
  BY <1>1 DEF StepInv, LockInv
<1>7. NoLocks(p)'
  BY <1>2, <1>4, <1>5, <1>6 DEF NoLocks
<1>8. LockType'
  <2>1. owner' \in [Inodes -> Procs \union {None}]
    BY <1>3, <1>4
  <2>2. readers' \in [Inodes -> SUBSET Procs]
    BY <1>3, <1>5
  <2>3. rename_mutex' \in Procs \union {None}
    BY <1>3, <1>5
  <2> QED BY <1>3, <2>1, <2>2, <2>3 DEF LockType
<1>9. LocksKept(p)
  <2>1. ASSUME NEW q \in Procs \ {p}, NEW i \in Inodes
        PROVE  /\ (owner'[i] = q) <=> (owner[i] = q)
               /\ (q \in readers'[i]) <=> (q \in readers[i])
    BY <1>2, <1>4, <1>5
  <2>2. ASSUME NEW q \in Procs \ {p}
        PROVE  /\ (rename_mutex' = q) <=> (rename_mutex = q)
               /\ q \in writers => q \in writers'
    BY <1>2, <1>5
  <2> QED BY <2>1, <2>2 DEF LocksKept
<1>10. writers' \subseteq Procs
  BY <1>1 DEF TypeInv, EnvType
<1> QED BY <1>7, <1>8, <1>9, <1>10

LEMMA UnlockGood ==
    ASSUME Inv, NEW p \in Procs, Unlock(p)
    PROVE  Good(p)
<1> DEFINE s == st[p]
<1>1. /\ pc[p] = "unlock" /\ UnlockAll(p) /\ UNCHANGED <<tree, around>>
      /\ flatfs_spinlock' = flatfs_spinlock
  BY DEF Unlock
<1>2. IF s.call \in Opens THEN AfterLookupOpen(p, s)
      ELSE IF s.brk # None
      THEN /\ writers' = IF s.call = "link" THEN writers \ {p} ELSE writers
           /\ Goto(p, "break") /\ UNCHANGED st
      ELSE sb_end_write(p) /\ Return(p, s, s.err)
  BY DEF Unlock
<1>3. TypeInv /\ StepInv(p) /\ TreeType /\ Abstract!TreeOK /\ MountInv
  BY DEF Inv, TypeInv, TreeInv
<1>4. Directories' = Directories /\ kind' = kind /\ mount' = mount /\ Root \in Directories'
  BY <1>1, <1>3, TreeKept, RootIsDirectory DEF tree, around
<1>5. /\ s.did => s.brk = None /\ s.err = "" /\ s.call \notin {"open", "trunc"}
      /\ ~s.did /\ s.call \notin Opens \union {"rename", "exchange"} => s.err # ""
  BY <1>1, <1>3 DEF StepInv, DidInv
<1>6. s.brk # None => s.call \in Renames \union {"link", "unlink"}
  BY <1>3 DEF StepInv, CallInv
<1>7. s \in Locals /\ s.err \in Errors /\ s.new \in InodeOrNone
  BY <1>3, LocalsOf
<1>8. /\ s.d \in Directories /\ s.d2 \in Directories
      /\ s.call \notin Opens \union {"tmpfile"}
           => s.n \in Names /\ (s.call \in Renames => s.n2 \in Names)
      /\ s.call \in Opens /\ s.did => s.new \in Inodes
  BY <1>1, <1>3 DEF StepInv, NameInv
<1>9. s.call \in Removes \union Renames => p \in writers
  BY <1>1, <1>3 DEF StepInv, WriteInv
<1>10. writers' \in {writers, writers \ {p}}
  BY <1>2 DEF AfterLookupOpen, sb_end_write
<1>11. NoLocks(p)' /\ LockType' /\ LocksKept(p) /\ writers' \subseteq Procs
  BY <1>1, <1>10, UnlockAllStep
<1>12. MountInv'
  BY <1>3, <1>4, <1>10 DEF MountInv
<1>13. SUFFICES ProcType' /\ StepInv(p)' /\ Others(p) /\ Answers(p)
  BY <1>1, <1>11, <1>12, LockGood
<1>14. ASSUME NEW e \in Errors, Return(p, s, e), s.did => e = "",
              ~s.did /\ e = "" => s.call \in {"rename", "exchange"}
       PROVE  ProcType' /\ StepInv(p)' /\ Others(p) /\ Answers(p)
  <2>1. CanReturn(p, s, e)
    BY <1>1, <1>4, <1>5, <1>11, <1>14 DEF CanReturn, NoLocks
  <2> QED BY <1>3, <1>7, <1>14, <2>1, ReturnStep
<1>15. CASE s.call \in Opens
  <2>1. s.brk = None
    BY <1>6, <1>15 DEF Opens, Renames
  <2>2. CASE s.did
    <3>1. st' = [st EXCEPT ![p] = st[p]] /\ pc' = [pc EXCEPT ![p] = "opened"]
      <4>1. st' = st /\ Goto(p, "opened")
        BY <1>2, <1>5, <1>15, <2>2 DEF AfterLookupOpen
      <4> QED BY <1>3, <4>1 DEF TypeInv, ProcType, Goto
    <3>2. s.call \notin Renames /\ s.call \notin Removes /\ s.call \notin {"link", "tmpfile"}
      BY <1>15 DEF Opens, Renames, Removes
    <3>3. CanStand(p, "opened", s)
      BY <1>1, <1>4, <1>5, <1>8, <1>15, <2>1, <2>2, <3>2 DEF CanStand
    <3> QED BY <1>3, <1>7, <1>11, <3>1, <3>3, StandStep
  <2>3. CASE ~s.did
    <3>1. IF s.err # "" THEN Return(p, s, s.err)
          ELSE IF s.new = None THEN Return(p, s, "ENOENT")
          ELSE IF s.call = "excl" THEN Return(p, s, "EEXIST")
          ELSE step_into(p, s, s.new)
      BY <1>2, <1>15, <2>3 DEF AfterLookupOpen
    <3>2. CASE s.err # ""
      <4>1. PICK e : e = s.err
        OBVIOUS
      <4>2. e \in Errors /\ e # "" /\ Return(p, s, e)
        BY <1>7, <3>1, <3>2, <4>1
      <4> QED BY <1>14, <2>3, <4>2
    <3>3. CASE s.err = "" /\ s.new = None
      <4>1. PICK e : e = "ENOENT"
        OBVIOUS
      <4>2. e \in Errors /\ e # ""
        BY <4>1 DEF Errors
      <4>3. Return(p, s, e)
        BY <3>1, <3>3, <4>1
      <4> QED BY <1>14, <2>3, <4>2, <4>3
    <3>4. CASE s.err = "" /\ s.new # None /\ s.call = "excl"
      <4>1. PICK e : e = "EEXIST"
        OBVIOUS
      <4>2. e \in Errors /\ e # ""
        BY <4>1 DEF Errors
      <4>3. Return(p, s, e)
        BY <3>1, <3>4, <4>1
      <4> QED BY <1>14, <2>3, <4>2, <4>3
    <3>5. CASE s.err = "" /\ s.new # None /\ s.call # "excl"
      <4>1. PICK x : x = s.new
        OBVIOUS
      <4>2. x \in Inodes /\ step_into(p, s, x)
        BY <1>7, <3>1, <3>5, <4>1 DEF InodeOrNone
      <4>3. pc[p] # "done" /\ UNCHANGED tree
        BY <1>1
      <4> QED BY <1>11, <1>15, <2>1, <2>3, <3>5, <4>2, <4>3, StepIntoStep
    <3> QED BY <3>2, <3>3, <3>4, <3>5
  <2> QED BY <2>2, <2>3
<1>16. CASE s.call \notin Opens /\ s.brk # None
  <2>1. st' = [st EXCEPT ![p] = st[p]] /\ pc' = [pc EXCEPT ![p] = "break"]
    <3>1. st' = st /\ Goto(p, "break")
      BY <1>2, <1>16
    <3> QED BY <1>3, <3>1 DEF TypeInv, ProcType, Goto
  <2>2. s.call \in Removes \union Renames => p \in writers'
    BY <1>2, <1>9, <1>16 DEF Removes, Renames
  <2>3. s.call \in Renames \union {"link", "unlink"} /\ s.call # "tmpfile"
    BY <1>6, <1>16 DEF Renames
  <2>4. CanStand(p, "break", s)
    BY <1>1, <1>4, <1>5, <1>8, <1>16, <2>2, <2>3 DEF CanStand
  <2> QED BY <1>3, <1>7, <1>11, <2>1, <2>4, StandStep
<1>17. CASE s.call \notin Opens /\ s.brk = None
  <2>1. PICK e : e = s.err
    OBVIOUS
  <2>2. e \in Errors /\ Return(p, s, e)
    BY <1>2, <1>7, <1>17, <2>1
  <2>3. s.did => e = ""
    BY <1>5, <2>1
  <2>4. ~s.did /\ e = "" => s.call \in {"rename", "exchange"}
    BY <1>5, <1>17, <2>1
  <2> QED BY <1>14, <2>2, <2>3, <2>4
<1> QED BY <1>15, <1>16, <1>17

LEMMA BreakGood ==
    ASSUME Inv, NEW p \in Procs, break_deleg_wait(p)
    PROVE  Good(p)
<1>1. pc[p] = "break" /\ UNCHANGED <<tree, locks, env>>
  BY DEF break_deleg_wait
<1>2. TypeInv /\ StepInv(p)
  BY DEF Inv
<1>3. PICK e : e = ""
  OBVIOUS
<1>4. PICK s : s = PutBreak(st[p], e, None, None, None, None)
  OBVIOUS
<1>5. e \in Errors /\ None \in InodeOrNone /\ st[p] \in Locals
  BY <1>2, <1>3, LocalsOf DEF Errors, InodeOrNone
<1>6. /\ s \in Locals /\ s.brk = None /\ s.call = st[p].call /\ s.d = st[p].d /\ s.n = st[p].n
      /\ s.d2 = st[p].d2 /\ s.n2 = st[p].n2 /\ (s.did <=> st[p].did)
  BY <1>4, <1>5, SetBreak
<1>7. IF s.call = "link" THEN Goto(p, "walk") /\ st' = [st EXCEPT ![p] = s]
      ELSE ToParents(p, s)
  BY <1>3, <1>4 DEF break_deleg_wait, PutBreak
<1>8. NoLocks(p)'
  <2>1. NoLocks(p)
    BY <1>1, <1>2, OutsideNoLocks DEF StepInv
  <2> QED BY <1>1, <2>1 DEF NoLocks, locks
<1>9. Directories' = Directories /\ kind' = kind /\ writers' = writers
  BY <1>1, TreeKept DEF tree, env
<1>10. ~st[p].did
  BY <1>1, <1>2 DEF StepInv, DidInv
<1>11. st[p].call \in Renames \union {"link", "unlink"}
  BY <1>1, <1>2 DEF StepInv, CallInv
<1>12. st[p].call \notin Opens /\ st[p].call # "tmpfile"
  BY <1>11 DEF Opens, Renames
<1>13. /\ st[p].d \in Directories /\ st[p].d2 \in Directories /\ st[p].n \in Names
       /\ st[p].call \in Renames => st[p].n2 \in Names
  BY <1>1, <1>2, <1>12 DEF StepInv, NameInv
<1>14. st[p].call \in Removes \union Renames => p \in writers
  BY <1>1, <1>2 DEF StepInv, WriteInv
<1>15. CASE s.call = "link"
  <2>1. pc' = [pc EXCEPT ![p] = "walk"] /\ st' = [st EXCEPT ![p] = s]
    BY <1>7, <1>15 DEF Goto
  <2>2. CanStand(p, "walk", s)
    BY <1>1, <1>6, <1>9, <1>10, <1>13, <1>15 DEF CanStand, Opens, Renames
  <2> QED BY <1>1, <1>2, <1>6, <1>8, <2>1, <2>2, StandStep, QuietGood
<1>16. CASE s.call # "link"
  <2>1. CanEnter(p, s)
    BY <1>1, <1>6, <1>9, <1>10, <1>12, <1>13, <1>14, <1>16 DEF CanEnter
  <2> QED BY <1>1, <1>2, <1>6, <1>7, <1>8, <1>16, <2>1, ToParentsStep, QuietGood
<1> QED BY <1>15, <1>16

LEMMA RefuseGood ==
    ASSUME Inv, NEW p \in Procs, Refuse(p), UNCHANGED tree
    PROVE  Good(p)
<1> DEFINE s == st[p]
<1>1. TypeInv /\ StepInv(p) /\ TreeType /\ Abstract!TreeOK /\ MountInv
  BY DEF Inv, TypeInv, TreeInv
<1>2. s \in Locals /\ Directories' = Directories
  BY <1>1, LocalsOf, TreeKept
<1>3. ASSUME NEW e \in Refusals, pc[p] \in {"look", "act"},
             Leave(p, [s EXCEPT !.reval = \/ @
                                          \/ pc[p] = "look" /\ s.call \in Creates \union {"link"}], e),
             UNCHANGED <<locks, env>>
      PROVE  Good(p)
  <2>1. PICK b : b = (s.reval \/ (pc[p] = "look" /\ s.call \in Creates \union {"link"}))
    OBVIOUS
  <2>2. b \in BOOLEAN
    BY <2>1
  <2>3. PICK t : t = PutReval(s, b)
    OBVIOUS
  <2>4. Leave(p, t, e)
    BY <1>3, <2>1, <2>3 DEF PutReval
  <2>5. /\ t \in Locals /\ t.call = s.call /\ t.d = s.d /\ t.n = s.n /\ t.d2 = s.d2
        /\ t.n2 = s.n2 /\ t.brk = s.brk /\ (t.did <=> s.did)
    BY <1>2, <2>2, <2>3, SetReval
  <2>6. ~s.did /\ s.brk = None
    BY <1>1, <1>3 DEF StepInv, DidInv
  <2>7. e \in Errors /\ e # ""
    BY NameiAssumption DEF Errors
  <2>8. CanGiveUp(p, t, e)
    BY <2>5, <2>6, <2>7 DEF CanGiveUp
  <2>9. UNCHANGED <<tree, locks, env>>
    BY <1>3
  <2> QED BY <1>3, <2>4, <2>5, <2>7, <2>8, <2>9, GiveUpGood
<1>4. ASSUME NEW e \in Refusals, pc[p] = "create", flatfs_spinlock' = None, Leave(p, s, e),
             UNCHANGED <<owner, readers, rename_mutex, env>>
      PROVE  Good(p)
  <2>1. e \in Errors /\ e # ""
    BY NameiAssumption DEF Errors
  <2>2. /\ owner' = owner /\ readers' = readers /\ rename_mutex' = rename_mutex
        /\ writers' = writers /\ mount' = mount /\ UNCHANGED around
    BY <1>4 DEF env, around
  <2>3. ~s.did /\ s.brk = None
    BY <1>1, <1>4 DEF StepInv, DidInv
  <2>4. s.call \in {"creat", "excl"}
    BY <1>1, <1>4 DEF StepInv, CallInv, Creating
  <2>5. s.call \notin Removes /\ s.call \notin Renames
    BY <2>4 DEF Removes, Renames
  <2>6. None \notin Procs
    BY NameiAssumption
  <2>7. CanLeave(p, s, e)
    BY <1>2, <1>4, <2>1, <2>3, <2>5, <2>6 DEF CanLeave
  <2>8. /\ ProcType' /\ StepInv(p)' /\ Others(p) /\ st'[p].call = st[p].call
        /\ Out(p) = "busy" /\ Out(p)' = IF s.did THEN "did" ELSE "busy"
    BY <1>1, <1>2, <1>4, <2>1, <2>7, LeaveStep
  <2>9. Answers(p)
    BY <2>3, <2>8 DEF Answers
  <2>10. LockType'
    BY <1>1, <1>4, <2>2 DEF TypeInv, LockType
  <2>11. LocksKept(p)
    BY <1>4, <2>2, <2>6 DEF LocksKept
  <2>12. MountInv' /\ writers' \subseteq Procs
    BY <1>1, <2>2 DEF MountInv, TypeInv, EnvType
  <2> QED BY <2>2, <2>8, <2>9, <2>10, <2>11, <2>12, LockGood
<1>5. ASSUME pc[p] \in {"break", "opened", "truncate"}, sb_end_write(p), Return(p, s, "EINTR"),
             UNCHANGED <<locks, around>>
      PROVE  Good(p)
  <2>1. PICK e : e = "EINTR"
    OBVIOUS
  <2>2. e \in Errors /\ e # "ESTALE" /\ e # ""
    BY <2>1 DEF Errors
  <2>3. Return(p, s, e)
    BY <1>5, <2>1
  <2>4. NoLocks(p)
    BY <1>1, <1>5, OutsideNoLocks DEF StepInv
  <2>5. /\ owner' = owner /\ readers' = readers /\ rename_mutex' = rename_mutex
        /\ flatfs_spinlock' = flatfs_spinlock /\ mount' = mount
        /\ writers' = writers \ {p}
    BY <1>5 DEF locks, around, sb_end_write
  <2>6. NoLocks(p)' /\ LockType'
    BY <1>1, <2>4, <2>5 DEF NoLocks, LockType, TypeInv
  <2>7. s.did => pc[p] = "opened" /\ s.call \notin {"open", "trunc"}
    BY <1>1, <1>5 DEF StepInv, DidInv
  <2>8. pc[p] = "opened" => s.call \in Opens
    BY <1>1 DEF StepInv, CallInv
  <2>9. s.did => s.call \in {"creat", "excl", "tmpfile"}
    BY <2>7, <2>8 DEF Opens
  <2>10. Root \in Directories'
    BY <1>1, <1>2, RootIsDirectory
  <2>11. CanReturn(p, s, e)
    BY <1>5, <2>2, <2>6, <2>7, <2>9, <2>10 DEF CanReturn, NoLocks
  <2>12. ProcType' /\ StepInv(p)' /\ Others(p) /\ Answers(p)
    BY <1>1, <1>2, <2>2, <2>3, <2>11, ReturnStep
  <2>13. MountInv' /\ writers' \subseteq Procs
    BY <1>1, <2>5 DEF MountInv, TypeInv, EnvType
  <2>14. LocksKept(p)
    BY <2>5 DEF LocksKept
  <2> QED BY <1>5, <2>6, <2>12, <2>13, <2>14, LockGood
<1> QED BY <1>3, <1>4, <1>5 DEF Refuse

-----------------------------------------------------------------------------
(* The invariant *)

LEMMA StepGood ==
    ASSUME Inv, NEW p \in Procs, Step(p)
    PROVE  Good(p)
<1>1. CASE filename_parentat(p) \/ do_linkat(p) \/ mnt_want_write(p) \/ RenameMutex(p) \/ Lock(p)
  BY <1>1, WalkGood, LinkatGood, WantGood, MutexGood, TakeLockGood
<1>2. CASE LookCreate(p) \/ LookRemove(p) \/ LookRename(p) \/ LookOpen(p)
  BY <1>2, LookCreateGood, LookRemoveGood, LookRenameGood, LookOpenGood
<1>3. CASE vfs_mknod(p) \/ vfs_mkdir(p) \/ vfs_symlink(p) \/ vfs_tmpfile(p) \/ vfs_link(p)
  BY <1>3, CreateGood, TmpfileGood, LinkGood
<1>4. CASE vfs_rmdir(p) \/ vfs_unlink(p) \/ vfs_rename(p) \/ SpinLock(p) \/ OpenCreate(p)
  BY <1>4, RmdirGood, UnlinkGood, RenameGood, SpinLockGood, OpenCreateGood
<1>5. CASE lookup_fast(p) \/ handle_dots(p) \/ finish_open(p) \/ handle_truncate(p)
  BY <1>5, FastGood, DotsGood, FinishGood, TruncateGood
<1>6. CASE Unlock(p) \/ break_deleg_wait(p) \/ (Refuse(p) /\ UNCHANGED tree)
  BY <1>6, UnlockGood, BreakGood, RefuseGood
<1> QED BY <1>1, <1>2, <1>3, <1>4, <1>5, <1>6 DEF Step

\* What happens around the calls: delegations are returned, the mount changes.
LEMMA AroundKeeps ==
    ASSUME Inv, UNCHANGED <<tree, locks, writers, pc, st>>, EnvType', MountInv'
    PROVE  Inv'
<1>1. /\ owner' = owner /\ readers' = readers /\ rename_mutex' = rename_mutex
      /\ flatfs_spinlock' = flatfs_spinlock /\ writers' = writers /\ pc' = pc /\ st' = st
      /\ UNCHANGED tree
  BY DEF locks
<1>2. TypeInv /\ TreeInv /\ \A q \in Procs : StepInv(q)
  BY DEF Inv
<1>3. TypeInv'
  <2>1. TreeType'
    BY <1>1, <1>2, TreeKept DEF TypeInv
  <2>2. LockType' /\ ProcType'
    BY <1>1, <1>2 DEF TypeInv, LockType, ProcType
  <2> QED BY <2>1, <2>2 DEF TypeInv
<1>4. TreeInv'
  BY <1>1, <1>2, TreeKept
<1>5. \A q \in Procs : Rely(q)
  BY <1>1 DEF Rely, tree
<1>6. \A q \in Procs : StepInv(q)'
  BY <1>2, <1>3, <1>5, RelyKeeps
<1> QED BY <1>3, <1>4, <1>6 DEF Inv

LEMMA EnvKeeps ==
    ASSUME Inv, (\E i \in Inodes : ReturnDeleg(i)) \/ Remount \/ Freeze \/ Frozen \/ Thaw
    PROVE  Inv' /\ UNCHANGED <<tree, pc, st>>
<1>1. EnvType /\ MountInv
  BY DEF Inv, TypeInv
<1>2. CASE \E i \in Inodes : ReturnDeleg(i)
  <2>1. /\ UNCHANGED <<tree, locks, writers, pc, st>> /\ mount' = mount /\ admin' = admin
        /\ deleg' \subseteq deleg
    BY <1>2 DEF ReturnDeleg
  <2>2. EnvType' /\ MountInv'
    BY <1>1, <2>1 DEF EnvType, MountInv
  <2> QED BY <2>1, <2>2, AroundKeeps
<1>3. CASE Remount
  <2>1. /\ UNCHANGED <<tree, locks, writers, pc, st>> /\ mount' = "ro" /\ admin' = admin - 1
        /\ deleg' = deleg /\ writers = {} /\ admin > 0
    BY <1>3 DEF Remount
  <2>2. EnvType' /\ MountInv'
    BY <1>1, <2>1 DEF EnvType, MountInv
  <2> QED BY <2>1, <2>2, AroundKeeps
<1>4. CASE Freeze
  <2>1. /\ UNCHANGED <<tree, locks, writers, pc, st>> /\ mount' = "freezing"
        /\ admin' = admin - 1 /\ deleg' = deleg /\ admin > 0
    BY <1>4 DEF Freeze
  <2>2. EnvType' /\ MountInv'
    BY <1>1, <2>1 DEF EnvType, MountInv
  <2> QED BY <2>1, <2>2, AroundKeeps
<1>5. CASE Frozen
  <2>1. /\ UNCHANGED <<tree, locks, writers, pc, st>> /\ mount' = "frozen" /\ admin' = admin
        /\ deleg' = deleg /\ writers = {}
    BY <1>5 DEF Frozen
  <2>2. EnvType' /\ MountInv'
    BY <1>1, <2>1 DEF EnvType, MountInv
  <2> QED BY <2>1, <2>2, AroundKeeps
<1>6. CASE Thaw
  <2>1. /\ UNCHANGED <<tree, locks, writers, pc, st>> /\ mount' = "rw" /\ admin' = admin
        /\ deleg' = deleg
    BY <1>6 DEF Thaw
  <2>2. EnvType' /\ MountInv'
    BY <1>1, <2>1 DEF EnvType, MountInv
  <2> QED BY <2>1, <2>2, AroundKeeps
<1> QED BY <1>2, <1>3, <1>4, <1>5, <1>6

LEMMA NextKeeps == Inv /\ [Next]_vars => Inv'
<1> SUFFICES ASSUME Inv, [Next]_vars PROVE Inv'
  OBVIOUS
<1>1. ASSUME NEW p \in Procs, Step(p) PROVE Inv'
  <2>1. Good(p)
    BY <1>1, StepGood
  <2>2. TypeInv' /\ MountInv' /\ TreeInv' /\ StepInv(p)'
    BY <2>1 DEF Good
  <2>3. ASSUME NEW q \in Procs \ {p} PROVE StepInv(q)'
    <3>1. Rely(q)
      BY <2>1 DEF Good
    <3>2. TypeInv /\ TreeInv /\ StepInv(q)
      BY DEF Inv
    <3> QED BY <2>2, <3>1, <3>2, RelyKeeps
  <2>4. \A q \in Procs : StepInv(q)'
    BY <2>2, <2>3
  <2> QED BY <2>2, <2>4 DEF Inv
<1>2. CASE (\E i \in Inodes : ReturnDeleg(i)) \/ Remount \/ Freeze \/ Frozen \/ Thaw
  BY <1>2, EnvKeeps
<1>3. CASE UNCHANGED vars
  <2>1. /\ UNCHANGED <<tree, locks, writers, pc, st>> /\ mount' = mount /\ admin' = admin
        /\ deleg' = deleg
    BY <1>3 DEF vars, env, around
  <2>2. EnvType' /\ MountInv'
    BY <2>1 DEF Inv, TypeInv, EnvType, MountInv
  <2> QED BY <2>1, <2>2, AroundKeeps
<1> QED BY <1>1, <1>2, <1>3 DEF Next

\* A call that has not started knows nothing yet.
LEMMA FirstStep ==
    ASSUME NEW p \in Procs, pc[p] \in {"walk", "done"}, Root \in Directories, NoLocks(p),
           st[p].d = Root, st[p].d2 = Root, st[p].brk = None, ~st[p].did
    PROVE  StepInv(p)
<1>1. ~Found(p) /\ ~Creating(p) /\ ~Inside(p)
  BY DEF Found, Creating, Inside
<1>2. CallInv(p)
  BY <1>1 DEF CallInv
<1>3. NameInv(p)
  BY DEF NameInv
<1>4. LockInv(p) /\ WriteInv(p)
  BY <1>1 DEF LockInv, WriteInv, NoLocks
<1>5. HoldInv(p) /\ ActInv(p) /\ TrapInv(p)
  BY <1>1 DEF HoldInv, ActInv, TrapInv
<1>6. DidInv(p)
  BY DEF DidInv
<1> QED BY <1>2, <1>3, <1>4, <1>5, <1>6 DEF StepInv

\* The tree of a scenario.
LEMMA FirstTree ==
    ASSUME TreeType, IsTree(kind, child, up), dead = {}
    PROVE  TreeInv
<1>1. Root \in Inodes /\ kind[Root] = "dir" /\ up[Root] = Root
  BY StartType DEF IsTree, Locals
<1>2. \A d \in Inodes \ {Root} : kind[d] = "dir" =>
        kind[up[d]] = "dir" /\ \E n \in Names : child[up[d]][n] = d
  BY DEF IsTree
<1>3. \A d \in Inodes, n \in Names : child[d][n] # None =>
        /\ kind[d] = "dir" /\ kind[child[d][n]] # "free" /\ child[d][n] # Root
        /\ kind[child[d][n]] = "dir" =>
             up[child[d][n]] = d /\ \A m \in Names : child[d][m] = child[d][n] => m = n
  BY DEF IsTree
<1>4. \A S \in SUBSET Directories : S # {} /\ (\A d \in S : up[d] \in S) => Root \in S
  BY DEF IsTree, Directories
<1>5. Abstract!TreeOK
  <2>1. Abstract!Live(Root)
    BY <1>1 DEF Abstract!Live
  <2>2. ASSUME NEW d \in Inodes \ {Root}, Abstract!Live(d)
        PROVE  kind[up[d]] = "dir" /\ \E n \in Names : child[up[d]][n] = d
    BY <1>2, <2>2 DEF Abstract!Live
  <2>3. ASSUME NEW d \in Inodes, NEW e \in Inodes, NEW n \in Names, NEW m \in Names,
               child[d][n] # None, kind[child[d][n]] = "dir", child[e][m] = child[d][n]
        PROVE  d = e /\ n = m /\ d = up[child[d][n]]
    <3>1. up[child[d][n]] = d /\ \A l \in Names : child[d][l] = child[d][n] => l = n
      BY <1>3, <2>3
    <3>2. up[child[e][m]] = e
      BY <1>3, <2>3
    <3> QED BY <2>3, <3>1, <3>2
  <2>4. ASSUME NEW d \in Inodes, NEW n \in Names, child[d][n] # None
        PROVE  /\ kind[d] = "dir" /\ kind[child[d][n]] # "free"
               /\ child[d][n] \notin dead \union {Root}
    BY <1>3, <2>4 DEF Abstract!Live
  <2> QED BY <2>1, <2>2, <2>3, <2>4 DEF Abstract!TreeOK
<1>6. \A d \in Directories : up[d] \in Directories
  BY <1>1, <1>2 DEF TreeType, Directories
<1>7. ASSUME NEW d \in Directories PROVE Root \in Above(d)
  <2>1. ASSUME NEW S \in SUBSET Inodes, d \in S, \A x \in S : up[x] \in S PROVE Root \in S
    <3> DEFINE T == S \intersect Directories
    <3>1. T \in SUBSET Directories /\ T # {} /\ \A x \in T : up[x] \in T
      BY <1>6, <2>1
    <3>2. Root \in T
      BY <1>4, <3>1
    <3> QED BY <3>2
  <2> QED BY <1>1, <2>1 DEF Above
<1>8. dead \subseteq Directories
  OBVIOUS
<1> QED BY <1>1, <1>5, <1>6, <1>7, <1>8 DEF TreeInv, UpInv

LEMMA InitKeeps == Init => Inv
<1> SUFFICES ASSUME Init PROVE Inv
  OBVIOUS
<1>1. PICK s \in Scenarios :
        /\ kind = s.kind /\ child = s.child /\ up = s.up /\ body = s.body
        /\ deleg = s.deleg /\ admin = s.admin
        /\ pc = [p \in Procs |-> IF s.calls[p] = None THEN "done" ELSE "walk"]
        /\ \E n, n2 \in [Procs -> s.names] :
            /\ \A p \in Procs : s.calls[p] = None => n[p] = CHOOSE m \in s.names : TRUE
            /\ \A p \in Procs : s.calls[p] \notin Renames => n2[p] = n[p]
            /\ st = [p \in Procs |-> IF s.calls[p] = None THEN Start
                        ELSE [Start EXCEPT !.call = s.calls[p], !.n = n[p], !.n2 = n2[p]]]
  BY DEF Init
<1>2. PICK n \in [Procs -> s.names], n2 \in [Procs -> s.names] :
        st = [p \in Procs |-> IF s.calls[p] = None THEN Start
                ELSE [Start EXCEPT !.call = s.calls[p], !.n = n[p], !.n2 = n2[p]]]
  BY <1>1
<1>3. /\ data = {i \in Inodes : kind[i] = "file"} /\ dead = {} /\ linkable = {}
      /\ owner = [i \in Inodes |-> None] /\ readers = [i \in Inodes |-> {}]
      /\ rename_mutex = None /\ flatfs_spinlock = None
      /\ writers = {} /\ mount = "rw"
  BY DEF Init
<1>4. /\ s.kind \in [Inodes -> Kinds] /\ s.child \in [Inodes -> [Names -> InodeOrNone]]
      /\ s.up \in [Inodes -> Inodes] /\ s.body \in [Inodes -> Names]
      /\ IsTree(s.kind, s.child, s.up)
      /\ s.calls \in [Procs -> AllCalls \union {None}]
      /\ s.names \subseteq Components /\ s.deleg \subseteq Inodes /\ s.admin \in Nat
  BY ScenarioAssumption DEF Kinds, InodeOrNone, Components
<1>5. TreeType /\ IsTree(kind, child, up)
  BY <1>1, <1>3, <1>4 DEF TreeType
<1>6. TreeInv
  BY <1>3, <1>5, FirstTree
<1>7. LockType /\ EnvType /\ MountInv
  BY <1>1, <1>3, <1>4 DEF LockType, EnvType, MountInv
<1>8. ASSUME NEW p \in Procs
      PROVE  /\ st[p] \in Locals /\ st[p].d = Root /\ st[p].d2 = Root /\ st[p].brk = None
             /\ ~st[p].did
  <2>1. CASE s.calls[p] = None
    <3>1. st[p] = Start
      BY <1>2, <2>1
    <3> QED BY <3>1, StartType
  <2>2. CASE s.calls[p] # None
    <3>1. st[p] = PutCall(Start, s.calls[p], n[p], n2[p])
      BY <1>2, <2>2 DEF PutCall
    <3>2. s.calls[p] \in AllCalls /\ n[p] \in Components /\ n2[p] \in Components
      BY <1>4, <2>2
    <3>3. /\ Start \in Locals /\ Start.d = Root /\ Start.d2 = Root /\ Start.brk = None
          /\ ~Start.did
      BY StartType
    <3>4. PICK t : t = PutCall(Start, s.calls[p], n[p], n2[p])
      OBVIOUS
    <3>5. /\ t \in Locals /\ t.d = Start.d /\ t.d2 = Start.d2 /\ t.brk = Start.brk
          /\ (t.did <=> Start.did)
      BY <3>2, <3>3, <3>4, SetCall
    <3> QED BY <3>1, <3>3, <3>4, <3>5
  <2> QED BY <2>1, <2>2
<1>9. ProcType
  <2>1. \A p \in Procs : st[p] \in Locals
    BY <1>8
  <2>2. st \in [Procs -> Locals]
    BY <1>2, <2>1
  <2>3. pc \in [Procs -> Pcs]
    BY <1>1 DEF Pcs
  <2> QED BY <2>2, <2>3 DEF ProcType
<1>10. ASSUME NEW p \in Procs PROVE StepInv(p)
  <2>1. pc[p] \in {"walk", "done"}
    BY <1>1
  <2>2. NoLocks(p)
    BY <1>3, NameiAssumption DEF NoLocks
  <2>3. Root \in Directories
    BY <1>5, <1>6, RootIsDirectory DEF TreeInv
  <2> QED BY <1>8, <2>1, <2>2, <2>3, FirstStep
<1> QED BY <1>5, <1>6, <1>7, <1>9, <1>10 DEF Inv, TypeInv

\* The invariant: the locks a call holds, the write access it has and what it has found are
\* what its place in extra/namei.c says, for every process at once.
THEOREM CallsInvariant == Spec => []Inv
BY InitKeeps, NextKeeps, PTL DEF Spec

\* A call never goes on with a name or an inode it has not found, whatever the others do
\* while it sleeps (do_renameat2, do_last).
THEOREM NameiTypeCorrect == Spec => []TypeOK
<1>1. Inv => TypeOK
  <2> SUFFICES ASSUME Inv PROVE TypeOK
    OBVIOUS
  <2>1. TreeType /\ LockType /\ EnvType /\ ProcType /\ TypeInv
    BY DEF Inv, TypeInv
  <2>2. ASSUME NEW p \in Procs
        PROVE  /\ st[p].call \in AllCalls /\ {st[p].n, st[p].n2} \subseteq Names \union {Dots}
               /\ {st[p].d, st[p].d2} \subseteq Directories
               /\ {st[p].old, st[p].new, st[p].trap, st[p].brk} \subseteq Inodes \union {None}
               /\ st[p].todo \in Seq(Inodes) /\ st[p].links \in 0 .. MAXSYMLINKS
    <3>1. st[p].d \in Directories /\ st[p].d2 \in Directories
      BY DEF Inv, StepInv, NameInv
    <3> QED BY <2>1, <3>1, LocalsOf DEF Components, InodeOrNone
  <2> QED BY <2>1, <2>2
      DEF TypeOK, TreeType, LockType, EnvType, ProcType, Kinds, InodeOrNone
<1> QED BY <1>1, CallsInvariant, PTL

\* A process that waits for a delegation or for a thaw holds no lock (break_deleg_wait,
\* mnt_want_write).
THEOREM NoLockWhileWaiting == Spec => []WaitsUnlocked
<1>1. Inv => WaitsUnlocked
  <2> SUFFICES ASSUME Inv, NEW p \in Procs, pc[p] \in {"break", "want", "opened"}
               PROVE  NoLocks(p)
    BY DEF WaitsUnlocked, NoLocks
  <2>1. LockInv(p)
    BY DEF Inv, StepInv
  <2> QED BY <2>1, OutsideNoLocks
<1> QED BY <1>1, CallsInvariant, PTL

\* No renames that run together make a cycle, give a directory two names or leave a
\* name to a removed one (lock_rename and its trap, IS_DEADDIR).
THEOREM TreeStaysWhole == Spec => []TreeWhole
<1>1. Inv => TreeWhole
  <2> SUFFICES ASSUME Inv PROVE TreeWhole
    OBVIOUS
  <2>1. TreeInv
    BY DEF Inv
  <2>2. ASSUME NEW d \in Inodes, kind[d] = "dir" PROVE Root \in Abstract!Ancestors(d)
    <3>1. Root \in Above(d)
      BY <2>1, <2>2 DEF TreeInv, UpInv, Directories
    <3> QED BY <3>1 DEF Above, Abstract!Ancestors
  <2> QED BY <2>1, <2>2 DEF TreeWhole, TreeInv, Abstract!Connected
<1> QED BY <1>1, CallsInvariant, PTL

\* A step that changes the tree is one of a process that has write access.
LEMMA ChangeByWriter ==
    ASSUME Inv, NEW p \in Procs, Step(p)
    PROVE  UNCHANGED tree \/ p \in writers
<1>1. Found(p) \/ Creating(p) \/ pc[p] = "truncate" => p \in writers
  BY DEF Inv, StepInv, WriteInv
<1>2. pc[p] \in {"act", "create", "truncate"} => p \in writers
  BY <1>1 DEF Found, Creating
<1>3. CASE filename_parentat(p) \/ do_linkat(p) \/ mnt_want_write(p) \/ RenameMutex(p) \/ Lock(p)
  BY <1>3 DEF filename_parentat, do_linkat, mnt_want_write, RenameMutex, Lock
<1>4. CASE LookCreate(p) \/ LookRemove(p) \/ LookRename(p) \/ LookOpen(p)
  BY <1>4 DEF LookCreate, LookRemove, LookRename, LookOpen
<1>5. CASE vfs_mknod(p) \/ vfs_mkdir(p) \/ vfs_symlink(p) \/ vfs_tmpfile(p) \/ vfs_link(p)
  BY <1>2, <1>5 DEF vfs_mknod, vfs_mkdir, vfs_symlink, Create, vfs_tmpfile, vfs_link
<1>6. CASE vfs_rmdir(p) \/ vfs_unlink(p) \/ vfs_rename(p) \/ OpenCreate(p) \/ handle_truncate(p)
  BY <1>2, <1>6 DEF vfs_rmdir, vfs_unlink, vfs_rename, OpenCreate, handle_truncate
<1>7. CASE SpinLock(p) \/ lookup_fast(p) \/ handle_dots(p) \/ finish_open(p)
  BY <1>7 DEF SpinLock, lookup_fast, handle_dots, finish_open
<1>8. CASE Unlock(p) \/ break_deleg_wait(p) \/ (Refuse(p) /\ UNCHANGED tree)
  BY <1>8 DEF Unlock, break_deleg_wait
<1> QED BY <1>3, <1>4, <1>5, <1>6, <1>7, <1>8 DEF Step

\* Nothing changes while the mount is read-only or frozen: a call that is about to change
\* something has the write access a remount or a freeze waits for (mnt_want_write).
THEOREM NoChangeWhenReadOnly == Spec => ReadOnlyKept
<1>1. ASSUME Inv, [Next]_vars PROVE [(mount \in {"ro", "frozen"}) => tree' = tree]_vars
  <2>1. ASSUME NEW p \in Procs, Step(p), mount \in {"ro", "frozen"} PROVE tree' = tree
    <3>1. writers = {}
      BY <1>1, <2>1 DEF Inv, MountInv
    <3> QED BY <1>1, <2>1, <3>1, ChangeByWriter
  <2>2. CASE (\E i \in Inodes : ReturnDeleg(i)) \/ Remount \/ Freeze \/ Frozen \/ Thaw
    BY <1>1, <2>2, EnvKeeps
  <2> QED BY <1>1, <2>1, <2>2 DEF Next
<1> QED BY <1>1, CallsInvariant, PTL DEF Spec, ReadOnlyKept

-----------------------------------------------------------------------------
(* The effect of a call *)

EntriesOf(c, i) == {e \in Inodes \X Names : c[e[1]][e[2]] = i}
LEMMA CountNames ==
    ASSUME NEW c, NEW i
    PROVE  Cardinality(EntriesOf(c, i)) = 0 <=> \A d \in Inodes, n \in Names : c[d][n] # i
<1>1. 0 \in Int /\ N - 1 \in Int
  <2>1. N \in Nat
    BY NameiAssumption
  <2> QED BY <2>1
<1>2. IsFiniteSet(Inodes)
  BY <1>1, FS_Interval DEF Inodes
<1>3. IsFiniteSet(Names)
  BY NameiAssumption
<1>4. IsFiniteSet(Inodes \X Names)
  BY <1>2, <1>3, FS_Product
<1>5. IsFiniteSet(EntriesOf(c, i))
  <2>1. EntriesOf(c, i) \subseteq Inodes \X Names
    BY DEF EntriesOf
  <2> QED BY <1>4, <2>1, FS_Subset
<1>6. Cardinality(EntriesOf(c, i)) = 0 <=> EntriesOf(c, i) = {}
  BY <1>5, FS_EmptySet
<1>7. EntriesOf(c, i) = {} <=> \A d \in Inodes, n \in Names : c[d][n] # i
  <2>1. ASSUME NEW d \in Inodes, NEW n \in Names, c[d][n] = i PROVE EntriesOf(c, i) # {}
    <3>1. PICK e : e = <<d, n>>
      OBVIOUS
    <3>2. e \in Inodes \X Names /\ e[1] = d /\ e[2] = n
      BY <3>1
    <3> QED BY <2>1, <3>2 DEF EntriesOf
  <2>2. ASSUME NEW e \in EntriesOf(c, i) PROVE \E d \in Inodes, n \in Names : c[d][n] = i
    <3>1. e[1] \in Inodes /\ e[2] \in Names /\ c[e[1]][e[2]] = i
      BY DEF EntriesOf
    <3> QED BY <3>1
  <2> QED BY <2>1, <2>2
<1> QED BY <1>6, <1>7

LEMMA LinkCount ==
    ASSUME NEW i
    PROVE  /\ i_nlink(i) = 0 <=> \A d \in Inodes, n \in Names : child[d][n] # i
           /\ i_nlink(i)' = 0 <=> \A d \in Inodes, n \in Names : child'[d][n] # i
<1>1. i_nlink(i) = Cardinality(EntriesOf(child, i))
  BY DEF i_nlink, Entries, EntriesOf
<1>2. i_nlink(i)' = Cardinality(EntriesOf(child', i))
  BY DEF i_nlink, Entries, EntriesOf
<1> QED BY <1>1, <1>2, CountNames

\* An effect gives no name to an inode without one that may not be linked.
LEMMA GoneKept ==
    ASSUME TreeType, NEW c, Abstract!Effect(c), NEW i \in Inodes,
           kind[i] \in {"file", "link"}, \A d \in Inodes, n \in Names : child[d][n] # i,
           i \notin linkable
    PROVE  /\ kind'[i] = kind[i] /\ i \notin linkable'
           /\ \A d \in Inodes, n \in Names : child'[d][n] # i
<1>0. child \in [Inodes -> [Names -> InodeOrNone]] /\ kind \in [Inodes -> Kinds]
  BY DEF TreeType
<1>1. ASSUME NEW j \in Inodes, NEW k, NEW d \in Inodes, NEW n \in Names,
             Abstract!Make(j, k, d, n)
      PROVE  /\ kind'[i] = kind[i] /\ i \notin linkable'
             /\ \A x \in Inodes, y \in Names : child'[x][y] # i
  <2>1. /\ kind[j] = "free" /\ kind' = [kind EXCEPT ![j] = k]
        /\ child' = [child EXCEPT ![d][n] = j] /\ linkable' = linkable
    BY <1>1 DEF Abstract!Make
  <2>2. j # i
    BY <2>1
  <2>3. kind'[i] = kind[i]
    BY <1>0, <2>1, <2>2
  <2>4. ASSUME NEW x \in Inodes, NEW y \in Names PROVE child'[x][y] # i
    BY <1>0, <2>1, <2>2
  <2> QED BY <2>1, <2>3, <2>4
<1>2. ASSUME NEW j \in Inodes, Abstract!MakeUnnamed(j)
      PROVE  /\ kind'[i] = kind[i] /\ i \notin linkable'
             /\ \A x \in Inodes, y \in Names : child'[x][y] # i
  <2>1. /\ kind[j] = "free" /\ kind' = [kind EXCEPT ![j] = "file"]
        /\ child' = child /\ linkable' = linkable \union {j}
    BY <1>2 DEF Abstract!MakeUnnamed
  <2>2. j # i
    BY <2>1
  <2> QED BY <1>0, <2>1, <2>2
<1>3. ASSUME NEW j \in Inodes, NEW d \in Inodes, NEW n \in Names, Abstract!Link(j, d, n)
      PROVE  /\ kind'[i] = kind[i] /\ i \notin linkable'
             /\ \A x \in Inodes, y \in Names : child'[x][y] # i
  <2>1. /\ Abstract!Named(j) \/ j \in linkable
        /\ child' = [child EXCEPT ![d][n] = j] /\ linkable' = linkable \ {j} /\ kind' = kind
    BY <1>3 DEF Abstract!Link
  <2>2. j # i
    BY <2>1 DEF Abstract!Named
  <2>3. ASSUME NEW x \in Inodes, NEW y \in Names PROVE child'[x][y] # i
    BY <1>0, <2>1, <2>2
  <2> QED BY <2>1, <2>3
<1>4. ASSUME NEW d \in Inodes, NEW n \in Names, Abstract!Remove(d, n)
      PROVE  /\ kind'[i] = kind[i] /\ i \notin linkable'
             /\ \A x \in Inodes, y \in Names : child'[x][y] # i
  <2>1. child' = [child EXCEPT ![d][n] = None] /\ linkable' = linkable /\ kind' = kind
    BY <1>4 DEF Abstract!Remove
  <2>2. None # i
    BY NameiAssumption
  <2>3. ASSUME NEW x \in Inodes, NEW y \in Names PROVE child'[x][y] # i
    BY <1>0, <2>1, <2>2
  <2> QED BY <2>1, <2>3
<1>5. ASSUME NEW d \in Inodes, NEW n \in Names, NEW e \in Inodes, NEW m \in Names,
             Abstract!Move(d, n, e, m)
      PROVE  /\ kind'[i] = kind[i] /\ i \notin linkable'
             /\ \A x \in Inodes, y \in Names : child'[x][y] # i
  <2>1. /\ child' = [child EXCEPT ![d][n] = None, ![e][m] = child[d][n]]
        /\ linkable' = linkable /\ kind' = kind
    BY <1>5 DEF Abstract!Move
  <2>2. None # i /\ child[d][n] # i
    BY NameiAssumption
  <2>3. ASSUME NEW x \in Inodes, NEW y \in Names PROVE child'[x][y] # i
    BY <1>0, <2>1, <2>2
  <2> QED BY <2>1, <2>3
<1>6. ASSUME NEW d \in Inodes, NEW n \in Names, NEW e \in Inodes, NEW m \in Names,
             Abstract!Swap(d, n, e, m)
      PROVE  /\ kind'[i] = kind[i] /\ i \notin linkable'
             /\ \A x \in Inodes, y \in Names : child'[x][y] # i
  <2>1. /\ child' = [child EXCEPT ![d][n] = child[e][m], ![e][m] = child[d][n]]
        /\ linkable' = linkable /\ kind' = kind
    BY <1>6 DEF Abstract!Swap
  <2>2. child[e][m] # i /\ child[d][n] # i
    OBVIOUS
  <2>3. ASSUME NEW x \in Inodes, NEW y \in Names PROVE child'[x][y] # i
    BY <1>0, <2>1, <2>2
  <2> QED BY <2>1, <2>3
<1> QED BY <1>1, <1>2, <1>3, <1>4, <1>5, <1>6 DEF Abstract!Effect

\* An inode that lost its last name stays without one, even for a link that had found it
\* before (vfs_link, I_LINKABLE).
THEOREM NamelessForever == Spec => GoneForever
<1>1. ASSUME Inv, [Next]_vars PROVE [\A i \in Inodes : Gone(i) => Gone(i)']_vars
  <2>1. ASSUME UNCHANGED <<kind, child, linkable>>, NEW i \in Inodes, Gone(i) PROVE Gone(i)'
    BY <2>1 DEF Gone, i_nlink, Entries
  <2>2. ASSUME NEW p \in Procs, Step(p), NEW i \in Inodes, Gone(i) PROVE Gone(i)'
    <3>1. Good(p) /\ TreeType
      BY <1>1, <2>2, StepGood DEF Inv, TypeInv
    <3>2. CASE UNCHANGED <<kind, child, up, dead, linkable>>
      BY <2>1, <2>2, <3>2
    <3>3. CASE Commits(p)
      <4>1. Abstract!Effect(st[p].call)
        BY <3>3 DEF Commits
      <4>2. /\ kind[i] \in {"file", "link"} /\ i \notin linkable
            /\ \A d \in Inodes, n \in Names : child[d][n] # i
        BY <2>2, LinkCount DEF Gone
      <4>3. /\ kind'[i] = kind[i] /\ i \notin linkable'
            /\ \A d \in Inodes, n \in Names : child'[d][n] # i
        BY <3>1, <4>1, <4>2, GoneKept
      <4>4. i_nlink(i)' = 0
        BY <4>3, LinkCount
      <4> QED BY <4>2, <4>3, <4>4 DEF Gone
    <3> QED BY <3>1, <3>2, <3>3 DEF Good
  <2>3. CASE (\E i \in Inodes : ReturnDeleg(i)) \/ Remount \/ Freeze \/ Frozen \/ Thaw
    <3>1. UNCHANGED <<kind, child, linkable>>
      BY <1>1, <2>3, EnvKeeps DEF tree
    <3> QED BY <2>1, <3>1
  <2> QED BY <1>1, <2>2, <2>3 DEF Next
<1> QED BY <1>1, CallsInvariant, PTL DEF Spec, GoneForever

-----------------------------------------------------------------------------
(* The calls are atomic *)

\* The state of Namespace that a state of Namei stands for.
CallMap == [p \in Procs |-> st[p].call]
OutMap == [p \in Procs |->
    IF pc[p] = "done" THEN IF st[p].err = "" THEN "ok" ELSE "fail"
    ELSE IF st[p].did THEN "did" ELSE "busy"]

LEMMA InitMaps == Init => Abstract!Init
<1> SUFFICES ASSUME Init PROVE Abstract!Init
  OBVIOUS
<1>1. Inv
  BY InitKeeps
<1>2. TypeInv /\ TreeType /\ TreeInv
  BY <1>1 DEF Inv, TypeInv
<1>3. dead = {} /\ linkable = {}
  BY DEF Init
<1>4. Abstract!TreeOK /\ Abstract!Connected
  <2>1. ASSUME NEW d \in Inodes, kind[d] = "dir" PROVE Root \in Abstract!Ancestors(d)
    <3>1. Root \in Above(d)
      BY <1>2, <2>1 DEF TreeInv, UpInv, Directories
    <3> QED BY <3>1 DEF Above, Abstract!Ancestors
  <2> QED BY <1>2, <2>1 DEF TreeInv, Abstract!Connected
<1>5. CallMap \in [Procs -> Abstract!AllCalls]
  <2>1. AllCalls \subseteq Abstract!AllCalls
    BY DEF AllCalls, Opens, Creates, Removes, Renames, Abstract!AllCalls
  <2>2. \A p \in Procs : st[p].call \in AllCalls
    BY <1>2, LocalsOf
  <2> QED BY <2>1, <2>2 DEF CallMap
<1>6. OutMap \in [Procs -> {"busy", "ok"}]
  <2>0. PICK s \in Scenarios :
          /\ kind = s.kind /\ child = s.child /\ up = s.up /\ body = s.body
          /\ deleg = s.deleg /\ admin = s.admin
          /\ pc = [p \in Procs |-> IF s.calls[p] = None THEN "done" ELSE "walk"]
          /\ \E n, n2 \in [Procs -> s.names] :
              /\ \A p \in Procs : s.calls[p] = None => n[p] = CHOOSE m \in s.names : TRUE
              /\ \A p \in Procs : s.calls[p] \notin Renames => n2[p] = n[p]
              /\ st = [p \in Procs |-> IF s.calls[p] = None THEN Start
                          ELSE [Start EXCEPT !.call = s.calls[p], !.n = n[p], !.n2 = n2[p]]]
    BY DEF Init
  <2>1. \A p \in Procs :
          /\ pc[p] = IF s.calls[p] = None THEN "done" ELSE "walk"
          /\ s.calls[p] = None => st[p] = Start
    BY <2>0
  <2>2. ASSUME NEW p \in Procs
        PROVE  OutMap[p] \in {"busy", "ok"}
    <3>1. CASE s.calls[p] = None
      <4>1. pc[p] = "done" /\ st[p] = Start
        BY <2>1, <3>1
      <4>2. st[p].err = ""
        BY <4>1, StartType
      <4> QED BY <4>1, <4>2 DEF OutMap
    <3>2. CASE s.calls[p] # None
      <4>1. pc[p] = "walk"
        BY <2>1, <3>2
      <4>2. ~st[p].did
        BY <1>1, <4>1 DEF Inv, StepInv, DidInv
      <4> QED BY <4>1, <4>2 DEF OutMap
    <3> QED BY <3>1, <3>2
  <2> QED BY <2>2 DEF OutMap
<1> QED BY <1>2, <1>3, <1>4, <1>5, <1>6
    DEF Abstract!Init, TreeType, Kinds, InodeOrNone, CallMap, OutMap

\* A step of p changes only its own answer.
LEMMA OutStep ==
    ASSUME NEW p \in Procs, Good(p)
    PROVE  CallMap' = CallMap /\ OutMap' = [OutMap EXCEPT ![p] = Out(p)'] /\ OutMap[p] = Out(p)
<1>1. st'[p].call = st[p].call
  BY DEF Good, Answers, Commits
<1>2. ASSUME NEW q \in Procs \ {p} PROVE pc'[q] = pc[q] /\ st'[q] = st[q]
  BY DEF Good, Rely
<1>3. CallMap' = CallMap
  BY <1>1, <1>2 DEF CallMap
<1>4. OutMap[p] = Out(p) /\ OutMap'[p] = Out(p)'
  BY DEF OutMap, Out
<1>5. ASSUME NEW q \in Procs \ {p} PROVE OutMap'[q] = OutMap[q]
  BY <1>2 DEF OutMap
<1>6. OutMap' = [OutMap EXCEPT ![p] = Out(p)']
  <2>1. OutMap' = [q \in Procs |-> OutMap'[q]]
    BY DEF OutMap
  <2>2. [OutMap EXCEPT ![p] = Out(p)'] = [q \in Procs |-> IF q = p THEN Out(p)' ELSE OutMap[q]]
    BY DEF OutMap
  <2> QED BY <1>4, <1>5, <2>1, <2>2
<1> QED BY <1>3, <1>4, <1>6

LEMMA StepMaps ==
    ASSUME Inv, NEW p \in Procs, Step(p)
    PROVE  [Abstract!Next]_(Abstract!vars)
<1>1. Good(p)
  BY StepGood
<1>2. CallMap' = CallMap /\ OutMap' = [OutMap EXCEPT ![p] = Out(p)'] /\ OutMap[p] = Out(p)
  BY <1>1, OutStep
<1>3. CallMap[p] = st[p].call
  BY DEF CallMap
<1>4. CASE Commits(p)
  <2>1. Out(p) = "busy" /\ Out(p)' = "did" /\ Abstract!Effect(st[p].call)
    BY <1>4 DEF Commits
  <2>2. OutMap[p] = "busy" /\ OutMap' = [OutMap EXCEPT ![p] = "did"]
    BY <1>2, <2>1
  <2>3. Abstract!Effect(CallMap[p])
    BY <1>3, <2>1
  <2>4. Abstract!Commit(p)
    BY <1>2, <2>2, <2>3 DEF Abstract!Commit, CallMap, OutMap
  <2> QED BY <2>4 DEF Abstract!Next
<1>5. CASE Answers(p) /\ UNCHANGED <<kind, child, up, dead, linkable>>
  <2>1. CASE Out(p)' = Out(p)
    <3>1. OutMap' = OutMap
      BY <1>2, <2>1 DEF OutMap
    <3>2. UNCHANGED <<kind, child, up, dead, linkable, CallMap, OutMap>>
      BY <1>2, <1>5, <3>1
    <3> QED BY <3>2 DEF Abstract!vars, CallMap, OutMap
  <2>2. CASE Out(p)' # Out(p)
    <3>1. \/ OutMap[p] = "busy" /\ OutMap' = [OutMap EXCEPT ![p] = "fail"]
          \/ OutMap[p] = "did" /\ OutMap' = [OutMap EXCEPT ![p] = "ok"]
          \/ /\ OutMap[p] = "busy"
             /\ CallMap[p] \in {"open", "trunc", "creat", "rename", "exchange"}
             /\ OutMap' = [OutMap EXCEPT ![p] = "ok"]
          \/ /\ OutMap[p] = "did" /\ CallMap[p] \in {"creat", "excl", "tmpfile"}
             /\ OutMap' = [OutMap EXCEPT ![p] = "fail"]
      BY <1>2, <1>3, <1>5, <2>2 DEF Answers
    <3>2. UNCHANGED <<kind, child, up, dead, linkable, CallMap>>
      BY <1>2, <1>5
    <3>3. Abstract!Answer(p)
      BY <3>1, <3>2 DEF Abstract!Answer, CallMap, OutMap
    <3> QED BY <3>3 DEF Abstract!Next
  <2> QED BY <2>1, <2>2
<1> QED BY <1>1, <1>4, <1>5 DEF Good

\* Namei implements Namespace: whatever a call checked before it slept on a lock still holds
\* when it acts, it acts once, and it answers success exactly if it acted (do_renameat2,
\* vfs_rmdir, do_last and the others).
THEOREM CallsAtomic == Spec => Atomic
<1>1. ASSUME Inv, [Next]_vars PROVE [Abstract!Next]_(Abstract!vars)
  <2>1. ASSUME NEW p \in Procs, Step(p) PROVE [Abstract!Next]_(Abstract!vars)
    BY <1>1, <2>1, StepMaps
  <2>2. CASE UNCHANGED <<tree, pc, st>>
    BY <2>2 DEF tree, Abstract!vars
  <2>3. CASE (\E i \in Inodes : ReturnDeleg(i)) \/ Remount \/ Freeze \/ Frozen \/ Thaw
    BY <1>1, <2>2, <2>3, EnvKeeps
  <2>4. CASE UNCHANGED vars
    <3>1. UNCHANGED <<tree, pc, st>>
      BY <2>4 DEF vars
    <3> QED BY <2>2, <3>1
  <2> QED BY <1>1, <2>1, <2>3, <2>4 DEF Next
<1> QED BY <1>1, InitMaps, CallsInvariant, PTL DEF Spec, Atomic, Abstract!Spec

-----------------------------------------------------------------------------
(* Who waits for whom *)

\* A process that may wait for a thaw has no write access.
WriteOut(p) ==
    /\ pc[p] \in {"walk", "want"} => p \notin writers
    /\ pc[p] = "opened" /\ ~st[p].did => p \notin writers
    /\ pc[p] = "break" /\ st[p].call = "link" => p \notin writers

\* A process that is about to take a lock holds none shared.
ShareOut(p) ==
    pc[p] \in {"lock", "look"} => \A i \in Inodes :
        p \in readers[i] => pc[p] = "look" /\ st[p].call \in {"open", "trunc"}

\* What a process holds that is taking its parents' locks: of two, at most the one that
\* is not below the other.
Two(s) == s.call \in Renames /\ s.d # s.d2
FirstOK(p, s) ==
    /\ ~Two(s) => s.todo = <<s.d>> /\ \A i \in Inodes : owner[i] # p
    /\ Two(s) => \E a, b \in {s.d, s.d2} :
        /\ a # b /\ b \notin Above(a)
        /\ \/ s.todo = <<a, b>> /\ \A i \in Inodes : owner[i] # p
           \/ s.todo = <<b>> /\ \A i \in Inodes : owner[i] = p => i = a

\* With its parents' locks it holds no others.  Then it takes the one of a directory it
\* removes or replaces, or those of files, in the order of their addresses.
ParentsOnly(p, s) == \A i \in Inodes : owner[i] = p => i \in Parents(s)
DirVictim(p, s) ==
    /\ ParentsOnly(p, s)
    /\ \E b \in Directories :
        /\ s.todo = <<b>>
        /\ (s.call = "rmdir" /\ b = s.old) \/ (s.call \in {"rename", "noreplace"} /\ b = s.new)
FileVictims(p, s) ==
    /\ \A k \in 1 .. Len(s.todo) : s.todo[k] \in NonDirectories
    /\ \A j, k \in 1 .. Len(s.todo) : j < k => s.todo[j] < s.todo[k]
    /\ \A i \in Inodes : owner[i] = p /\ i \notin Parents(s) =>
        i \in NonDirectories /\ \A k \in 1 .. Len(s.todo) : i < s.todo[k]

OrderInv(p) ==
    /\ pc[p] = "lock" /\ st[p].then = "look" => FirstOK(p, st[p])
    /\ pc[p] = "look" => ParentsOnly(p, st[p])
    /\ pc[p] = "lock" /\ st[p].then = "act" => DirVictim(p, st[p]) \/ FileVictims(p, st[p])
WaitInv(p) == WriteOut(p) /\ ShareOut(p) /\ OrderInv(p)
WaitsInv == \A p \in Procs : WaitInv(p)

\* Numbers below a bound do not grow for ever.
LEMMA NoAscent ==
    ASSUME NEW B \in Nat, NEW F \in SUBSET (0 .. B), F # {}, \A x \in F : \E y \in F : x < y
    PROVE  FALSE
<1> DEFINE G == {k \in Nat : \E x \in F : k + x = B}
           R == {ss \in Nat \X Nat : ss[1] < ss[2]}
<1>1. IsWellFoundedOn(R, Nat)
  BY NatLessThanWellFounded DEF OpToRel
<1>2. G \subseteq Nat /\ G # {}
  <2>1. PICK x \in F : TRUE
    OBVIOUS
  <2>2. x \in 0 .. B /\ B - x \in Nat /\ (B - x) + x = B
    OBVIOUS
  <2>3. B - x \in G
    BY <2>2
  <2> QED BY <2>3
<1>3. PICK k \in G : \A m \in G : <<m, k>> \notin R
  <2> HIDE DEF G, R
  <2> QED BY <1>1, <1>2, WFMin
<1>4. PICK x \in F : k + x = B
  OBVIOUS
<1>5. PICK y \in F : x < y
  OBVIOUS
<1>6. x \in 0 .. B /\ y \in 0 .. B /\ k \in Nat
  OBVIOUS
<1>7. PICK m : m = B - y
  OBVIOUS
<1>8. m \in Nat /\ m + y = B /\ m < k
  BY <1>4, <1>5, <1>6, <1>7
<1>9. m \in G
  BY <1>8
<1> QED BY <1>3, <1>6, <1>8, <1>9

\* Nor does a way down the tree.
LEMMA NoDescent ==
    ASSUME TreeType, UpInv, NEW H \in SUBSET Directories, H # {},
           \A h \in H : \E g \in H : g # Root /\ up[g] = h
    PROVE  FALSE
<1> DEFINE Deep(h) == Cardinality(UpSet(up, h))
           F == {Deep(h) : h \in H}
<1>1. N \in Nat /\ IsFiniteSet(Inodes) /\ Cardinality(Inodes) = N
  <2>1. N \in Nat \ {0}
    BY NameiAssumption
  <2>2. 0 \in Int /\ N - 1 \in Int
    BY <2>1
  <2>3. IsFiniteSet(0 .. N - 1) /\ Cardinality(0 .. N - 1) = IF 0 > N - 1 THEN 0 ELSE (N - 1) - 0 + 1
    BY <2>2, FS_Interval
  <2> QED BY <2>1, <2>3 DEF Inodes
<1>2. up \in [Inodes -> Inodes] /\ H \subseteq Inodes
  BY DEF TreeType, Directories
<1>3. ASSUME NEW h \in H
      PROVE  /\ UpSet(up, h) \subseteq Inodes /\ IsFiniteSet(UpSet(up, h))
             /\ Deep(h) \in Nat /\ Deep(h) <= N
  <2>1. UpSet(up, h) \in SUBSET Inodes
    BY <1>2, UpSetClosed
  <2>2. IsFiniteSet(UpSet(up, h)) /\ Cardinality(UpSet(up, h)) <= Cardinality(Inodes)
    BY <1>1, <2>1, FS_Subset
  <2>3. Cardinality(UpSet(up, h)) \in Nat
    BY <2>2, FS_CardinalityType
  <2> QED BY <1>1, <2>1, <2>2, <2>3
<1>4. ASSUME NEW h \in H PROVE \E g \in H : Deep(h) < Deep(g)
  <2>1. PICK g \in H : g # Root /\ up[g] = h
    OBVIOUS
  <2>2. Root \in Inodes /\ up[Root] = Root /\ Root \in UpSet(up, g)
    BY StartType, AboveIsUpSet DEF Locals, UpInv
  <2>3. g \in Inodes \ {Root}
    BY <1>2, <2>1
  <2>4. g \notin UpSet(up, h) /\ g \in UpSet(up, g) /\ UpSet(up, h) \subseteq UpSet(up, g)
    BY <1>2, <2>1, <2>2, <2>3, NotAboveParent, UpSetClosed, UpSetParent
  <2>5. UpSet(up, h) \in SUBSET UpSet(up, g) /\ UpSet(up, h) # UpSet(up, g)
    BY <2>4
  <2>6. Cardinality(UpSet(up, h)) <= Cardinality(UpSet(up, g))
    BY <1>3, <2>5, FS_Subset
  <2>7. Cardinality(UpSet(up, h)) # Cardinality(UpSet(up, g))
    BY <1>3, <2>5, FS_Subset
  <2>8. Deep(h) \in Nat /\ Deep(g) \in Nat
    BY <1>3
  <2> QED BY <2>6, <2>7, <2>8
<1> HIDE DEF Deep
<1>5. F \in SUBSET (0 .. N) /\ F # {}
  BY <1>1, <1>3
<1>6. \A x \in F : \E y \in F : x < y
  BY <1>4
<1> HIDE DEF F
<1> QED BY <1>1, <1>5, <1>6, NoAscent

NextLock(p) == Head(st[p].todo)
LEMMA NextLockOf ==
    ASSUME Inv, NEW p \in Procs, pc[p] = "lock"
    PROVE  /\ NextLock(p) \in Inodes /\ st[p].todo \in Seq(Inodes) /\ Len(st[p].todo) > 0
           /\ 1 \in 1 .. Len(st[p].todo) /\ st[p].todo[1] = NextLock(p)
<1>1. st[p].todo \in Seq(Inodes)
  BY LocalsOf DEF Inv
<1>2. st[p].todo # <<>>
  BY DEF Inv, StepInv, CallInv
<1> QED BY <1>1, <1>2 DEF NextLock

\* Processes that wait for each other are at locks of inodes.
LEMMA OnlyLocks ==
    ASSUME Inv, WaitsInv, NEW S \in SUBSET Procs, S # {}, \A p \in S : WaitsFor(p) \cap S # {}
    PROVE  /\ \E p \in S : pc[p] = "lock"
           /\ \A p \in S : pc[p] = "lock" =>
                owner[NextLock(p)] \in S /\ pc[owner[NextLock(p)]] = "lock"
<1>1. ASSUME NEW p \in S
      PROVE  \/ pc[p] \in {"lock", "truncate", "mutex", "spin"}
             \/ pc[p] \in {"want", "opened"} /\ WantsWrite(st[p]) /\ WaitsFor(p) = writers
  BY DEF WaitsFor
<1>2. ASSUME NEW p \in S, pc[p] = "spin" PROVE FALSE
  <2>1. WaitsFor(p) = {flatfs_spinlock} \ {None}
    BY <1>2 DEF WaitsFor
  <2>2. PICK q \in S : flatfs_spinlock = q
    BY <2>1
  <2>3. pc[q] = "create"
    BY <2>2 DEF Inv, StepInv, LockInv
  <2> QED BY <1>1, <2>3
<1>3. ASSUME NEW q \in S, NEW i \in Inodes, owner[i] = q \/ q \in readers[i]
      PROVE  pc[q] = "lock" /\ owner[i] = q
  <2>1. Inside(q)
    BY <1>3 DEF Inv, StepInv, LockInv
  <2>2. pc[q] = "lock"
    BY <1>1, <1>2, <2>1 DEF Inside
  <2> QED BY <1>3, <2>2 DEF WaitsInv, WaitInv, ShareOut
<1>4. ASSUME NEW q \in S, rename_mutex = q PROVE pc[q] = "lock"
  <2>1. Inside(q)
    BY <1>4 DEF Inv, StepInv, LockInv
  <2> QED BY <1>1, <1>2, <2>1 DEF Inside
<1>5. ASSUME NEW p \in S, pc[p] = "lock"
      PROVE  owner[NextLock(p)] \in S /\ pc[owner[NextLock(p)]] = "lock"
  <2>1. PICK q \in S : q \in WaitsFor(p)
    OBVIOUS
  <2>2. NextLock(p) \in Inodes
    BY <1>5, NextLockOf
  <2>3. owner[NextLock(p)] = q \/ q \in readers[NextLock(p)]
    BY <1>5, <2>1 DEF WaitsFor, NextLock
  <2> QED BY <1>3, <2>2, <2>3
<1>6. ASSUME NEW p \in S, pc[p] \in {"lock", "truncate", "mutex"}
      PROVE  \E q \in S : pc[q] = "lock"
  <2>1. PICK q \in S : q \in WaitsFor(p)
    OBVIOUS
  <2>2. CASE pc[p] = "lock"
    BY <2>2
  <2>3. CASE pc[p] = "truncate"
    <3>1. st[p].new \in Inodes
      BY <2>3 DEF Inv, StepInv, NameInv
    <3>2. owner[st[p].new] = q \/ q \in readers[st[p].new]
      BY <2>1, <2>3 DEF WaitsFor
    <3> QED BY <1>3, <3>1, <3>2
  <2>4. CASE pc[p] = "mutex"
    <3>1. rename_mutex = q
      BY <2>1, <2>4 DEF WaitsFor
    <3> QED BY <1>4, <3>1
  <2> QED BY <1>6, <2>2, <2>3, <2>4
<1>7. ASSUME NEW q \in S, q \in writers PROVE pc[q] \in {"lock", "truncate", "mutex"}
  <2>1. ~(pc[q] \in {"want", "opened"} /\ WantsWrite(st[q]))
    <3>1. pc[q] # "want"
      BY <1>7 DEF WaitsInv, WaitInv, WriteOut
    <3>2. pc[q] = "opened" => st[q].did /\ st[q].new \in Inodes
      BY <1>7 DEF WaitsInv, WaitInv, WriteOut, Inv, StepInv, NameInv
    <3>3. None \notin Inodes
      BY NameiAssumption
    <3> QED BY <3>1, <3>2, <3>3 DEF WantsWrite
  <2> QED BY <1>1, <1>2, <2>1
<1>8. \E p \in S : pc[p] = "lock"
  <2>1. PICK p \in S : TRUE
    OBVIOUS
  <2>2. CASE pc[p] \in {"lock", "truncate", "mutex"}
    BY <1>6, <2>2
  <2>3. CASE pc[p] \in {"want", "opened"} /\ WaitsFor(p) = writers
    <3>1. PICK q \in S : q \in writers
      BY <2>3
    <3> QED BY <1>6, <1>7, <3>1
  <2> QED BY <1>1, <1>2, <2>2, <2>3
<1> QED BY <1>5, <1>8

\* Who waits for a file is waiting for one who waits for a later file.
LEMMA FileWait ==
    ASSUME Inv, WaitsInv, NEW q \in Procs, pc[q] = "lock", NEW x \in Inodes, owner[x] = q,
           x \notin Directories
    PROVE  NextLock(q) \notin Directories /\ NextLock(q) \in Inodes /\ x < NextLock(q)
<1>1. st[q].d \in Directories /\ st[q].d2 \in Directories
  BY DEF Inv, StepInv, NameInv
<1>2. x \notin Parents(st[q]) /\ x \notin {st[q].d, st[q].d2}
  BY <1>1 DEF Parents
<1>3. OrderInv(q) /\ st[q].then \in {"look", "act"}
  BY LocalsOf DEF WaitsInv, WaitInv, Places, Inv
<1>4. st[q].then = "act"
  BY <1>2, <1>3 DEF OrderInv, FirstOK
<1>5. FileVictims(q, st[q])
  BY <1>2, <1>3, <1>4 DEF OrderInv, DirVictim, ParentsOnly
<1>6. /\ NextLock(q) \in Inodes /\ 1 \in 1 .. Len(st[q].todo) /\ st[q].todo[1] = NextLock(q)
  BY NextLockOf
<1>7. NextLock(q) \in NonDirectories /\ x < NextLock(q)
  BY <1>2, <1>5, <1>6 DEF FileVictims
<1> QED BY <1>6, <1>7 DEF NonDirectories, Directories

\* One who holds a directory and waits for another: the other is below the first, or it is
\* the rename with s_vfs_rename_mutex and the other is not above it.
LEMMA DirWait ==
    ASSUME Inv, WaitsInv, NEW q \in Procs, pc[q] = "lock", NEW a \in Directories, owner[a] = q,
           NextLock(q) \in Directories
    PROVE  /\ ~Two(st[q]) => NextLock(q) # Root /\ up[NextLock(q)] = a
           /\ Two(st[q]) => NextLock(q) \notin Above(a) /\ rename_mutex = q
<1> DEFINE b == NextLock(q)
           s == st[q]
<1>1. /\ TypeInv /\ TreeType /\ Abstract!TreeOK /\ UpInv
      /\ CallInv(q) /\ NameInv(q) /\ ActInv(q) /\ TrapInv(q) /\ OrderInv(q)
  BY DEF Inv, StepInv, TypeInv, TreeInv, WaitsInv, WaitInv
<1>2. /\ b \in Inodes /\ 1 \in 1 .. Len(s.todo) /\ s.todo[1] = b
      /\ a \in Inodes /\ b \in Directories /\ s.then \in {"look", "act"}
  BY <1>1, NextLockOf, LocalsOf DEF Places, Directories
<1>3. CASE s.then = "look"
  <2>1. FirstOK(q, s)
    BY <1>1, <1>3 DEF OrderInv
  <2>2. Two(s)
    BY <1>2, <2>1 DEF FirstOK
  <2>3. PICK x, y \in {s.d, s.d2} :
          /\ x # y /\ y \notin Above(x)
          /\ s.todo = <<y>> /\ \A i \in Inodes : owner[i] = q => i = x
    BY <1>2, <2>1, <2>2 DEF FirstOK
  <2>4. y = b /\ x = a
    BY <1>2, <2>3
  <2>5. rename_mutex = q
    BY <1>1, <2>2 DEF Two, TrapInv
  <2> QED BY <2>2, <2>3, <2>4, <2>5
<1>4. CASE s.then = "act"
  <2>1. Found(q)
    BY <1>4 DEF Found
  <2>2. ~FileVictims(q, s)
    BY <1>2 DEF FileVictims, NonDirectories, Directories
  <2>3. DirVictim(q, s)
    BY <1>1, <1>4, <2>2 DEF OrderInv
  <2>4. PICK v \in Directories :
          /\ s.todo = <<v>>
          /\ (s.call = "rmdir" /\ v = s.old) \/ (s.call \in {"rename", "noreplace"} /\ v = s.new)
    BY <2>3 DEF DirVictim
  <2>5. v = b
    BY <1>2, <2>4
  <2>6. a \in Parents(s)
    BY <1>2, <2>3 DEF DirVictim, ParentsOnly
  <2>7. FoundOK(s)
    BY <1>1, <2>1 DEF ActInv
  <2>8. b # None /\ kind[b] = "dir"
    BY <1>2, NameiAssumption DEF Directories
  <2>9. ASSUME NEW d \in Inodes, NEW n \in Names, child[d][n] = b
        PROVE  b # Root /\ up[b] = d
    <3>1. b # Root
      BY <1>1, <2>8, <2>9, NamedInUse
    <3>2. d = up[b]
      BY <1>1, <2>8, <2>9 DEF Abstract!TreeOK
    <3> QED BY <3>1, <3>2
  <2>10. s.d \in Inodes /\ s.d2 \in Inodes /\ s.n \in Names /\ (s.call \in Renames => s.n2 \in Names)
    BY <1>1, <2>1, <2>4, FoundFields
  <2>11. CASE s.call = "rmdir"
    <3>1. child[s.d][s.n] = b /\ s.call \notin Renames
      BY <2>4, <2>5, <2>7, <2>11 DEF FoundOK, Removes, Renames
    <3>2. a = s.d /\ ~Two(s)
      BY <2>6, <3>1 DEF Parents, Two
    <3> QED BY <2>9, <2>10, <3>1, <3>2
  <2>12. CASE s.call \in {"rename", "noreplace"}
    <3>1. s.call \in Renames
      BY <2>12 DEF Renames
    <3>2. child[s.d2][s.n2] = b /\ b # s.trap
      BY <2>4, <2>5, <2>7, <2>8, <2>12, <3>1 DEF FoundOK
    <3>3. b # Root /\ up[b] = s.d2
      BY <2>9, <2>10, <3>1, <3>2
    <3>4. a = s.d \/ a = s.d2
      BY <2>6 DEF Parents
    <3>5. CASE ~Two(s)
      BY <3>1, <3>3, <3>4, <3>5 DEF Two
    <3>6. CASE Two(s)
      <4>1. rename_mutex = q /\ TrapOK(s)
        BY <1>1, <3>6 DEF TrapInv, Two
      <4>2. b \notin Above(s.d)
        BY <1>2, <3>2, <3>3, <4>1 DEF TrapOK
      <4>3. b \notin Above(s.d2)
        <5>1. up \in [Inodes -> Inodes] /\ Root \in Inodes /\ up[Root] = Root
          BY <1>1, StartType DEF TreeType, UpInv, Locals
        <5>2. Root \in UpSet(up, b) /\ b \in Inodes \ {Root}
          BY <1>1, <1>2, <3>3, AboveIsUpSet DEF UpInv
        <5>3. b \notin UpSet(up, up[b])
          BY <5>1, <5>2, NotAboveParent
        <5> QED BY <3>3, <5>3, AboveIsUpSet
      <4> QED BY <3>4, <3>6, <4>1, <4>2, <4>3
    <3> QED BY <3>5, <3>6
  <2> QED BY <2>4, <2>11, <2>12
<1> QED BY <1>2, <1>3, <1>4

LEMMA NoLockCycle ==
    ASSUME Inv, WaitsInv, NEW T \in SUBSET Procs, T # {},
           \A p \in T : pc[p] = "lock" /\ owner[NextLock(p)] \in T
    PROVE  FALSE
<1>1. \A p \in T : NextLock(p) \in Inodes
  BY NextLockOf
<1>2. ASSUME NEW p \in T, NextLock(p) \notin Directories PROVE FALSE
  <2> DEFINE F == {x \in Inodes \ Directories : \E q \in T : x = NextLock(q)}
  <2>1. N \in Nat
    BY NameiAssumption
  <2>2. F \in SUBSET (0 .. N)
    BY <2>1 DEF Inodes
  <2>3. F # {}
    BY <1>1, <1>2
  <2>4. ASSUME NEW x \in F PROVE \E y \in F : x < y
    <3>1. PICK q \in T : x = NextLock(q)
      OBVIOUS
    <3>2. PICK r \in T : r = owner[x]
      BY <3>1
    <3>3. NextLock(r) \notin Directories /\ NextLock(r) \in Inodes /\ x < NextLock(r)
      BY <3>2, FileWait
    <3> QED BY <3>3
  <2> HIDE DEF F
  <2> QED BY <2>1, <2>2, <2>3, <2>4, NoAscent
<1>3. \A p \in T : NextLock(p) \in Directories
  BY <1>2
<1>4. TreeType /\ UpInv
  BY DEF Inv, TypeInv, TreeInv
<1>5. ASSUME NEW p \in T, ~Two(st[owner[NextLock(p)]])
      PROVE  \E q \in T : NextLock(q) # Root /\ up[NextLock(q)] = NextLock(p)
  <2>1. PICK q \in T : q = owner[NextLock(p)]
    OBVIOUS
  <2>2. NextLock(q) # Root /\ up[NextLock(q)] = NextLock(p)
    BY <1>3, <1>5, <2>1, DirWait
  <2> QED BY <2>2
<1>6. CASE \E r \in T : Two(st[r])
  <2>1. PICK r \in T : Two(st[r])
    BY <1>6
  <2>2. PICK c : c = NextLock(r)
    OBVIOUS
  <2> DEFINE H == {h \in Directories : c \in Above(h) /\ \E p \in T : h = NextLock(p)}
  <2>3. up \in [Inodes -> Inodes] /\ Directories \subseteq Inodes /\ c \in Directories
    BY <1>3, <1>4, <2>2 DEF TreeType, Directories
  <2>4. c \in H
    BY <2>2, <2>3, UpSetClosed, AboveIsUpSet
  <2>5. ASSUME NEW h \in H PROVE \E g \in H : g # Root /\ up[g] = h
    <3>1. PICK p \in T : h = NextLock(p)
      OBVIOUS
    <3>2. PICK q \in T : q = owner[h]
      BY <3>1
    <3>3. ~Two(st[q])
      <4> SUFFICES ASSUME Two(st[q]) PROVE FALSE
        OBVIOUS
      <4>1. NextLock(q) \notin Above(h) /\ rename_mutex = q
        BY <1>3, <3>2, DirWait
      <4>2. rename_mutex = r
        BY <2>1 DEF Inv, StepInv, TrapInv, Two
      <4> QED BY <2>2, <4>1, <4>2
    <3>4. PICK g \in Directories : g = NextLock(q)
      BY <1>3
    <3>5. g # Root /\ up[g] = h
      BY <1>3, <3>2, <3>3, <3>4, DirWait
    <3>6. c \in Above(g)
      <4>1. g \in Inodes /\ UpSet(up, up[g]) \subseteq UpSet(up, g)
        BY <2>3, UpSetParent
      <4> QED BY <3>5, <4>1, AboveIsUpSet
    <3> QED BY <3>4, <3>5, <3>6
  <2>6. H \in SUBSET Directories /\ H # {}
    BY <2>4
  <2> HIDE DEF H
  <2> QED BY <1>4, <2>5, <2>6, NoDescent
<1>7. CASE ~\E r \in T : Two(st[r])
  <2> DEFINE H == {h \in Directories : \E p \in T : h = NextLock(p)}
  <2>1. ASSUME NEW h \in H PROVE \E g \in H : g # Root /\ up[g] = h
    BY <1>3, <1>5, <1>7
  <2>2. H \in SUBSET Directories /\ H # {}
    BY <1>3
  <2> HIDE DEF H
  <2> QED BY <1>4, <2>1, <2>2, NoDescent
<1> QED BY <1>6, <1>7

LEMMA WaitsEnough ==
    ASSUME Inv, WaitsInv
    PROVE  NoWaitCycle
<1> SUFFICES ASSUME NEW S \in SUBSET Procs, S # {}, \A p \in S : WaitsFor(p) \cap S # {}
             PROVE  FALSE
  BY DEF NoWaitCycle
<1> DEFINE T == {p \in S : pc[p] = "lock"}
<1>1. /\ T \in SUBSET Procs /\ T # {}
      /\ \A p \in T : pc[p] = "lock" /\ owner[NextLock(p)] \in T
  BY OnlyLocks
<1> HIDE DEF T
<1> QED BY <1>1, NoLockCycle

-----------------------------------------------------------------------------
(* The steps, and who waits after them *)

\* The steps of the others leave it.
LEMMA RelyWaits ==
    ASSUME TypeInv, TypeInv', UpInv, NEW p \in Procs, StepInv(p), WaitInv(p), Rely(p),
           p \in writers' => p \in writers
    PROVE  WaitInv(p)'
<1> DEFINE s == st[p]
<1>1. pc'[p] = pc[p] /\ st'[p] = st[p]
  BY DEF Rely
<1>2. /\ \A i \in Inodes : (owner'[i] = p) <=> (owner[i] = p)
      /\ \A i \in Inodes : (p \in readers'[i]) <=> (p \in readers[i])
      /\ \A i \in Inodes : kind[i] # "free" => kind'[i] = kind[i]
  BY DEF Rely
<1>3. WriteOut(p)'
  BY <1>1 DEF WaitInv, WriteOut
<1>4. ShareOut(p)'
  BY <1>1, <1>2 DEF WaitInv, ShareOut
<1>5. Directories \subseteq Directories' /\ NonDirectories \subseteq NonDirectories'
  BY <1>2 DEF Directories, NonDirectories
<1>6. ASSUME pc[p] = "lock", s.then = "look" PROVE FirstOK(p, st[p])'
  <2>1. FirstOK(p, s)
    BY <1>6 DEF WaitInv, OrderInv
  <2>2. CASE ~Two(s)
    <3>1. ~Two(st[p])' /\ s.todo = <<s.d>> /\ \A i \in Inodes : owner[i] # p
      BY <1>1, <2>1, <2>2 DEF FirstOK, Two
    <3> QED BY <1>1, <1>2, <3>1 DEF FirstOK
  <2>3. CASE Two(s)
    <3>1. rename_mutex = p
      BY <1>6, <2>3 DEF StepInv, TrapInv, Two
    <3>2. \A i \in Directories : up[i] \in Directories /\ up'[i] = up[i]
      BY <3>1 DEF UpInv, Rely
    <3>3. up \in [Inodes -> Inodes] /\ up' \in [Inodes -> Inodes] /\ Directories \in SUBSET Inodes
      BY DEF TypeInv, TreeType, Directories
    <3>4. \A i \in Directories : Above(i)' = Above(i)
      BY <3>2, <3>3, UpSetSame, AboveIsUpSet
    <3>5. s.d \in Directories /\ s.d2 \in Directories
      BY DEF StepInv, NameInv
    <3>6. PICK a, b \in {s.d, s.d2} :
            /\ a # b /\ b \notin Above(a)
            /\ \/ s.todo = <<a, b>> /\ \A i \in Inodes : owner[i] # p
               \/ s.todo = <<b>> /\ \A i \in Inodes : owner[i] = p => i = a
      BY <2>1, <2>3 DEF FirstOK
    <3>7. b \notin Above(a)'
      BY <3>4, <3>5, <3>6
    <3>8. Two(st[p])'
      BY <1>1, <2>3 DEF Two
    <3> QED BY <1>1, <1>2, <3>6, <3>7, <3>8 DEF FirstOK
  <2> QED BY <2>2, <2>3
<1>7. ASSUME pc[p] = "look" PROVE ParentsOnly(p, st[p])'
  <2>1. ParentsOnly(p, s)
    BY <1>7 DEF WaitInv, OrderInv
  <2> QED BY <1>1, <1>2, <2>1 DEF ParentsOnly, Parents
<1>8. ASSUME pc[p] = "lock", s.then = "act", DirVictim(p, s) PROVE DirVictim(p, st[p])'
  <2>1. ParentsOnly(p, st[p])'
    BY <1>1, <1>2, <1>8 DEF DirVictim, ParentsOnly, Parents
  <2> QED BY <1>1, <1>5, <1>8, <2>1 DEF DirVictim
<1>9. ASSUME pc[p] = "lock", s.then = "act", FileVictims(p, s) PROVE FileVictims(p, st[p])'
  <2>1. Parents(st[p])' = Parents(s)
    BY <1>1 DEF Parents
  <2> QED BY <1>1, <1>2, <1>5, <1>9, <2>1 DEF FileVictims
<1>10. OrderInv(p)'
  <2>1. pc[p] = "lock" /\ s.then = "act" => DirVictim(p, s) \/ FileVictims(p, s)
    BY DEF WaitInv, OrderInv
  <2> QED BY <1>1, <1>6, <1>7, <1>8, <1>9, <2>1 DEF OrderInv
<1> QED BY <1>3, <1>4, <1>10 DEF WaitInv

\* Only its own step gives a process write access.
LEMMA OwnWriter ==
    ASSUME NEW p \in Procs, Step(p)
    PROVE  writers' \subseteq writers \union {p}
<1>1. CASE filename_parentat(p) \/ do_linkat(p) \/ mnt_want_write(p) \/ RenameMutex(p) \/ Lock(p)
  BY <1>1 DEF filename_parentat, do_linkat, mnt_want_write, RenameMutex, Lock, env
<1>2. CASE LookCreate(p) \/ LookRemove(p) \/ LookRename(p) \/ LookOpen(p)
  BY <1>2 DEF LookCreate, LookRemove, LookRename, LookOpen, env
<1>3. CASE vfs_mknod(p) \/ vfs_mkdir(p) \/ vfs_symlink(p) \/ vfs_tmpfile(p) \/ vfs_link(p)
  BY <1>3 DEF vfs_mknod, vfs_mkdir, vfs_symlink, vfs_tmpfile, vfs_link, Create, Delegated, env
<1>4. CASE vfs_rmdir(p) \/ vfs_unlink(p) \/ vfs_rename(p) \/ SpinLock(p) \/ OpenCreate(p)
  BY <1>4 DEF vfs_rmdir, vfs_unlink, vfs_rename, SpinLock, OpenCreate, Delegated, env
<1>5. CASE lookup_fast(p) \/ handle_dots(p) \/ finish_open(p) \/ handle_truncate(p)
  BY <1>5 DEF lookup_fast, handle_dots, finish_open, handle_truncate, sb_end_write, env
<1>6. CASE Unlock(p) \/ break_deleg_wait(p) \/ (Refuse(p) /\ UNCHANGED tree)
  BY <1>6 DEF Unlock, AfterLookupOpen, break_deleg_wait, Refuse, sb_end_write, env
<1> QED BY <1>1, <1>2, <1>3, <1>4, <1>5, <1>6 DEF Step

\* Where a step leads that does not lead to a lock.
Free(p) ==
    \/ pc'[p] \in {"unlock", "act", "spin", "create", "truncate", "done", "mutex"}
    \/ pc'[p] \in {"walk", "want", "opened", "break"} /\ p \notin writers'
    \/ pc'[p] = "opened" /\ st'[p].did
    \/ pc'[p] = "break" /\ st'[p].call # "link"
LEMMA FreeWaits ==
    ASSUME NEW p \in Procs, Free(p)
    PROVE  WaitInv(p)'
<1>1. pc'[p] \notin {"lock", "look"}
  BY DEF Free
<1>2. WriteOut(p)'
  BY DEF Free, WriteOut
<1>3. ShareOut(p)' /\ OrderInv(p)'
  BY <1>1 DEF ShareOut, OrderInv
<1> QED BY <1>2, <1>3 DEF WaitInv

\* Where a step leads that does.
LEMMA LookWaits ==
    ASSUME NEW p \in Procs, NEW t, pc'[p] = "look", st'[p] = t,
           \A i \in Inodes : p \in readers'[i] => t.call \in {"open", "trunc"},
           \A i \in Inodes : owner'[i] = p => i \in Parents(t)
    PROVE  WaitInv(p)'
<1>1. WriteOut(p)' /\ ShareOut(p)'
  BY DEF WriteOut, ShareOut
<1>2. OrderInv(p)'
  BY DEF OrderInv, ParentsOnly, Parents
<1> QED BY <1>1, <1>2 DEF WaitInv

LEMMA LockWaits ==
    ASSUME NEW p \in Procs, NEW t, pc'[p] = "lock", st'[p] = t,
           \A i \in Inodes : p \notin readers'[i],
           t.then = "look" => FirstOK(p, t)',
           t.then = "act" => DirVictim(p, t)' \/ FileVictims(p, t)'
    PROVE  WaitInv(p)'
<1>1. WriteOut(p)' /\ ShareOut(p)'
  BY DEF WriteOut, ShareOut
<1>2. FirstOK(p, t)' => FirstOK(p, st[p])'
  BY DEF FirstOK, Two
<1>3. DirVictim(p, t)' => DirVictim(p, st[p])'
  BY DEF DirVictim, ParentsOnly, Parents
<1>4. FileVictims(p, t)' => FileVictims(p, st[p])'
  BY DEF FileVictims, Parents
<1>5. OrderInv(p)'
  BY <1>2, <1>3, <1>4 DEF OrderInv
<1> QED BY <1>1, <1>5 DEF WaitInv

LEMMA ReturnPlace ==
    ASSUME TypeInv, NEW p \in Procs, NEW s, NEW e, Return(p, s, e)
    PROVE  pc'[p] \in {"walk", "done"} /\ (pc'[p] = "walk" => e = "ESTALE")
BY DEF Return, Goto, TypeInv, ProcType

LEMMA LeavePlace ==
    ASSUME TypeInv, NEW p \in Procs, NEW s, NEW e, Leave(p, s, e)
    PROVE  Free(p)
<1>1. pc'[p] = "unlock"
  BY DEF Leave, Goto, TypeInv, ProcType
<1> QED BY <1>1 DEF Free

\* Walking to the parents, and an open that goes on without a lock.
LEMMA WalkWaits ==
    ASSUME Inv, NEW p \in Procs, WaitInv(p),
           filename_parentat(p) \/ do_linkat(p) \/ lookup_fast(p) \/ handle_dots(p)
    PROVE  WaitInv(p)'
<1>1. TypeInv
  BY DEF Inv
<1>2. /\ pc[p] \in {"walk", "want"} /\ writers' = writers
  BY DEF filename_parentat, do_linkat, lookup_fast, handle_dots, env
<1>3. p \notin writers'
  BY <1>2 DEF WaitInv, WriteOut
<1>4. ASSUME NEW w \in {"walk", "want", "opened"}, Goto(p, w) PROVE Free(p)
  <2>1. pc'[p] = w
    BY <1>1, <1>4 DEF Goto, TypeInv, ProcType
  <2> QED BY <1>3, <2>1 DEF Free
<1>5. ASSUME NEW s, NEW e, Return(p, s, e) PROVE Free(p)
  <2>1. pc'[p] \in {"walk", "done"}
    BY <1>1, <1>5, ReturnPlace
  <2> QED BY <1>3, <2>1 DEF Free
<1>6. CASE filename_parentat(p)
  <2>1. PICK d, d2 \in Directories :
          \/ \E e : Return(p, [st[p] EXCEPT !.d = d, !.d2 = d2], e)
          \/ Goto(p, "want")
    BY <1>6 DEF filename_parentat
  <2> QED BY <1>4, <1>5, <2>1, FreeWaits
<1>7. CASE do_linkat(p)
  <2>1. (\E s, e : Return(p, s, e)) \/ Goto(p, "want")
    BY <1>7 DEF do_linkat
  <2> QED BY <1>4, <1>5, <2>1, FreeWaits
<1>8. CASE lookup_fast(p)
  <2>1. (\E s, e : Return(p, s, e)) \/ Goto(p, "want") \/ Goto(p, "opened")
    BY <1>8 DEF lookup_fast, step_into
  <2> QED BY <1>4, <1>5, <2>1, FreeWaits
<1>9. CASE handle_dots(p)
  <2>1. Goto(p, "opened")
    BY <1>9 DEF handle_dots
  <2> QED BY <1>4, <2>1, FreeWaits
<1> QED BY <1>6, <1>7, <1>8, <1>9

\* The call of the file system, and what an open does at the end.
LEMMA EndWaits ==
    ASSUME Inv, NEW p \in Procs,
           \/ vfs_mknod(p) \/ vfs_mkdir(p) \/ vfs_symlink(p) \/ vfs_tmpfile(p) \/ vfs_link(p)
           \/ vfs_rmdir(p) \/ vfs_unlink(p) \/ vfs_rename(p) \/ SpinLock(p) \/ OpenCreate(p)
           \/ LookOpen(p) \/ finish_open(p) \/ handle_truncate(p)
    PROVE  WaitInv(p)'
<1>1. TypeInv
  BY DEF Inv
<1>2. ASSUME NEW w \in {"spin", "create", "truncate"}, Goto(p, w) PROVE Free(p)
  <2>1. pc'[p] = w
    BY <1>1, <1>2 DEF Goto, TypeInv, ProcType
  <2> QED BY <2>1 DEF Free
<1>3. ASSUME \E s, e : Leave(p, s, e) PROVE Free(p)
  BY <1>1, <1>3, LeavePlace
<1>4. ASSUME NEW e \in {"", "EISDIR", "EROFS"}, Return(p, st[p], e) PROVE Free(p)
  <2>1. pc'[p] = "done"
    BY <1>1, <1>4, ReturnPlace
  <2> QED BY <2>1 DEF Free
<1>5. CASE vfs_mknod(p) \/ vfs_mkdir(p) \/ vfs_symlink(p) \/ vfs_tmpfile(p) \/ vfs_link(p)
  <2>1. \E s, e : Leave(p, s, e)
    BY <1>5 DEF vfs_mknod, vfs_mkdir, vfs_symlink, vfs_tmpfile, vfs_link, Create, Delegated
  <2> QED BY <1>3, <2>1, FreeWaits
<1>6. CASE vfs_rmdir(p) \/ vfs_unlink(p) \/ vfs_rename(p) \/ OpenCreate(p)
  <2>1. \E s, e : Leave(p, s, e)
    BY <1>6 DEF vfs_rmdir, vfs_unlink, vfs_rename, OpenCreate, Delegated
  <2> QED BY <1>3, <2>1, FreeWaits
<1>7. CASE SpinLock(p)
  BY <1>2, <1>7, FreeWaits DEF SpinLock
<1>8. CASE LookOpen(p)
  <2>1. (\E s, e : Leave(p, s, e)) \/ Goto(p, "spin")
    BY <1>8 DEF LookOpen
  <2> QED BY <1>2, <1>3, <2>1, FreeWaits
<1>9. CASE finish_open(p)
  <2>1. (\E e \in {"", "EISDIR", "EROFS"} : Return(p, st[p], e)) \/ Goto(p, "truncate")
    BY <1>9 DEF finish_open
  <2> QED BY <1>2, <1>4, <2>1, FreeWaits
<1>10. CASE handle_truncate(p)
  <2>1. Return(p, st[p], "")
    BY <1>10 DEF handle_truncate
  <2> QED BY <1>4, <2>1, FreeWaits
<1> QED BY <1>5, <1>6, <1>7, <1>8, <1>9, <1>10

\* Letting go.
LEMMA UnlockWaits ==
    ASSUME Inv, NEW p \in Procs, Unlock(p)
    PROVE  WaitInv(p)'
<1> DEFINE s == st[p]
<1>1. TypeInv
  BY DEF Inv
<1>2. ASSUME NEW w \in {"want", "opened"}, Goto(p, w), p \notin writers' PROVE Free(p)
  <2>1. pc'[p] = w
    BY <1>1, <1>2 DEF Goto, TypeInv, ProcType
  <2> QED BY <1>2, <2>1 DEF Free
<1>3. ASSUME NEW r, NEW e, Return(p, r, e), p \notin writers' PROVE Free(p)
  <2>1. pc'[p] \in {"walk", "done"}
    BY <1>1, <1>3, ReturnPlace
  <2> QED BY <1>3, <2>1 DEF Free
<1>4. CASE s.call \in Opens /\ s.err = "" /\ s.did
  <2>1. Goto(p, "opened") /\ st' = st
    BY <1>4 DEF Unlock, AfterLookupOpen
  <2>2. pc'[p] = "opened" /\ st'[p].did
    BY <1>1, <1>4, <2>1 DEF Goto, TypeInv, ProcType
  <2> QED BY <2>2, FreeWaits DEF Free
<1>5. CASE s.call \in Opens /\ ~(s.err = "" /\ s.did)
  <2>1. p \notin writers'
    BY <1>5 DEF Unlock, AfterLookupOpen, sb_end_write
  <2>2. (\E r, e : Return(p, r, e)) \/ Goto(p, "want") \/ Goto(p, "opened")
    BY <1>5 DEF Unlock, AfterLookupOpen, step_into
  <2> QED BY <1>2, <1>3, <2>1, <2>2, FreeWaits
<1>6. CASE s.call \notin Opens /\ s.brk # None
  <2>1. Goto(p, "break") /\ st' = st /\ (s.call = "link" => p \notin writers')
    BY <1>6 DEF Unlock
  <2>2. pc'[p] = "break" /\ st'[p] = s
    BY <1>1, <2>1 DEF Goto, TypeInv, ProcType
  <2> QED BY <2>1, <2>2, FreeWaits DEF Free
<1>7. CASE s.call \notin Opens /\ s.brk = None
  <2>1. p \notin writers' /\ Return(p, s, s.err)
    BY <1>7 DEF Unlock, sb_end_write
  <2> QED BY <1>3, <2>1, FreeWaits
<1> QED BY <1>4, <1>5, <1>6, <1>7

LEMMA RefuseWaits ==
    ASSUME Inv, NEW p \in Procs, Refuse(p)
    PROVE  WaitInv(p)'
<1>1. TypeInv
  BY DEF Inv
<1>2. CASE \E s, e : Leave(p, s, e)
  BY <1>1, <1>2, LeavePlace, FreeWaits
<1>3. CASE \E s : Return(p, s, "EINTR")
  <2>1. pc'[p] = "done"
    BY <1>1, <1>3, ReturnPlace
  <2> QED BY <2>1, FreeWaits DEF Free
<1> QED BY <1>2, <1>3 DEF Refuse

\* To the lock of the only parent.
LEMMA ParentWaits ==
    ASSUME TypeInv, NEW p \in Procs, NEW s \in Locals, ToParents(p, s), NoLocks(p)'
    PROVE  WaitInv(p)'
<1>1. CASE Two(s)
  <2>1. pc'[p] = "mutex"
    BY <1>1 DEF ToParents, Two, Goto, TypeInv, ProcType
  <2> QED BY <2>1, FreeWaits DEF Free
<1>2. CASE ~Two(s)
  <2>1. PICK q : q = <<s.d>>
    OBVIOUS
  <2>2. s.d \in Inodes
    BY DEF Locals
  <2>3. q \in Seq(Inodes) /\ q # <<>>
    BY <2>1, <2>2
  <2>4. "look" \in Places
    BY DEF Places
  <2>5. LockAll(p, s, q, "look")
    BY <1>2, <2>1 DEF ToParents, Two
  <2>6. PICK t : t = PutTodo(s, q, "look")
    OBVIOUS
  <2>7. pc'[p] = "lock" /\ st'[p] = t
    BY <2>3, <2>4, <2>5, <2>6, LockAllMoves
  <2>8. t.todo = q /\ t.then = "look" /\ t.call = s.call /\ t.d = s.d /\ t.d2 = s.d2
    BY <2>3, <2>4, <2>6, SetTodo
  <2>9. ~Two(t) /\ t.todo = <<t.d>>
    BY <1>2, <2>1, <2>8 DEF Two
  <2>10. FirstOK(p, t)'
    BY <2>9 DEF FirstOK, NoLocks, Two
  <2>11. \A i \in Inodes : p \notin readers'[i]
    BY DEF NoLocks
  <2> QED BY <2>7, <2>8, <2>10, <2>11, LockWaits
<1> QED BY <1>1, <1>2

LEMMA WantWaits ==
    ASSUME Inv, NEW p \in Procs, mnt_want_write(p)
    PROVE  WaitInv(p)'
<1>1. TypeInv /\ LockInv(p) /\ pc[p] = "want" /\ UNCHANGED locks
  BY DEF Inv, StepInv, mnt_want_write
<1>2. NoLocks(p)'
  <2>1. NoLocks(p)
    BY <1>1, OutsideNoLocks
  <2> QED BY <1>1, <2>1 DEF NoLocks, locks
<1>3. Return(p, st[p], "EROFS") \/ Goto(p, "act") \/ ToParents(p, st[p])
  BY DEF mnt_want_write
<1>4. CASE Return(p, st[p], "EROFS")
  <2>1. pc'[p] = "done"
    BY <1>1, <1>4, ReturnPlace
  <2> QED BY <2>1, FreeWaits DEF Free
<1>5. CASE Goto(p, "act")
  <2>1. pc'[p] = "act"
    BY <1>1, <1>5 DEF Goto, TypeInv, ProcType
  <2> QED BY <2>1, FreeWaits DEF Free
<1>6. CASE ToParents(p, st[p])
  BY <1>1, <1>2, <1>6, LocalsOf, ParentWaits
<1> QED BY <1>3, <1>4, <1>5, <1>6

LEMMA BreakWaits ==
    ASSUME Inv, NEW p \in Procs, WaitInv(p), break_deleg_wait(p)
    PROVE  WaitInv(p)'
<1>1. TypeInv /\ LockInv(p) /\ pc[p] = "break" /\ UNCHANGED locks /\ writers' = writers
  BY DEF Inv, StepInv, break_deleg_wait, env
<1>2. NoLocks(p)'
  <2>1. NoLocks(p)
    BY <1>1, OutsideNoLocks
  <2> QED BY <1>1, <2>1 DEF NoLocks, locks
<1>3. PICK e : e = ""
  OBVIOUS
<1>4. PICK s : s = PutBreak(st[p], e, None, None, None, None)
  OBVIOUS
<1>5. e \in Errors /\ None \in InodeOrNone /\ st[p] \in Locals
  BY <1>1, <1>3, LocalsOf DEF Errors, InodeOrNone
<1>6. s \in Locals /\ s.call = st[p].call
  BY <1>4, <1>5, SetBreak
<1>7. IF s.call = "link" THEN Goto(p, "walk") /\ st' = [st EXCEPT ![p] = s]
      ELSE ToParents(p, s)
  BY <1>3, <1>4 DEF break_deleg_wait, PutBreak
<1>8. CASE s.call = "link"
  <2>1. pc'[p] = "walk"
    BY <1>1, <1>7, <1>8 DEF Goto, TypeInv, ProcType
  <2>2. p \notin writers'
    BY <1>1, <1>6, <1>8 DEF WaitInv, WriteOut
  <2> QED BY <2>1, <2>2, FreeWaits DEF Free
<1>9. CASE s.call # "link"
  BY <1>1, <1>2, <1>6, <1>7, <1>9, ParentWaits
<1> QED BY <1>8, <1>9

\* lock_rename: what d_ancestor finds is exactly whether the one is above the other.
LEMMA AncestorIff ==
    ASSUME TreeType, UpInv, NEW d \in Directories, NEW e \in Directories, d # e, d \in Above(e)
    PROVE  d_ancestor(d, e) # None /\ e \notin Above(d)
<1>1. up \in [Inodes -> Inodes] /\ Directories \in SUBSET Inodes
  BY DEF TreeType, Directories
<1>2. Root \in Inodes /\ up[Root] = Root /\ Root \in UpSet(up, e) /\ Root \in UpSet(up, d)
  BY StartType, AboveIsUpSet DEF Locals, UpInv
<1>3. d \in UpSet(up, e) /\ \A x \in UpSet(up, e) : x \in Directories
  <2>1. \A x \in Directories : up[x] \in Directories
    BY DEF UpInv
  <2> QED BY <1>1, <2>1, AboveIsUpSet, UpSetSame
<1>4. d_ancestor(d, e) # None
  <2> SUFFICES ASSUME d_ancestor(d, e) = None PROVE FALSE
    OBVIOUS
  <2>1. \A i \in Directories \ {Root} : up[i] = d /\ i \in Above(e) => i = None
    BY AncestorFound
  <2>2. \A i \in UpSet(up, e) : i # Root => up[i] # d
    BY <1>1, <1>3, <2>1, AboveIsUpSet, NameiAssumption
  <2> DEFINE S == UpSet(up, e) \ {d}
  <2>3. S \in SUBSET Inodes /\ e \in S
    BY <1>1, UpSetClosed
  <2>4. \A x \in S : up[x] \in S
    BY <1>1, <1>2, <2>2, UpSetClosed
  <2> HIDE DEF S
  <2>5. UpSet(up, e) \subseteq S
    BY <1>1, <2>3, <2>4, UpSetLeast
  <2> QED BY <1>3, <2>5 DEF S
<1>5. ASSUME e \in Above(d) PROVE FALSE
  <2>1. e \in UpSet(up, d) /\ d \in Inodes /\ e \in Inodes
    BY <1>1, <1>5, AboveIsUpSet
  <2>2. d = Root
    BY <1>1, <1>2, <1>3, <2>1, NoCycle
  <2>3. e = Root
    BY <1>1, <1>2, <1>3, <2>1, NoCycle
  <2> QED BY <2>2, <2>3
<1> QED BY <1>4, <1>5

LEMMA MutexWaits ==
    ASSUME Inv, NEW p \in Procs, RenameMutex(p)
    PROVE  WaitInv(p)'
<1> DEFINE d == st[p].d
           d2 == st[p].d2
<1>1. /\ pc[p] = "mutex" /\ UNCHANGED <<tree, owner, readers>> /\ lock_rename(p, d, d2)
  BY DEF RenameMutex
<1>2. TypeInv /\ StepInv(p) /\ TreeType /\ UpInv
  BY DEF Inv, TypeInv, TreeInv
<1>3. NoLocks(p) /\ up' = up
  BY <1>1, <1>2, OutsideNoLocks DEF StepInv, tree
<1>4. /\ st[p] \in Locals /\ d \in Inodes /\ d2 \in Inodes /\ d \in Directories
      /\ d2 \in Directories /\ st[p].call \in Renames /\ d # d2
  BY <1>1, <1>2, LocalsOf DEF StepInv, NameInv, CallInv
<1>5. PICK s : s = PutTrap(st[p], Trap(d, d2))
  OBVIOUS
<1>6. Trap(d, d2) \in InodeOrNone
  BY <1>2, <1>4, TrapFound
<1>7. s \in Locals /\ s.call = st[p].call /\ s.d = d /\ s.d2 = d2
  BY <1>4, <1>5, <1>6, SetTrap
<1>8. PICK a \in {d, d2}, b \in {d, d2} :
        /\ a # b /\ b \notin Above(a)
        /\ <<a, b>> = IF d_ancestor(d, d2) # None THEN <<d, d2>> ELSE <<d2, d>>
  <2>1. CASE d_ancestor(d, d2) # None
    <3>1. d \in Above(d2)
      BY <1>2, <1>4, <2>1, AncestorFound
    <3>2. d2 \notin Above(d)
      BY <1>2, <1>4, <3>1, AncestorIff
    <3> QED BY <1>4, <2>1, <3>2
  <2>2. CASE d_ancestor(d, d2) = None
    <3>1. d \notin Above(d2)
      BY <1>2, <1>4, <2>2, AncestorIff
    <3> QED BY <1>4, <2>2, <3>1
  <2> QED BY <2>1, <2>2
<1>9. PICK q : q = <<a, b>>
  OBVIOUS
<1>10. q \in Seq(Inodes) /\ q # <<>>
  BY <1>4, <1>8, <1>9
<1>11. LockAll(p, s, q, "look")
  BY <1>1, <1>5, <1>8, <1>9 DEF lock_rename, PutTrap, Trap
<1>12. "look" \in Places
  BY DEF Places
<1>13. PICK t : t = PutTodo(s, q, "look")
  OBVIOUS
<1>14. pc'[p] = "lock" /\ st'[p] = t
  BY <1>2, <1>7, <1>10, <1>11, <1>12, <1>13, LockAllMoves
<1>15. t.todo = q /\ t.then = "look" /\ t.call = s.call /\ t.d = s.d /\ t.d2 = s.d2
  BY <1>7, <1>10, <1>12, <1>13, SetTodo
<1>16. Two(t) /\ a \in {t.d, t.d2} /\ b \in {t.d, t.d2}
  BY <1>4, <1>7, <1>15 DEF Two
<1>17. b \notin Above(a)'
  BY <1>3, <1>8, AboveIsUpSet
<1>18. \A i \in Inodes : owner'[i] # p /\ p \notin readers'[i]
  BY <1>1, <1>3 DEF NoLocks
<1>19. Two(t)' /\ t.todo = <<a, b>>
  BY <1>9, <1>15, <1>16 DEF Two
<1>20. FirstOK(p, t)'
  BY <1>8, <1>16, <1>17, <1>18, <1>19 DEF FirstOK
<1> QED BY <1>14, <1>15, <1>18, <1>20, LockWaits

\* The next lock of a row.
LEMMA TakeLockWaits ==
    ASSUME Inv, NEW p \in Procs, WaitInv(p), Lock(p)
    PROVE  WaitInv(p)'
<1> DEFINE s == st[p]
           i == Head(st[p].todo)
           rest == Tail(st[p].todo)
<1>1. pc[p] = "lock" /\ UNCHANGED tree
  BY DEF Lock
<1>2. TypeInv /\ StepInv(p) /\ LockType
  BY DEF Inv, TypeInv
<1>3. s \in Locals /\ s.todo \in Seq(Inodes) /\ s.then \in Places /\ s.todo # <<>>
  BY <1>1, <1>2, LocalsOf DEF StepInv, CallInv
<1>4. i \in Inodes /\ rest \in Seq(Inodes)
  BY <1>3, TodoSplit
<1>5. PICK t : t = PutRest(s, rest)
  OBVIOUS
<1>6. /\ t.todo = rest /\ t.call = s.call /\ t.d = s.d /\ t.d2 = s.d2 /\ t.old = s.old
      /\ t.new = s.new /\ t.then = s.then /\ t \in Locals
  BY <1>3, <1>4, <1>5, SetRest
<1>7. PICK w : w = IF rest = <<>> THEN s.then ELSE "lock"
  OBVIOUS
<1>8. pc'[p] = w /\ st'[p] = t
  <2>1. pc' = [pc EXCEPT ![p] = w]
    BY <1>7 DEF Lock
  <2>2. st' = [st EXCEPT ![p] = t]
    BY <1>5 DEF Lock, PutRest
  <2>3. w \in Pcs
    BY <1>3, <1>7 DEF Places, Pcs
  <2> QED BY <1>2, <1>6, <2>1, <2>2, <2>3, Moved DEF TypeInv
<1>9. \A j \in Inodes : p \notin readers[j]
  BY <1>1 DEF WaitInv, ShareOut
<1>10. /\ \A j \in Inodes : owner'[j] = p => owner[j] = p \/ j = i
       /\ \A j \in Inodes : p \in readers'[j] => s.call \in {"open", "trunc"}
       /\ s.call \notin {"open", "trunc"} => \A j \in Inodes : p \notin readers'[j]
  <2>1. CASE s.call \in {"open", "trunc"}
    <3>1. owner' = owner
      BY <2>1 DEF Lock
    <3> QED BY <2>1, <3>1
  <2>2. CASE s.call \notin {"open", "trunc"}
    <3>1. owner' = [owner EXCEPT ![i] = p] /\ readers' = readers
      BY <2>2 DEF Lock, inode_lock
    <3>2. \A j \in Inodes : owner'[j] = p => owner[j] = p \/ j = i
      BY <1>2, <1>4, <3>1 DEF LockType
    <3> QED BY <1>9, <2>2, <3>1, <3>2
  <2> QED BY <2>1, <2>2
<1>11. up' = up /\ NonDirectories' = NonDirectories
  BY <1>1 DEF tree, NonDirectories
<1> HIDE DEF i, rest
<1>12. CASE s.then = "look" /\ ~Two(s)
  <2>1. s.todo = <<s.d>> /\ \A j \in Inodes : owner[j] # p
    BY <1>1, <1>12 DEF WaitInv, OrderInv, FirstOK
  <2>2. i = s.d /\ rest = <<>>
    BY <2>1 DEF i, rest
  <2>3. pc'[p] = "look"
    BY <1>7, <1>8, <1>12, <2>2
  <2>4. \A j \in Inodes : owner'[j] = p => j \in Parents(t)
    BY <1>6, <1>10, <2>1, <2>2 DEF Parents
  <2>5. \A j \in Inodes : p \in readers'[j] => t.call \in {"open", "trunc"}
    BY <1>6, <1>10
  <2> QED BY <1>8, <2>3, <2>4, <2>5, LookWaits
<1>13. CASE s.then = "look" /\ Two(s)
  <2>1. PICK a, b \in {s.d, s.d2} :
          /\ a # b /\ b \notin Above(a)
          /\ \/ s.todo = <<a, b>> /\ \A j \in Inodes : owner[j] # p
             \/ s.todo = <<b>> /\ \A j \in Inodes : owner[j] = p => j = a
    BY <1>1, <1>13 DEF WaitInv, OrderInv, FirstOK
  <2>2. s.call \in Renames /\ s.call \notin {"open", "trunc"}
    BY <1>13 DEF Two, Renames
  <2>3. \A j \in Inodes : p \notin readers'[j]
    BY <1>10, <2>2
  <2>4. CASE s.todo = <<a, b>> /\ \A j \in Inodes : owner[j] # p
    <3>1. i = a /\ rest = <<b>>
      BY <2>4 DEF i, rest
    <3>2. rest # <<>>
      BY <3>1
    <3>3. pc'[p] = "lock"
      BY <1>7, <1>8, <3>2
    <3>4. \A j \in Inodes : owner'[j] = p => j = a
      BY <1>10, <2>4, <3>1
    <3>5. b \notin Above(a)'
      BY <1>11, <2>1, AboveIsUpSet
    <3>6. Two(t)' /\ t.todo = <<b>> /\ a \in {t.d, t.d2} /\ b \in {t.d, t.d2}
      BY <1>6, <1>13, <2>1, <3>1 DEF Two
    <3>7. FirstOK(p, t)'
      BY <2>1, <3>4, <3>5, <3>6 DEF FirstOK
    <3>8. t.then # "act"
      BY <1>6, <1>13
    <3> QED BY <1>8, <2>3, <3>3, <3>7, <3>8, LockWaits
  <2>5. CASE s.todo = <<b>> /\ \A j \in Inodes : owner[j] = p => j = a
    <3>1. i = b /\ rest = <<>>
      BY <2>5 DEF i, rest
    <3>2. pc'[p] = "look"
      BY <1>7, <1>8, <1>13, <3>1
    <3>3. \A j \in Inodes : owner'[j] = p => j \in Parents(t)
      BY <1>6, <1>10, <2>1, <2>2, <2>5, <3>1 DEF Parents
    <3> QED BY <1>8, <2>3, <3>2, <3>3, LookWaits
  <2> QED BY <2>1, <2>4, <2>5
<1>14. CASE s.then = "act" /\ rest = <<>>
  <2>1. pc'[p] = "act"
    BY <1>7, <1>8, <1>14
  <2> QED BY <2>1, FreeWaits DEF Free
<1>15. CASE s.then = "act" /\ rest # <<>>
  <2>1. pc'[p] = "lock"
    BY <1>7, <1>8, <1>15
  <2>2. FileVictims(p, s)
    <3> SUFFICES ASSUME DirVictim(p, s) PROVE FALSE
      BY <1>1, <1>15 DEF WaitInv, OrderInv
    <3>1. PICK b \in Directories : s.todo = <<b>>
      BY DEF DirVictim
    <3>2. rest = <<>>
      BY <3>1 DEF rest
    <3> QED BY <1>15, <3>2
  <2>3. s.call \notin {"open", "trunc"}
    <3>1. Found(p)
      BY <1>1, <1>15 DEF Found
    <3> QED BY <1>2, <3>1 DEF StepInv, CallInv, Opens
  <2>4. \A j \in Inodes : p \notin readers'[j]
    BY <1>10, <2>3
  <2>5. /\ i = s.todo[1] /\ 1 \in 1 .. Len(s.todo)
        /\ \A k \in 1 .. Len(rest) : k + 1 \in 1 .. Len(s.todo) /\ rest[k] = s.todo[k + 1] /\ 1 < k + 1
    BY <1>3 DEF i, rest
  <2>6. \A k \in 1 .. Len(rest) : rest[k] \in NonDirectories /\ i < rest[k]
    BY <2>2, <2>5 DEF FileVictims
  <2>7. \A j, k \in 1 .. Len(rest) : j < k => rest[j] < rest[k]
    <3> SUFFICES ASSUME NEW j \in 1 .. Len(rest), NEW k \in 1 .. Len(rest), j < k
                 PROVE  rest[j] < rest[k]
      OBVIOUS
    <3>1. j + 1 < k + 1
      BY <1>4
    <3> QED BY <2>2, <2>5, <3>1 DEF FileVictims
  <2>8. Parents(t) = Parents(s)
    BY <1>6 DEF Parents
  <2>9. ASSUME NEW j \in Inodes, owner'[j] = p, j \notin Parents(t)
        PROVE  j \in NonDirectories /\ \A k \in 1 .. Len(rest) : j < rest[k]
    <3>1. CASE j = i
      BY <2>2, <2>5, <2>6, <3>1 DEF FileVictims
    <3>2. CASE owner[j] = p
      <4>1. j \in NonDirectories /\ \A k \in 1 .. Len(s.todo) : j < s.todo[k]
        BY <2>2, <2>8, <2>9, <3>2 DEF FileVictims
      <4> QED BY <2>5, <4>1
    <3> QED BY <1>10, <2>9, <3>1, <3>2
  <2>10. FileVictims(p, t)'
    <3>1. Parents(t)' = Parents(t)
      BY DEF Parents
    <3> QED BY <1>6, <1>11, <2>6, <2>7, <2>9, <3>1 DEF FileVictims
  <2>11. t.then # "look"
    BY <1>6, <1>15
  <2> QED BY <1>8, <2>1, <2>4, <2>10, <2>11, LockWaits
<1> QED BY <1>3, <1>12, <1>13, <1>14, <1>15 DEF Places

\* From the parents to the victims.
LEMMA VictimWaits ==
    ASSUME Inv, NEW p \in Procs, WaitInv(p), pc[p] = "look", UNCHANGED <<tree, locks>>,
           NEW s \in Locals, NEW q \in Seq(Inodes), LockAll(p, s, q, "act"),
           s.call = st[p].call, s.d = st[p].d, s.d2 = st[p].d2, s.call \notin Opens,
           \/ q = <<>>
           \/ \E b \in Directories :
                /\ q = <<b>>
                /\ (s.call = "rmdir" /\ b = s.old) \/ (s.call \in {"rename", "noreplace"} /\ b = s.new)
           \/ /\ \A k \in 1 .. Len(q) : q[k] \in NonDirectories
              /\ \A j, k \in 1 .. Len(q) : j < k => q[j] < q[k]
    PROVE  WaitInv(p)'
<1>1. TypeInv
  BY DEF Inv
<1>2. /\ Directories' = Directories /\ NonDirectories' = NonDirectories
      /\ owner' = owner /\ readers' = readers
  BY DEF tree, locks, Directories, NonDirectories
<1>3. PICK t : t = PutTodo(s, q, "act")
  OBVIOUS
<1>4. "act" \in Places
  BY DEF Places
<1>5. pc'[p] = (IF q = <<>> THEN "act" ELSE "lock") /\ st'[p] = t
  BY <1>1, <1>3, <1>4, LockAllMoves
<1>6. /\ t.todo = q /\ t.then = "act" /\ t.call = s.call /\ t.d = s.d /\ t.d2 = s.d2
      /\ t.old = s.old /\ t.new = s.new
  BY <1>3, <1>4, SetTodo
<1>7. CASE q = <<>>
  BY <1>5, <1>7, FreeWaits DEF Free
<1>8. CASE q # <<>>
  <2>1. pc'[p] = "lock"
    BY <1>5, <1>8
  <2>2. \A i \in Inodes : p \notin readers'[i]
    BY <1>2 DEF WaitInv, ShareOut, Opens
  <2>3. \A i \in Inodes : owner'[i] = p => i \in Parents(t)
    <3>1. ParentsOnly(p, st[p])
      BY DEF WaitInv, OrderInv
    <3> QED BY <1>2, <1>6, <3>1 DEF ParentsOnly, Parents
  <2>4. Parents(t)' = Parents(t)
    BY DEF Parents
  <2>5. ASSUME NEW b \in Directories, q = <<b>>,
               (s.call = "rmdir" /\ b = s.old) \/ (s.call \in {"rename", "noreplace"} /\ b = s.new)
        PROVE  DirVictim(p, t)'
    BY <1>2, <1>6, <2>3, <2>4, <2>5 DEF DirVictim, ParentsOnly
  <2>6. ASSUME \A k \in 1 .. Len(q) : q[k] \in NonDirectories,
               \A j, k \in 1 .. Len(q) : j < k => q[j] < q[k]
        PROVE  FileVictims(p, t)'
    BY <1>2, <1>6, <2>3, <2>4, <2>6 DEF FileVictims
  <2>7. DirVictim(p, t)' \/ FileVictims(p, t)'
    BY <1>8, <2>5, <2>6
  <2>8. t.then = "act"
    BY <1>6
  <2>9. t.then # "look"
    BY <2>8
  <2> QED BY <1>5, <2>1, <2>2, <2>7, <2>9, LockWaits
<1> QED BY <1>7, <1>8

LEMMA InUseKind ==
    ASSUME TreeType, NEW i \in Inodes, kind[i] # "free"
    PROVE  IF IsDir(i) THEN i \in Directories ELSE i \in NonDirectories
<1>1. kind[i] \in Kinds /\ i # None
  BY NameiAssumption DEF TreeType
<1> QED BY <1>1 DEF Kinds, IsDir, Directories, NonDirectories

LEMMA LookCreateWaits ==
    ASSUME Inv, NEW p \in Procs, WaitInv(p), LookCreate(p)
    PROVE  WaitInv(p)'
<1> DEFINE s == st[p]
<1>1. pc[p] = "look" /\ s.call \in Creates \union {"link"} /\ UNCHANGED <<tree, locks, env>>
  BY DEF LookCreate
<1>2. TypeInv /\ TreeType /\ StepInv(p) /\ s \in Locals
  BY LocalsOf DEF Inv, TypeInv
<1>3. \/ \E e : Leave(p, s, e)
      \/ /\ ~(s.call = "link" /\ IsDir(s.old))
         /\ LockAll(p, s, IF s.call = "link" THEN <<s.old>> ELSE <<>>, "act")
  BY DEF LookCreate
<1>4. CASE \E e : Leave(p, s, e)
  BY <1>2, <1>4, LeavePlace, FreeWaits
<1>5. CASE /\ ~(s.call = "link" /\ IsDir(s.old))
           /\ LockAll(p, s, IF s.call = "link" THEN <<s.old>> ELSE <<>>, "act")
  <2>1. PICK q : q = IF s.call = "link" THEN <<s.old>> ELSE <<>>
    OBVIOUS
  <2>2. s.call = "link" => s.old \in Inodes /\ s.old \in NonDirectories
    <3>1. s.call = "link" => s.old \in Inodes /\ kind[s.old] # "free"
      BY <1>1, <1>2 DEF StepInv, NameInv
    <3> QED BY <1>2, <1>5, <3>1, InUseKind
  <2>3. q \in Seq(Inodes)
    BY <2>1, <2>2
  <2>4. LockAll(p, s, q, "act")
    BY <1>5, <2>1
  <2>5. s.call \notin Opens
    BY <1>1 DEF Creates, Opens
  <2>6. \/ q = <<>>
        \/ /\ \A k \in 1 .. Len(q) : q[k] \in NonDirectories
           /\ \A j, k \in 1 .. Len(q) : j < k => q[j] < q[k]
    <3>1. CASE s.call # "link"
      BY <2>1, <3>1
    <3>2. CASE s.call = "link"
      <4>1. Len(q) = 1 /\ q[1] \in NonDirectories
        BY <2>1, <2>2, <3>2
      <4>2. \A k \in 1 .. Len(q) : k = 1
        BY <4>1
      <4>3. \A j, k \in 1 .. Len(q) : ~(j < k)
        BY <4>1
      <4> QED BY <4>1, <4>2, <4>3
    <3> QED BY <3>1, <3>2
  <2> QED BY <1>1, <1>2, <2>3, <2>4, <2>5, <2>6, VictimWaits
<1> QED BY <1>3, <1>4, <1>5

LEMMA LookRemoveWaits ==
    ASSUME Inv, NEW p \in Procs, WaitInv(p), LookRemove(p)
    PROVE  WaitInv(p)'
<1> DEFINE s == st[p]
           victim == child[st[p].d][st[p].n]
<1>1. pc[p] = "look" /\ s.call \in Removes /\ UNCHANGED <<tree, locks, env>>
  BY DEF LookRemove
<1>2. PICK e : e = may_delete(s.d, victim, s.call = "rmdir")
  OBVIOUS
<1>3. IF e # "" THEN Leave(p, s, e)
      ELSE LockAll(p, [s EXCEPT !.old = victim], <<victim>>, "act")
  BY <1>2 DEF LookRemove
<1>4. TypeInv /\ StepInv(p) /\ TreeType /\ Abstract!TreeOK /\ s \in Locals
  BY LocalsOf DEF Inv, TypeInv, TreeInv
<1>5. CASE e # ""
  BY <1>3, <1>4, <1>5, LeavePlace, FreeWaits
<1>6. CASE e = ""
  <2>1. victim # None /\ (s.call = "rmdir" <=> IsDir(victim))
    BY <1>2, <1>6, MayDelete
  <2>2. s.d \in Inodes /\ s.n \in Names
    BY <1>1, <1>4, LocalsOf DEF StepInv, NameInv, Removes, Opens
  <2>3. victim \in Inodes /\ kind[victim] # "free"
    BY <1>4, <2>1, <2>2, NamedInUse
  <2>4. PICK v : v = victim
    OBVIOUS
  <2>5. v \in Inodes /\ v \in InodeOrNone
        /\ IF s.call = "rmdir" THEN v \in Directories ELSE v \in NonDirectories
    BY <1>4, <2>1, <2>3, <2>4, InUseKind DEF InodeOrNone
  <2>6. PICK t : t = PutOld(s, v)
    OBVIOUS
  <2>7. t \in Locals /\ t.old = v /\ t.call = s.call /\ t.d = s.d /\ t.d2 = s.d2
    BY <1>4, <2>5, <2>6, SetOld
  <2>8. PICK q : q = <<v>>
    OBVIOUS
  <2>9. q \in Seq(Inodes) /\ Len(q) = 1 /\ q[1] = v
    BY <2>5, <2>8
  <2>10. LockAll(p, t, q, "act")
    BY <1>3, <1>6, <2>4, <2>6, <2>8 DEF PutOld
  <2>11. t.call \notin Opens
    BY <1>1, <2>7 DEF Removes, Opens
  <2>12. CASE s.call = "rmdir"
    <3>1. \E b \in Directories : q = <<b>> /\ t.call = "rmdir" /\ b = t.old
      BY <2>5, <2>7, <2>8, <2>12
    <3> QED BY <1>1, <2>7, <2>9, <2>10, <2>11, <3>1, VictimWaits
  <2>13. CASE s.call # "rmdir"
    <3>1. \A k \in 1 .. Len(q) : k = 1
      BY <2>9
    <3>2. \A j, k \in 1 .. Len(q) : ~(j < k)
      BY <2>9
    <3>3. \A k \in 1 .. Len(q) : q[k] \in NonDirectories
      BY <2>5, <2>9, <2>13, <3>1
    <3> QED BY <1>1, <2>7, <2>9, <2>10, <2>11, <3>2, <3>3, VictimWaits
  <2> QED BY <2>12, <2>13
<1> QED BY <1>5, <1>6

LEMMA LookRenameWaits ==
    ASSUME Inv, NEW p \in Procs, WaitInv(p), LookRename(p)
    PROVE  WaitInv(p)'
<1> DEFINE s == st[p]
<1>1. pc[p] = "look" /\ s.call \in Renames /\ UNCHANGED <<tree, locks, env>>
  BY DEF LookRename
<1>2. PICK source : source = child[s.d][s.n]
  OBVIOUS
<1>3. PICK target : target = child[s.d2][s.n2]
  OBVIOUS
<1>4. PICK e1 : e1 = RenameError(s, source, target)
  OBVIOUS
<1>5. PICK e2 : e2 = vfs_rename_error(s, source, target)
  OBVIOUS
<1>6. PICK q : q = IF ~IsDir(source) \/ s.call = "exchange"
                   THEN lock_two_nondirectories(source, target)
                   ELSE IF target # None THEN <<target>> ELSE <<>>
  OBVIOUS
<1>7. PICK t : t = PutBoth(s, source, target)
  OBVIOUS
<1>8. IF source = target /\ e1 = "" THEN Leave(p, s, "")
      ELSE IF (IF e1 # "" THEN e1 ELSE e2) # "" THEN Leave(p, s, IF e1 # "" THEN e1 ELSE e2)
      ELSE LockAll(p, t, q, "act")
  BY <1>2, <1>3, <1>4, <1>5, <1>6, <1>7 DEF LookRename, PutBoth
<1>9. TypeInv /\ StepInv(p) /\ TreeType /\ Abstract!TreeOK
  BY DEF Inv, TypeInv, TreeInv
<1>10. CASE \E e : Leave(p, s, e)
  BY <1>9, <1>10, LeavePlace, FreeWaits
<1>11. CASE e1 = "" /\ e2 = "" /\ LockAll(p, t, q, "act")
  <2>1. s \in Locals /\ s.d \in Inodes /\ s.d2 \in Inodes /\ s.n \in Names /\ s.n2 \in Names
    BY <1>1, <1>9, LocalsOf DEF StepInv, NameInv, Renames, Opens
  <2>2. source \in InodeOrNone /\ target \in InodeOrNone
    BY <1>2, <1>3, <1>9, <2>1 DEF TreeType
  <2>3. \A i \in {source, target} : i # None =>
          i \in Inodes /\ IF IsDir(i) THEN i \in Directories ELSE i \in NonDirectories
    BY <1>2, <1>3, <1>9, <2>1, NamedInUse, InUseKind
  <2>4. t \in Locals /\ t.new = target /\ t.call = s.call /\ t.d = s.d /\ t.d2 = s.d2
    BY <1>7, <2>1, <2>2, SetBoth
  <2>5. t.call \notin Opens
    BY <1>1, <2>4 DEF Renames, Opens
  <2>6. CASE ~IsDir(source) \/ s.call = "exchange"
    <3>1. q = lock_two_nondirectories(source, target)
      BY <1>6, <2>6
    <3>2. q \in Seq(Inodes)
      BY <2>2, <3>1, TwoNonDirectories
    <3>3. \A j, k \in 1 .. Len(q) : j < k => q[j] < q[k]
      BY <2>2, <3>1, TwoNonDirectories
    <3>4. \A k \in 1 .. Len(q) : q[k] \in {source, target} /\ q[k] \notin Directories
      BY <2>2, <3>1, TwoNonDirectories
    <3>5. \A k \in 1 .. Len(q) : q[k] \in Inodes
      BY <3>2
    <3>6. \A k \in 1 .. Len(q) : q[k] \in NonDirectories
      BY <2>3, <3>4, <3>5, NameiAssumption
    <3> QED BY <1>1, <1>11, <2>4, <2>5, <3>2, <3>3, <3>6, VictimWaits
  <2>7. CASE ~(~IsDir(source) \/ s.call = "exchange") /\ target = None
    <3>1. q = <<>>
      BY <1>6, <2>7
    <3>2. q \in Seq(Inodes)
      BY <3>1
    <3> QED BY <1>1, <1>11, <2>4, <2>5, <3>1, <3>2, VictimWaits
  <2>8. CASE ~(~IsDir(source) \/ s.call = "exchange") /\ target # None
    <3>1. q = <<target>>
      BY <1>6, <2>8
    <3>2. IsDir(source) <=> IsDir(target)
      BY <1>5, <1>11, <2>8, RenameErrors
    <3>3. target \in Directories /\ target \in Inodes
      BY <2>3, <2>8, <3>2
    <3>4. q \in Seq(Inodes)
      BY <3>1, <3>3
    <3>5. t.call \in {"rename", "noreplace"}
      BY <1>1, <2>4, <2>8 DEF Renames
    <3>6. \E b \in Directories : q = <<b>> /\ t.call \in {"rename", "noreplace"} /\ b = t.new
      BY <2>4, <3>1, <3>3, <3>5
    <3> QED BY <1>1, <1>11, <2>4, <2>5, <3>4, <3>6, VictimWaits
  <2> QED BY <2>6, <2>7, <2>8
<1> QED BY <1>8, <1>10, <1>11

LEMMA StepWaits ==
    ASSUME Inv, NEW p \in Procs, WaitInv(p), Step(p)
    PROVE  WaitInv(p)'
<1>1. CASE filename_parentat(p) \/ do_linkat(p) \/ lookup_fast(p) \/ handle_dots(p)
  BY <1>1, WalkWaits
<1>2. CASE mnt_want_write(p) \/ RenameMutex(p) \/ Lock(p)
  BY <1>2, WantWaits, MutexWaits, TakeLockWaits
<1>3. CASE LookCreate(p) \/ LookRemove(p) \/ LookRename(p)
  BY <1>3, LookCreateWaits, LookRemoveWaits, LookRenameWaits
<1>4. CASE \/ vfs_mknod(p) \/ vfs_mkdir(p) \/ vfs_symlink(p) \/ vfs_tmpfile(p) \/ vfs_link(p)
           \/ vfs_rmdir(p) \/ vfs_unlink(p) \/ vfs_rename(p) \/ SpinLock(p) \/ OpenCreate(p)
           \/ LookOpen(p) \/ finish_open(p) \/ handle_truncate(p)
  BY <1>4, EndWaits
<1>5. CASE Unlock(p) \/ break_deleg_wait(p) \/ (Refuse(p) /\ UNCHANGED tree)
  BY <1>5, UnlockWaits, BreakWaits, RefuseWaits
<1> QED BY <1>1, <1>2, <1>3, <1>4, <1>5 DEF Step

LEMMA NextWaits == Inv /\ WaitsInv /\ [Next]_vars => WaitsInv'
<1> SUFFICES ASSUME Inv, WaitsInv, [Next]_vars PROVE WaitsInv'
  OBVIOUS
<1>1. TypeInv /\ UpInv /\ \A q \in Procs : StepInv(q) /\ WaitInv(q)
  BY DEF Inv, TreeInv, WaitsInv
<1>2. TypeInv'
  BY NextKeeps DEF Inv
<1>3. ASSUME NEW p \in Procs, Step(p) PROVE WaitsInv'
  <2>1. WaitInv(p)'
    BY <1>1, <1>3, StepWaits
  <2>2. Good(p)
    BY <1>3, StepGood
  <2>3. writers' \subseteq writers \union {p}
    BY <1>3, OwnWriter
  <2>4. ASSUME NEW q \in Procs \ {p} PROVE WaitInv(q)'
    <3>1. Rely(q)
      BY <2>2 DEF Good
    <3>2. q \in writers' => q \in writers
      BY <2>3
    <3> QED BY <1>1, <1>2, <3>1, <3>2, RelyWaits
  <2> QED BY <2>1, <2>4 DEF WaitsInv
<1>4. CASE UNCHANGED <<tree, locks, writers, pc, st>>
  <2>1. \A q \in Procs : Rely(q)
    BY <1>4 DEF Rely, tree, locks
  <2>2. \A q \in Procs : WaitInv(q)'
    BY <1>1, <1>2, <1>4, <2>1, RelyWaits
  <2> QED BY <2>2 DEF WaitsInv
<1>5. CASE (\E i \in Inodes : ReturnDeleg(i)) \/ Remount \/ Freeze \/ Frozen \/ Thaw
  <2>1. UNCHANGED <<tree, locks, writers, pc, st>>
    BY <1>5 DEF ReturnDeleg, Remount, Freeze, Frozen, Thaw
  <2> QED BY <1>4, <2>1
<1>6. CASE UNCHANGED vars
  <2>1. UNCHANGED <<tree, locks, writers, pc, st>>
    BY <1>6 DEF vars, env
  <2> QED BY <1>4, <2>1
<1> QED BY <1>3, <1>5, <1>6 DEF Next

LEMMA InitWaits == Init => WaitsInv
<1> SUFFICES ASSUME Init, NEW p \in Procs PROVE WaitInv(p)
  BY DEF WaitsInv
<1>1. writers = {} /\ pc[p] \in {"walk", "done"}
  BY DEF Init
<1>2. WriteOut(p)
  BY <1>1 DEF WriteOut
<1>3. ShareOut(p) /\ OrderInv(p)
  BY <1>1 DEF ShareOut, OrderInv
<1> QED BY <1>2, <1>3 DEF WaitInv

\* No set of processes waits for itself, for any tree, any number of processes and any of
\* their calls: parents before what is below them, two parents by lock_rename under
\* s_vfs_rename_mutex, files by address, the write access before all of them.
THEOREM NoOneWaitsInACircle == Spec => []NoWaitCycle
<1>1. Inv /\ WaitsInv => NoWaitCycle
  BY WaitsEnough
<1>2. Init => Inv /\ WaitsInv
  BY InitKeeps, InitWaits
<1>3. Inv /\ WaitsInv /\ [Next]_vars => (Inv /\ WaitsInv)'
  BY NextKeeps, NextWaits
<1> QED BY <1>1, <1>2, <1>3, PTL DEF Spec

=============================================================================
