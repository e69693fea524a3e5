-------------------------------- MODULE Walk ---------------------------------
(***************************************************************************)
(* A path walk of extra/namei.c: filename_lookup and what it calls.  It is *)
(* tried first in rcu-walk mode, where the walk holds no references and    *)
(* relies on sequence counts, then in ref-walk mode, then with             *)
(* LOOKUP_REVAL; in the middle of a walk unlazy_walk and unlazy_child turn *)
(* an rcu-walk into a ref-walk by taking references on everything the walk *)
(* remembers, any of which may fail.  Around the walk the dcache changes:  *)
(* dentries are moved, deleted and reclaimed, file systems are mounted and *)
(* unmounted.                                                              *)
(*                                                                         *)
(* The walk is the record w: struct nameidata, and beside it what the walk *)
(* owes: its references on dentries and mounts, the delayed calls of its   *)
(* symlinks, and whether it is inside rcu_read_lock.  A dentry is a place  *)
(* (d_parent, d_name), an inode and a d_seq.  The dcache as a whole, the   *)
(* mounts and the file system's own lookup are external: modelled from how *)
(* namei.c uses them.  flatfs has no d_revalidate, d_weak_revalidate,      *)
(* d_manage, d_automount or d_hash, and its mounts show a whole file       *)
(* system.                                                                 *)
(***************************************************************************)
EXTENDS Integers, FiniteSets, FiniteSetsExt, Sequences

CONSTANTS
    Dentries, Mounts, Names, Inos,
    Dirs,             \* the inodes that are directories
    Body,             \* [symlink inodes -> [abs, comps]]
    DotDot,           \* the component ".."
    Starts,           \* dcaches, and the paths [abs, comps, directory] and flags of a walk
    Managed,          \* dentries whose d_manage refuses rcu-walk
    EMBEDDED_LEVELS,  \* symlinks remembered without an allocation, 2
    MAXSYMLINKS,      \* 40 in the kernel
    MaxLookups,       \* bound on the dentries its lookups add
    Null

ASSUME WalkAssumption ==
    /\ Dirs \subseteq Inos /\ DOMAIN Body \subseteq Inos \ Dirs
    /\ DotDot \notin Names
    /\ {EMBEDDED_LEVELS, MAXSYMLINKS, MaxLookups} \subseteq Nat
    /\ EMBEDDED_LEVELS <= MAXSYMLINKS
    /\ Null \notin Dentries \union Mounts \union Inos
    /\ IsFiniteSet(Mounts)

VARIABLES
    place,    \* [Dentries -> <<d_parent, d_name>>]
    hashed,   \* dentries a lookup can find
    inode,    \* [Dentries -> d_inode, Null when negative]
    seq,      \* [Dentries -> d_seq]
    killed,   \* dentries whose lockref is dead
    at,       \* [Mounts -> the path it is mounted on, Nowhere]
    mroot,    \* [Mounts -> mnt_root]
    mseq,     \* the sequence count of mount_lock
    pwd, top, \* fs->pwd and fs->root
    left,     \* changes and lookups that may still happen
    w,        \* the walk
    pc,
    seen      \* what the name being looked up was, since the lookup began

dcache == <<place, hashed, inode, seq, killed>>
mounts == <<at, mroot, mseq>>
around == <<dcache, mounts, pwd, top, left>>
vars == <<around, w, pc, seen>>

Nowhere == [mnt |-> Null, dentry |-> Null]
Symlinks == DOMAIN Body
Paths == [mnt : Mounts, dentry : Dentries]
Components == Names \union {DotDot}
Unused == <<Null, Null>>  \* the place of a dentry not yet allocated

\* A symlink holds a path.
ASSUME BodyAssumption ==
    \A i \in Symlinks :
        Body[i] \in [abs : BOOLEAN, comps : Seq(Components), delayed : BOOLEAN]

\* A dcache to start with is one that path walks have filled: a name is there once, a
\* dentry's parent is there, and what is mounted or is a task's directory is too.
ASSUME StartsAssumption ==
    \A s \in Starts :
        LET used == {d \in Dentries : s.place[d] # Unused} IN
        /\ s.place \in [Dentries -> (Dentries \X (Names \union {Null})) \union {Unused}]
        /\ \A d \in used : s.place[d][1] \in used
        /\ \A d, e \in used : s.place[d] = s.place[e] /\ s.place[d][2] \in Names => d = e
        /\ \A d \in Dentries \ used : s.inode[d] = Null
        /\ s.inode \in [Dentries -> Inos \union {Null}]
        /\ s.at \in [Mounts -> Paths \union {Nowhere}] /\ s.mroot \in [Mounts -> used]
        /\ \A m \in Mounts : s.at[m] # Nowhere => s.at[m].dentry \in used
        /\ {s.pwd, s.top} \subseteq Paths /\ {s.pwd.dentry, s.top.dentry} \subseteq used
        /\ s.path \in [abs : BOOLEAN, comps : Seq(Components), directory : BOOLEAN]
        /\ {s.follow, s.lookup_root} \subseteq BOOLEAN

-----------------------------------------------------------------------------
(* The dcache and the mounts, as a walk sees them *)

Find(dir, n) == {d \in hashed : place[d] = <<dir, n>>}

\* Iterates one step of a chain of mounts as often as there are mounts.
Iterate(Next1(_), p) ==
    LET f[k \in 0 .. Cardinality(Mounts)] == IF k = 0 THEN p ELSE Next1(f[k - 1])
    IN f[Cardinality(Mounts)]

\* To the top of a pile of mounts: follow_managed, follow_mount,
\* __follow_mount_rcu.
lookup_mnt(p) ==
    LET over == {m \in Mounts : at[m] = p}
    IN IF over = {} THEN p
       ELSE LET m == CHOOSE x \in over : TRUE IN [mnt |-> m, dentry |-> mroot[m]]
follow_mount(p) == Iterate(lookup_mnt, p)

\* follow_dotdot and follow_dotdot_rcu: out of mounts whose root this is, up one
\* directory unless at the walk's root, and into what is mounted there.
follow_up(p, root) ==
    LET out(q) == IF q = root \/ q.dentry # mroot[q.mnt] \/ at[q.mnt] = Nowhere
                  THEN q ELSE at[q.mnt]
    IN Iterate(out, p)
path_parent_directory(q, root) ==
    IF q = root \/ q.dentry = mroot[q.mnt] THEN q
    ELSE [q EXCEPT !.dentry = place[q.dentry][1]]
follow_dotdot(p, root) == follow_mount(path_parent_directory(follow_up(p, root), root))

\* follow_dotdot_rcu checks the directory it leaves, and mount_lock wherever it
\* crosses a mount.
follow_dotdot_stale(x) ==
    LET q == follow_up(x.path, x.root)
        u == path_parent_directory(q, x.root)
    IN \/ q = x.path /\ u # q /\ seq[q.dentry] # x.seq
       \/ (q # x.path \/ follow_mount(u) # u) /\ mseq # x.m_seq

-----------------------------------------------------------------------------
(* References *)

Add(f, x, k) == IF x = Null THEN f ELSE [f EXCEPT ![x] = @ + k]
path_get(x, p) == [x EXCEPT !.dref = Add(@, p.dentry, 1), !.mref = Add(@, p.mnt, 1)]
path_put(x, p) == [x EXCEPT !.dref = Add(@, p.dentry, -1), !.mref = Add(@, p.mnt, -1)]
dput(x, d) == [x EXCEPT !.dref = Add(@, d, -1)]

\* drop_links: the delayed calls of the remembered symlinks.
drop_links(x) ==
    [x EXCEPT !.calls = @ - Cardinality({i \in DOMAIN x.stack : x.stack[i].done}),
              !.stack = [i \in DOMAIN @ |-> [@[i] EXCEPT !.done = FALSE]]]

\* put_link: the innermost symlink is done with.
put_link(x) ==
    LET last == x.stack[Len(x.stack)]
        y == [x EXCEPT !.stack = SubSeq(@, 1, Len(@) - 1),
                       !.calls = IF last.done THEN @ - 1 ELSE @]
    IN IF x.rcu THEN y ELSE path_put(y, last.link)

\* legitimize_path: a reference on a mount and a dentry found in rcu-walk, valid
\* if nothing changed.  What could not be taken is cleared from the path, so that
\* path_put is right in any case; "late" is a mount that went away between the
\* two looks of __legitimize_mnt and keeps its reference.  Mutant: the sequence
\* count is not looked at.
MutNoSeqRetry(x, p, s, late) ==
    IF mseq # x.m_seq
    THEN LET q == [mnt |-> IF late THEN p.mnt ELSE Null, dentry |-> Null]
         IN [ok |-> FALSE, path |-> q, w |-> path_get(x, q)]
    ELSE LET q == [p EXCEPT !.dentry = IF @ \in killed THEN Null ELSE @]
         IN [ok |-> p.dentry \notin killed, path |-> q, w |-> path_get(x, q)]
legitimize_path(x, p, s, late) ==
    IF mseq # x.m_seq
    THEN LET q == [mnt |-> IF late THEN p.mnt ELSE Null, dentry |-> Null]
         IN [ok |-> FALSE, path |-> q, w |-> path_get(x, q)]
    ELSE LET q == [p EXCEPT !.dentry = IF @ \in killed THEN Null ELSE @]
         IN [ok |-> p.dentry \notin killed /\ seq[p.dentry] = s,
             path |-> q, w |-> path_get(x, q)]

\* legitimize_links: up to the first that fails, which is kept as the last one.
\* Mutant: it is dropped with the others.
LegitimizeOne(x, i, late) ==
    LET r == legitimize_path(x, x.stack[i].link, x.stack[i].seq, late)
    IN [ok |-> r.ok, w |-> [r.w EXCEPT !.stack[i].link = r.path]]
LegitimizeUpTo(x, n, late) ==
    LET f[k \in 0 .. n] == IF k = 0 THEN x ELSE LegitimizeOne(f[k - 1], k, late).w
    IN f[n]
MutDropFailed(x, late) ==
    LET bad == {i \in DOMAIN x.stack : ~LegitimizeOne(x, i, late).ok} IN
    IF bad = {} THEN [ok |-> TRUE, w |-> LegitimizeUpTo(x, Len(x.stack), late)]
    ELSE LET y == drop_links(LegitimizeUpTo(x, Min(bad), late))
         IN [ok |-> FALSE, w |-> [y EXCEPT !.stack = SubSeq(@, 1, Min(bad) - 1)]]
legitimize_links(x, late) ==
    LET bad == {i \in DOMAIN x.stack : ~LegitimizeOne(x, i, late).ok} IN
    IF bad = {} THEN [ok |-> TRUE, w |-> LegitimizeUpTo(x, Len(x.stack), late)]
    ELSE LET y == drop_links(LegitimizeUpTo(x, Min(bad), late))
         IN [ok |-> FALSE, w |-> [y EXCEPT !.stack = SubSeq(@, 1, Min(bad))]]

\* The root is dropped unless the caller of the walk gave it.
drop_root(x) == IF x.lookup_root THEN x ELSE [x EXCEPT !.root.mnt = Null]
unlocked(x) == [x EXCEPT !.rcu = FALSE, !.rcu_lock = @ - 1]

\* The reference on the root, where the walk has one of its own.
legitimize_root(x, late) ==
    IF x.root.mnt = Null \/ x.lookup_root THEN [ok |-> TRUE, w |-> x]
    ELSE LET r == legitimize_path(x, x.root, x.root_seq, late)
         IN [ok |-> r.ok, w |-> [r.w EXCEPT !.root = r.path]]

\* unlazy_walk: from rcu-walk to ref-walk where the walk stands.
unlazy_walk(x, late) ==
    LET l == legitimize_links(unlocked(x), late)
        p == legitimize_path(l.w, x.path, x.seq, late)
        y == [p.w EXCEPT !.path = p.path]
        r == legitimize_root(y, late)
    IN IF ~l.ok THEN [ok |-> FALSE, w |-> drop_root([l.w EXCEPT !.path = Nowhere])]
       ELSE IF ~p.ok THEN [ok |-> FALSE, w |-> drop_root(y)]
       ELSE r

\* unlazy_child: the same, with the child just found; the parent's own sequence
\* count was checked after the child's was read.
unlazy_child(x, d, s, late) ==
    LET l == legitimize_links(unlocked(x), late)
        held == [l.w EXCEPT !.mref = Add(@, x.path.mnt, 1)]
        parent == [held EXCEPT !.dref = Add(@, x.path.dentry, 1)]
        both == [parent EXCEPT !.dref = Add(@, d, 1)]
        r == legitimize_root(both, late)
    IN IF ~l.ok \/ mseq # x.m_seq
       THEN [ok |-> FALSE, w |-> drop_root([l.w EXCEPT !.path = Nowhere])]
       ELSE IF x.path.dentry \in killed
       THEN [ok |-> FALSE, w |-> drop_root([held EXCEPT !.path.dentry = Null])]
       ELSE IF d \in killed THEN [ok |-> FALSE, w |-> drop_root(parent)]
       ELSE IF seq[d] # s THEN [ok |-> FALSE, w |-> drop_root(dput(both, d))]
       ELSE IF ~r.ok THEN [ok |-> FALSE, w |-> dput(r.w, d)]
       ELSE r

\* terminate_walk: everything the walk remembers is given back.
terminate_walk(x) ==
    LET y == drop_links(x)
        z == IF y.root.mnt # Null /\ ~y.lookup_root
             THEN path_put(path_put(y, y.path), y.root) ELSE path_put(y, y.path)
        f[k \in 0 .. Len(x.stack)] ==
            IF k = 0 THEN z ELSE path_put(f[k - 1], x.stack[k].link)
    IN IF x.rcu THEN [drop_root(unlocked(y)) EXCEPT !.stack = <<>>]
       ELSE [drop_root(f[Len(x.stack)]) EXCEPT !.stack = <<>>]

-----------------------------------------------------------------------------
(* The walk *)

\* The locals of a lookup and of a whole attempt are forgotten with it.
ForgetFound(x) ==
    [x EXCEPT !.child = Null, !.cseq = 0, !.cinode = Null, !.found = Nowhere,
              !.finode = Null, !.fseq = 0]
Forget(x) ==
    [ForgetFound(x) EXCEPT !.path = Nowhere, !.root = Nowhere, !.inode = Null, !.seq = 0,
                           !.root_seq = 0, !.m_seq = 0, !.name = <<>>, !.comp = Null,
                           !.mode = "last", !.then = "end", !.link_inode = Null]

Goto(x, where) == w' = x /\ pc' = where
Fail(x, e) == Goto([x EXCEPT !.err = e], "end")
Here(x, p) == [x EXCEPT !.path = p, !.inode = inode[p.dentry], !.seq = seq[p.dentry]]

\* Goes on in ref-walk at a place, or gives the rcu-walk up; a symlink that was
\* just found goes with it.
Unlazy(x, then) == Goto([x EXCEPT !.then = then], "unlazy")
LeaveRcu ==
    /\ pc = "unlazy"
    /\ \E late \in BOOLEAN :
        LET u == unlazy_walk(w, late)
        IN /\ late => mseq # w.m_seq
           /\ IF u.ok THEN Goto(u.w, w.then)
              ELSE IF w.then = "stack" THEN Fail(path_put(u.w, w.found), "ECHILD")
              ELSE Fail(u.w, "ECHILD")
    /\ UNCHANGED <<around, seen>>

\* set_root, unless the walk has one.
set_root(x) ==
    IF x.root.mnt # Null THEN x
    ELSE LET y == [x EXCEPT !.root = top, !.root_seq = seq[top.dentry]]
         IN IF x.rcu THEN y ELSE path_get(y, top)

\* nd_jump_root.
nd_jump_root(x) ==
    IF x.rcu THEN [x EXCEPT !.path = x.root, !.inode = inode[x.root.dentry], !.seq = x.root_seq]
    ELSE Here(path_get(path_put(x, x.path), x.root), x.root)

\* path_init: at the root the caller gave, at the root, or in the working
\* directory.  total_link_count and an allocated stack stay from the attempt
\* before.
path_init ==
    LET x == [w EXCEPT !.rcu = w.attempt = "rcu", !.err = "", !.stack = <<>>,
                       !.rcu_lock = IF w.attempt = "rcu" THEN @ + 1 ELSE @,
                       !.m_seq = mseq, !.name = w.start.comps, !.comp = Null,
                       !.path = Nowhere, !.root = IF w.lookup_root THEN top ELSE Nowhere,
                       !.root_seq = seq[top.dentry]]
        from == IF w.lookup_root THEN top ELSE pwd
    IN
    /\ pc = "init"
    /\ IF w.start.abs /\ ~w.lookup_root
       THEN LET y == nd_jump_root(set_root(x)) IN Goto(y, "walk")
       ELSE Goto(Here(IF x.rcu THEN x ELSE path_get(x, from), from), "walk")
    /\ UNCHANGED <<around, seen>>

\* link_path_walk: the next component and what comes after it, a nested symlink's
\* remainder included.
NextComponent(x) ==
    LET rest == Tail(x.name)
        y == [x EXCEPT !.comp = Head(x.name), !.name = rest]
        above == x.stack[Len(x.stack)].name
    IN IF rest # <<>> THEN Goto([y EXCEPT !.mode = "more"], "component")
       ELSE IF x.stack = <<>> \/ above = Null THEN Goto([y EXCEPT !.mode = "last"], "component")
       ELSE Goto([y EXCEPT !.mode = "nested", !.name = above], "component")
link_path_walk ==
    /\ pc = "walk"
    /\ IF w.name = <<>> THEN Goto([w EXCEPT !.comp = Null, !.mode = "last"], "component")
       ELSE \* may_lookup
            \/ NextComponent(w)
            \/ w.rcu /\ Unlazy(w, "walk")
            \/ Fail(w, "EACCES")
    /\ UNCHANGED <<around, seen>>

\* After a component: the end of the walk, or a directory to go on in.
Arrived(v) ==
    LET x == ForgetFound(v) IN
    IF x.mode = "last" THEN Goto(x, "complete")
    ELSE IF inode[x.path.dentry] \in Dirs THEN Goto(x, "walk")
    ELSE IF x.rcu THEN Unlazy([x EXCEPT !.err = "ENOTDIR"], "end")
    ELSE Fail(x, "ENOTDIR")
DropLink(x) == IF x.mode # "more" /\ x.stack # <<>> THEN put_link(x) ELSE x

\* walk_component on "..", or on no name at all.  In rcu-walk the way up is
\* checked against the sequence counts of the directory and of the mounts.
handle_dots ==
    LET x == IF w.comp = DotDot THEN set_root(w) ELSE w
        to == IF w.comp = DotDot THEN follow_dotdot(x.path, x.root) ELSE x.path
    IN
    /\ pc = "component" /\ w.comp \notin Names
    /\ IF to = x.path THEN Arrived(DropLink(x))
       ELSE IF x.rcu
       THEN IF follow_dotdot_stale(x) THEN Fail(DropLink(x), "ECHILD")
            ELSE Arrived(DropLink(Here(x, to)))
       ELSE Arrived(DropLink(Here(path_put(path_get(x, to), x.path), to)))
    /\ UNCHANGED <<around, seen>>

\* follow_managed: the child with a reference, its mount without one of its own
\* unless it is another.
follow_managed(x, d) ==
    LET p == [mnt |-> x.path.mnt, dentry |-> d]
        q == follow_mount(p)
        y == [x EXCEPT !.child = d, !.cinode = inode[d],
                       !.found = q, !.finode = inode[q.dentry], !.fseq = 0]
    IN IF q = p THEN y
       ELSE LET z == path_get(dput(y, d), q)
            IN IF q.mnt = x.path.mnt THEN [z EXCEPT !.mref = Add(@, q.mnt, -1)] ELSE z

\* path_to_nameidata.
path_to_nameidata(x, p) ==
    LET y == IF x.rcu THEN x
             ELSE [x EXCEPT !.dref = Add(@, x.path.dentry, -1),
                            !.mref = IF x.path.mnt = p.mnt THEN @ ELSE Add(@, x.path.mnt, -1)]
    IN [y EXCEPT !.path = p]

\* What the name being looked up stands for: a dentry with its inode, or nothing.
Absent == <<Null, Null>>
StandsFor ==
    LET here == {d \in Find(w.path.dentry, w.comp) : inode[d] # Null}
    IN IF here = {} THEN {Absent} ELSE {<<d, inode[d]>> : d \in here}

\* lookup_fast.  rcu-walk finds the child and its sequence count in one step
\* (__d_lookup_rcu), reads its inode in a second and checks in a third.
lookup_fast ==
    LET dir == w.path.dentry IN
    /\ pc = "component" /\ w.comp \in Names
    /\ \/ /\ Find(dir, w.comp) = {}
          /\ IF w.rcu THEN Unlazy(w, "slow") ELSE Goto(w, "slow")
       \/ \E d \in Find(dir, w.comp) :
            IF w.rcu THEN Goto([w EXCEPT !.child = d, !.cseq = seq[d]], "found")
            ELSE LET x == [w EXCEPT !.dref = Add(@, d, 1)] IN
                 IF inode[d] = Null THEN Fail(w, "ENOENT")
                 ELSE Goto(follow_managed(x, d), "step")
    /\ seen' = StandsFor
    /\ UNCHANGED around
ReadInode ==
    /\ pc = "found"
    /\ Goto([w EXCEPT !.cinode = inode[w.child]], "check")
    /\ UNCHANGED <<around, seen>>

\* The checks of lookup_fast in rcu-walk.  Mutant: the child's is missing.
MutParentOnly(x) == seq[x.path.dentry] # x.seq
Stale(x) == seq[x.child] # x.cseq \/ seq[x.path.dentry] # x.seq
lookup_fast_rcu ==
    LET d == w.child
        to == follow_mount([mnt |-> w.path.mnt, dentry |-> d])
        crossed == to.dentry # d
    IN
    /\ pc = "check"
    /\ IF Stale(w) THEN Fail(w, "ECHILD")
       ELSE IF w.cinode = Null THEN Fail(w, "ENOENT")
       ELSE IF d \notin Managed
       THEN Goto([w EXCEPT !.found = to,
                           !.finode = IF crossed THEN inode[to.dentry] ELSE w.cinode,
                           !.fseq = IF crossed THEN seq[to.dentry] ELSE w.cseq], "step")
       ELSE \E late \in BOOLEAN :
            LET r == unlazy_child(w, d, w.cseq, late) IN
            /\ late => mseq # w.m_seq
            /\ IF ~r.ok THEN Fail(r.w, "ECHILD")
               ELSE Goto(follow_managed(r.w, d), "step")
    /\ UNCHANGED <<around, seen>>

\* lookup_slow under the lock of the directory: a dentry that has come up
\* meanwhile, or a new one the file system fills.
lookup_slow ==
    LET dir == w.path.dentry
        Took(d, ino) ==
            LET x == [w EXCEPT !.dref = Add(@, d, 1)] IN
            IF ino = Null THEN Fail(path_to_nameidata(x, [x.path EXCEPT !.dentry = d]), "ENOENT")
            ELSE Goto(follow_managed(x, d), "step")
    IN
    /\ pc = "slow"
    /\ \/ /\ Find(dir, w.comp) = {}
          /\ \E e \in {"ENOENT", "ESTALE"} : Fail(w, e)
          /\ UNCHANGED <<around, seen>>
       \/ /\ \E d \in Find(dir, w.comp) : Took(d, inode[d])
          /\ UNCHANGED <<around, seen>>
       \/ /\ Find(dir, w.comp) = {} /\ dir \in hashed /\ left.lookups > 0
          /\ \E d \in Dentries \ (hashed \union killed) :
                /\ place[d] = Unused
                /\ \E ino \in (Inos \ {inode[e] : e \in Dentries}) \union {Null} :
                    /\ place' = [place EXCEPT ![d] = <<dir, w.comp>>]
                    /\ inode' = [inode EXCEPT ![d] = ino]
                    /\ hashed' = hashed \union {d}
                    /\ seen' = seen \union {<<d, ino>>}
                    /\ IF ino = Null THEN Fail(w, "ENOENT")
                       ELSE Goto([w EXCEPT !.dref = Add(@, d, 1), !.child = d, !.cinode = ino,
                                           !.found = [w.path EXCEPT !.dentry = d],
                                           !.finode = ino, !.fseq = 0], "step")
          /\ left' = [left EXCEPT !.lookups = @ - 1]
          /\ UNCHANGED <<seq, killed, mounts, pwd, top>>

\* nd_alloc_stack: the embedded entries, and after them one allocation, that may
\* fail.  Mutant: an entry more is taken for embedded.
MutOneEmbedded(x) == Len(x.stack) = EMBEDDED_LEVELS + 1 /\ ~x.alloc
NeedsStack(x) == Len(x.stack) = EMBEDDED_LEVELS /\ ~x.alloc

\* The symlink goes on the stack.
Push(x) ==
    Goto([x EXCEPT !.stack = Append(@, [link |-> x.found, seq |-> x.fseq,
                                        done |-> FALSE, name |-> <<>>]),
                   !.link_inode = x.finode], "link")

\* pick_link.  When the stack cannot be allocated in rcu-walk the walk is turned
\* into a ref-walk and tries again; that begins with the symlink itself.
pick_link(x) ==
    LET y == [x EXCEPT !.total = @ + 1]
        z == IF x.rcu \/ x.found.mnt # x.path.mnt THEN y
             ELSE [y EXCEPT !.mref = Add(@, x.found.mnt, 1)]
    IN IF x.total >= MAXSYMLINKS THEN Fail(path_to_nameidata(y, x.found), "ELOOP")
       ELSE IF NeedsStack(x) THEN Goto(z, "stack") ELSE Push(z)
nd_alloc_stack ==
    /\ pc = "stack"
    /\ \/ Push([w EXCEPT !.alloc = TRUE])
       \/ ~w.rcu /\ Fail(path_put(w, w.found), "ENOMEM")
       \/ /\ w.rcu
          /\ \E late \in BOOLEAN :
                LET l == legitimize_path(w, w.found, w.fseq, late)
                    lost == drop_root([drop_links(unlocked(l.w)) EXCEPT
                                       !.stack = <<>>, !.path = Nowhere])
                IN /\ late => mseq # w.m_seq
                   /\ IF l.ok THEN Unlazy(l.w, "stack")
                      ELSE Fail(path_put(lost, l.path), "ECHILD")
    /\ UNCHANGED <<around, seen>>

\* step_into.  The type is the dentry's own, which in rcu-walk need not be that of the
\* inode remembered.
step_into ==
    LET x == DropLink(w)
        follow == x.mode # "last" \/ x.follow
    IN
    /\ pc = "step"
    /\ IF inode[x.found.dentry] \notin Symlinks \/ ~follow
       THEN Arrived([path_to_nameidata(x, x.found) EXCEPT !.inode = x.finode, !.seq = x.fseq])
       ELSE IF x.rcu /\ seq[x.found.dentry] # x.fseq THEN Fail(x, "ECHILD")
       ELSE pick_link(x)
    /\ UNCHANGED <<around, seen>>

\* get_link: in rcu-walk the access time, or the file system, may ask for
\* ref-walk.  Then the body, from the root if it is absolute.
FollowBody(x) ==
    LET b == Body[x.link_inode]
        k == Len(x.stack)
        y == [x EXCEPT !.stack[k].done = b.delayed, !.calls = IF b.delayed THEN @ + 1 ELSE @]
        z == IF b.abs THEN nd_jump_root(set_root(y)) ELSE y
        \* link_path_walk remembers where it was; a trailing symlink has no rest
        named(v) == [v EXCEPT !.stack[k].name = IF v.mode = "last" THEN Null ELSE v.name,
                              !.name = b.comps]
    IN IF b.abs /\ x.rcu /\ seq[z.root.dentry] # z.root_seq THEN Fail(z, "ECHILD")
       ELSE IF b.comps = <<>> /\ x.mode # "last" THEN Arrived(put_link(z))
       ELSE Goto(named(z), "walk")
get_link ==
    /\ pc = "link"
    /\ \/ FollowBody(w)
       \/ w.rcu /\ Unlazy(w, "link")
       \/ Fail(w, "EACCES")
    /\ UNCHANGED <<around, seen>>

\* complete_walk; path_lookupat then takes the path over from the walk, unless
\* LOOKUP_DIRECTORY asks for a directory and this is none.
path_lookupat(x) ==
    IF x.start.directory /\ inode[x.path.dentry] \notin Dirs THEN Fail(x, "ENOTDIR")
    ELSE Goto([x EXCEPT !.result = x.path, !.path = Nowhere], "end")
complete_walk ==
    /\ pc = "complete"
    /\ IF w.rcu THEN Unlazy(drop_root(w), "complete") ELSE path_lookupat(w)
    /\ UNCHANGED <<around, seen>>

\* terminate_walk at the end of path_lookupat, and the attempts of
\* filename_lookup.  Mutant: ESTALE is tried again whatever the attempt.
MutRetryStale(x) ==
    CASE x.attempt = "rcu" /\ x.err = "ECHILD" -> "ref"
      [] x.err = "ESTALE" -> "reval"
      [] OTHER -> "none"
NextAttempt(x) ==
    CASE x.attempt = "rcu" /\ x.err = "ECHILD" -> "ref"
      [] x.attempt # "reval" /\ x.err = "ESTALE" -> "reval"
      [] OTHER -> "none"
filename_lookup ==
    LET x == Forget(terminate_walk(w)) IN
    /\ pc = "end"
    /\ IF NextAttempt(w) = "none" THEN Goto(x, "done")
       ELSE Goto([x EXCEPT !.attempt = NextAttempt(w)], "init")
    /\ UNCHANGED <<around, seen>>

-----------------------------------------------------------------------------
(* Around the walk *)

\* The roots of mounts and what is mounted on are not moved or deleted (-EBUSY); they
\* and a task's own directories have references besides the walk's.
Mounted == {mroot[m] : m \in Mounts} \union {at[m].dentry : m \in Mounts}
Pinned == Mounted \union {pwd.dentry, top.dentry}
Children(d) == {e \in Dentries \ killed : place[e][1] = d}
Above(d) == LET f[k \in 0 .. Cardinality(Dentries)] == IF k = 0 THEN d ELSE place[f[k - 1]][1]
            IN {f[k] : k \in 0 .. Cardinality(Dentries)}
Bump(d) == seq' = [seq EXCEPT ![d] = @ + 1]

Looking ==
    \/ pc \in {"found", "check", "slow", "step"}
    \/ pc = "unlazy" /\ w.then = "slow"

\* A change beside a step that looks at none of this is left to the step after it.
Changed ==
    /\ pc \notin {"walk", "complete", "end", "done"}
    /\ pc = "init" => w.attempt # "rcu"
    /\ left.changes > 0
    /\ left' = [left EXCEPT !.changes = @ - 1]
    /\ UNCHANGED <<pwd, top, w, pc>>
    /\ seen' = IF Looking THEN seen \union StandsFor' ELSE seen

\* d_move: what stood there before is unhashed and takes the place left.
Move(d) ==
    /\ d \in hashed \ Mounted
    /\ \E e \in {x \in hashed : inode[x] \in Dirs}, n \in Names :
        LET victims == Find(e, n) IN
        /\ place[d] # <<e, n>> /\ d \notin Above(e)
        /\ victims \intersect Mounted = {} /\ \A v \in victims : Children(v) = {}
        /\ place' = [v \in Dentries |-> IF v = d THEN <<e, n>>
                                       ELSE IF v \in victims THEN place[d] ELSE place[v]]
        /\ hashed' = hashed \ victims
        /\ seq' = [v \in Dentries |-> IF v \in victims \union {d} THEN seq[v] + 1 ELSE seq[v]]
    /\ UNCHANGED <<inode, killed, mounts>>
    /\ Changed

\* d_delete: a dentry nobody else holds becomes negative, any other is unhashed.
Delete(d) ==
    /\ d \in hashed \ Mounted /\ Children(d) = {}
    /\ IF w.dref[d] = 0 /\ d \notin Pinned THEN inode' = [inode EXCEPT ![d] = Null] /\ UNCHANGED hashed
       ELSE hashed' = hashed \ {d} /\ UNCHANGED inode
    /\ Bump(d)
    /\ UNCHANGED <<place, killed, mounts>>
    /\ Changed

\* dentry_kill: memory is short.
Kill(d) ==
    /\ d \in Dentries \ (Pinned \union killed)
    /\ place[d] # Unused /\ w.dref[d] = 0 /\ Children(d) = {}
    /\ hashed' = hashed \ {d}
    /\ killed' = killed \union {d}
    /\ inode' = [inode EXCEPT ![d] = Null]
    /\ Bump(d)
    /\ UNCHANGED <<place, mounts>>
    /\ Changed

Umount(m) ==
    /\ at[m] # Nowhere
    /\ at' = [at EXCEPT ![m] = Nowhere]
    /\ mseq' = mseq + 1
    /\ UNCHANGED <<dcache, mroot>>
    /\ Changed
Mount(m) ==
    /\ at[m] = Nowhere /\ m # top.mnt
    /\ \E d \in {x \in hashed : inode[x] \in Dirs} \ {mroot[m]} :
        /\ \A x \in Mounts : at[x].dentry # d
        /\ mroot[top.mnt] \in Above(d)
        /\ at' = [at EXCEPT ![m] = [mnt |-> top.mnt, dentry |-> d]]
    /\ mseq' = mseq + 1
    /\ UNCHANGED <<dcache, mroot>>
    /\ Changed

-----------------------------------------------------------------------------
Step ==
    \/ path_init \/ link_path_walk \/ handle_dots \/ lookup_fast \/ ReadInode
    \/ lookup_fast_rcu \/ lookup_slow \/ step_into \/ nd_alloc_stack \/ get_link
    \/ LeaveRcu \/ complete_walk
    \/ filename_lookup
Next ==
    \/ Step
    \/ \E d \in Dentries : Move(d) \/ Delete(d) \/ Kill(d)
    \/ \E m \in Mounts : Umount(m) \/ Mount(m)

Init ==
    /\ \E s \in Starts :
        /\ place = s.place /\ inode = s.inode /\ at = s.at /\ mroot = s.mroot
        /\ pwd = s.pwd /\ top = s.top
        /\ left = [changes |-> s.changes, lookups |-> MaxLookups]
        /\ w = [start |-> s.path, follow |-> s.follow, lookup_root |-> s.lookup_root,
                attempt |-> "rcu", rcu |-> FALSE, rcu_lock |-> 0, err |-> "",
                path |-> Nowhere, inode |-> Null, seq |-> 0, root |-> Nowhere,
                root_seq |-> 0, m_seq |-> 0, stack |-> <<>>, alloc |-> FALSE, total |-> 0,
                name |-> <<>>, comp |-> Null, mode |-> "last", then |-> "end",
                link_inode |-> Null,
                child |-> Null, cseq |-> 0, cinode |-> Null, found |-> Nowhere,
                finode |-> Null, fseq |-> 0, result |-> Nowhere,
                dref |-> [d \in Dentries |-> 0], mref |-> [m \in Mounts |-> 0], calls |-> 0]
    /\ hashed = {d \in Dentries : inode[d] # Null \/ place[d] # Unused}
    /\ seq = [d \in Dentries |-> 0] /\ killed = {} /\ mseq = 0
    /\ seen = {} /\ pc = "init"

Spec == Init /\ [][Next]_vars
FairSpec == Spec /\ WF_vars(Step)

-----------------------------------------------------------------------------
(* Properties *)

\* The paths the walk has to give back in ref-walk: the path, the symlinks, its
\* own root, the child found (whose mount counts only if it is another) and the
\* result.
Owned ==
    (IF w.rcu \/ pc \in {"init", "done"} THEN <<>>
     ELSE <<w.path>> \o [i \in DOMAIN w.stack |-> w.stack[i].link]
          \o (IF w.root.mnt # Null /\ ~w.lookup_root THEN <<w.root>> ELSE <<>>)
          \o (IF pc # "step" THEN <<>>
              ELSE <<[w.found EXCEPT !.mnt = IF @ = w.path.mnt THEN Null ELSE @]>>)
          \o (IF pc = "stack" THEN <<w.found>> ELSE <<>>))
    \o (IF pc = "unlazy" /\ w.then = "stack" THEN <<w.found>> ELSE <<>>)
    \o <<w.result>>

\* At every step the walk holds exactly the references, the delayed calls and
\* the rcu_read_lock that its nameidata stands for, however a switch to ref-walk
\* failed half way: none is leaked, none is dropped twice, and at the end only
\* the result is held (legitimize_path, unlazy_walk, unlazy_child, pick_link,
\* terminate_walk).
Balanced ==
    /\ LET o == Owned IN
       /\ \A d \in Dentries : w.dref[d] = Cardinality({i \in DOMAIN o : o[i].dentry = d})
       /\ \A m \in Mounts : w.mref[m] = Cardinality({i \in DOMAIN o : o[i].mnt = m})
    /\ w.calls = Cardinality({i \in DOMAIN w.stack : w.stack[i].done})
    /\ w.rcu_lock = IF w.rcu THEN 1 ELSE 0

\* A dentry the walk has a reference on is never reclaimed, and in ref-walk the
\* inode it remembers is the one of its dentry: the BUG_ON of unlazy_walk.
InodeAgrees ==
    /\ \A d \in Dentries : w.dref[d] > 0 => d \notin killed
    /\ ~w.rcu /\ w.path.dentry # Null /\ pc \notin {"init", "end"} =>
        w.inode = inode[w.path.dentry]

\* What a lookup answers is what the name stood for at some moment of that lookup:
\* the dentry and the inode it found stood there together, and a name it denies
\* was absent, never one that a rename replaced (the sequence counts of
\* lookup_fast).
FoundThere ==
    /\ pc = "step" => <<w.child, w.cinode>> \in seen
    /\ pc = "end" /\ w.err = "ENOENT" => Absent \in seen

\* The symlinks remembered fit the embedded entries or the allocated ones, and no
\* more than MAXSYMLINKS are followed, over all attempts of a walk together.
StackFits ==
    /\ Len(w.stack) <= IF w.alloc THEN MAXSYMLINKS ELSE EMBEDDED_LEVELS
    /\ w.total <= MAXSYMLINKS + 1

\* A walk ends, in at most three attempts, however the tree and its symlinks change
\* (filename_lookup, link_path_walk).
Terminates == <>(pc = "done")

=============================================================================
