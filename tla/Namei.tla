-------------------------------- MODULE Namei --------------------------------
(***************************************************************************)
(* The directory operations of the VFS as extra/namei.c performs them:     *)
(* open, mknod, mkdir, symlink, link, rmdir, unlink and rename, run by     *)
(* several processes on one file system.  This is the caller of every      *)
(* directory operation of flatfs, and the locks it takes are the only ones *)
(* flatfs relies on.                                                       *)
(*                                                                         *)
(* An operation walks to the parents of its last components, takes write   *)
(* access to the mount, locks the parents, looks the last components up,   *)
(* locks the victims, calls the file system, and lets everything go.  Each *)
(* of these is a step, so operations interleave wherever they may sleep.   *)
(*                                                                         *)
(* Inodes are 0 .. N - 1, their numbers are their addresses; 0 is the root *)
(* directory.  The positive dentry of name n in directory d is child[d][n],*)
(* None when it is negative.  A directory has one dentry, whose d_parent   *)
(* is up[d] and outlives its removal.  A walk ends at any directory, a     *)
(* removed one included (a process may stand in it).  A symlink holds the  *)
(* path of a name in the root.  The file system is flatfs: its mknod,      *)
(* mkdir, unlink and rmdir, which removes directories that are not empty,  *)
(* and the simple_link and simple_rename of libfs that its table names;    *)
(* what a permission check, a security hook or the file system itself may  *)
(* refuse is the action Refuse.                                            *)
(***************************************************************************)
EXTENDS Integers, FiniteSets, Sequences

CONSTANTS
    Procs,           \* processes, one system call each
    N,               \* number of inodes
    Names,           \* last components
    Dots,            \* a last component that is "..", "." or absent
    Scenarios,       \* what to start from: a tree (kind, child, up, body), the
                     \* system call of each process (None for none) and the
                     \* names it may use, the files with a delegation, and how
                     \* often the file system is frozen or remounted
    MAXSYMLINKS,     \* bound on followed symlinks, 40 in the kernel
    Refusals,        \* errors a check or the file system may return
    None

Inodes == 0 .. N - 1
Root == 0

\* Calls: "open" is O_RDONLY, "trunc" O_WRONLY|O_TRUNC, "creat" adds O_CREAT,
\* "excl" is O_CREAT|O_EXCL.
Opens == {"open", "trunc", "creat", "excl"}
Creates == {"mkdir", "mknod", "symlink"}
Removes == {"rmdir", "unlink"}
Renames == {"rename", "noreplace", "exchange"}
AllCalls == Opens \union Creates \union Removes \union Renames \union {"link", "tmpfile"}

ASSUME NameiAssumption ==
    /\ N \in Nat \ {0}
    /\ None \notin Inodes /\ None \notin Procs /\ None \notin AllCalls
    /\ Dots \notin Names /\ IsFiniteSet(Names)
    /\ MAXSYMLINKS \in Nat /\ "" \notin Refusals

\* A tree to start from: each directory but the root has one name, in its parent,
\* nothing names the root or a free inode, and each way up ends at the root.
IsTree(k, c, u) ==
    /\ k[Root] = "dir" /\ u[Root] = Root
    /\ \A d \in Inodes \ {Root} : k[d] = "dir" =>
        k[u[d]] = "dir" /\ \E n \in Names : c[u[d]][n] = d
    /\ \A d \in Inodes, n \in Names : c[d][n] # None =>
        /\ k[d] = "dir" /\ k[c[d][n]] # "free" /\ c[d][n] # Root
        /\ k[c[d][n]] = "dir" => u[c[d][n]] = d /\ \A m \in Names : c[d][m] = c[d][n] => m = n
    /\ \A S \in SUBSET {d \in Inodes : k[d] = "dir"} :
        S # {} /\ (\A d \in S : u[d] \in S) => Root \in S

ASSUME ScenarioAssumption ==
    \A s \in Scenarios :
        /\ s.kind \in [Inodes -> {"free", "dir", "file", "link"}]
        /\ s.child \in [Inodes -> [Names -> Inodes \union {None}]]
        /\ s.up \in [Inodes -> Inodes] /\ s.body \in [Inodes -> Names]
        /\ IsTree(s.kind, s.child, s.up)
        /\ s.calls \in [Procs -> AllCalls \union {None}]
        /\ s.names \subseteq Names \union {Dots} /\ s.names # {}
        /\ s.deleg \subseteq Inodes /\ s.admin \in Nat

VARIABLES
    kind,            \* [Inodes -> "free", "dir", "file" or "link"]
    child,           \* [Inodes -> [Names -> inode or None]]
    up,              \* [Inodes -> Inodes], d_parent of a directory
    body,            \* [Inodes -> Names], what a symlink holds
    data,            \* the files that are not empty
    dead,            \* S_DEAD
    linkable,        \* I_LINKABLE
    owner,           \* [Inodes -> the process that holds i_rwsem exclusively]
    readers,         \* [Inodes -> the processes that hold it shared]
    rename_mutex,    \* who holds s_vfs_rename_mutex
    flatfs_spinlock, \* who holds it
    writers,         \* the processes with write access to the mount
    mount,           \* "rw", "ro", "freezing" or "frozen"
    admin,           \* how often it may still be frozen or remounted
    deleg,           \* the files with a delegation
    pc,              \* [Procs -> where the call stands]
    st               \* [Procs -> its local variables]

tree == <<kind, child, up, body, data, dead, linkable>>
locks == <<owner, readers, rename_mutex, flatfs_spinlock>>
around == <<mount, admin, deleg>>
env == <<writers, around>>
vars == <<tree, locks, env, pc, st>>

\* Where a call stands: on its way to the parents, before mnt_want_write, at
\* s_vfs_rename_mutex, at the next of the locks todo, with its parents locked,
\* with its victims locked, at flatfs_spinlock, under it, on the way out,
\* holding an open file's dentry, truncating, waiting for a delegation.
Pcs == {"walk", "want", "mutex", "lock", "look", "act", "spin", "create",
        "unlock", "opened", "truncate", "break", "done"}
Start == [call |-> "open", d |-> Root, n |-> Dots, d2 |-> Root, n2 |-> Dots,
          old |-> None, new |-> None, trap |-> None, todo |-> <<>>, then |-> "look",
          links |-> 0, reval |-> FALSE, brk |-> None, err |-> "", did |-> FALSE]

Directories == {i \in Inodes : kind[i] = "dir"}
NonDirectories == {i \in Inodes : kind[i] \in {"file", "link"}}
Entries(i) == {e \in Inodes \X Names : child[e[1]][e[2]] = i}
i_nlink(i) == Cardinality(Entries(i))
HasEntries(d) == \E n \in Names : child[d][n] # None
IsDir(i) == i # None /\ kind[i] = "dir"

\* d_ancestor(p1, p2): the child of p1 that is p2 or above it, or None.  What is
\* above an inode, with the inode itself, is in every set that d_parent stays in.
Above(i) ==
    {a \in Inodes : \A S \in SUBSET Inodes :
        i \in S /\ (\A x \in S : up[x] \in S) => a \in S}
d_ancestor(p1, p2) ==
    LET found == {a \in Above(p2) \ {Root} : up[a] = p1}
    IN IF found = {} THEN None ELSE CHOOSE a \in found : TRUE

-----------------------------------------------------------------------------
(* Locks *)

inode_lock(p, i) ==
    /\ owner[i] = None /\ readers[i] = {}
    /\ owner' = [owner EXCEPT ![i] = p]
inode_lock_shared(p, i) ==
    /\ owner[i] = None
    /\ readers' = [readers EXCEPT ![i] = @ \union {p}]

\* The next of the locks a call takes in a row: on its parents and later on its
\* victims.  Only an open without O_CREAT takes one shared.
Lock(p) ==
    LET i == Head(st[p].todo)
        rest == Tail(st[p].todo)
    IN
    /\ pc[p] = "lock"
    /\ IF st[p].call \in {"open", "trunc"}
       THEN inode_lock_shared(p, i) /\ UNCHANGED owner
       ELSE inode_lock(p, i) /\ UNCHANGED readers
    /\ st' = [st EXCEPT ![p].todo = rest]
    /\ pc' = [pc EXCEPT ![p] = IF rest = <<>> THEN st[p].then ELSE "lock"]
    /\ UNCHANGED <<tree, rename_mutex, flatfs_spinlock, env>>

Goto(p, where) == pc' = [pc EXCEPT ![p] = where]

\* Locks the inodes of a sequence and goes on at a place.
LockAll(p, s, inodes, where) ==
    /\ Goto(p, IF inodes = <<>> THEN where ELSE "lock")
    /\ st' = [st EXCEPT ![p] = [s EXCEPT !.todo = inodes, !.then = where]]

\* To the unlocking part of a call, with an error ("" is success).
Leave(p, s, e) ==
    /\ Goto(p, "unlock")
    /\ st' = [st EXCEPT ![p] = [s EXCEPT !.err = e]]

\* The end of a call.  retry_estale: an ESTALE repeats it once, with
\* LOOKUP_REVAL; an open starts again from its first name.  Which error was
\* returned is forgotten in the end.
Return(p, s, e) ==
    IF e = "ESTALE" /\ ~s.reval
    THEN /\ Goto(p, "walk")
         /\ st' = [st EXCEPT ![p] = [Start EXCEPT
                !.call = s.call, !.n = IF s.call \in Opens THEN s.n2 ELSE s.n,
                !.n2 = s.n2, !.reval = TRUE]]
    ELSE /\ Goto(p, "done")
         /\ st' = [st EXCEPT ![p] = [Start EXCEPT
                !.call = s.call, !.did = s.did,
                !.err = IF e = "" THEN "" ELSE "error"]]

-----------------------------------------------------------------------------
(* Walking to the parents *)

\* filename_parentat for each name of the call.  A last component that is no name
\* ends most calls here.
DotsError(s) ==
    CASE s.call \in Creates \union {"link"} -> "EEXIST"
      [] s.call = "unlink" -> "EISDIR"
      [] s.call = "rmdir" -> "EINVAL"
      [] s.call = "noreplace" /\ s.n # Dots -> "EEXIST"
      [] OTHER -> "EBUSY"
filename_parentat(p) ==
    /\ pc[p] = "walk" /\ st[p].call # "link"
    /\ \E d, d2 \in Directories :
        LET c == st[p].call
            s == [st[p] EXCEPT !.d = d, !.d2 = d2]
        IN
        /\ c \notin Renames => d2 = d
        /\ IF Dots \in {s.n, s.n2} /\ c \notin Opens \union {"tmpfile"}
           THEN Return(p, s, DotsError(s))
           ELSE Goto(p, "want") /\ st' = [st EXCEPT ![p] = s]
    /\ UNCHANGED <<tree, locks, env>>

\* do_linkat: the source, any inode a path or an open file leads to, and then the
\* parent of the new name.
do_linkat(p) ==
    /\ pc[p] = "walk" /\ st[p].call = "link"
    /\ \/ Return(p, st[p], "ENOENT")
       \/ \E d \in Directories, old \in {i \in Inodes : kind[i] # "free"} :
            LET s == [st[p] EXCEPT !.d = d, !.d2 = d, !.old = old] IN
            IF s.n = Dots THEN Return(p, s, DotsError(s))
            ELSE Goto(p, "want") /\ st' = [st EXCEPT ![p] = s]
    /\ UNCHANGED <<tree, locks, env>>

\* A call stands before its parents: the parent of a single name, both parents
\* of a rename.
ToParents(p, s) ==
    IF s.call \in Renames /\ s.d # s.d2
    THEN Goto(p, "mutex") /\ st' = [st EXCEPT ![p] = s]
    ELSE LockAll(p, s, <<s.d>>, "look")

\* sb_start_write waits while the file system is frozen or about to be.
sb_start_write == mount \in {"rw", "ro"}
sb_end_write(p) == writers' = writers \ {p}

\* mnt_want_write: sb_start_write, and an error when the mount is read-only.  open
\* and the creating calls go on without it: the name may exist, and then that is
\* the error.
mnt_want_write(p) ==
    LET s == st[p] IN
    /\ pc[p] = "want"
    /\ s.call \in Opens => s.n # Dots
    /\ IF s.call = "open"
       THEN UNCHANGED writers
       ELSE /\ sb_start_write
            /\ writers' = IF mount = "rw" THEN writers \union {p} ELSE writers
    /\ IF mount = "ro" /\ s.call \in Removes \union Renames \union {"tmpfile"}
       THEN Return(p, s, "EROFS")
       ELSE IF s.call = "tmpfile" THEN Goto(p, "act") /\ UNCHANGED st
       ELSE ToParents(p, s)
    /\ UNCHANGED <<tree, locks, around>>

\* lock_rename with two parents: s_vfs_rename_mutex, then the ancestor first.
\* The child of the ancestor on the way down to the other parent is the trap.
\* Mutants: the order of the arguments; no trap.
MutArgumentOrder(p, oldDir, newDir) ==
    LET below == d_ancestor(oldDir, newDir) IN
    LockAll(p, [st[p] EXCEPT !.trap = IF below # None THEN below
                                      ELSE d_ancestor(newDir, oldDir)],
            <<newDir, oldDir>>, "look")
MutNoTrap(p, oldDir, newDir) ==
    LockAll(p, st[p], IF d_ancestor(oldDir, newDir) # None
                      THEN <<oldDir, newDir>> ELSE <<newDir, oldDir>>, "look")
lock_rename(p, oldDir, newDir) ==
    LET below == d_ancestor(oldDir, newDir) IN
    LockAll(p, [st[p] EXCEPT !.trap = IF below # None THEN below
                                      ELSE d_ancestor(newDir, oldDir)],
            IF below # None THEN <<oldDir, newDir>> ELSE <<newDir, oldDir>>, "look")

RenameMutex(p) ==
    /\ pc[p] = "mutex"
    /\ rename_mutex = None
    /\ rename_mutex' = p
    /\ lock_rename(p, st[p].d, st[p].d2)
    /\ UNCHANGED <<tree, owner, readers, flatfs_spinlock, env>>

-----------------------------------------------------------------------------
(* With the parents locked *)

\* filename_create, and may_create and the checks of vfs_link.
LookCreate(p) ==
    LET s == st[p]
        e == IF s.d \in dead THEN "ENOENT"
             ELSE IF child[s.d][s.n] # None THEN "EEXIST"
             ELSE IF p \notin writers THEN "EROFS"
             ELSE IF s.call = "link" /\ IsDir(s.old) THEN "EPERM" ELSE ""
    IN
    /\ pc[p] = "look" /\ s.call \in Creates \union {"link"}
    /\ IF e # "" THEN Leave(p, s, e)
       ELSE LockAll(p, s, IF s.call = "link" THEN <<s.old>> ELSE <<>>, "act")
    /\ UNCHANGED <<tree, locks, env>>

\* may_delete(dir, victim, isdir), without the permissions.
may_delete(d, victim, isdir) ==
    IF victim = None THEN "ENOENT"
    ELSE IF isdir /\ ~IsDir(victim) THEN "ENOTDIR"
    ELSE IF ~isdir /\ IsDir(victim) THEN "EISDIR"
    ELSE IF d \in dead THEN "ENOENT" ELSE ""

\* do_rmdir and do_unlinkat up to the lock on the victim.  Mutant: it is not
\* locked.
MutNoVictimLock(p) ==
    LET s == st[p]
        e == may_delete(s.d, child[s.d][s.n], s.call = "rmdir")
    IN
    /\ pc[p] = "look" /\ s.call \in Removes
    /\ IF e # "" THEN Leave(p, s, e)
       ELSE LockAll(p, [s EXCEPT !.old = child[s.d][s.n]], <<>>, "act")
    /\ UNCHANGED <<tree, locks, env>>
LookRemove(p) ==
    LET s == st[p]
        victim == child[s.d][s.n]
        e == may_delete(s.d, victim, s.call = "rmdir")
    IN
    /\ pc[p] = "look" /\ s.call \in Removes
    /\ IF e # "" THEN Leave(p, s, e)
       ELSE LockAll(p, [s EXCEPT !.old = victim], <<victim>>, "act")
    /\ UNCHANGED <<tree, locks, env>>

\* What do_renameat2 and vfs_rename find out about two dentries.
RenameError(s, source, target) ==
    IF source = None THEN "ENOENT"
    ELSE IF s.call = "noreplace" /\ target # None THEN "EEXIST"
    ELSE IF s.call = "exchange" /\ target = None THEN "ENOENT"
    ELSE IF source = s.trap THEN "EINVAL"
    ELSE IF target # None /\ target = s.trap
    THEN IF s.call = "exchange" THEN "EINVAL" ELSE "ENOTEMPTY"
    ELSE ""
vfs_rename_error(s, source, target) ==
    LET gone == may_delete(s.d, source, IsDir(source)) IN
    IF gone # "" THEN gone
    ELSE IF target = None THEN IF s.d2 \in dead THEN "ENOENT" ELSE ""
    ELSE may_delete(s.d2, target, IF s.call = "exchange" THEN IsDir(target)
                                                         ELSE IsDir(source))

\* lock_two_nondirectories: in the order of their addresses.
lock_two_nondirectories(source, target) ==
    LET both == {source, target} \ ({None} \union Directories)
        first == CHOOSE i \in both : \A j \in both : i <= j
    IN CASE both = {} -> <<>>
         [] Cardinality(both) = 1 -> <<first>>
         [] OTHER -> <<first, CHOOSE i \in both : i # first>>

\* do_renameat2 and vfs_rename up to the locks on the victims.  Two names of one
\* inode: nothing to do.
LookRename(p) ==
    LET s == st[p]
        source == child[s.d][s.n]
        target == child[s.d2][s.n2]
        found == [s EXCEPT !.old = source, !.new = target]
        e == IF RenameError(s, source, target) # "" THEN RenameError(s, source, target)
             ELSE vfs_rename_error(s, source, target)
    IN
    /\ pc[p] = "look" /\ s.call \in Renames
    /\ IF source = target /\ RenameError(s, source, target) = "" THEN Leave(p, s, "")
       ELSE IF e # "" THEN Leave(p, s, e)
       ELSE LockAll(p, found,
                    IF ~IsDir(source) \/ s.call = "exchange"
                    THEN lock_two_nondirectories(source, target)
                    ELSE IF target # None THEN <<target>> ELSE <<>>, "act")
    /\ UNCHANGED <<tree, locks, env>>

\* lookup_open: a dentry that is positive, or stays negative, or has to be
\* created under flatfs_spinlock.
LookOpen(p) ==
    LET s == st[p]
        x == child[s.d][s.n]
    IN
    /\ pc[p] = "look" /\ s.call \in Opens
    /\ IF s.d \in dead THEN Leave(p, s, "ENOENT")
       ELSE IF x # None \/ s.call \in {"open", "trunc"}
       THEN Leave(p, [s EXCEPT !.new = x], "")
       ELSE IF p \notin writers THEN Leave(p, s, "EROFS")
       ELSE Goto(p, "spin") /\ UNCHANGED st
    /\ UNCHANGED <<tree, locks, env>>

-----------------------------------------------------------------------------
(* With the victims locked: the call of the file system *)

\* A new inode, with an entry (i_op->mkdir, mknod, symlink, create) or without.
Fresh(i, k, d) ==
    /\ kind[i] = "free"
    /\ kind' = [kind EXCEPT ![i] = k]
    /\ IF k = "dir" THEN up' = [up EXCEPT ![i] = d] ELSE UNCHANGED up
    /\ IF k = "link" THEN \E b \in Names : body' = [body EXCEPT ![i] = b]
                     ELSE UNCHANGED body
SetChild(d, n, i) == child' = [child EXCEPT ![d][n] = i]

Create(p, call, k) ==
    LET s == st[p] IN
    /\ pc[p] = "act" /\ s.call = call
    /\ \E i \in Inodes : Fresh(i, k, s.d) /\ SetChild(s.d, s.n, i)
    /\ Leave(p, [s EXCEPT !.did = TRUE], "")
    /\ UNCHANGED <<data, dead, linkable, locks, env>>
vfs_mknod(p) == Create(p, "mknod", "file")
vfs_mkdir(p) == Create(p, "mkdir", "dir")
vfs_symlink(p) == Create(p, "symlink", "link")

\* vfs_tmpfile: an inode without a name, that may get one.
vfs_tmpfile(p) ==
    LET s == st[p] IN
    /\ pc[p] = "act" /\ s.call = "tmpfile"
    /\ \E i \in Inodes :
        Fresh(i, "file", s.d) /\ linkable' = linkable \union {i}
    /\ Leave(p, [s EXCEPT !.did = TRUE], "")
    /\ UNCHANGED <<child, data, dead, locks, env>>

\* try_break_deleg fails: the call leaves with the inode to wait for.
Delegated(p, i) ==
    /\ i \in deleg
    /\ Leave(p, [st[p] EXCEPT !.brk = i], "EWOULDBLOCK")
    /\ UNCHANGED <<tree, locks, env>>

\* vfs_link.  Mutant: a file without a name gets one again.
MutLinkUnlinked(p) ==
    LET s == st[p] IN
    /\ pc[p] = "act" /\ s.call = "link"
    /\ \/ Delegated(p, s.old)
       \/ /\ s.old \notin deleg
          /\ SetChild(s.d, s.n, s.old)
          /\ linkable' = linkable \ {s.old}
          /\ Leave(p, [s EXCEPT !.did = TRUE], "")
          /\ UNCHANGED <<kind, up, body, data, dead, locks, env>>
vfs_link(p) ==
    LET s == st[p]
        unlinked == i_nlink(s.old) = 0 /\ s.old \notin linkable
    IN
    /\ pc[p] = "act" /\ s.call = "link"
    /\ \/ unlinked /\ Leave(p, s, "ENOENT") /\ UNCHANGED <<tree, locks, env>>
       \/ ~unlinked /\ Delegated(p, s.old)
       \/ /\ ~unlinked /\ s.old \notin deleg
          /\ SetChild(s.d, s.n, s.old)
          /\ linkable' = linkable \ {s.old}
          /\ Leave(p, [s EXCEPT !.did = TRUE], "")
          /\ UNCHANGED <<kind, up, body, data, dead, locks, env>>

\* vfs_rmdir.  ffs_rmdir asks for i_size, which is 0 for every directory of flatfs:
\* it never refuses, and what the directory holds stays in it.
vfs_rmdir(p) ==
    LET s == st[p] IN
    /\ pc[p] = "act" /\ s.call = "rmdir"
    /\ SetChild(s.d, s.n, None)
    /\ dead' = dead \union {s.old}
    /\ Leave(p, [s EXCEPT !.did = TRUE], "")
    /\ UNCHANGED <<kind, up, body, data, linkable, locks, env>>

vfs_unlink(p) ==
    LET s == st[p] IN
    /\ pc[p] = "act" /\ s.call = "unlink"
    /\ \/ Delegated(p, s.old)
       \/ /\ s.old \notin deleg
          /\ SetChild(s.d, s.n, None)
          /\ Leave(p, [s EXCEPT !.did = TRUE], "")
          /\ UNCHANGED <<kind, up, body, data, dead, linkable, locks, env>>

\* vfs_rename from the delegations on; d_move and d_exchange.  simple_rename asks
\* simple_empty about a directory it replaces, which sees the entries that are in the
\* dcache; flatfs pins none, so that one with entries may be replaced all the same.
vfs_rename(p) ==
    LET s == st[p]
        exchange == s.call = "exchange"
        waitFor == IF ~IsDir(s.old) /\ s.old \in deleg THEN s.old
                   ELSE IF s.new # None /\ s.new \in deleg THEN s.new ELSE None
    IN
    /\ pc[p] = "act" /\ s.call \in Renames
    /\ \/ waitFor # None /\ Delegated(p, waitFor)
       \/ /\ waitFor = None /\ ~exchange /\ IsDir(s.new) /\ HasEntries(s.new)
          /\ Leave(p, s, "ENOTEMPTY")
          /\ UNCHANGED <<tree, locks, env>>
       \/ /\ waitFor = None
          /\ child' = [d \in Inodes |-> [n \in Names |->
                IF d = s.d2 /\ n = s.n2 THEN s.old
                ELSE IF d = s.d /\ n = s.n THEN IF exchange THEN s.new ELSE None
                ELSE child[d][n]]]
          /\ up' = [i \in Inodes |->
                IF i = s.old /\ IsDir(i) THEN s.d2
                ELSE IF i = s.new /\ IsDir(i) /\ exchange THEN s.d ELSE up[i]]
          /\ dead' = IF ~exchange /\ IsDir(s.new) THEN dead \union {s.new} ELSE dead
          /\ Leave(p, [s EXCEPT !.did = TRUE], "")
          /\ UNCHANGED <<kind, body, data, linkable, locks, env>>

-----------------------------------------------------------------------------
(* open *)

\* spin_lock(&flatfs_spinlock) around i_op->create.  A lookup of the same open that
\* misses the dcache takes and releases it before, with no other lock in between.
SpinLock(p) ==
    /\ pc[p] = "spin"
    /\ flatfs_spinlock = None
    /\ flatfs_spinlock' = p
    /\ Goto(p, "create")
    /\ UNCHANGED <<tree, owner, readers, rename_mutex, env, st>>
OpenCreate(p) ==
    LET s == st[p] IN
    /\ pc[p] = "create"
    /\ \E i \in Inodes :
        /\ Fresh(i, "file", s.d)
        /\ SetChild(s.d, s.n, i)
        /\ Leave(p, [s EXCEPT !.new = i, !.did = TRUE], "")
    /\ flatfs_spinlock' = None
    /\ UNCHANGED <<data, dead, linkable, owner, readers, rename_mutex, env>>

\* step_into on the last component: a symlink starts the walk again at the root.
\* Mutant: one symlink too many.
MutOneMore(p, s, x) ==
    IF kind[x] # "link" THEN Goto(p, "opened") /\ st' = [st EXCEPT ![p] = [s EXCEPT !.new = x]]
    ELSE IF s.links > MAXSYMLINKS THEN Return(p, s, "ELOOP")
    ELSE /\ Goto(p, "want")
         /\ st' = [st EXCEPT ![p] = [s EXCEPT !.d = Root, !.n = body[x], !.new = None,
                                              !.links = @ + 1]]
step_into(p, s, x) ==
    IF kind[x] # "link" THEN Goto(p, "opened") /\ st' = [st EXCEPT ![p] = [s EXCEPT !.new = x]]
    ELSE IF s.links >= MAXSYMLINKS THEN Return(p, s, "ELOOP")
    ELSE /\ Goto(p, "want")
         /\ st' = [st EXCEPT ![p] = [s EXCEPT !.d = Root, !.n = body[x], !.new = None,
                                              !.links = @ + 1]]

\* lookup_fast: without O_CREAT a cached dentry is used without a lock.  Those of a
\* removed directory may have left the cache (shrink_dcache_parent in vfs_rmdir).
lookup_fast(p) ==
    LET s == st[p] IN
    /\ pc[p] = "want" /\ s.call \in {"open", "trunc"} /\ s.n # Dots
    /\ \/ (child[s.d][s.n] = None \/ s.d \in dead) /\ Return(p, s, "ENOENT")
       \/ child[s.d][s.n] # None /\ step_into(p, s, child[s.d][s.n])
    /\ UNCHANGED <<tree, locks, env>>

\* handle_dots: the directory itself, or the one above it.
handle_dots(p) ==
    /\ pc[p] = "want" /\ st[p].call \in Opens /\ st[p].n = Dots
    /\ \E x \in {st[p].d, up[st[p].d]} : st' = [st EXCEPT ![p].new = x]
    /\ Goto(p, "opened")
    /\ UNCHANGED <<tree, locks, env>>

\* do_last from finish_open on.  A file this call created is not truncated and
\* keeps the write access; any other asks for it again.  Mutant: it does not.
MutNoSecondWant(p) ==
    LET s == st[p] IN
    /\ pc[p] = "opened"
    /\ IF IsDir(s.new) /\ s.call # "open" THEN Return(p, s, "EISDIR") /\ UNCHANGED writers
       ELSE IF s.call = "open" \/ s.did
       THEN Return(p, s, "") /\ sb_end_write(p)
       ELSE UNCHANGED writers /\ Goto(p, "truncate") /\ UNCHANGED st
    /\ UNCHANGED <<tree, locks, around>>
finish_open(p) ==
    LET s == st[p] IN
    /\ pc[p] = "opened"
    /\ IF IsDir(s.new) /\ s.call # "open" THEN Return(p, s, "EISDIR") /\ UNCHANGED writers
       ELSE IF s.call = "open" \/ s.did
       THEN Return(p, s, "") /\ sb_end_write(p)
       ELSE /\ sb_start_write
            /\ IF mount = "ro" THEN Return(p, s, "EROFS") /\ UNCHANGED writers
               ELSE /\ writers' = writers \union {p}
                    /\ Goto(p, "truncate") /\ UNCHANGED st
    /\ UNCHANGED <<tree, locks, around>>

\* handle_truncate, and i_rwsem of the file in do_truncate.
handle_truncate(p) ==
    LET x == st[p].new IN
    /\ pc[p] = "truncate"
    /\ owner[x] = None /\ readers[x] = {}
    /\ data' = data \ {x}
    /\ sb_end_write(p)
    /\ Return(p, st[p], "")
    /\ UNCHANGED <<kind, child, up, body, dead, linkable, locks, around>>

-----------------------------------------------------------------------------
(* Letting go *)

\* Every lock of the call: unlock_two_nondirectories, unlock_rename,
\* done_path_create.  Mutants: the locks are kept over the wait for a delegation;
\* unlock_rename forgets the mutex.
Without(p) == [i \in Inodes |-> IF owner[i] = p THEN None ELSE owner[i]]
MutUnlockLate(p) ==
    IF st[p].brk # None THEN UNCHANGED <<owner, readers, rename_mutex>>
    ELSE /\ owner' = Without(p)
         /\ readers' = [i \in Inodes |-> readers[i] \ {p}]
         /\ rename_mutex' = IF rename_mutex = p THEN None ELSE rename_mutex
MutKeepMutex(p) ==
    /\ owner' = Without(p)
    /\ readers' = [i \in Inodes |-> readers[i] \ {p}]
    /\ UNCHANGED rename_mutex
UnlockAll(p) ==
    /\ owner' = Without(p)
    /\ readers' = [i \in Inodes |-> readers[i] \ {p}]
    /\ rename_mutex' = IF rename_mutex = p THEN None ELSE rename_mutex

\* What do_last does after lookup_open.
AfterLookupOpen(p, s) ==
    IF s.err = "" /\ s.did
    THEN Goto(p, "opened") /\ UNCHANGED <<st, writers>>
    ELSE /\ sb_end_write(p)
         /\ IF s.err # "" THEN Return(p, s, s.err)
            ELSE IF s.new = None THEN Return(p, s, "ENOENT")
            ELSE IF s.call = "excl" THEN Return(p, s, "EEXIST")
            ELSE step_into(p, s, s.new)

\* An open goes on with what it found; a call that met a delegation waits for
\* it, link without its write access; any other drops that and returns.
Unlock(p) ==
    LET s == st[p] IN
    /\ pc[p] = "unlock"
    /\ UnlockAll(p)
    /\ IF s.call \in Opens THEN AfterLookupOpen(p, s)
       ELSE IF s.brk # None
       THEN /\ writers' = IF s.call = "link" THEN writers \ {p} ELSE writers
            /\ Goto(p, "break") /\ UNCHANGED st
       ELSE sb_end_write(p) /\ Return(p, s, s.err)
    /\ UNCHANGED <<tree, flatfs_spinlock, around>>

\* break_deleg_wait: link starts again from its names, unlink and rename from
\* the locks of their parents.
break_deleg_wait(p) ==
    LET s == [st[p] EXCEPT !.err = "", !.brk = None, !.old = None, !.new = None,
                           !.trap = None]
    IN
    /\ pc[p] = "break"
    /\ st[p].brk \notin deleg
    /\ IF s.call = "link" THEN Goto(p, "walk") /\ st' = [st EXCEPT ![p] = s]
       ELSE ToParents(p, s)
    /\ UNCHANGED <<tree, locks, env>>

\* Anything else that ends a call early: a permission, a security hook, a mount
\* point, the file system, a signal.  An error of filename_create is returned as
\* it is; EOPENSTALE, that vfs_open would turn to ESTALE, belongs to NFS.
Refuse(p) ==
    LET s == st[p] IN
    \/ \E e \in Refusals :
        \/ /\ pc[p] \in {"look", "act"}
           /\ Leave(p, [s EXCEPT !.reval = \/ @
                                           \/ pc[p] = "look" /\ s.call \in Creates \union {"link"}], e)
           /\ UNCHANGED <<locks, env>>
        \/ /\ pc[p] = "create"
           /\ flatfs_spinlock' = None
           /\ Leave(p, s, e)
           /\ UNCHANGED <<owner, readers, rename_mutex, env>>
    \/ /\ pc[p] \in {"break", "opened", "truncate"}
       /\ sb_end_write(p)
       /\ Return(p, s, "EINTR")
       /\ UNCHANGED <<locks, around>>

-----------------------------------------------------------------------------
(* What happens around the calls *)

\* A holder returns its delegation.
ReturnDeleg(i) ==
    /\ i \in deleg
    /\ deleg' = deleg \ {i}
    /\ UNCHANGED <<tree, locks, writers, mount, admin, pc, st>>

\* Remounting needs the mount without writers.  Freezing first keeps new writers
\* away and then waits for the others.
Remount ==
    /\ mount = "rw" /\ writers = {} /\ admin > 0
    /\ mount' = "ro"
    /\ admin' = admin - 1
    /\ UNCHANGED <<tree, locks, writers, deleg, pc, st>>
Freeze ==
    /\ mount = "rw" /\ admin > 0
    /\ mount' = "freezing"
    /\ admin' = admin - 1
    /\ UNCHANGED <<tree, locks, writers, deleg, pc, st>>
Frozen ==
    /\ mount = "freezing" /\ writers = {}
    /\ mount' = "frozen"
    /\ UNCHANGED <<tree, locks, writers, admin, deleg, pc, st>>
Thaw ==
    /\ mount = "frozen"
    /\ mount' = "rw"
    /\ UNCHANGED <<tree, locks, writers, admin, deleg, pc, st>>

-----------------------------------------------------------------------------
Step(p) ==
    \/ filename_parentat(p) \/ do_linkat(p) \/ mnt_want_write(p) \/ RenameMutex(p) \/ Lock(p)
    \/ LookCreate(p) \/ LookRemove(p) \/ LookRename(p) \/ LookOpen(p)
    \/ vfs_mknod(p) \/ vfs_mkdir(p) \/ vfs_symlink(p) \/ vfs_tmpfile(p) \/ vfs_link(p)
    \/ vfs_rmdir(p) \/ vfs_unlink(p) \/ vfs_rename(p) \/ SpinLock(p) \/ OpenCreate(p)
    \/ lookup_fast(p) \/ handle_dots(p) \/ finish_open(p) \/ handle_truncate(p)
    \/ Unlock(p) \/ break_deleg_wait(p)
    \/ Refuse(p) /\ UNCHANGED tree

Next ==
    \/ \E p \in Procs : Step(p)
    \/ \E i \in Inodes : ReturnDeleg(i)
    \/ Remount \/ Freeze \/ Frozen \/ Thaw

Init ==
    /\ \E s \in Scenarios :
        /\ kind = s.kind /\ child = s.child /\ up = s.up /\ body = s.body
        /\ deleg = s.deleg /\ admin = s.admin
        /\ pc = [p \in Procs |-> IF s.calls[p] = None THEN "done" ELSE "walk"]
        /\ \E n, n2 \in [Procs -> s.names] :
            /\ \A p \in Procs : s.calls[p] = None => n[p] = CHOOSE m \in s.names : TRUE
            /\ \A p \in Procs : s.calls[p] \notin Renames => n2[p] = n[p]
            /\ st = [p \in Procs |-> IF s.calls[p] = None THEN Start
                        ELSE [Start EXCEPT !.call = s.calls[p], !.n = n[p], !.n2 = n2[p]]]
    /\ data = {i \in Inodes : kind[i] = "file"}
    /\ dead = {} /\ linkable = {}
    /\ owner = [i \in Inodes |-> None]
    /\ readers = [i \in Inodes |-> {}]
    /\ rename_mutex = None /\ flatfs_spinlock = None
    /\ writers = {} /\ mount = "rw"

Spec == Init /\ [][Next]_vars

\* A process that can go on is scheduled in the end; a delegation is returned
\* and a file system is thawed in the end.
Fairness ==
    /\ \A p \in Procs : WF_vars(Step(p))
    /\ \A i \in Inodes : WF_vars(ReturnDeleg(i))
    /\ WF_vars(Frozen) /\ WF_vars(Thaw)
FairSpec == Spec /\ Fairness

-----------------------------------------------------------------------------
(* Properties *)

\* The tree, the locks and the local variables of the calls are well typed: a call
\* never goes on with a name or an inode it has not found (do_renameat2, do_last).
TypeOK ==
    /\ kind \in [Inodes -> {"free", "dir", "file", "link"}]
    /\ child \in [Inodes -> [Names -> Inodes \union {None}]]
    /\ up \in [Inodes -> Inodes] /\ body \in [Inodes -> Names]
    /\ data \subseteq Inodes /\ dead \subseteq Inodes /\ linkable \subseteq Inodes
    /\ owner \in [Inodes -> Procs \union {None}]
    /\ readers \in [Inodes -> SUBSET Procs]
    /\ rename_mutex \in Procs \union {None} /\ flatfs_spinlock \in Procs \union {None}
    /\ writers \subseteq Procs /\ mount \in {"rw", "ro", "freezing", "frozen"}
    /\ admin \in Nat /\ deleg \subseteq Inodes
    /\ pc \in [Procs -> Pcs]
    /\ \A p \in Procs :
        /\ st[p].call \in AllCalls /\ {st[p].n, st[p].n2} \subseteq Names \union {Dots}
        /\ {st[p].d, st[p].d2} \subseteq Directories
        /\ {st[p].old, st[p].new, st[p].trap, st[p].brk} \subseteq Inodes \union {None}
        /\ st[p].todo \in Seq(Inodes) /\ st[p].links \in 0 .. MAXSYMLINKS

\* What Namei promises: one atomic step of the tree per call, with its whole
\* precondition, and the answer that belongs to it.
Abstract == INSTANCE Namespace WITH
    call <- [p \in Procs |-> st[p].call],
    out <- [p \in Procs |->
        IF pc[p] = "done" THEN IF st[p].err = "" THEN "ok" ELSE "fail"
        ELSE IF st[p].did THEN "did" ELSE "busy"]

\* The calls are atomic: the checks they made before they slept on a lock still
\* hold when they act, a call that is repeated for a delegation or an ESTALE acts
\* once, and it returns success exactly if it acted (vfs_rename, do_renameat2,
\* vfs_rmdir, do_last and the others).
Atomic == Abstract!Spec

\* Renames cannot tear the tree, although removals leave what is in a directory
\* behind: a directory has one name, in the one above it, until it is removed and has
\* none; and the way up from any directory, a removed one or one below it too, ends
\* at the root and not in a circle (lock_rename, IS_DEADDIR).
TreeWhole == Abstract!TreeOK /\ Abstract!Connected

WantsWrite(s) ==
    IF s.new = None THEN s.call # "open" /\ (s.call \in Opens => s.n # Dots)
    ELSE s.call # "open" /\ ~s.did /\ ~IsDir(s.new)

\* Who a process waits for: the holders of the lock it is about to take, or the
\* writers a freeze waits for.
WaitsFor(p) ==
    CASE pc[p] = "lock" ->
            LET i == Head(st[p].todo) IN ({owner[i]} \ {None}) \union
                (IF st[p].call \in {"open", "trunc"} THEN {} ELSE readers[i])
      [] pc[p] = "truncate" -> ({owner[st[p].new]} \ {None}) \union readers[st[p].new]
      [] pc[p] = "mutex" -> {rename_mutex} \ {None}
      [] pc[p] = "spin" -> {flatfs_spinlock} \ {None}
      [] mount = "freezing" /\ pc[p] \in {"want", "opened"} /\ WantsWrite(st[p]) -> writers
      [] OTHER -> {}

\* No set of processes waits for itself: the order of the locks in lock_rename
\* and lock_two_nondirectories, victims after parents, and the write access to
\* the mount outside of all of them and never taken twice.
NoWaitCycle ==
    \A S \in (SUBSET Procs) \ {{}} : \E p \in S : WaitsFor(p) \cap S = {}

\* A process that waits for a delegation, or for a file system to be thawed,
\* holds no lock of a directory: "the caller should drop the i_mutex before".
WaitsUnlocked ==
    \A p \in Procs : pc[p] \in {"break", "want", "opened"} =>
        /\ \A i \in Inodes : owner[i] # p /\ p \notin readers[i]
        /\ rename_mutex # p /\ flatfs_spinlock # p

\* An inode that lost its last name stays without one: vfs_link looks at i_nlink
\* under the lock of the inode, and I_LINKABLE is cleared by the first link.
Gone(i) == kind[i] \in {"file", "link"} /\ i_nlink(i) = 0 /\ i \notin linkable
GoneForever == [][\A i \in Inodes : Gone(i) => Gone(i)']_vars

\* Nothing changes while the mount is read-only or frozen, however long a call
\* has been on its way (mnt_want_write, and again before a truncation).
ReadOnlyKept == [][(mount \in {"ro", "frozen"}) => tree' = tree]_vars

\* Every call returns: none waits for ever for a lock, a delegation or write access,
\* and neither an ESTALE nor a delegation makes it start over without end (do_filp_open,
\* do_unlinkat, do_linkat, do_renameat2).
Returns == \A p \in Procs : <>(pc[p] = "done")

=============================================================================
