------------------------------ MODULE Namespace ------------------------------
(***************************************************************************)
(* What the directory operations of extra/namei.c promise together: one    *)
(* tree, changed by one atomic step per call, and an answer that says      *)
(* whether the step was taken.  Namei implements it with locks.            *)
(*                                                                         *)
(* Every step has its whole precondition here, in the state it is taken    *)
(* in; Namei checks the parts of it in earlier steps and relies on its     *)
(* locks for their still being true.                                       *)
(***************************************************************************)
EXTENDS Integers, FiniteSets

CONSTANTS Procs, Inodes, Root, Names, None

VARIABLES
    kind,       \* [Inodes -> "free", "dir", "file" or "link"]
    child,      \* [Inodes -> [Names -> inode or None]]
    up,         \* [Inodes -> Inodes], the parent of a directory
    dead,       \* removed directories
    linkable,   \* files that never had a name and may get one
    call,       \* [Procs -> the system call]
    out         \* [Procs -> "busy", "did", "ok" or "fail"]; "ok" for no call

vars == <<kind, child, up, dead, linkable, call, out>>

AllCalls == {"open", "trunc", "creat", "excl", "mkdir", "mknod", "symlink", "link",
             "tmpfile", "rmdir", "unlink", "rename", "noreplace", "exchange"}
Live(d) == kind[d] = "dir" /\ d \notin dead
Named(i) == \E d \in Inodes, n \in Names : child[d][n] = i
NonDirectory(i) == kind[i] \in {"file", "link"}

\* The directories on the way up from d, d included: what is in every set with d
\* that has the parents of its members.
Ancestors(d) ==
    {a \in Inodes : \A S \in SUBSET Inodes :
        d \in S /\ (\A x \in S : up[x] \in S) => a \in S}

Make(i, k, d, n) ==
    /\ Live(d) /\ child[d][n] = None
    /\ kind[i] = "free"
    /\ kind' = [kind EXCEPT ![i] = k]
    /\ child' = [child EXCEPT ![d][n] = i]
    /\ up' = IF k = "dir" THEN [up EXCEPT ![i] = d] ELSE up
    /\ UNCHANGED <<dead, linkable>>

MakeUnnamed(i) ==
    /\ kind[i] = "free"
    /\ kind' = [kind EXCEPT ![i] = "file"]
    /\ linkable' = linkable \union {i}
    /\ UNCHANGED <<child, up, dead>>

Link(i, d, n) ==
    /\ Live(d) /\ child[d][n] = None
    /\ NonDirectory(i)
    /\ Named(i) \/ i \in linkable
    /\ child' = [child EXCEPT ![d][n] = i]
    /\ linkable' = linkable \ {i}
    /\ UNCHANGED <<kind, up, dead>>

\* An entry goes, and if it named a directory that is removed, with what is in it.
Remove(d, n) ==
    LET i == child[d][n] IN
    /\ Live(d) /\ i # None
    /\ child' = [child EXCEPT ![d][n] = None]
    /\ dead' = IF kind[i] = "dir" THEN dead \union {i} ELSE dead
    /\ UNCHANGED <<kind, up, linkable>>

\* An entry moves, over another of its kind or to a free name, and never into what
\* it names.
Move(d, n, e, m) ==
    LET i == child[d][n]
        j == child[e][m]
    IN
    /\ Live(d) /\ Live(e) /\ i # None /\ i # j
    /\ j # None => (kind[i] = "dir" <=> kind[j] = "dir")
    /\ kind[i] = "dir" => i \notin Ancestors(e)
    /\ child' = [child EXCEPT ![d][n] = None, ![e][m] = i]
    /\ up' = IF kind[i] = "dir" THEN [up EXCEPT ![i] = e] ELSE up
    /\ dead' = IF j # None /\ kind[j] = "dir" THEN dead \union {j} ELSE dead
    /\ UNCHANGED <<kind, linkable>>

\* Two entries change places; neither names something above the other.
Swap(d, n, e, m) ==
    LET i == child[d][n]
        j == child[e][m]
    IN
    /\ Live(d) /\ Live(e) /\ i # None /\ j # None /\ i # j
    /\ kind[i] = "dir" => i \notin Ancestors(e)
    /\ kind[j] = "dir" => j \notin Ancestors(d)
    /\ child' = [child EXCEPT ![d][n] = j, ![e][m] = i]
    /\ up' = [x \in Inodes |-> IF x = i /\ kind[i] = "dir" THEN e
                               ELSE IF x = j /\ kind[j] = "dir" THEN d ELSE up[x]]
    /\ UNCHANGED <<kind, dead, linkable>>

\* The step of a call, one of its kind.
Effect(c) ==
    \/ \E i, d \in Inodes, n \in Names :
        \/ c = "mkdir" /\ Make(i, "dir", d, n)
        \/ c \in {"mknod", "creat", "excl"} /\ Make(i, "file", d, n)
        \/ c = "symlink" /\ Make(i, "link", d, n)
        \/ c = "tmpfile" /\ MakeUnnamed(i)
        \/ c = "link" /\ Link(i, d, n)
        \/ c = "rmdir" /\ child[d][n] # None /\ kind[child[d][n]] = "dir" /\ Remove(d, n)
        \/ c = "unlink" /\ child[d][n] # None /\ NonDirectory(child[d][n]) /\ Remove(d, n)
    \/ \E d, e \in Inodes, n, m \in Names :
        \/ c = "rename" /\ Move(d, n, e, m)
        \/ c = "noreplace" /\ child[e][m] = None /\ Move(d, n, e, m)
        \/ c = "exchange" /\ Swap(d, n, e, m)

Commit(p) ==
    /\ out[p] = "busy"
    /\ out' = [out EXCEPT ![p] = "did"]
    /\ Effect(call[p])
    /\ UNCHANGED call

\* The answer.  Without a step it is an error, but for an open of what exists and
\* a rename between two names of one inode; after a step it is success, but for
\* an open that created its file and then may not open it.
Answer(p) ==
    /\ \/ out[p] = "busy" /\ out' = [out EXCEPT ![p] = "fail"]
       \/ out[p] = "did" /\ out' = [out EXCEPT ![p] = "ok"]
       \/ /\ out[p] = "busy"
          /\ call[p] \in {"open", "trunc", "creat", "rename", "exchange"}
          /\ out' = [out EXCEPT ![p] = "ok"]
       \/ /\ out[p] = "did" /\ call[p] \in {"creat", "excl", "tmpfile"}
          /\ out' = [out EXCEPT ![p] = "fail"]
    /\ UNCHANGED <<kind, child, up, dead, linkable, call>>

-----------------------------------------------------------------------------
\* Each live directory but the root has one name, in its parent, which may have been
\* removed; a removed one has no name; nothing names the root or a free inode.
TreeOK ==
    /\ Live(Root)
    /\ \A d \in Inodes \ {Root} : Live(d) =>
        /\ kind[up[d]] = "dir"
        /\ \E n \in Names : child[up[d]][n] = d
    /\ \A d, e \in Inodes, n, m \in Names :
        child[d][n] # None /\ kind[child[d][n]] = "dir" /\ child[e][m] = child[d][n]
            => d = e /\ n = m /\ d = up[child[d][n]]
    /\ \A d \in Inodes, n \in Names : child[d][n] # None =>
        kind[d] = "dir" /\ kind[child[d][n]] # "free" /\ child[d][n] \notin dead \union {Root}

\* The way up from every directory, a removed one too, ends at the root.
Connected == \A d \in Inodes : kind[d] = "dir" => Root \in Ancestors(d)

Init ==
    /\ kind \in [Inodes -> {"free", "dir", "file", "link"}]
    /\ child \in [Inodes -> [Names -> Inodes \union {None}]]
    /\ up \in [Inodes -> Inodes]
    /\ dead = {} /\ linkable = {}
    /\ TreeOK /\ Connected
    /\ call \in [Procs -> AllCalls]
    /\ out \in [Procs -> {"busy", "ok"}]

Next == \E p \in Procs : Commit(p) \/ Answer(p)

Spec == Init /\ [][Next]_vars

=============================================================================
