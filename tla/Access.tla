------------------------------- MODULE Access --------------------------------
(***************************************************************************)
(* The permission checks of extra/namei.c: what generic_permission and     *)
(* inode_permission decide, and what the checks for removing, creating,    *)
(* opening, linking and following a symlink make of it.  A question is     *)
(* asked of the code as it is, and its answer compared with what the       *)
(* comments above the functions promise.                                   *)
(*                                                                         *)
(* A question carries the caller's credentials c, an inode and, where the  *)
(* check has one, its directory.  An id is a number, 0 for one that has no *)
(* mapping; the rights of a class are a subset of {"r", "w", "x"}.  The    *)
(* hooks of the security modules and of the device cgroup, which may only  *)
(* refuse more, are left out.  flatfs has no permission operation of its   *)
(* own, so that do_inode_permission is generic_permission.                 *)
(***************************************************************************)
EXTENDS Integers

CONSTANT Questions

Rights == {"r", "w", "x"}
Caps == {"DAC_READ_SEARCH", "DAC_OVERRIDE", "FOWNER"}
Inodes ==
    [type : {"none", "reg", "dir", "lnk", "blk", "chr", "fifo", "sock"}, uid : Nat, gid : Nat,
     u : SUBSET Rights, g : SUBSET Rights, o : SUBSET Rights,
     suid : BOOLEAN, sgid : BOOLEAN, sticky : BOOLEAN,
     flags : SUBSET {"append", "immutable", "swapfile", "root", "dead"},
     acl : {"none", "grants", "denies"}, cached : BOOLEAN]
Creds == [uid : Nat \ {0}, groups : SUBSET (Nat \ {0}), caps : SUBSET Caps, mapped : BOOLEAN]
Opens ==
    [acc : {"rdonly", "wronly", "rdwr"}, trunc : BOOLEAN, append : BOOLEAN, noatime : BOOLEAN,
     nodev : BOOLEAN]
Asked ==
    [call : {"permission", "delete", "create", "open", "follow", "link", "sticky"},
     cred : Creds, inode : Inodes, dir : Inodes, mask : SUBSET Rights, isdir : BOOLEAN,
     rdonly : BOOLEAN, rcu : BOOLEAN, protected : BOOLEAN,
     levels : [fifos : 0 .. 2, regular : 0 .. 2], open : Opens]

\* Only a directory is a root.
ASSUME QuestionAssumption ==
    \A x \in Questions :
        /\ x \in Asked
        /\ "root" \in x.inode.flags => x.inode.type = "dir"

VARIABLES
    q,      \* the question
    answer  \* what the code answers: an error, or "0"

accessVars == <<q, answer>>

HAS_UNMAPPED_ID(i) == i.uid = 0 \/ i.gid = 0
capable_wrt_inode_uidgid(c, i, cap) == cap \in c.caps /\ ~HAS_UNMAPPED_ID(i)
inode_owner_or_capable(c, i) == c.uid = i.uid \/ ("FOWNER" \in c.caps /\ i.uid # 0)

-----------------------------------------------------------------------------
(* inode_permission *)

\* check_acl: rcu-walk uses a cached list only.  Mutant: a list that is not cached is
\* none.
MutNotCached(i, rcu) ==
    IF rcu /\ ~i.cached THEN "EAGAIN"
    ELSE CASE i.acl = "none" -> "EAGAIN"
           [] i.acl = "grants" -> "0"
           [] i.acl = "denies" -> "EACCES"
check_acl(i, rcu) ==
    IF rcu /\ ~i.cached THEN "ECHILD"
    ELSE CASE i.acl = "none" -> "EAGAIN"
           [] i.acl = "grants" -> "0"
           [] i.acl = "denies" -> "EACCES"

\* acl_permission_check: the class of the caller decides, whatever the others
\* grant.  Mutant: a group's rights add to the others'.
MutAnyClass(c, i, mask) ==
    LET class == IF c.uid = i.uid THEN i.u ELSE IF i.gid \in c.groups THEN i.g \union i.o ELSE i.o
    IN IF mask \subseteq class THEN "0" ELSE "EACCES"
ByClass(c, i, mask) ==
    LET class == IF c.uid = i.uid THEN i.u ELSE IF i.gid \in c.groups THEN i.g ELSE i.o
    IN IF mask \subseteq class THEN "0" ELSE "EACCES"
acl_permission_check(c, i, mask, rcu) ==
    IF c.uid # i.uid /\ i.g # {} /\ check_acl(i, rcu) # "EAGAIN" THEN check_acl(i, rcu)
    ELSE ByClass(c, i, mask)

\* What a capability overrides.  Mutant: the one for reading is looked at alone when
\* the caller has it.
MutReadSearchFirst(c, i, mask) ==
    IF capable_wrt_inode_uidgid(c, i, "DAC_READ_SEARCH")
    THEN IF i.type = "dir" THEN "w" \notin mask ELSE mask = {"r"}
    ELSE /\ capable_wrt_inode_uidgid(c, i, "DAC_OVERRIDE")
         /\ i.type = "dir" \/ "x" \notin mask \/ "x" \in i.u \union i.g \union i.o
Override(c, i, mask) ==
    \/ /\ capable_wrt_inode_uidgid(c, i, "DAC_READ_SEARCH")
       /\ IF i.type = "dir" THEN "w" \notin mask ELSE mask = {"r"}
    \/ /\ capable_wrt_inode_uidgid(c, i, "DAC_OVERRIDE")
       /\ i.type = "dir" \/ "x" \notin mask \/ "x" \in i.u \union i.g \union i.o

generic_permission(c, i, mask, rcu) ==
    LET ret == acl_permission_check(c, i, mask, rcu)
    IN IF ret # "EACCES" THEN ret ELSE IF Override(c, i, mask) THEN "0" ELSE "EACCES"

\* sb_permission.
sb_permission(i, mask, rdonly) ==
    IF "w" \in mask /\ rdonly /\ i.type \in {"reg", "dir", "lnk"} THEN "EROFS" ELSE "0"

inode_permission(c, i, mask, rdonly, rcu) ==
    IF sb_permission(i, mask, rdonly) # "0" THEN sb_permission(i, mask, rdonly)
    ELSE IF "w" \in mask /\ "immutable" \in i.flags THEN "EPERM"
    ELSE IF "w" \in mask /\ HAS_UNMAPPED_ID(i) THEN "EACCES"
    ELSE generic_permission(c, i, mask, rcu)

-----------------------------------------------------------------------------
(* The checks built on it *)

\* check_sticky: TRUE when the sticky bit of the directory keeps the entry.  Mutant:
\* from everyone but the owner of the directory.
MutDirOwnerOnly(c, dir, i) ==
    dir.sticky /\ dir.uid # c.uid /\ ~capable_wrt_inode_uidgid(c, i, "FOWNER")
check_sticky(c, dir, i) ==
    /\ dir.sticky /\ i.uid # c.uid /\ dir.uid # c.uid
    /\ ~capable_wrt_inode_uidgid(c, i, "FOWNER")

\* may_delete.
may_delete(c, dir, i, isdir, rdonly) ==
    LET perm == inode_permission(c, dir, {"w", "x"}, rdonly, FALSE) IN
    IF i.type = "none" THEN "ENOENT"
    ELSE IF HAS_UNMAPPED_ID(i) THEN "EOVERFLOW"
    ELSE IF perm # "0" THEN perm
    ELSE IF \/ "append" \in dir.flags \/ check_sticky(c, dir, i)
            \/ i.flags \intersect {"append", "immutable", "swapfile"} # {} THEN "EPERM"
    ELSE IF isdir /\ i.type # "dir" THEN "ENOTDIR"
    ELSE IF isdir /\ "root" \in i.flags THEN "EBUSY"
    ELSE IF ~isdir /\ i.type = "dir" THEN "EISDIR"
    ELSE IF "dead" \in dir.flags THEN "ENOENT" ELSE "0"

\* may_create; may_o_create is the same for a name that is known to be free.
may_create(c, dir, i, rdonly) ==
    IF i.type # "none" THEN "EEXIST"
    ELSE IF "dead" \in dir.flags THEN "ENOENT"
    ELSE IF ~c.mapped THEN "EOVERFLOW"
    ELSE inode_permission(c, dir, {"w", "x"}, rdonly, FALSE)

\* The rights that the access mode and O_TRUNC ask for, and may_open.
OpenMask(o) ==
    (IF o.acc = "wronly" THEN {} ELSE {"r"})
        \union (IF o.acc = "rdonly" /\ ~o.trunc THEN {} ELSE {"w"})
may_open(c, i, o, rdonly) ==
    LET mask == OpenMask(o)
        trunc == o.trunc /\ i.type \notin {"blk", "chr", "fifo", "sock"}
        perm == inode_permission(c, i, mask, rdonly, FALSE)
    IN
    IF i.type = "none" THEN "ENOENT"
    ELSE IF i.type = "lnk" THEN "ELOOP"
    ELSE IF i.type = "dir" /\ "w" \in mask THEN "EISDIR"
    ELSE IF i.type \in {"blk", "chr"} /\ o.nodev THEN "EACCES"
    ELSE IF perm # "0" THEN perm
    ELSE IF "append" \in i.flags /\ (trunc \/ (o.acc # "rdonly" /\ ~o.append)) THEN "EPERM"
    ELSE IF o.noatime /\ ~inode_owner_or_capable(c, i) THEN "EPERM"
    ELSE "0"

\* may_follow_link.
may_follow_link(c, dir, i, protected, rcu) ==
    IF \/ ~protected \/ c.uid = i.uid
       \/ ~(dir.sticky /\ "w" \in dir.o)
       \/ (dir.uid # 0 /\ dir.uid = i.uid)
    THEN "0" ELSE IF rcu THEN "ECHILD" ELSE "EACCES"

safe_hardlink_source(c, i, rdonly) ==
    /\ i.type = "reg" /\ ~i.suid /\ ~(i.sgid /\ "x" \in i.g)
    /\ inode_permission(c, i, {"r", "w"}, rdonly, FALSE) = "0"
may_linkat(c, i, protected, rdonly) ==
    IF HAS_UNMAPPED_ID(i) THEN "EOVERFLOW"
    ELSE IF \/ ~protected \/ safe_hardlink_source(c, i, rdonly) \/ inode_owner_or_capable(c, i)
    THEN "0" ELSE "EPERM"

\* may_create_in_sticky, with the levels of protected_fifos and protected_regular.
may_create_in_sticky(c, dir, i, levels) ==
    IF \/ levels.fifos = 0 /\ i.type = "fifo"
       \/ levels.regular = 0 /\ i.type = "reg"
       \/ ~dir.sticky \/ i.uid = dir.uid \/ c.uid = i.uid
    THEN "0"
    ELSE IF \/ "w" \in dir.o
            \/ /\ "w" \in dir.g
               /\ \/ levels.fifos >= 2 /\ i.type = "fifo"
                  \/ levels.regular >= 2 /\ i.type = "reg"
    THEN "EACCES" ELSE "0"

-----------------------------------------------------------------------------
\* The answer to a question, given credentials and the mode of the walk.
Decide(x, c, rcu) ==
    CASE x.call = "permission" -> inode_permission(c, x.inode, x.mask, x.rdonly, rcu)
      [] x.call = "delete" -> may_delete(c, x.dir, x.inode, x.isdir, x.rdonly)
      [] x.call = "create" -> may_create(c, x.dir, x.inode, x.rdonly)
      [] x.call = "open" -> may_open(c, x.inode, x.open, x.rdonly)
      [] x.call = "follow" -> may_follow_link(c, x.dir, x.inode, x.protected, rcu)
      [] x.call = "link" -> may_linkat(c, x.inode, x.protected, x.rdonly)
      [] x.call = "sticky" -> may_create_in_sticky(c, x.dir, x.inode, x.levels)

AccessInit == q \in Questions /\ answer = "none"
AccessNext ==
    /\ answer = "none" /\ answer' = Decide(q, q.cred, q.rcu)
    /\ UNCHANGED q
AccessSpec == AccessInit /\ [][AccessNext]_accessVars

-----------------------------------------------------------------------------
(* Properties *)

\* Who may write to an inode, or search it, by the rules of the comments: no file,
\* directory or symlink of a read-only file system, never an immutable inode; by the
\* caller's class or its access list, or by a capability.
MayUse(c, i, mask, rdonly) ==
    /\ "w" \in mask =>
         /\ rdonly => i.type \notin {"reg", "dir", "lnk"}
         /\ "immutable" \notin i.flags /\ ~HAS_UNMAPPED_ID(i)
    /\ \/ c.uid = i.uid /\ mask \subseteq i.u
       \/ c.uid # i.uid /\ i.g # {} /\ i.acl = "grants"
       \/ /\ c.uid # i.uid /\ (i.g = {} \/ i.acl = "none")
          /\ mask \subseteq IF i.gid \in c.groups THEN i.g ELSE i.o
       \/ Override(c, i, mask)

\* The conditions the comments above may_delete, may_create, may_follow_link,
\* safe_hardlink_source, may_linkat and may_create_in_sticky and in may_open list,
\* taken together.  The comment above may_create_in_sticky speaks of FIFOs and regular
\* files only and has a switch for each; the code also refuses every other kind of file,
\* as at level 1 and whatever the switches say, and StickyLevel says so.
StickyLevel(type, levels) ==
    CASE type = "fifo" -> levels.fifos
      [] type = "reg" -> levels.regular
      [] OTHER -> 1
Promised ==
    LET c == q.cred
        i == q.inode
    IN
    CASE q.call = "permission" -> MayUse(c, i, q.mask, q.rdonly)
      [] q.call = "delete" ->
            /\ MayUse(c, q.dir, {"w", "x"}, q.rdonly) /\ "append" \notin q.dir.flags
            /\ q.dir.sticky => \/ c.uid \in {q.dir.uid, i.uid}
                               \/ capable_wrt_inode_uidgid(c, i, "FOWNER")
            /\ i.flags \intersect {"append", "immutable", "swapfile"} = {}
            /\ ~HAS_UNMAPPED_ID(i) /\ i.type # "none" /\ (q.isdir <=> i.type = "dir")
            /\ "root" \notin i.flags /\ "dead" \notin q.dir.flags
      [] q.call = "create" ->
            /\ i.type = "none" /\ "dead" \notin q.dir.flags /\ c.mapped
            /\ MayUse(c, q.dir, {"w", "x"}, q.rdonly)
      [] q.call = "follow" ->
            q.protected => \/ ~q.dir.sticky \/ "w" \notin q.dir.o
                           \/ c.uid = i.uid \/ (q.dir.uid # 0 /\ q.dir.uid = i.uid)
      [] q.call = "link" ->
            /\ ~HAS_UNMAPPED_ID(i)
            /\ ~(/\ q.protected /\ c.uid # i.uid /\ ~inode_owner_or_capable(c, i)
                 /\ \/ i.type # "reg" \/ i.suid \/ (i.sgid /\ "x" \in i.g)
                    \/ ~MayUse(c, i, {"r", "w"}, q.rdonly))
      [] q.call = "sticky" ->
            LET level == StickyLevel(i.type, q.levels)
            IN ~(/\ level > 0 /\ q.dir.sticky /\ c.uid # i.uid /\ q.dir.uid # i.uid
                 /\ ("w" \in q.dir.o \/ (level = 2 /\ "w" \in q.dir.g)))
      [] q.call = "open" ->
            /\ MayUse(c, i, OpenMask(q.open), q.rdonly) /\ i.type \notin {"none", "lnk"}
            /\ i.type = "dir" => "w" \notin OpenMask(q.open)
            /\ i.type \in {"blk", "chr"} => ~q.open.nodev
            /\ "append" \in i.flags /\ q.open.acc # "rdonly" => q.open.append
            /\ "append" \in i.flags /\ q.open.trunc => i.type \notin {"reg", "dir"}
            /\ q.open.noatime => inode_owner_or_capable(c, i)

\* A check lets through exactly what its comment, and for other kinds of files
\* StickyLevel, says; rcu-walk may also give up.
AsPromised == answer \notin {"none", "ECHILD"} => (answer = "0" <=> Promised)

\* rcu-walk gives up or answers what ref-walk answers ("It would then be called
\* again in ref-walk mode").
RcuAgrees == q.rcu /\ answer \notin {"none", "ECHILD"} => answer = Decide(q, q.cred, FALSE)

\* Nobody loses an access by having one capability more.
CapsOnlyAdd ==
    answer = "0" =>
        \A cap \in Caps :
            Decide(q, [q.cred EXCEPT !.caps = @ \union {cap}], q.rcu) = "0"

\* Who may create an entry may remove it again, sticky directory or not, unless the
\* directory is append-only (may_create against may_delete).  The entry belongs to the
\* caller, and to a group of the caller or that of a set-group-ID directory.
CreatorRemoves ==
    q.call = "create" /\ answer = "0" =>
        \A made \in [type : {"reg"}, uid : {q.cred.uid}, flags : {{}},
                      gid : IF q.dir.sgid THEN {q.dir.gid} ELSE q.cred.groups] :
            may_delete(q.cred, q.dir, made, FALSE, q.rdonly)
                = IF "append" \in q.dir.flags THEN "EPERM" ELSE "0"

=============================================================================
