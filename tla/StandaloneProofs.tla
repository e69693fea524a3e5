-------------------------- MODULE StandaloneProofs ---------------------------
(***************************************************************************)
(* Proofs about the two parts that share no state with the others: the     *)
(* permission checks of the VFS (Access) and the cuckoo hash table         *)
(* (Cuckoo).                                                               *)
(*                                                                         *)
(* Access: what its run checks on the questions of MCAccess holds of any   *)
(* question, whatever the ids, groups, rights and capabilities.  Each      *)
(* check is compared with its promise once, for any arguments, and the     *)
(* answer to a question is that of the check.                              *)
(*                                                                         *)
(* Cuckoo: for any hashes and any sizes, the table is a map.  A table is   *)
(* good when every entry is in a bucket of its key and no key is there     *)
(* twice; it stands for the set of its entries.  A path that find_path     *)
(* closes never meets a slot twice, so that executing it from its end      *)
(* frees its first slot and keeps the table good and the entries as they   *)
(* are.  cuckoo_resize takes the slots of the old table one after the      *)
(* other; as long as a bucket of the new table has no more entries than    *)
(* slots were taken of the one old bucket it draws from, there is room.    *)
(***************************************************************************)
EXTENDS Access, Cuckoo, FiniteSetTheorems, SequenceTheorems, WellFoundedInduction, TLAPS

\* The question is one of Questions, and an answer is the one the code gives to it.
Answered == q \in Questions /\ (answer = "none" \/ answer = Decide(q, q.cred, q.rcu))

LEMMA AlwaysAnswered == AccessSpec => []Answered
<1>1. AccessInit => Answered
  BY DEF AccessInit, Answered
<1>2. Answered /\ [AccessNext]_accessVars => Answered'
  BY DEF AccessNext, accessVars, Answered
<1> QED BY <1>1, <1>2, PTL DEF AccessSpec

-----------------------------------------------------------------------------
(* Access: inode_permission *)

LEMMA AclCheck ==
    ASSUME NEW i \in Inodes, NEW rcu \in BOOLEAN
    PROVE  /\ check_acl(i, rcu) = "ECHILD" <=> rcu /\ ~i.cached
           /\ check_acl(i, rcu) # "ECHILD" => check_acl(i, rcu) = check_acl(i, FALSE)
           /\ check_acl(i, FALSE) =
                IF i.acl = "none" THEN "EAGAIN" ELSE IF i.acl = "grants" THEN "0" ELSE "EACCES"
  BY DEF check_acl, Inodes

\* Without rcu-walk nobody gives up, and the rights are those of the comments.
LEMMA PermissionPromised ==
    ASSUME NEW c, NEW i \in Inodes, NEW mask, NEW rdonly
    PROVE  /\ inode_permission(c, i, mask, rdonly, FALSE) = "0" <=> MayUse(c, i, mask, rdonly)
           /\ inode_permission(c, i, mask, rdonly, FALSE) \in {"0", "EROFS", "EPERM", "EACCES"}
<1>1. i.acl \in {"none", "grants", "denies"}
  BY DEF Inodes
<1>2. check_acl(i, FALSE) =
        IF i.acl = "none" THEN "EAGAIN" ELSE IF i.acl = "grants" THEN "0" ELSE "EACCES"
  BY AclCheck
<1>3. acl_permission_check(c, i, mask, FALSE) \in {"0", "EACCES"}
  BY <1>2 DEF acl_permission_check, ByClass
<1>4. acl_permission_check(c, i, mask, FALSE) = "0" <=>
        \/ c.uid = i.uid /\ mask \subseteq i.u
        \/ c.uid # i.uid /\ i.g # {} /\ i.acl = "grants"
        \/ /\ c.uid # i.uid /\ (i.g = {} \/ i.acl = "none")
           /\ mask \subseteq IF i.gid \in c.groups THEN i.g ELSE i.o
  BY <1>1, <1>2 DEF acl_permission_check, ByClass
<1>5. /\ generic_permission(c, i, mask, FALSE) = "0" <=>
           acl_permission_check(c, i, mask, FALSE) = "0" \/ Override(c, i, mask)
      /\ generic_permission(c, i, mask, FALSE) \in {"0", "EACCES"}
  BY <1>3 DEF generic_permission
<1> HIDE DEF generic_permission
<1>6. /\ inode_permission(c, i, mask, rdonly, FALSE) = "0" <=>
           /\ sb_permission(i, mask, rdonly) = "0"
           /\ "w" \in mask => "immutable" \notin i.flags /\ ~HAS_UNMAPPED_ID(i)
           /\ generic_permission(c, i, mask, FALSE) = "0"
      /\ inode_permission(c, i, mask, rdonly, FALSE) \in {"0", "EROFS", "EPERM", "EACCES"}
  BY <1>5 DEF inode_permission, sb_permission
<1>7. sb_permission(i, mask, rdonly) = "0" <=>
        ("w" \in mask => (rdonly => i.type \notin {"reg", "dir", "lnk"}))
  BY DEF sb_permission
<1> QED BY <1>4, <1>5, <1>6, <1>7 DEF MayUse

\* rcu-walk gives up or answers what ref-walk answers.
LEMMA PermissionRcu ==
    ASSUME NEW c, NEW i \in Inodes, NEW mask, NEW rdonly,
           inode_permission(c, i, mask, rdonly, TRUE) # "ECHILD"
    PROVE  inode_permission(c, i, mask, rdonly, TRUE) = inode_permission(c, i, mask, rdonly, FALSE)
<1>1. CASE acl_permission_check(c, i, mask, TRUE) = "ECHILD"
  <2>1. generic_permission(c, i, mask, TRUE) = "ECHILD"
    BY <1>1 DEF generic_permission
  <2>2. inode_permission(c, i, mask, rdonly, TRUE) = inode_permission(c, i, mask, rdonly, FALSE)
    BY <2>1 DEF inode_permission
  <2> QED BY <2>2
<1>2. CASE acl_permission_check(c, i, mask, TRUE) # "ECHILD"
  <2>1. acl_permission_check(c, i, mask, TRUE) = acl_permission_check(c, i, mask, FALSE)
    BY <1>2, AclCheck DEF acl_permission_check
  <2>2. generic_permission(c, i, mask, TRUE) = generic_permission(c, i, mask, FALSE)
    BY <2>1 DEF generic_permission
  <2> QED BY <2>2 DEF inode_permission
<1> QED BY <1>1, <1>2

-----------------------------------------------------------------------------
(* The checks against their promises *)

\* What the comment above may_delete asks.
MayDelete(c, dir, i, isdir, rdonly) ==
    /\ MayUse(c, dir, {"w", "x"}, rdonly) /\ "append" \notin dir.flags
    /\ dir.sticky => \/ c.uid \in {dir.uid, i.uid}
                     \/ capable_wrt_inode_uidgid(c, i, "FOWNER")
    /\ i.flags \intersect {"append", "immutable", "swapfile"} = {}
    /\ ~HAS_UNMAPPED_ID(i) /\ i.type # "none" /\ (isdir <=> i.type = "dir")
    /\ "root" \notin i.flags /\ "dead" \notin dir.flags

LEMMA DeletePromised ==
    ASSUME NEW c, NEW dir \in Inodes, NEW i \in Inodes, NEW isdir, NEW rdonly,
           "root" \in i.flags => i.type = "dir"
    PROVE  may_delete(c, dir, i, isdir, rdonly) = "0" <=> MayDelete(c, dir, i, isdir, rdonly)
<1>1. /\ inode_permission(c, dir, {"w", "x"}, rdonly, FALSE) = "0" <=> MayUse(c, dir, {"w", "x"}, rdonly)
  BY PermissionPromised
<1>2. dir.sticky \in BOOLEAN
  BY DEF Inodes
<1>3. ~check_sticky(c, dir, i) <=>
        (dir.sticky => c.uid \in {dir.uid, i.uid} \/ capable_wrt_inode_uidgid(c, i, "FOWNER"))
  BY <1>2 DEF check_sticky
<1> QED BY <1>1, <1>3 DEF may_delete, MayDelete

LEMMA CreatePromised ==
    ASSUME NEW c \in Creds, NEW dir \in Inodes, NEW i, NEW rdonly
    PROVE  may_create(c, dir, i, rdonly) = "0" <=>
            /\ i.type = "none" /\ "dead" \notin dir.flags /\ c.mapped
            /\ MayUse(c, dir, {"w", "x"}, rdonly)
<1>1. inode_permission(c, dir, {"w", "x"}, rdonly, FALSE) = "0" <=> MayUse(c, dir, {"w", "x"}, rdonly)
  BY PermissionPromised
<1>2. c.mapped \in BOOLEAN
  BY DEF Creds
<1> QED BY <1>1, <1>2 DEF may_create

LEMMA FollowPromised ==
    ASSUME NEW c, NEW dir \in Inodes, NEW i, NEW protected \in BOOLEAN, NEW rcu \in BOOLEAN,
           may_follow_link(c, dir, i, protected, rcu) # "ECHILD"
    PROVE  may_follow_link(c, dir, i, protected, rcu) = "0" <=>
            (protected => \/ ~dir.sticky \/ "w" \notin dir.o
                          \/ c.uid = i.uid \/ (dir.uid # 0 /\ dir.uid = i.uid))
<1>1. dir.sticky \in BOOLEAN
  BY DEF Inodes
<1> QED BY <1>1 DEF may_follow_link

LEMMA LinkPromised ==
    ASSUME NEW c, NEW i \in Inodes, NEW protected \in BOOLEAN, NEW rdonly
    PROVE  may_linkat(c, i, protected, rdonly) = "0" <=>
            /\ ~HAS_UNMAPPED_ID(i)
            /\ ~(/\ protected /\ c.uid # i.uid /\ ~inode_owner_or_capable(c, i)
                 /\ \/ i.type # "reg" \/ i.suid \/ (i.sgid /\ "x" \in i.g)
                    \/ ~MayUse(c, i, {"r", "w"}, rdonly))
<1>1. inode_permission(c, i, {"r", "w"}, rdonly, FALSE) = "0" <=> MayUse(c, i, {"r", "w"}, rdonly)
  BY PermissionPromised
<1>2. i.suid \in BOOLEAN /\ i.sgid \in BOOLEAN
  BY DEF Inodes
<1>3. safe_hardlink_source(c, i, rdonly) <=>
        ~(\/ i.type # "reg" \/ i.suid \/ (i.sgid /\ "x" \in i.g)
          \/ ~MayUse(c, i, {"r", "w"}, rdonly))
  BY <1>1, <1>2 DEF safe_hardlink_source
<1>4. c.uid = i.uid => inode_owner_or_capable(c, i)
  BY DEF inode_owner_or_capable
<1> QED BY <1>3, <1>4 DEF may_linkat

LEMMA StickyPromised ==
    ASSUME NEW c, NEW dir \in Inodes, NEW i,
           NEW levels \in [fifos : 0 .. 2, regular : 0 .. 2]
    PROVE  may_create_in_sticky(c, dir, i, levels) = "0" <=>
            LET level == StickyLevel(i.type, levels)
            IN ~(/\ level > 0 /\ dir.sticky /\ c.uid # i.uid /\ dir.uid # i.uid
                 /\ ("w" \in dir.o \/ (level = 2 /\ "w" \in dir.g)))
<1>1. dir.sticky \in BOOLEAN
  BY DEF Inodes
<1>2. levels.fifos \in 0 .. 2 /\ levels.regular \in 0 .. 2
  OBVIOUS
<1>3. CASE i.type = "fifo"
  BY <1>1, <1>2, <1>3 DEF may_create_in_sticky, StickyLevel
<1>4. CASE i.type = "reg"
  BY <1>1, <1>2, <1>4 DEF may_create_in_sticky, StickyLevel
<1>5. CASE i.type \notin {"fifo", "reg"}
  BY <1>1, <1>2, <1>5 DEF may_create_in_sticky, StickyLevel
<1> QED BY <1>3, <1>4, <1>5

LEMMA OpenPromised ==
    ASSUME NEW c, NEW i \in Inodes, NEW o \in Opens, NEW rdonly
    PROVE  may_open(c, i, o, rdonly) = "0" <=>
            /\ MayUse(c, i, OpenMask(o), rdonly) /\ i.type \notin {"none", "lnk"}
            /\ i.type = "dir" => "w" \notin OpenMask(o)
            /\ i.type \in {"blk", "chr"} => ~o.nodev
            /\ "append" \in i.flags /\ o.acc # "rdonly" => o.append
            /\ "append" \in i.flags /\ o.trunc => i.type \notin {"reg", "dir"}
            /\ o.noatime => inode_owner_or_capable(c, i)
<1> DEFINE mask == OpenMask(o)
           perm == inode_permission(c, i, mask, rdonly, FALSE)
<1>1. perm = "0" <=> MayUse(c, i, mask, rdonly)
  BY PermissionPromised
<1>2. /\ o.trunc \in BOOLEAN /\ o.append \in BOOLEAN /\ o.noatime \in BOOLEAN /\ o.nodev \in BOOLEAN
      /\ i.type \in {"none", "reg", "dir", "lnk", "blk", "chr", "fifo", "sock"}
  BY DEF Opens, Inodes
<1>3. may_open(c, i, o, rdonly) =
        IF i.type = "none" THEN "ENOENT"
        ELSE IF i.type = "lnk" THEN "ELOOP"
        ELSE IF i.type = "dir" /\ "w" \in mask THEN "EISDIR"
        ELSE IF i.type \in {"blk", "chr"} /\ o.nodev THEN "EACCES"
        ELSE IF perm # "0" THEN perm
        ELSE IF "append" \in i.flags /\ ((o.trunc /\ i.type \notin {"blk", "chr", "fifo", "sock"})
                                         \/ (o.acc # "rdonly" /\ ~o.append)) THEN "EPERM"
        ELSE IF o.noatime /\ ~inode_owner_or_capable(c, i) THEN "EPERM"
        ELSE "0"
  BY DEF may_open
<1> HIDE DEF mask, perm
<1>4. may_open(c, i, o, rdonly) = "0" <=>
        /\ perm = "0" /\ i.type \notin {"none", "lnk"}
        /\ i.type = "dir" => "w" \notin mask
        /\ i.type \in {"blk", "chr"} => ~o.nodev
        /\ "append" \in i.flags /\ o.acc # "rdonly" => o.append
        /\ "append" \in i.flags /\ o.trunc => i.type \notin {"reg", "dir"}
        /\ o.noatime => inode_owner_or_capable(c, i)
  BY <1>2, <1>3
<1> QED BY <1>1, <1>4 DEF mask

LEMMA Fields ==
    ASSUME NEW x \in Questions
    PROVE  /\ x.call \in {"permission", "delete", "create", "open", "follow", "link", "sticky"}
           /\ x.cred \in Creds /\ x.inode \in Inodes /\ x.dir \in Inodes /\ x.isdir \in BOOLEAN
           /\ x.rcu \in BOOLEAN /\ x.protected \in BOOLEAN
           /\ x.levels \in [fifos : 0 .. 2, regular : 0 .. 2] /\ x.open \in Opens
           /\ "root" \in x.inode.flags => x.inode.type = "dir"
  BY QuestionAssumption DEF Asked

\* Every check of the permissions of namei.c lets through exactly what the comments
\* above it say, for any caller, inode and directory of any kind; a check in rcu-walk
\* may give up.  For an O_CREAT open of a device, socket or other file that is there,
\* about which the comment of may_create_in_sticky is silent, it is refused in a sticky
\* directory that all may write to, unless the file is the caller's or the directory's
\* owner's.
THEOREM ChecksAsPromised == AccessSpec => []AsPromised
<1>1. ASSUME Answered
      PROVE  AsPromised
  <2> SUFFICES ASSUME answer \notin {"none", "ECHILD"}
               PROVE  answer = "0" <=> Promised
    BY DEF AsPromised
  <2>1. q \in Questions /\ answer = Decide(q, q.cred, q.rcu)
    BY <1>1 DEF Answered
  <2>2. /\ q.call \in {"permission", "delete", "create", "open", "follow", "link", "sticky"}
        /\ q.cred \in Creds /\ q.inode \in Inodes /\ q.dir \in Inodes /\ q.isdir \in BOOLEAN
        /\ q.rcu \in BOOLEAN /\ q.protected \in BOOLEAN
        /\ q.levels \in [fifos : 0 .. 2, regular : 0 .. 2] /\ q.open \in Opens
        /\ "root" \in q.inode.flags => q.inode.type = "dir"
    BY <2>1, Fields
  <2>3. CASE q.call = "permission"
    <3>1. answer = inode_permission(q.cred, q.inode, q.mask, q.rdonly, q.rcu)
      BY <2>1, <2>3 DEF Decide
    <3>0. inode_permission(q.cred, q.inode, q.mask, q.rdonly, q.rcu) # "ECHILD"
      BY <3>1
    <3>2. answer = inode_permission(q.cred, q.inode, q.mask, q.rdonly, FALSE)
      <4>1. CASE q.rcu = TRUE
        BY <2>2, <3>0, <3>1, <4>1, PermissionRcu
      <4>2. CASE q.rcu = FALSE
        BY <3>1, <4>2
      <4> QED BY <2>2, <4>1, <4>2
    <3>3. Promised <=> MayUse(q.cred, q.inode, q.mask, q.rdonly)
      BY <2>3 DEF Promised
    <3> QED BY <2>2, <3>2, <3>3, PermissionPromised
  <2>4. CASE q.call = "delete"
    <3>1. answer = may_delete(q.cred, q.dir, q.inode, q.isdir, q.rdonly)
      BY <2>1, <2>4 DEF Decide
    <3>2. may_delete(q.cred, q.dir, q.inode, q.isdir, q.rdonly) = "0"
            <=> MayDelete(q.cred, q.dir, q.inode, q.isdir, q.rdonly)
      BY <2>2, DeletePromised
    <3>3. Promised <=> MayDelete(q.cred, q.dir, q.inode, q.isdir, q.rdonly)
      BY <2>4 DEF Promised, MayDelete
    <3> QED BY <3>1, <3>2, <3>3
  <2>5. CASE q.call = "create"
    <3>1. answer = may_create(q.cred, q.dir, q.inode, q.rdonly)
      BY <2>1, <2>5 DEF Decide
    <3> QED BY <2>2, <2>5, <3>1, CreatePromised DEF Promised
  <2>6. CASE q.call = "open"
    <3>1. answer = may_open(q.cred, q.inode, q.open, q.rdonly)
      BY <2>1, <2>6 DEF Decide
    <3> QED BY <2>2, <2>6, <3>1, OpenPromised DEF Promised
  <2>7. CASE q.call = "follow"
    <3>1. answer = may_follow_link(q.cred, q.dir, q.inode, q.protected, q.rcu)
      BY <2>1, <2>7 DEF Decide
    <3> QED BY <2>2, <2>7, <3>1, FollowPromised DEF Promised
  <2>8. CASE q.call = "link"
    <3>1. answer = may_linkat(q.cred, q.inode, q.protected, q.rdonly)
      BY <2>1, <2>8 DEF Decide
    <3> QED BY <2>2, <2>8, <3>1, LinkPromised DEF Promised
  <2>9. CASE q.call = "sticky"
    <3>1. answer = may_create_in_sticky(q.cred, q.dir, q.inode, q.levels)
      BY <2>1, <2>9 DEF Decide
    <3> QED BY <2>2, <2>9, <3>1, StickyPromised DEF Promised
  <2> QED BY <2>2, <2>3, <2>4, <2>5, <2>6, <2>7, <2>8, <2>9
<1>2. Answered => AsPromised
  BY <1>1
<1> QED BY <1>2, AlwaysAnswered, PTL

\* For any question, rcu-walk gives up or answers what ref-walk answers: what it has
\* cached of an access list is never a reason for another answer.
THEOREM WalkModesAgree == AccessSpec => []RcuAgrees
<1>1. ASSUME Answered
      PROVE  RcuAgrees
  <2> SUFFICES ASSUME q.rcu, answer \notin {"none", "ECHILD"}
               PROVE  answer = Decide(q, q.cred, FALSE)
    BY DEF RcuAgrees
  <2>1. q \in Questions /\ answer = Decide(q, q.cred, q.rcu)
    BY <1>1 DEF Answered
  <2>2. /\ q.call \in {"permission", "delete", "create", "open", "follow", "link", "sticky"}
        /\ q.inode \in Inodes /\ q.rcu \in BOOLEAN
    BY <2>1, Fields
  <2>3. CASE q.call = "permission"
    BY <2>1, <2>2, <2>3, PermissionRcu DEF Decide
  <2>4. CASE q.call = "follow"
    BY <2>1, <2>4 DEF Decide, may_follow_link
  <2>5. CASE q.call \in {"delete", "create", "open", "link", "sticky"}
    BY <2>1, <2>5 DEF Decide
  <2> QED BY <2>2, <2>3, <2>4, <2>5
<1>2. Answered => RcuAgrees
  BY <1>1
<1> QED BY <1>2, AlwaysAnswered, PTL

-----------------------------------------------------------------------------
(* Access: more capabilities *)

\* d is the caller c with more capabilities.
More(c, d) == d.uid = c.uid /\ d.groups = c.groups /\ d.mapped = c.mapped /\ c.caps \subseteq d.caps

LEMMA PermissionMore ==
    ASSUME NEW c, NEW d, More(c, d), NEW i, NEW mask, NEW rdonly, NEW rcu,
           inode_permission(c, i, mask, rdonly, rcu) = "0"
    PROVE  inode_permission(d, i, mask, rdonly, rcu) = "0"
<1>1. acl_permission_check(d, i, mask, rcu) = acl_permission_check(c, i, mask, rcu)
  BY DEF acl_permission_check, ByClass, More
<1>2. Override(c, i, mask) => Override(d, i, mask)
  BY DEF Override, capable_wrt_inode_uidgid, More
<1>3. generic_permission(c, i, mask, rcu) = "0" => generic_permission(d, i, mask, rcu) = "0"
  BY <1>1, <1>2 DEF generic_permission
<1> QED BY <1>3 DEF inode_permission

LEMMA ChecksMore ==
    ASSUME NEW c, NEW d, More(c, d), NEW dir, NEW i, NEW rdonly
    PROVE  /\ \A isdir : may_delete(c, dir, i, isdir, rdonly) = "0" =>
                          may_delete(d, dir, i, isdir, rdonly) = "0"
           /\ may_create(c, dir, i, rdonly) = "0" => may_create(d, dir, i, rdonly) = "0"
           /\ \A o : may_open(c, i, o, rdonly) = "0" => may_open(d, i, o, rdonly) = "0"
           /\ \A protected, rcu :
                may_follow_link(d, dir, i, protected, rcu) = may_follow_link(c, dir, i, protected, rcu)
           /\ \A protected : may_linkat(c, i, protected, rdonly) = "0" =>
                              may_linkat(d, i, protected, rdonly) = "0"
           /\ \A levels : may_create_in_sticky(d, dir, i, levels) = may_create_in_sticky(c, dir, i, levels)
<1>1. \A j, mask : inode_permission(c, j, mask, rdonly, FALSE) = "0" =>
                    inode_permission(d, j, mask, rdonly, FALSE) = "0"
  BY PermissionMore
<1>2. /\ check_sticky(d, dir, i) => check_sticky(c, dir, i)
      /\ inode_owner_or_capable(c, i) => inode_owner_or_capable(d, i)
  BY DEF check_sticky, inode_owner_or_capable, capable_wrt_inode_uidgid, More
<1>3. ASSUME NEW isdir, may_delete(c, dir, i, isdir, rdonly) = "0"
      PROVE  may_delete(d, dir, i, isdir, rdonly) = "0"
  BY <1>1, <1>2, <1>3 DEF may_delete
<1>4. may_create(c, dir, i, rdonly) = "0" => may_create(d, dir, i, rdonly) = "0"
  BY <1>1 DEF may_create, More
<1>5. ASSUME NEW o, may_open(c, i, o, rdonly) = "0"
      PROVE  may_open(d, i, o, rdonly) = "0"
  BY <1>1, <1>2, <1>5 DEF may_open
<1>6. \A protected, rcu :
        may_follow_link(d, dir, i, protected, rcu) = may_follow_link(c, dir, i, protected, rcu)
  BY DEF may_follow_link, More
<1>7. safe_hardlink_source(c, i, rdonly) => safe_hardlink_source(d, i, rdonly)
  BY <1>1 DEF safe_hardlink_source
<1>8. ASSUME NEW protected, may_linkat(c, i, protected, rdonly) = "0"
      PROVE  may_linkat(d, i, protected, rdonly) = "0"
  BY <1>2, <1>7, <1>8 DEF may_linkat
<1>9. \A levels : may_create_in_sticky(d, dir, i, levels) = may_create_in_sticky(c, dir, i, levels)
  BY DEF may_create_in_sticky, More
<1> QED BY <1>3, <1>4, <1>5, <1>6, <1>8, <1>9

\* Whatever is asked, nobody who was let through is refused for having one capability
\* more: each of the three is looked at for itself in generic_permission.
THEOREM CapabilitiesOnlyAdd == AccessSpec => []CapsOnlyAdd
<1>1. ASSUME Answered
      PROVE  CapsOnlyAdd
  <2> SUFFICES ASSUME answer = "0", NEW cap \in Caps
               PROVE  Decide(q, [q.cred EXCEPT !.caps = @ \union {cap}], q.rcu) = "0"
    BY DEF CapsOnlyAdd
  <2> DEFINE d == [q.cred EXCEPT !.caps = @ \union {cap}]
  <2>1. q \in Questions /\ Decide(q, q.cred, q.rcu) = "0"
    BY <1>1 DEF Answered
  <2>2. /\ q.call \in {"permission", "delete", "create", "open", "follow", "link", "sticky"}
        /\ q.cred \in Creds
    BY <2>1, Fields
  <2>3. More(q.cred, d)
    BY <2>2 DEF More, Creds
  <2> HIDE DEF d
  <2>4. CASE q.call = "permission"
    <3>1. inode_permission(q.cred, q.inode, q.mask, q.rdonly, q.rcu) = "0"
      BY <2>1, <2>4 DEF Decide
    <3>2. inode_permission(d, q.inode, q.mask, q.rdonly, q.rcu) = "0"
      BY <2>3, <3>1, PermissionMore
    <3> QED BY <2>4, <3>2 DEF Decide, d
  <2>5. CASE q.call = "delete"
    BY <2>1, <2>3, <2>5, ChecksMore DEF Decide, d
  <2>6. CASE q.call = "create"
    BY <2>1, <2>3, <2>6, ChecksMore DEF Decide, d
  <2>7. CASE q.call = "open"
    BY <2>1, <2>3, <2>7, ChecksMore DEF Decide, d
  <2>8. CASE q.call = "follow"
    BY <2>1, <2>3, <2>8, ChecksMore DEF Decide, d
  <2>9. CASE q.call = "link"
    BY <2>1, <2>3, <2>9, ChecksMore DEF Decide, d
  <2>10. CASE q.call = "sticky"
    BY <2>1, <2>3, <2>10, ChecksMore DEF Decide, d
  <2> QED BY <2>2, <2>4, <2>5, <2>6, <2>7, <2>8, <2>9, <2>10
<1>2. Answered => CapsOnlyAdd
  BY <1>1
<1> QED BY <1>2, AlwaysAnswered, PTL

\* In any directory, who may create an entry may remove it again, unless the directory
\* is append-only.
THEOREM CreatorsRemove == AccessSpec => []CreatorRemoves
<1>1. ASSUME Answered
      PROVE  CreatorRemoves
  <2> DEFINE Groups == IF q.dir.sgid THEN {q.dir.gid} ELSE q.cred.groups
  <2> SUFFICES ASSUME q.call = "create", answer = "0",
                      NEW made \in [type : {"reg"}, uid : {q.cred.uid}, flags : {{}}, gid : Groups]
               PROVE  may_delete(q.cred, q.dir, made, FALSE, q.rdonly)
                        = IF "append" \in q.dir.flags THEN "EPERM" ELSE "0"
    BY DEF CreatorRemoves
  <2>1. q \in Questions /\ may_create(q.cred, q.dir, q.inode, q.rdonly) = "0"
    BY <1>1 DEF Answered, Decide
  <2>2. q.cred \in Creds /\ q.dir \in Inodes
    BY <2>1, Fields
  <2>3. /\ "dead" \notin q.dir.flags
        /\ inode_permission(q.cred, q.dir, {"w", "x"}, q.rdonly, FALSE) = "0"
    BY <2>1 DEF may_create
  <2>4. ~HAS_UNMAPPED_ID(q.dir)
    BY <2>3 DEF inode_permission, sb_permission
  <2>5. /\ made.type = "reg" /\ made.uid = q.cred.uid /\ made.flags = {} /\ made.gid \in Groups
    OBVIOUS
  <2>6. ~HAS_UNMAPPED_ID(made)
    BY <2>2, <2>4, <2>5 DEF HAS_UNMAPPED_ID, Creds
  <2>7. ~check_sticky(q.cred, q.dir, made)
    BY <2>5 DEF check_sticky
  <2>8. made.flags \intersect {"append", "immutable", "swapfile"} = {}
    BY <2>5
  <2> QED BY <2>3, <2>5, <2>6, <2>7, <2>8 DEF may_delete
<1>2. Answered => CreatorRemoves
  BY <1>1
<1> QED BY <1>2, AlwaysAnswered, PTL

-----------------------------------------------------------------------------
(* Cuckoo: tables and their entries *)

\* The slots of a table of n buckets, what is in one, and the tables.
Cells(n) == [bucket : 0 .. n - 1, slot : Slots]
At(t, c) == t[c.bucket][c.slot]
Entries == {Empty} \union {Entry(k, v) : k \in Keys, v \in UNION {Values[x] : x \in Keys}}
Tables(n) == [0 .. n - 1 -> [Slots -> Entries]]
Home(k, n) == {F_IDX(k, n), S_IDX(k, n)}

\* Every entry is in a bucket its key hashes to, and no key is there twice.
Good(t, n) ==
    /\ t \in Tables(n)
    /\ \A c \in Cells(n) : At(t, c) # Empty => c.bucket \in Home(At(t, c).key, n)
    /\ \A c, d \in Cells(n) : At(t, c) # Empty /\ At(t, c).key = At(t, d).key => c = d

\* The entries of a table.
Holds(t, n) == {At(t, c) : c \in Cells(n)} \ {Empty}

-----------------------------------------------------------------------------
(* Tables and slots *)

LEMMA EntryKey ==
    ASSUME NEW e \in Entries
    PROVE  /\ e.key = INVALID <=> e = Empty
           /\ e # Empty => e.key \in Keys
  BY CuckooAssumption DEF Entries, Empty, Entry

LEMMA EntryMade ==
    ASSUME NEW k \in Keys, NEW v \in Values[k]
    PROVE  /\ Entry(k, v) \in Entries /\ Entry(k, v) # Empty
           /\ Entry(k, v).key = k /\ Entry(k, v).value = v
<1>1. Entry(k, v).key = k /\ Entry(k, v).value = v
  BY DEF Entry
<1>2. Empty.key = INVALID
  BY DEF Empty
<1>3. Entry(k, v) \in Entries
  BY DEF Entries
<1> QED BY <1>1, <1>2, <1>3, CuckooAssumption

LEMMA CellType ==
    ASSUME NEW n \in Nat, NEW t \in Tables(n), NEW c \in Cells(n)
    PROVE  At(t, c) \in Entries
  BY DEF Tables, Cells, At

\* What is in the slots once an entry is put into one of them.
LEMMA PutAt ==
    ASSUME NEW n \in Nat, NEW t \in Tables(n), NEW c \in Cells(n), NEW e \in Entries
    PROVE  /\ Put(t, c, e) \in Tables(n)
           /\ At(Put(t, c, e), c) = e
           /\ \A d \in Cells(n) : d # c => At(Put(t, c, e), d) = At(t, d)
<1>1. c.bucket \in 0 .. n - 1 /\ c.slot \in Slots
  BY DEF Cells
<1> DEFINE row == [t[c.bucket] EXCEPT ![c.slot] = e]
<1>2. t[c.bucket] \in [Slots -> Entries]
  BY <1>1 DEF Tables
<1>3. /\ row \in [Slots -> Entries] /\ row[c.slot] = e
      /\ \A s \in Slots : s # c.slot => row[s] = t[c.bucket][s]
  BY <1>1, <1>2
<1>4. Put(t, c, e) = [t EXCEPT ![c.bucket] = row]
  BY DEF Put
<1> HIDE DEF row
<1>5. /\ Put(t, c, e) \in Tables(n) /\ Put(t, c, e)[c.bucket] = row
      /\ \A b \in 0 .. n - 1 : b # c.bucket => Put(t, c, e)[b] = t[b]
  BY <1>1, <1>3, <1>4 DEF Tables
<1>6. At(Put(t, c, e), c) = e
  BY <1>3, <1>5 DEF At
<1>7. ASSUME NEW d \in Cells(n), d # c
      PROVE  At(Put(t, c, e), d) = At(t, d)
  <2>1. d.bucket \in 0 .. n - 1 /\ d.slot \in Slots /\ (d.bucket # c.bucket \/ d.slot # c.slot)
    BY <1>7 DEF Cells
  <2> QED BY <1>3, <1>5, <2>1 DEF At
<1> QED BY <1>5, <1>6, <1>7

LEMMA SameTable ==
    ASSUME NEW n \in Nat, NEW t \in Tables(n), NEW u \in Tables(n),
           \A c \in Cells(n) : At(t, c) = At(u, c)
    PROVE  t = u
<1>1. ASSUME NEW b \in 0 .. n - 1, NEW s \in Slots
      PROVE  t[b][s] = u[b][s]
  <2>1. [bucket |-> b, slot |-> s] \in Cells(n)
    BY DEF Cells
  <2> QED BY <2>1 DEF At
<1>2. ASSUME NEW b \in 0 .. n - 1
      PROVE  t[b] = u[b]
  <2>1. t[b] \in [Slots -> Entries] /\ u[b] \in [Slots -> Entries]
    BY DEF Tables
  <2> QED BY <1>1, <2>1
<1> QED BY <1>2 DEF Tables

\* A new entry in a free slot of one of its buckets.
LEMMA PutFree ==
    ASSUME NEW n \in Nat, NEW t, Good(t, n), NEW c \in Cells(n), At(t, c) = Empty,
           NEW e \in Entries, e # Empty, c.bucket \in Home(e.key, n),
           \A x \in Holds(t, n) : x.key # e.key
    PROVE  Good(Put(t, c, e), n) /\ Holds(Put(t, c, e), n) = Holds(t, n) \union {e}
<1>1. PICK u : u = Put(t, c, e)
  OBVIOUS
<1>2. /\ t \in Tables(n) /\ u \in Tables(n) /\ At(u, c) = e
      /\ \A d \in Cells(n) : d # c => At(u, d) = At(t, d)
  BY <1>1, PutAt DEF Good
<1>3. ASSUME NEW d \in Cells(n), At(u, d) # Empty
      PROVE  d.bucket \in Home(At(u, d).key, n)
  BY <1>2, <1>3 DEF Good
<1>4. \A d \in Cells(n) : d # c => At(u, d).key # e.key
  <2> SUFFICES ASSUME NEW d \in Cells(n), d # c, At(t, d).key = e.key
               PROVE  FALSE
    BY <1>2
  <2>1. At(t, d) \in Entries /\ e.key # INVALID
    BY <1>2, CellType, EntryKey
  <2>2. At(t, d) # Empty
    BY <2>1, EntryKey
  <2> QED BY <2>2 DEF Holds
<1>5. ASSUME NEW x \in Cells(n), NEW y \in Cells(n), At(u, x) # Empty, At(u, x).key = At(u, y).key
      PROVE  x = y
  BY <1>2, <1>4, <1>5 DEF Good
<1>6. Good(u, n)
  BY <1>2, <1>3, <1>5 DEF Good
<1>7. Holds(u, n) = Holds(t, n) \union {e}
  BY <1>2 DEF Holds
<1> QED BY <1>1, <1>6, <1>7

\* An entry moved to a free slot of one of its buckets.
LEMMA Moved ==
    ASSUME NEW n \in Nat, NEW t, Good(t, n), NEW c \in Cells(n), NEW d \in Cells(n),
           At(t, c) = Empty, At(t, d) # Empty, c.bucket \in Home(At(t, d).key, n)
    PROVE  /\ Good(Put(Put(t, c, At(t, d)), d, Empty), n)
           /\ Holds(Put(Put(t, c, At(t, d)), d, Empty), n) = Holds(t, n)
<1>1. PICK u, w, e : e = At(t, d) /\ u = Put(t, c, e) /\ w = Put(u, d, Empty)
  OBVIOUS
<1>2. t \in Tables(n) /\ e \in Entries /\ Empty \in Entries /\ c # d
  BY <1>1, CellType DEF Good, Entries
<1>3. /\ u \in Tables(n) /\ At(u, c) = e
      /\ \A x \in Cells(n) : x # c => At(u, x) = At(t, x)
  BY <1>1, <1>2, PutAt
<1>4. /\ w \in Tables(n) /\ At(w, d) = Empty
      /\ \A x \in Cells(n) : x # d => At(w, x) = At(u, x)
  BY <1>1, <1>2, <1>3, PutAt
<1>5. /\ At(w, c) = e /\ At(w, d) = Empty
      /\ \A x \in Cells(n) : x # c /\ x # d => At(w, x) = At(t, x)
  BY <1>2, <1>3, <1>4
<1>6. \A x \in Cells(n) : At(w, x) # Empty => x.bucket \in Home(At(w, x).key, n)
  BY <1>1, <1>5 DEF Good
<1>7. \A x \in Cells(n) : x # d => At(t, x).key # e.key
  BY <1>1 DEF Good
<1>8. e.key # Empty.key
  <2>1. e.key # INVALID
    BY <1>1, <1>2, EntryKey
  <2> QED BY <2>1 DEF Empty
<1>9. \A x, y \in Cells(n) : At(w, x) # Empty /\ At(w, x).key = At(w, y).key => x = y
  <2> SUFFICES ASSUME NEW x \in Cells(n), NEW y \in Cells(n), At(w, x) # Empty,
                      At(w, x).key = At(w, y).key, x # y
               PROVE  FALSE
    OBVIOUS
  <2>1. x # d
    BY <1>5
  <2>2. CASE x = c
    BY <1>5, <1>7, <1>8, <2>2
  <2>3. CASE x # c /\ y = c
    BY <1>5, <1>7, <2>1, <2>3
  <2>4. CASE x # c /\ y = d
    <3>1. At(t, x) # Empty /\ At(t, x).key = INVALID
      BY <1>5, <2>1, <2>4 DEF Empty
    <3> QED BY <1>2, <3>1, CellType, EntryKey
  <2>5. CASE x # c /\ y # c /\ y # d
    BY <1>5, <2>1, <2>5 DEF Good
  <2> QED BY <2>2, <2>3, <2>4, <2>5
<1>10. Good(w, n)
  BY <1>4, <1>6, <1>9 DEF Good
<1>11. Holds(w, n) = Holds(t, n)
  <2>1. \A x \in Cells(n) : At(w, x) # Empty => \E y \in Cells(n) : At(t, y) = At(w, x)
    BY <1>1, <1>5
  <2>2. \A x \in Cells(n) : At(t, x) # Empty => \E y \in Cells(n) : At(w, y) = At(t, x)
    BY <1>1, <1>5
  <2> QED BY <2>1, <2>2 DEF Holds
<1> QED BY <1>1, <1>10, <1>11

\* A set of natural numbers that is not empty has a least element.
LEMMA LeastNat ==
    ASSUME NEW T \in SUBSET Nat, T # {}
    PROVE  \E x \in T : \A y \in T : x <= y
<1> DEFINE R == {ss \in Nat \X Nat : ss[1] < ss[2]}
<1>1. IsWellFoundedOn(R, Nat)
  BY NatLessThanWellFounded DEF OpToRel
<1>2. \E x \in T : \A y \in T : <<y, x>> \notin R
  BY <1>1, WFMin
<1>3. \A x, y \in Nat : <<y, x>> \notin R => x <= y
  OBVIOUS
<1> QED BY <1>2, <1>3

LEMMA Sizes ==
    /\ CUCKOO_HASH_ASSOC_NUM \in Nat /\ CUCKOO_HASH_ASSOC_NUM > 0
    /\ MAX_EVICTION \in Nat /\ MAX_EVICTION > 0 /\ RESIZE_FACTOR \in Nat /\ RESIZE_FACTOR > 0
    /\ Capacity \in Nat /\ Capacity > 0 /\ Slots \subseteq Nat /\ CUCKOO_HASH_ASSOC_NUM - 1 \in Slots
  BY CuckooAssumption DEF Slots

LEMMA MinIn ==
    ASSUME NEW S, S \subseteq Slots, S # {}
    PROVE  Min(S) \in S
<1>1. S \in SUBSET Nat
  BY Sizes
<1>2. \E x \in S : \A y \in S : x <= y
  BY <1>1, LeastNat
<1> QED BY <1>2 DEF Min

LEMMA FreeSlot ==
    ASSUME NEW n \in Nat, NEW t \in Tables(n), NEW b \in 0 .. n - 1, NEW s
    PROVE  /\ Free(t, b) \subseteq Slots
           /\ s \in Slots => [bucket |-> b, slot |-> s] \in Cells(n)
           /\ s \in Slots => (s \in Free(t, b) <=> At(t, [bucket |-> b, slot |-> s]) = Empty)
<1>1. Free(t, b) \subseteq Slots
  BY DEF Free
<1>2. s \in Slots => [bucket |-> b, slot |-> s] \in Cells(n)
  BY DEF Cells
<1>3. s \in Slots => At(t, [bucket |-> b, slot |-> s]) = t[b][s] /\ t[b][s] \in Entries
  BY DEF At, Tables
<1>4. s \in Slots => (s \in Free(t, b) <=> t[b][s].key = INVALID)
  BY DEF Free
<1> QED BY <1>1, <1>2, <1>3, <1>4, EntryKey

\* FirstFree names a free slot of one of the two buckets.
LEMMA FirstFreeIs ==
    ASSUME NEW n \in Nat, NEW t \in Tables(n), NEW b1 \in 0 .. n - 1, NEW b2 \in 0 .. n - 1,
           Free(t, b1) \union Free(t, b2) # {}
    PROVE  /\ FirstFree(t, b1, b2) \in Cells(n)
           /\ At(t, FirstFree(t, b1, b2)) = Empty
           /\ FirstFree(t, b1, b2).bucket \in {b1, b2}
<1>1. PICK F1, F2 : F1 = Free(t, b1) /\ F2 = Free(t, b2)
  OBVIOUS
<1>2. F1 \subseteq Slots /\ F2 \subseteq Slots /\ F1 \union F2 # {}
  BY <1>1, FreeSlot
<1>3. PICK i : i = Min(F1 \union F2)
  OBVIOUS
<1>4. i \in F1 \union F2
  BY <1>2, <1>3, MinIn
<1>5. PICK b : b = IF i \in F1 THEN b1 ELSE b2
  OBVIOUS
<1>6. FirstFree(t, b1, b2) = [bucket |-> b, slot |-> i] /\ b \in {b1, b2} /\ i \in Free(t, b)
  BY <1>1, <1>3, <1>4, <1>5 DEF FirstFree
<1>7. i \in Slots /\ b \in 0 .. n - 1
  BY <1>2, <1>4, <1>6
<1> QED BY <1>6, <1>7, FreeSlot

-----------------------------------------------------------------------------
(* Evictions *)

\* The hashes are numbers, and the capacity is one of a table.
HashOK == hash \in [Keys -> [f : Nat, s : Nat]] /\ capacity \in Nat /\ capacity > 0

LEMMA HomeIn ==
    ASSUME HashOK, NEW k \in Keys, NEW n \in Nat, n > 0
    PROVE  /\ F_IDX(k, n) \in 0 .. n - 1 /\ S_IDX(k, n) \in 0 .. n - 1
           /\ Home(k, n) \subseteq 0 .. n - 1
<1>1. hash[k].f \in Nat /\ hash[k].s \in Nat
  BY DEF HashOK
<1>2. \A m \in Nat : m % n \in 0 .. n - 1
  OBVIOUS
<1> QED BY <1>1, <1>2 DEF Home, F_IDX, S_IDX

\* The next slot of a path is in a bucket of the key that is to go there; it is free,
\* or its bucket is full.
LEMMA OtherIs ==
    ASSUME HashOK, NEW t, Good(t, capacity), NEW c \in Cells(capacity), At(t, c) # Empty
    PROVE  /\ Other(t, c) \in Cells(capacity)
           /\ Other(t, c).bucket \in Home(At(t, c).key, capacity)
           /\ At(t, Other(t, c)) = Empty <=> Free(t, Other(t, c).bucket) # {}
<1>1. PICK k : k = At(t, c).key
  OBVIOUS
<1>2. t \in Tables(capacity) /\ capacity \in Nat /\ capacity > 0
  BY DEF Good, HashOK
<1>3. k \in Keys
  BY <1>1, <1>2, CellType, EntryKey
<1>4. PICK to : to = IF F_IDX(k, capacity) = c.bucket THEN S_IDX(k, capacity) ELSE F_IDX(k, capacity)
  OBVIOUS
<1>5. to \in 0 .. capacity - 1 /\ to \in Home(k, capacity)
  BY <1>2, <1>3, <1>4, HomeIn DEF Home
<1>6. PICK s : s = IF Free(t, to) = {} THEN CUCKOO_HASH_ASSOC_NUM - 1 ELSE Min(Free(t, to))
  OBVIOUS
<1>7. Other(t, c) = [bucket |-> to, slot |-> s]
  BY <1>1, <1>4, <1>6 DEF Other, At
<1>8. s \in Slots /\ (Free(t, to) # {} => s \in Free(t, to))
  <2>1. Free(t, to) \subseteq Slots
    BY <1>2, <1>5, FreeSlot
  <2>2. Free(t, to) # {} => Min(Free(t, to)) \in Free(t, to)
    BY <2>1, MinIn
  <2> QED BY <1>6, <2>1, <2>2, Sizes
<1>9. Other(t, c) \in Cells(capacity) /\ (s \in Free(t, to) <=> At(t, Other(t, c)) = Empty)
  BY <1>2, <1>5, <1>7, <1>8, FreeSlot
<1>10. Other(t, c).bucket = to
  BY <1>7
<1> QED BY <1>1, <1>5, <1>8, <1>9, <1>10

\* What one step does to a path that ends in a full slot: it never is an error.
LEMMA ExtendIs ==
    ASSUME HashOK, NEW t, Good(t, capacity), NEW p, p.at \in Cells(capacity), At(t, p.at) # Empty
    PROVE  Extend(t, p) = [at |-> Other(t, p.at),
                           nodes |-> Append(p.nodes, [pre |-> p.at, next |-> Other(t, p.at)]),
                           end |-> IF At(t, Other(t, p.at)) = Empty THEN "free" ELSE "open"]
<1>1. p.at.bucket \in Home(At(t, p.at).key, capacity)
  BY DEF Good
<1>2. Free(t, Other(t, p.at).bucket) = {} <=> At(t, Other(t, p.at)) # Empty
  BY OtherIs
<1>3. PICK x : x = Other(t, p.at)
  OBVIOUS
<1> QED BY <1>1, <1>2, <1>3 DEF Extend, Home, At

\* The paths of growing length from a slot are well defined.
LEMMA PathsDefined ==
    ASSUME NEW t, NEW b, NEW s
    PROVE  \A n \in 0 .. MAX_EVICTION :
             Paths(t, b, s)[n] =
                IF n = 0 THEN [at |-> [bucket |-> b, slot |-> s], nodes |-> <<>>, end |-> "open"]
                ELSE IF Paths(t, b, s)[n - 1].end = "open" THEN Extend(t, Paths(t, b, s)[n - 1])
                ELSE Paths(t, b, s)[n - 1]
<1> DEFINE first == [at |-> [bucket |-> b, slot |-> s], nodes |-> <<>>, end |-> "open"]
           Step(p) == IF p.end = "open" THEN Extend(t, p) ELSE p
           F(f, m) == [n \in 0 .. m |-> IF n = 0 THEN first ELSE Step(f[n - 1])]
           Bad == {m \in Nat : ~\E f : f = F(f, m)}
<1> HIDE DEF Step, first
<1>1. Bad = {}
  <2> SUFFICES ASSUME Bad # {} PROVE FALSE
    OBVIOUS
  <2>1. PICK m \in Bad : \A i \in Bad : m <= i
    <3> HIDE DEF F
    <3> QED BY LeastNat
  <2>2. CASE m = 0
    <3> DEFINE f == [n \in 0 .. 0 |-> first]
    <3>1. f = F(f, 0)
      OBVIOUS
    <3> QED BY <2>2, <2>1, <3>1
  <2>3. CASE m # 0
    <3>1. m - 1 \in Nat /\ m - 1 \notin Bad
      <4>1. m \in Nat
        OBVIOUS
      <4> HIDE DEF Bad
      <4> QED BY <4>1, <2>1, <2>3
    <3>2. PICK f : f = F(f, m - 1)
      BY <3>1
    <3> DEFINE g == [n \in 0 .. m |-> IF n < m THEN f[n] ELSE Step(f[m - 1])]
    <3>3. ASSUME NEW n \in 0 .. m
          PROVE  g[n] = F(g, m)[n]
      <4>1. CASE n = m
        BY <4>1, <2>3, <3>1
      <4>2. CASE n # m
        <5>1. n \in 0 .. m - 1 /\ n < m
          BY <4>2, <3>1
        <5>2. g[n] = f[n]
          BY <5>1
        <5>3. f[n] = F(f, m - 1)[n]
          BY <3>2, ZenonT(40)
        <5>4. n # 0 => n - 1 \in 0 .. m /\ n - 1 < m /\ g[n - 1] = f[n - 1]
          BY <5>1
        <5> QED BY <5>1, <5>2, <5>3, <5>4
      <4> QED BY <4>1, <4>2
    <3>4. g = F(g, m)
      BY <3>3
    <3> QED BY <3>4, <2>1
  <2> QED BY <2>2, <2>3
<1>2. \E f : f = F(f, MAX_EVICTION)
  BY <1>1, Sizes
<1>3. Paths(t, b, s) = F(Paths(t, b, s), MAX_EVICTION)
  BY <1>2 DEF Paths, Step, first
<1>4. \A n \in 0 .. MAX_EVICTION :
        Paths(t, b, s)[n] = IF n = 0 THEN first ELSE Step(Paths(t, b, s)[n - 1])
  <2>1. PICK f : f = Paths(t, b, s)
    OBVIOUS
  <2>2. f = F(f, MAX_EVICTION)
    BY <1>3, <2>1
  <2>3. \A n \in 0 .. MAX_EVICTION : f[n] = IF n = 0 THEN first ELSE Step(f[n - 1])
    BY <2>2
  <2> QED BY <2>1, <2>3
<1> QED BY <1>4 DEF Step, first

\* A path that starts at the slot c: it goes from full slot to full slot, each time to
\* the other bucket of the key, and has ended when it came to a free one.
Nodes == [pre : Cells(capacity), next : Cells(capacity)]
IsPath(t, c, p) ==
    /\ p.at \in Cells(capacity) /\ p.nodes \in Seq(Nodes) /\ p.end \in {"open", "free"}
    /\ p.end = "free" <=> At(t, p.at) = Empty
    /\ Len(p.nodes) = 0 => p.at = c
    /\ Len(p.nodes) > 0 => p.nodes[1].pre = c /\ p.nodes[Len(p.nodes)].next = p.at
    /\ \A j \in 1 .. Len(p.nodes) :
         p.nodes[j].next = Other(t, p.nodes[j].pre) /\ At(t, p.nodes[j].pre) # Empty
    /\ \A j \in 1 .. Len(p.nodes) : j > 1 => p.nodes[j].pre = p.nodes[j - 1].next

LEMMA PathStart ==
    ASSUME NEW t, NEW c \in Cells(capacity), At(t, c) # Empty
    PROVE  IsPath(t, c, [at |-> c, nodes |-> <<>>, end |-> "open"])
<1>1. <<>> \in Seq(Nodes) /\ Len(<<>>) = 0
  OBVIOUS
<1> QED BY <1>1 DEF IsPath

LEMMA PathExtend ==
    ASSUME HashOK, NEW t, Good(t, capacity), NEW c, NEW p, IsPath(t, c, p), p.end = "open"
    PROVE  IsPath(t, c, Extend(t, p))
<1>1. p.at \in Cells(capacity) /\ At(t, p.at) # Empty /\ p.nodes \in Seq(Nodes)
  BY DEF IsPath
<1>2. PICK x : x = Other(t, p.at)
  OBVIOUS
<1>3. x \in Cells(capacity)
  BY <1>1, <1>2, OtherIs
<1>4. PICK node : node = [pre |-> p.at, next |-> x]
  OBVIOUS
<1>5. node \in Nodes /\ node.pre = p.at /\ node.next = x
  BY <1>1, <1>3, <1>4 DEF Nodes
<1>6. PICK h, l : h = Append(p.nodes, node) /\ l = Len(p.nodes)
  OBVIOUS
<1>7. /\ l \in Nat /\ h \in Seq(Nodes) /\ Len(h) = l + 1 /\ h[l + 1] = node
      /\ \A j \in 1 .. l : h[j] = p.nodes[j]
  BY <1>1, <1>5, <1>6
<1>8. PICK e : e = IF At(t, x) = Empty THEN "free" ELSE "open"
  OBVIOUS
<1>9. Extend(t, p) = [at |-> x, nodes |-> h, end |-> e]
  BY <1>1, <1>2, <1>4, <1>6, <1>8, ExtendIs
<1>10. PICK r : r = Extend(t, p)
  OBVIOUS
<1>11. r.at = x /\ r.nodes = h /\ r.end = e
  BY <1>9, <1>10
<1>12. h[1].pre = c
  <2>1. CASE l = 0
    BY <1>5, <1>6, <1>7, <2>1 DEF IsPath
  <2>2. CASE l # 0
    BY <1>6, <1>7, <2>2 DEF IsPath
  <2> QED BY <2>1, <2>2
<1>13. \A j \in 1 .. Len(h) : h[j].next = Other(t, h[j].pre) /\ At(t, h[j].pre) # Empty
  <2> SUFFICES ASSUME NEW j \in 1 .. Len(h)
               PROVE  h[j].next = Other(t, h[j].pre) /\ At(t, h[j].pre) # Empty
    OBVIOUS
  <2>1. CASE j = l + 1
    BY <1>1, <1>2, <1>5, <1>7, <2>1
  <2>2. CASE j # l + 1
    <3>1. j \in 1 .. l
      BY <1>7, <2>2
    <3> QED BY <1>6, <1>7, <3>1 DEF IsPath
  <2> QED BY <2>1, <2>2
<1>14. \A j \in 1 .. Len(h) : j > 1 => h[j].pre = h[j - 1].next
  <2> SUFFICES ASSUME NEW j \in 1 .. Len(h), j > 1
               PROVE  h[j].pre = h[j - 1].next
    OBVIOUS
  <2>1. CASE j = l + 1
    <3>1. l \in 1 .. l /\ j - 1 = l /\ l > 0
      BY <1>7, <2>1
    <3>2. p.nodes[l].next = p.at
      BY <1>6, <3>1 DEF IsPath
    <3> QED BY <1>5, <1>7, <2>1, <3>1, <3>2
  <2>2. CASE j # l + 1
    <3>1. j \in 1 .. l /\ j - 1 \in 1 .. l
      BY <1>7, <2>2
    <3>2. p.nodes[j].pre = p.nodes[j - 1].next
      BY <1>6, <3>1 DEF IsPath
    <3> QED BY <1>7, <3>1, <3>2
  <2> QED BY <2>1, <2>2
<1>15. e \in {"open", "free"} /\ (e = "free" <=> At(t, x) = Empty)
  BY <1>8
<1>16. IsPath(t, c, r)
  BY <1>3, <1>5, <1>7, <1>11, <1>12, <1>13, <1>14, <1>15 DEF IsPath
<1> QED BY <1>10, <1>16

LEMMA FindPath ==
    ASSUME HashOK, NEW t, Good(t, capacity), NEW b, NEW s,
           [bucket |-> b, slot |-> s] \in Cells(capacity), At(t, [bucket |-> b, slot |-> s]) # Empty
    PROVE  IsPath(t, [bucket |-> b, slot |-> s], find_path(t, b, s))
<1>1. PICK c, f : c = [bucket |-> b, slot |-> s] /\ f = Paths(t, b, s)
  OBVIOUS
<1>2. ASSUME NEW n \in 0 .. MAX_EVICTION
      PROVE  f[n] = IF n = 0 THEN [at |-> c, nodes |-> <<>>, end |-> "open"]
                    ELSE IF f[n - 1].end = "open" THEN Extend(t, f[n - 1]) ELSE f[n - 1]
  BY <1>1, PathsDefined
<1> DEFINE Bad == {n \in 0 .. MAX_EVICTION : ~IsPath(t, c, f[n])}
<1>3. Bad = {}
  <2> SUFFICES ASSUME Bad # {} PROVE FALSE
    OBVIOUS
  <2>1. PICK n \in Bad : \A m \in Bad : n <= m
    <3>1. Bad \in SUBSET Nat
      BY Sizes
    <3> HIDE DEF Bad
    <3> QED BY <3>1, LeastNat
  <2>2. n \in 0 .. MAX_EVICTION /\ ~IsPath(t, c, f[n])
    OBVIOUS
  <2>3. n # 0
    <3>1. IsPath(t, c, [at |-> c, nodes |-> <<>>, end |-> "open"])
      BY <1>1, PathStart
    <3> QED BY <1>2, <2>2, <3>1
  <2>4. n - 1 \in 0 .. MAX_EVICTION /\ n - 1 \notin Bad
    <3>1. n - 1 \in 0 .. MAX_EVICTION /\ n - 1 < n
      BY <2>2, <2>3, Sizes
    <3> HIDE DEF Bad
    <3> QED BY <2>1, <2>2, <3>1
  <2>5. IsPath(t, c, f[n - 1])
    BY <2>4
  <2>6. f[n] = IF f[n - 1].end = "open" THEN Extend(t, f[n - 1]) ELSE f[n - 1]
    BY <1>2, <2>2, <2>3
  <2>7. IsPath(t, c, f[n])
    BY <2>5, <2>6, PathExtend
  <2> QED BY <2>2, <2>7
<1>4. IsPath(t, c, f[MAX_EVICTION])
  BY <1>3, Sizes
<1> QED BY <1>1, <1>4 DEF find_path

\* A path that came to a free slot meets no slot twice: where it goes from a slot only
\* depends on the slot, and it would have gone round for ever.
LEMMA NoRepeat ==
    ASSUME NEW t, NEW c, NEW p, IsPath(t, c, p), p.end = "free",
           NEW a \in 1 .. Len(p.nodes), NEW z \in 1 .. Len(p.nodes), a < z
    PROVE  p.nodes[a].pre # p.nodes[z].pre
<1>1. PICK l, x : l = Len(p.nodes) /\ x = p.nodes
  OBVIOUS
<1>2. /\ l \in Nat /\ l > 0 /\ x[l].next = p.at /\ At(t, p.at) = Empty
      /\ \A j \in 1 .. l : x[j].next = Other(t, x[j].pre) /\ At(t, x[j].pre) # Empty
      /\ \A j \in 1 .. l : j > 1 => x[j].pre = x[j - 1].next
  BY <1>1 DEF IsPath
<1> DEFINE Bad == {m \in Nat : \E i, j \in 1 .. l : i < j /\ m = l - j /\ x[i].pre = x[j].pre}
<1> SUFFICES ASSUME x[a].pre = x[z].pre PROVE FALSE
  BY <1>1
<1>3. l - z \in Bad
  BY <1>1, <1>2
<1>4. PICK m \in Bad : \A k \in Bad : m <= k
  <2>1. Bad \in SUBSET Nat /\ Bad # {}
    BY <1>3
  <2> HIDE DEF Bad
  <2> QED BY <2>1, LeastNat
<1>5. PICK i \in 1 .. l, j \in 1 .. l : i < j /\ m = l - j /\ x[i].pre = x[j].pre
  BY <1>4
<1>6. x[i].next = x[j].next
  BY <1>2, <1>5
<1>7. i + 1 \in 1 .. l /\ i + 1 > 1 /\ (i + 1) - 1 = i
  BY <1>2, <1>5
<1>8. x[i + 1].pre = x[i].next
  BY <1>2, <1>7
<1>9. CASE j = l
  BY <1>2, <1>6, <1>7, <1>8, <1>9
<1>10. CASE j # l
  <2>1. j + 1 \in 1 .. l /\ j + 1 > 1 /\ (j + 1) - 1 = j
    BY <1>2, <1>5, <1>10
  <2>2. x[j + 1].pre = x[j].next
    BY <1>2, <2>1
  <2>3. x[i + 1].pre = x[j + 1].pre /\ i + 1 < j + 1
    BY <1>5, <1>6, <1>8, <2>2
  <2>4. l - (j + 1) \in Nat /\ l - (j + 1) = m - 1
    BY <1>2, <1>5, <2>1
  <2>5. m - 1 \in Bad
    BY <1>7, <2>1, <2>3, <2>4
  <2>6. m \in Nat
    OBVIOUS
  <2> HIDE DEF Bad
  <2> QED BY <1>4, <2>5, <2>6
<1> QED BY <1>9, <1>10

\* The tables that execute_path goes through are well defined.
LEMMA ExecutedDefined ==
    ASSUME NEW t, NEW nodes, Len(nodes) \in Nat
    PROVE  \A n \in 0 .. Len(nodes) :
             Executed(t, nodes)[n] =
                IF n = 0 THEN t
                ELSE Put(Executed(t, nodes)[n - 1], nodes[Len(nodes) + 1 - n].next,
                         At(Executed(t, nodes)[n - 1], nodes[Len(nodes) + 1 - n].pre))
<1> DEFINE l == Len(nodes)
           Step(u, n) == Put(u, nodes[l + 1 - n].next, At(u, nodes[l + 1 - n].pre))
           F(f, m) == [n \in 0 .. m |-> IF n = 0 THEN t ELSE Step(f[n - 1], n)]
           Bad == {m \in Nat : ~\E f : f = F(f, m)}
<1> HIDE DEF Step, l
<1>1. Bad = {}
  <2> SUFFICES ASSUME Bad # {} PROVE FALSE
    OBVIOUS
  <2>1. PICK m \in Bad : \A i \in Bad : m <= i
    <3> HIDE DEF F
    <3> QED BY LeastNat
  <2>2. CASE m = 0
    <3> DEFINE f == [n \in 0 .. 0 |-> t]
    <3>1. f = F(f, 0)
      OBVIOUS
    <3> QED BY <2>2, <2>1, <3>1
  <2>3. CASE m # 0
    <3>1. m - 1 \in Nat /\ m - 1 \notin Bad
      <4>1. m \in Nat
        OBVIOUS
      <4> HIDE DEF Bad
      <4> QED BY <4>1, <2>1, <2>3
    <3>2. PICK f : f = F(f, m - 1)
      BY <3>1
    <3> DEFINE g == [n \in 0 .. m |-> IF n < m THEN f[n] ELSE Step(f[m - 1], m)]
    <3>3. ASSUME NEW n \in 0 .. m
          PROVE  g[n] = F(g, m)[n]
      <4>1. CASE n = m
        BY <4>1, <2>3, <3>1
      <4>2. CASE n # m
        <5>1. n \in 0 .. m - 1 /\ n < m
          BY <4>2, <3>1
        <5>2. g[n] = f[n]
          BY <5>1
        <5>3. f[n] = F(f, m - 1)[n]
          BY <3>2, ZenonT(40)
        <5>4. n # 0 => n - 1 \in 0 .. m /\ n - 1 < m /\ g[n - 1] = f[n - 1]
          BY <5>1
        <5> QED BY <5>1, <5>2, <5>3, <5>4
      <4> QED BY <4>1, <4>2
    <3>4. g = F(g, m)
      BY <3>3
    <3> QED BY <3>4, <2>1
  <2> QED BY <2>2, <2>3
<1>2. \E f : f = F(f, l)
  BY <1>1 DEF l
<1>3. Executed(t, nodes) = F(Executed(t, nodes), l)
  BY <1>2 DEF Executed, Step, l, At
<1>4. \A n \in 0 .. l :
        Executed(t, nodes)[n] = IF n = 0 THEN t ELSE Step(Executed(t, nodes)[n - 1], n)
  <2>1. PICK f : f = Executed(t, nodes)
    OBVIOUS
  <2>2. f = F(f, l)
    BY <1>3, <2>1
  <2>3. \A n \in 0 .. l : f[n] = IF n = 0 THEN t ELSE Step(f[n - 1], n)
    BY <2>2
  <2> QED BY <2>1, <2>3
<1> QED BY <1>4 DEF Step, l

LEMMA PutTwice ==
    ASSUME NEW n \in Nat, NEW t \in Tables(n), NEW c \in Cells(n), NEW a \in Entries, NEW e \in Entries
    PROVE  Put(Put(t, c, a), c, e) = Put(t, c, e)
<1>1. PICK u, w, y : u = Put(t, c, a) /\ w = Put(u, c, e) /\ y = Put(t, c, e)
  OBVIOUS
<1>2. u \in Tables(n) /\ \A d \in Cells(n) : d # c => At(u, d) = At(t, d)
  BY <1>1, PutAt
<1>3. w \in Tables(n) /\ At(w, c) = e /\ \A d \in Cells(n) : d # c => At(w, d) = At(u, d)
  BY <1>1, <1>2, PutAt
<1>4. y \in Tables(n) /\ At(y, c) = e /\ \A d \in Cells(n) : d # c => At(y, d) = At(t, d)
  BY <1>1, PutAt
<1>5. w = y
  BY <1>2, <1>3, <1>4, SameTable
<1> QED BY <1>1, <1>5

LEMMA PutBack ==
    ASSUME NEW n \in Nat, NEW t \in Tables(n), NEW c \in Cells(n)
    PROVE  Put(t, c, At(t, c)) = t
<1>1. PICK u : u = Put(t, c, At(t, c))
  OBVIOUS
<1>2. At(t, c) \in Entries
  BY CellType
<1>3. /\ u \in Tables(n) /\ At(u, c) = At(t, c)
      /\ \A d \in Cells(n) : d # c => At(u, d) = At(t, d)
  BY <1>1, <1>2, PutAt
<1>4. u = t
  BY <1>3, SameTable
<1> QED BY <1>1, <1>4

\* execute_path moves every entry of the path one slot on, the last one first: with the
\* first slot taken as free, the table is good and holds what it held.
LEMMA Execute ==
    ASSUME HashOK, NEW t, Good(t, capacity), NEW c \in Cells(capacity), At(t, c) # Empty,
           NEW p, IsPath(t, c, p), p.end = "free"
    PROVE  /\ Len(p.nodes) > 0 /\ p.nodes[1].pre = c
           /\ execute_path(t, p.nodes) \in Tables(capacity)
           /\ Good(Put(execute_path(t, p.nodes), c, Empty), capacity)
           /\ Holds(Put(execute_path(t, p.nodes), c, Empty), capacity) = Holds(t, capacity)
<1>1. PICK l, x, f, n : l = Len(p.nodes) /\ x = p.nodes /\ f = Executed(t, p.nodes) /\ n = capacity
  OBVIOUS
<1>2. /\ l \in Nat /\ l > 0 /\ x[1].pre = c /\ x[l].next = p.at /\ p.at \in Cells(n)
      /\ At(t, p.at) = Empty /\ x \in Seq(Nodes)
      /\ \A j \in 1 .. l : x[j].next = Other(t, x[j].pre) /\ At(t, x[j].pre) # Empty
      /\ \A j \in 1 .. l : j > 1 => x[j].pre = x[j - 1].next
  BY <1>1, SMTT(30) DEF IsPath
<1>3. /\ n \in Nat /\ n > 0 /\ t \in Tables(n) /\ Empty \in Entries
      /\ \A j \in 1 .. l : x[j].pre \in Cells(n) /\ x[j].next \in Cells(n)
  <2>1. \A j \in 1 .. l : x[j] \in Nodes
    BY <1>1, <1>2
  <2> QED BY <1>1, <2>1 DEF HashOK, Good, Entries, Nodes
<1>4. \A i, j \in 1 .. l : i < j => x[i].pre # x[j].pre
  BY <1>1, NoRepeat
<1>5. \A i \in 0 .. l : f[i] = IF i = 0 THEN t
                               ELSE Put(f[i - 1], x[l + 1 - i].next, At(f[i - 1], x[l + 1 - i].pre))
  BY <1>1, <1>2, ExecutedDefined
<1> DEFINE hole(m) == IF m = 0 THEN p.at ELSE x[l + 1 - m].pre
           OK(m) == /\ f[m] \in Tables(n)
                    /\ \A j \in 1 .. l : j <= l - m => At(f[m], x[j].pre) = At(t, x[j].pre)
                    /\ Good(Put(f[m], hole(m), Empty), n)
                    /\ Holds(Put(f[m], hole(m), Empty), n) = Holds(t, n)
           Bad == {m \in 0 .. l : ~OK(m)}
<1>6. OK(0)
  <2>1. f[0] = t /\ hole(0) = p.at
    BY <1>2, <1>5
  <2>2. Put(t, p.at, Empty) = t
    BY <1>2, <1>3, PutBack
  <2>3. Good(t, n)
    BY <1>1
  <2> QED BY <1>3, <2>1, <2>2, <2>3
<1>7. ASSUME NEW m \in 0 .. l, m # l, OK(m)
      PROVE  OK(m + 1)
  <2>1. PICK j : j = l - m
    OBVIOUS
  <2>2. /\ j \in 1 .. l /\ m \in Nat /\ m + 1 \in 0 .. l /\ m + 1 # 0
        /\ (m + 1) - 1 = m /\ l + 1 - (m + 1) = j
    <3> HIDE DEF OK
    <3> QED BY <1>2, <1>7, <2>1
  <2>3. PICK h, d, e, u : h = hole(m) /\ d = x[j].pre /\ e = At(t, d) /\ u = Put(f[m], h, Empty)
    OBVIOUS
  <2>4. h = x[j].next
    <3>1. CASE m = 0
      BY <1>2, <2>1, <2>2, <2>3, <3>1
    <3>2. CASE m # 0
      <4>1. l + 1 - m = j + 1 /\ j + 1 \in 1 .. l /\ j + 1 > 1 /\ (j + 1) - 1 = j
        BY <1>2, <2>1, <2>2, <3>2
      <4>2. x[j + 1].pre = x[j].next
        BY <1>2, <4>1
      <4> QED BY <2>3, <3>2, <4>1, <4>2
    <3> QED BY <3>1, <3>2
  <2>5. ASSUME NEW i \in 1 .. l, i <= j
        PROVE  x[i].pre # h
    <3>1. CASE m = 0
      BY <1>2, <2>3, <3>1
    <3>2. CASE m # 0
      <4>1. l + 1 - m = j + 1 /\ j + 1 \in 1 .. l /\ i < j + 1
        BY <1>2, <2>1, <2>2, <2>5, <3>2
      <4>2. x[i].pre # x[j + 1].pre
        BY <1>4, <4>1
      <4> QED BY <2>3, <3>2, <4>1, <4>2
    <3> QED BY <3>1, <3>2
  <2>6. h \in Cells(n) /\ d \in Cells(n) /\ e \in Entries /\ e # Empty /\ h # d
    <3>1. d # h
      BY <2>2, <2>3, <2>5
    <3>2. e \in Entries
      BY <1>3, <2>2, <2>3, CellType
    <3> QED BY <1>2, <1>3, <2>2, <2>3, <2>4, <3>1, <3>2
  <2>7. At(f[m], d) = e /\ f[m] \in Tables(n)
    BY <1>7, <2>1, <2>2, <2>3
  <2>8. f[m + 1] = Put(f[m], h, e)
    <3>1. f[m + 1] = Put(f[m], x[j].next, At(f[m], x[j].pre))
      BY <1>5, <2>2
    <3> QED BY <2>3, <2>4, <2>7, <3>1
  <2>9. hole(m + 1) = d
    BY <2>2, <2>3
  <2>10. /\ u \in Tables(n) /\ At(u, h) = Empty
         /\ \A y \in Cells(n) : y # h => At(u, y) = At(f[m], y)
    BY <1>3, <2>3, <2>6, <2>7, PutAt
  <2>11. At(u, d) = e /\ Good(u, n) /\ Holds(u, n) = Holds(t, n)
    BY <1>7, <2>3, <2>6, <2>7, <2>10
  <2>12. h.bucket \in Home(e.key, n)
    BY <1>1, <1>2, <2>2, <2>3, <2>4, <2>6, OtherIs
  <2>13. /\ Good(Put(Put(u, h, e), d, Empty), n)
         /\ Holds(Put(Put(u, h, e), d, Empty), n) = Holds(t, n)
    BY <1>3, <2>6, <2>10, <2>11, <2>12, Moved
  <2>14. Put(u, h, e) = Put(f[m], h, e)
    BY <1>3, <2>3, <2>6, <2>7, PutTwice
  <2>15. /\ f[m + 1] \in Tables(n)
         /\ \A y \in Cells(n) : y # h => At(f[m + 1], y) = At(f[m], y)
    BY <1>3, <2>6, <2>7, <2>8, PutAt
  <2>16. ASSUME NEW i \in 1 .. l, i <= l - (m + 1)
         PROVE  At(f[m + 1], x[i].pre) = At(t, x[i].pre)
    <3>1. i <= j /\ i <= l - m
      BY <1>2, <2>1, <2>2, <2>16
    <3>2. x[i].pre # h /\ x[i].pre \in Cells(n)
      BY <1>3, <2>5, <3>1
    <3>3. At(f[m], x[i].pre) = At(t, x[i].pre)
      BY <1>7, <3>1
    <3> QED BY <2>15, <3>2, <3>3
  <2> QED BY <2>8, <2>9, <2>13, <2>14, <2>15, <2>16
<1>8. Bad = {}
  <2> SUFFICES ASSUME Bad # {} PROVE FALSE
    OBVIOUS
  <2> HIDE DEF OK
  <2>1. PICK m \in Bad : \A i \in Bad : m <= i
    <3>1. Bad \in SUBSET Nat
      BY <1>2
    <3> HIDE DEF Bad
    <3> QED BY <3>1, LeastNat
  <2>2. m \in 0 .. l /\ ~OK(m)
    OBVIOUS
  <2>3. m # 0
    BY <1>6, <2>2
  <2>4. m - 1 \in 0 .. l /\ m - 1 # l /\ m - 1 < m /\ (m - 1) + 1 = m
    BY <1>2, <2>2, <2>3
  <2>5. m - 1 \notin Bad
    <3> HIDE DEF Bad
    <3> QED BY <2>1, <2>2, <2>4
  <2>6. OK(m - 1)
    BY <2>4, <2>5
  <2>7. OK((m - 1) + 1)
    BY <1>7, <2>4, <2>6
  <2> QED BY <2>2, <2>4, <2>7
<1>9. OK(l)
  <2> HIDE DEF OK
  <2> QED BY <1>2, <1>8
<1>10. hole(l) = c /\ f[l] = execute_path(t, p.nodes)
  <2>1. l + 1 - l = 1
    BY <1>2
  <2> QED BY <1>1, <1>2, <2>1 DEF execute_path
<1> QED BY <1>1, <1>2, <1>9, <1>10

-----------------------------------------------------------------------------
(* Doubling *)

LEMMA DivMod ==
    ASSUME NEW a \in Nat, NEW b \in Nat, b > 0
    PROVE  a \div b \in Nat /\ a % b \in 0 .. b - 1 /\ a = (a \div b) * b + (a % b)
<1>1. a % b \in 0 .. b - 1
  OBVIOUS
<1>2. a \div b \in Nat
  OBVIOUS
<1>3. a = (a \div b) * b + (a % b)
  OBVIOUS
<1> QED BY <1>1, <1>2, <1>3

LEMMA Times ==
    ASSUME NEW b \in Nat, NEW h \in Nat, NEW r \in Nat, h < r
    PROVE  h * b + b <= r * b
<1>1. PICK d \in Nat : r = (h + 1) + d
  <2>1. r - (h + 1) \in Nat /\ r = (h + 1) + (r - (h + 1))
    OBVIOUS
  <2> QED BY <2>1
<1>2. r * b = h * b + b + d * b
  BY <1>1
<1>3. d * b \in Nat /\ h * b \in Nat
  OBVIOUS
<1> QED BY <1>2, <1>3

LEMMA DivModUnique ==
    ASSUME NEW b \in Nat, NEW h \in Nat, NEW p \in Nat, NEW r \in 0 .. b - 1, NEW s \in 0 .. b - 1,
           h * b + r = p * b + s
    PROVE  h = p /\ r = s
<1>1. h * b \in Nat /\ p * b \in Nat
  OBVIOUS
<1>2. ~(h < p)
  <2> SUFFICES ASSUME h < p PROVE FALSE
    OBVIOUS
  <2>1. h * b + b <= p * b
    BY Times
  <2> QED BY <1>1, <2>1
<1>3. ~(p < h)
  <2> SUFFICES ASSUME p < h PROVE FALSE
    OBVIOUS
  <2>1. p * b + b <= h * b
    BY Times
  <2> QED BY <1>1, <2>1
<1>4. h = p
  BY <1>2, <1>3
<1> QED BY <1>1, <1>4

\* The bucket of a key in a table m times as large is one that its bucket splits into.
LEMMA ModMod ==
    ASSUME NEW a \in Nat, NEW b \in Nat, b > 0, NEW m \in Nat, m > 0
    PROVE  b * m \in Nat /\ b * m > 0 /\ (a % (b * m)) % b = a % b
<1>1. b * m \in Nat /\ b * m > 0
  <2>1. 0 * m + m <= b * m
    BY Times
  <2>2. 0 * m = 0 /\ b * m \in Nat
    OBVIOUS
  <2> QED BY <2>1, <2>2
<1>2. PICK n \in Nat : n = b * m
  BY <1>1
<1>3. PICK h \in Nat, r \in 0 .. n - 1 : h = a \div n /\ r = a % n /\ a = h * n + r
  BY <1>1, <1>2, DivMod
<1>4. PICK v \in Nat, w \in 0 .. b - 1 : v = r \div b /\ w = r % b /\ r = v * b + w
  <2>1. r \in Nat
    BY <1>3
  <2> QED BY <2>1, DivMod
<1>5. a = (h * m + v) * b + w
  <2>1. h * n = (h * m) * b
    BY <1>2
  <2>2. (h * m + v) * b = (h * m) * b + v * b
    OBVIOUS
  <2>3. (h * m) * b \in Nat /\ v * b \in Nat /\ w \in Nat
    <3>1. h * m \in Nat
      OBVIOUS
    <3> QED BY <3>1
  <2> QED BY <1>3, <1>4, <2>1, <2>2, <2>3
<1>6. PICK x \in Nat, y \in 0 .. b - 1 : x = a \div b /\ y = a % b /\ a = x * b + y
  BY DivMod
<1>7. h * m + v \in Nat
  OBVIOUS
<1>8. w = y
  <2>1. PICK u \in Nat : u = h * m + v
    BY <1>7
  <2>2. u * b + w = x * b + y
    BY <1>5, <1>6, <2>1
  <2> QED BY <2>2, DivModUnique
<1> QED BY <1>1, <1>2, <1>3, <1>4, <1>6, <1>8

\* The place of a slot in the order in which cuckoo_resize goes through the old table.
Index(b, s) == b * CUCKOO_HASH_ASSOC_NUM + s
LEMMA IndexIs ==
    ASSUME NEW n \in Nat, NEW b \in 0 .. n - 1, NEW s \in Slots
    PROVE  Index(b, s) \in Nat /\ Index(b, s) < n * CUCKOO_HASH_ASSOC_NUM
<1>1. PICK A \in Nat : A = CUCKOO_HASH_ASSOC_NUM
  BY Sizes
<1>2. s \in 0 .. A - 1 /\ b \in Nat /\ b < n
  BY <1>1 DEF Slots
<1>3. b * A + A <= n * A
  BY <1>2, Times
<1>4. b * A \in Nat /\ n * A \in Nat
  BY <1>2
<1>5. b * A + s \in Nat /\ b * A + s < n * A
  BY <1>2, <1>3, <1>4
<1> QED BY <1>1, <1>5 DEF Index

LEMMA IndexOnce ==
    ASSUME NEW b \in Nat, NEW d \in Nat, NEW s \in Slots, NEW r \in Slots, Index(b, s) = Index(d, r)
    PROVE  b = d /\ s = r
<1>1. PICK A \in Nat : A = CUCKOO_HASH_ASSOC_NUM
  BY Sizes
<1>2. s \in 0 .. A - 1 /\ r \in 0 .. A - 1 /\ b * A + s = d * A + r
  BY <1>1 DEF Slots, Index
<1> QED BY <1>2, DivModUnique

\* The slot that has a place.
LEMMA Indexed ==
    ASSUME NEW n \in Nat, NEW i \in Nat, i < n * CUCKOO_HASH_ASSOC_NUM
    PROVE  /\ i \div CUCKOO_HASH_ASSOC_NUM \in 0 .. n - 1
           /\ i % CUCKOO_HASH_ASSOC_NUM \in Slots
           /\ Index(i \div CUCKOO_HASH_ASSOC_NUM, i % CUCKOO_HASH_ASSOC_NUM) = i
<1>1. PICK A \in Nat : A = CUCKOO_HASH_ASSOC_NUM /\ A > 0
  BY Sizes
<1>2. PICK h \in Nat, r \in 0 .. A - 1 : h = i \div A /\ r = i % A /\ i = h * A + r
  BY <1>1, DivMod
<1>3. h < n
  <2> SUFFICES ASSUME n <= h PROVE FALSE
    OBVIOUS
  <2>1. n * A <= h * A
    <3>1. CASE n = h
      BY <3>1
    <3>2. CASE n < h
      <4>1. n * A + A <= h * A
        BY <3>2, Times
      <4>2. n * A \in Nat /\ h * A \in Nat
        OBVIOUS
      <4> QED BY <4>1, <4>2
    <3> QED BY <3>1, <3>2
  <2>2. n * A \in Nat /\ h * A \in Nat /\ i < n * A
    BY <1>1
  <2> QED BY <1>2, <2>1, <2>2
<1> QED BY <1>1, <1>2, <1>3 DEF Index, Slots

\* The tables that cuckoo_resize goes through are well defined.
LEMMA RehashDefined ==
    ASSUME NEW n, capacity * CUCKOO_HASH_ASSOC_NUM \in Nat
    PROVE  \A i \in 0 .. capacity * CUCKOO_HASH_ASSOC_NUM :
             Rehash(n)[i] =
                IF i = 0 THEN EmptyTable(n)
                ELSE AddTo(Rehash(n)[i - 1],
                           table[(i - 1) \div CUCKOO_HASH_ASSOC_NUM][(i - 1) % CUCKOO_HASH_ASSOC_NUM],
                           (i - 1) \div CUCKOO_HASH_ASSOC_NUM, n)
<1> DEFINE l == capacity * CUCKOO_HASH_ASSOC_NUM
           none == EmptyTable(n)
           Step(u, i) == AddTo(u, table[(i - 1) \div CUCKOO_HASH_ASSOC_NUM][(i - 1) % CUCKOO_HASH_ASSOC_NUM],
                               (i - 1) \div CUCKOO_HASH_ASSOC_NUM, n)
           F(f, m) == [i \in 0 .. m |-> IF i = 0 THEN none ELSE Step(f[i - 1], i)]
           Bad == {m \in Nat : ~\E f : f = F(f, m)}
<1> HIDE DEF Step, l, none
<1>1. Bad = {}
  <2> SUFFICES ASSUME Bad # {} PROVE FALSE
    OBVIOUS
  <2>1. PICK m \in Bad : \A i \in Bad : m <= i
    <3> HIDE DEF F
    <3> QED BY LeastNat
  <2>2. CASE m = 0
    <3> DEFINE f == [i \in 0 .. 0 |-> none]
    <3>1. f = F(f, 0)
      OBVIOUS
    <3> QED BY <2>2, <2>1, <3>1
  <2>3. CASE m # 0
    <3>1. m - 1 \in Nat /\ m - 1 \notin Bad
      <4>1. m \in Nat
        OBVIOUS
      <4> HIDE DEF Bad
      <4> QED BY <4>1, <2>1, <2>3
    <3>2. PICK f : f = F(f, m - 1)
      BY <3>1
    <3> DEFINE g == [i \in 0 .. m |-> IF i < m THEN f[i] ELSE Step(f[m - 1], m)]
    <3>3. ASSUME NEW i \in 0 .. m
          PROVE  g[i] = F(g, m)[i]
      <4>1. CASE i = m
        BY <4>1, <2>3, <3>1
      <4>2. CASE i # m
        <5>1. i \in 0 .. m - 1 /\ i < m
          BY <4>2, <3>1
        <5>2. g[i] = f[i]
          BY <5>1
        <5>3. f[i] = F(f, m - 1)[i]
          BY <3>2
        <5>4. i # 0 => i - 1 \in 0 .. m /\ i - 1 < m /\ g[i - 1] = f[i - 1]
          BY <5>1
        <5> QED BY <5>1, <5>2, <5>3, <5>4
      <4> QED BY <4>1, <4>2
    <3>4. g = F(g, m)
      BY <3>3
    <3> QED BY <3>4, <2>1
  <2> QED BY <2>2, <2>3
<1>2. \E f : f = F(f, l)
  BY <1>1 DEF l
<1>3. Rehash(n) = F(Rehash(n), l)
  BY <1>2 DEF Rehash, Step, l, none
<1>4. \A i \in 0 .. l : Rehash(n)[i] = IF i = 0 THEN none ELSE Step(Rehash(n)[i - 1], i)
  <2>1. PICK f : f = Rehash(n)
    OBVIOUS
  <2>2. f = F(f, l)
    BY <1>3, <2>1
  <2>3. \A i \in 0 .. l : f[i] = IF i = 0 THEN none ELSE Step(f[i - 1], i)
    BY <2>2
  <2> QED BY <2>1, <2>3
<1> QED BY <1>4 DEF Step, l, none

\* The buckets that cuckoo_resize chooses from are of the key, and split from its
\* bucket in the old table.
LEMMA NewBucketsAre ==
    ASSUME HashOK, NEW k \in Keys, NEW b \in Home(k, capacity), NEW n, n = capacity * RESIZE_FACTOR
    PROVE  \E x, y \in 0 .. n - 1 :
             /\ NewBuckets(k, b, n) = <<x, y>> /\ {x, y} \subseteq Home(k, n)
             /\ x % capacity = b /\ y % capacity = b
<1>1. capacity \in Nat /\ capacity > 0 /\ hash[k].f \in Nat /\ hash[k].s \in Nat
  BY DEF HashOK
<1>2. /\ n \in Nat /\ n > 0 /\ (hash[k].f % n) % capacity = hash[k].f % capacity
      /\ (hash[k].s % n) % capacity = hash[k].s % capacity
  <2>1. n \in Nat /\ n > 0
    BY <1>1, Sizes, ModMod
  <2>2. PICK a, c : a = hash[k].f /\ c = hash[k].s
    OBVIOUS
  <2>3. a \in Nat /\ c \in Nat
    BY <1>1, <2>2
  <2>4. (a % (capacity * RESIZE_FACTOR)) % capacity = a % capacity
    BY <1>1, <2>3, Sizes, ModMod, ZenonT(30)
  <2>5. (c % (capacity * RESIZE_FACTOR)) % capacity = c % capacity
    BY <1>1, <2>3, Sizes, ModMod, ZenonT(30)
  <2> QED BY <2>1, <2>2, <2>4, <2>5
<1>3. F_IDX(k, n) \in 0 .. n - 1 /\ S_IDX(k, n) \in 0 .. n - 1
  BY <1>2, HomeIn
<1>4. /\ F_IDX(k, n) % capacity = F_IDX(k, capacity)
      /\ S_IDX(k, n) % capacity = S_IDX(k, capacity)
  BY <1>2 DEF F_IDX, S_IDX
<1>5. CASE F_IDX(k, capacity) = S_IDX(k, capacity)
  <2>1. NewBuckets(k, b, n) = <<F_IDX(k, n), S_IDX(k, n)>>
    BY <1>5 DEF NewBuckets
  <2> QED BY <1>3, <1>4, <1>5, <2>1 DEF Home
<1>6. CASE F_IDX(k, capacity) # S_IDX(k, capacity) /\ F_IDX(k, capacity) = b
  <2>1. NewBuckets(k, b, n) = <<F_IDX(k, n), F_IDX(k, n)>>
    BY <1>6 DEF NewBuckets
  <2> QED BY <1>3, <1>4, <1>6, <2>1 DEF Home
<1>7. CASE F_IDX(k, capacity) # S_IDX(k, capacity) /\ F_IDX(k, capacity) # b
  <2>1. NewBuckets(k, b, n) = <<S_IDX(k, n), S_IDX(k, n)>>
    BY <1>7 DEF NewBuckets
  <2> QED BY <1>3, <1>4, <1>7, <2>1 DEF Home
<1> QED BY <1>5, <1>6, <1>7

\* The slots in use of a bucket, and the slots of an old bucket that are among the first
\* i ones of the table.
Used(t, b) == Slots \ Free(t, b)
Seen(i, b) == {s \in Slots : Index(b, s) < i}
\* The entries in the first i slots of the table.
SeenEntries(i) ==
    {At(table, c) : c \in {d \in Cells(capacity) : Index(d.bucket, d.slot) < i}} \ {Empty}

LEMMA SlotsFinite ==
    /\ IsFiniteSet(Slots)
    /\ \A S : S \subseteq Slots => IsFiniteSet(S) /\ Cardinality(S) \in Nat
<1>1. IsFiniteSet(Slots)
  BY Sizes, FS_Interval DEF Slots
<1>2. ASSUME NEW S, S \subseteq Slots
      PROVE  IsFiniteSet(S) /\ Cardinality(S) \in Nat
  <2>1. IsFiniteSet(S)
    BY <1>1, <1>2, FS_Subset
  <2> QED BY <2>1, FS_CardinalityType
<1> QED BY <1>1, <1>2

\* What has to hold when i slots of the old table are done: a new bucket has no more
\* entries than slots of the bucket it splits from were looked at.
RehashOK(t, n, i) ==
    /\ Good(t, n) /\ Holds(t, n) = SeenEntries(i)
    /\ \A x \in 0 .. n - 1 : Cardinality(Used(t, x)) <= Cardinality(Seen(i, x % capacity))

LEMMA SeenMore ==
    ASSUME HashOK, NEW i \in Nat, NEW c \in Cells(capacity), Index(c.bucket, c.slot) = i
    PROVE  /\ Seen(i + 1, c.bucket) = Seen(i, c.bucket) \union {c.slot}
           /\ c.slot \notin Seen(i, c.bucket)
           /\ \A b : Seen(i, b) \subseteq Slots
           /\ \A b \in 0 .. capacity - 1 : Seen(i, b) \subseteq Seen(i + 1, b)
           /\ SeenEntries(i + 1) = SeenEntries(i) \union ({At(table, c)} \ {Empty})
<1>1. c.bucket \in 0 .. capacity - 1 /\ c.slot \in Slots /\ capacity \in Nat
  BY DEF Cells, HashOK
<1>2. \A b \in 0 .. capacity - 1, s \in Slots :
        Index(b, s) \in Nat /\ (Index(b, s) = i => b = c.bucket /\ s = c.slot)
  BY <1>1, IndexIs, IndexOnce
<1>3. \A b \in 0 .. capacity - 1, s \in Slots :
        Index(b, s) < i + 1 <=> Index(b, s) < i \/ (b = c.bucket /\ s = c.slot)
  BY <1>2
<1>4. /\ Seen(i + 1, c.bucket) = Seen(i, c.bucket) \union {c.slot}
      /\ c.slot \notin Seen(i, c.bucket)
      /\ \A b : Seen(i, b) \subseteq Slots
      /\ \A b \in 0 .. capacity - 1 : Seen(i, b) \subseteq Seen(i + 1, b)
  BY <1>1, <1>3 DEF Seen
<1>5. \A d \in Cells(capacity) :
        Index(d.bucket, d.slot) < i + 1 <=> Index(d.bucket, d.slot) < i \/ d = c
  <2> SUFFICES ASSUME NEW d \in Cells(capacity)
               PROVE  Index(d.bucket, d.slot) < i + 1 <=> Index(d.bucket, d.slot) < i \/ d = c
    OBVIOUS
  <2>1. /\ d.bucket \in 0 .. capacity - 1 /\ d.slot \in Slots
        /\ (d.bucket = c.bucket /\ d.slot = c.slot) <=> d = c
    BY DEF Cells
  <2> QED BY <1>3, <2>1
<1>6. SeenEntries(i + 1) = SeenEntries(i) \union ({At(table, c)} \ {Empty})
  BY <1>5 DEF SeenEntries
<1> QED BY <1>4, <1>6

\* One more slot of the old table: its entry finds room.
LEMMA RehashStep ==
    ASSUME HashOK, Good(table, capacity), NEW n, n = capacity * RESIZE_FACTOR,
           NEW i \in Nat, NEW t, RehashOK(t, n, i),
           NEW c \in Cells(capacity), Index(c.bucket, c.slot) = i
    PROVE  RehashOK(AddTo(t, At(table, c), c.bucket, n), n, i + 1)
<1>1. PICK e, b, u : e = At(table, c) /\ b = c.bucket /\ u = AddTo(t, e, b, n)
  OBVIOUS
<1>2. /\ capacity \in Nat /\ capacity > 0 /\ table \in Tables(capacity) /\ t \in Tables(n)
      /\ Good(t, n) /\ Holds(t, n) = SeenEntries(i) /\ b \in 0 .. capacity - 1 /\ c.slot \in Slots
  BY <1>1 DEF HashOK, Good, RehashOK, Cells
<1>3. n \in Nat /\ n > 0
  BY <1>2, Sizes, ModMod
<1>4. e \in Entries
  BY <1>1, <1>2, CellType
<1>5. /\ Seen(i + 1, b) = Seen(i, b) \union {c.slot} /\ c.slot \notin Seen(i, b)
      /\ Seen(i, b) \subseteq Slots
      /\ SeenEntries(i + 1) = SeenEntries(i) \union ({e} \ {Empty})
  BY <1>1, SeenMore
<1>6. \A x \in 0 .. n - 1 : x % capacity \in 0 .. capacity - 1
  BY <1>2, <1>3, DivMod
<1>7. \A x \in 0 .. n - 1 :
        /\ Cardinality(Seen(i, x % capacity)) \in Nat /\ Cardinality(Seen(i + 1, x % capacity)) \in Nat
        /\ Cardinality(Seen(i, x % capacity)) <= Cardinality(Seen(i + 1, x % capacity))
  <2> SUFFICES ASSUME NEW x \in 0 .. n - 1
               PROVE  /\ Cardinality(Seen(i, x % capacity)) \in Nat
                      /\ Cardinality(Seen(i + 1, x % capacity)) \in Nat
                      /\ Cardinality(Seen(i, x % capacity)) <= Cardinality(Seen(i + 1, x % capacity))
    OBVIOUS
  <2>1. PICK y \in 0 .. capacity - 1 : y = x % capacity
    BY <1>6
  <2>2. Seen(i, y) \subseteq Seen(i + 1, y)
    BY SeenMore
  <2>3. Seen(i, y) \subseteq Slots /\ Seen(i + 1, y) \subseteq Slots
    BY DEF Seen
  <2>4. IsFiniteSet(Seen(i + 1, y)) /\ Cardinality(Seen(i, y)) \in Nat /\ Cardinality(Seen(i + 1, y)) \in Nat
    BY <2>3, SlotsFinite
  <2>5. Cardinality(Seen(i, y)) <= Cardinality(Seen(i + 1, y))
    BY <2>2, <2>4, FS_Subset
  <2> QED BY <2>1, <2>4, <2>5
<1>8. \A x \in 0 .. n - 1 : /\ Cardinality(Used(t, x)) \in Nat
                            /\ Cardinality(Used(t, x)) <= Cardinality(Seen(i, x % capacity))
  <2>1. \A x : Used(t, x) \subseteq Slots
    BY DEF Used
  <2> QED BY <2>1, SlotsFinite DEF RehashOK
<1>9. t # << >>
  <2>1. DOMAIN t = 0 .. n - 1 /\ 0 \in 0 .. n - 1
    BY <1>2, <1>3 DEF Tables
  <2>2. DOMAIN << >> = {}
    OBVIOUS
  <2> QED BY <2>1, <2>2
<1>10. CASE e = Empty
  <2>1. u = t
    BY <1>1, <1>10 DEF AddTo
  <2>2. SeenEntries(i + 1) = SeenEntries(i)
    BY <1>5, <1>10
  <2>3. \A x \in 0 .. n - 1 : Cardinality(Used(t, x)) <= Cardinality(Seen(i + 1, x % capacity))
    BY <1>7, <1>8
  <2> QED BY <1>1, <1>2, <2>1, <2>2, <2>3 DEF RehashOK
<1>11. CASE e # Empty
  <2>1. e.key \in Keys /\ b \in Home(e.key, capacity)
    BY <1>1, <1>4, <1>11, EntryKey DEF Good
  <2>2. PICK k : k = e.key
    OBVIOUS
  <2>3. PICK x \in 0 .. n - 1, y \in 0 .. n - 1 :
          /\ NewBuckets(k, b, n) = <<x, y>> /\ {x, y} \subseteq Home(k, n)
          /\ x % capacity = b /\ y % capacity = b
    BY <2>1, <2>2, NewBucketsAre
  <2>4. Free(t, x) # {}
    <3>1. Cardinality(Used(t, x)) <= Cardinality(Seen(i, b))
      BY <1>8, <2>3
    <3>2. Seen(i, b) \subseteq Slots \ {c.slot}
      BY <1>5
    <3>3. /\ IsFiniteSet(Slots \ {c.slot}) /\ Cardinality(Slots) \in Nat
          /\ Cardinality(Slots \ {c.slot}) = Cardinality(Slots) - 1
      BY <1>2, SlotsFinite, FS_RemoveElement
    <3>4. Cardinality(Seen(i, b)) <= Cardinality(Slots \ {c.slot}) /\ Cardinality(Seen(i, b)) \in Nat
      BY <1>5, <3>2, <3>3, FS_Subset, SlotsFinite
    <3>5. Used(t, x) # Slots
      <4> SUFFICES ASSUME Used(t, x) = Slots PROVE FALSE
        OBVIOUS
      <4> QED BY <3>1, <3>3, <3>4
    <3>6. Free(t, x) \subseteq Slots
      BY DEF Free
    <3> QED BY <3>5, <3>6 DEF Used
  <2>5. PICK p : p = FirstFree(t, x, y)
    OBVIOUS
  <2>6. p \in Cells(n) /\ At(t, p) = Empty /\ p.bucket \in {x, y}
    BY <1>2, <1>3, <2>3, <2>4, <2>5, FirstFreeIs
  <2>7. u = Put(t, p, e)
    <3>1. b \in {F_IDX(k, capacity), S_IDX(k, capacity)}
      BY <2>1, <2>2 DEF Home
    <3>2. PICK bs : bs = NewBuckets(k, b, n) /\ bs[1] = x /\ bs[2] = y
      BY <2>3
    <3>3. AddTo(t, e, b, n) = Put(t, FirstFree(t, bs[1], bs[2]), e)
      BY <1>9, <1>11, <2>2, <2>4, <3>1, <3>2 DEF AddTo
    <3> QED BY <1>1, <2>5, <3>2, <3>3
  <2>8. ASSUME NEW z \in Holds(t, n)
        PROVE  z.key # e.key
    <3>1. PICK d \in Cells(capacity) : Index(d.bucket, d.slot) < i /\ z = At(table, d) /\ z # Empty
      BY <1>2 DEF SeenEntries
    <3>2. d # c
      BY <3>1
    <3> QED BY <1>1, <3>1, <3>2 DEF Good
  <2>9. Good(u, n) /\ Holds(u, n) = Holds(t, n) \union {e}
    BY <1>2, <1>3, <1>4, <1>11, <2>2, <2>3, <2>6, <2>7, <2>8, PutFree
  <2>10. Holds(u, n) = SeenEntries(i + 1)
    BY <1>2, <1>5, <1>11, <2>9
  <2>11. ASSUME NEW z \in 0 .. n - 1
         PROVE  Cardinality(Used(u, z)) <= Cardinality(Seen(i + 1, z % capacity))
    <3>1. u \in Tables(n) /\ \A d \in Cells(n) : d # p => At(u, d) = At(t, d)
      BY <1>2, <1>3, <1>4, <2>6, <2>7, PutAt
    <3>2. \A s \in Slots : s \in Used(u, z) => s \in Used(t, z) \/ (z = p.bucket /\ s = p.slot)
      <4> SUFFICES ASSUME NEW s \in Slots, s \notin Free(u, z), ~(z = p.bucket /\ s = p.slot)
                   PROVE  s \notin Free(t, z)
        BY DEF Used
      <4>1. PICK d : d = [bucket |-> z, slot |-> s]
        OBVIOUS
      <4>2. d \in Cells(n) /\ d # p
        BY <4>1 DEF Cells
      <4>3. At(u, d) = At(t, d)
        BY <3>1, <4>2
      <4> QED BY <1>2, <1>3, <3>1, <4>1, <4>3, FreeSlot
    <3>3. Used(u, z) \subseteq Slots /\ Used(t, z) \subseteq Slots
      BY DEF Used
    <3>4. CASE z # p.bucket
      <4>1. Used(u, z) \subseteq Used(t, z)
        BY <3>2, <3>3, <3>4
      <4>2. Cardinality(Used(u, z)) <= Cardinality(Used(t, z)) /\ Cardinality(Used(u, z)) \in Nat
        BY <3>3, <4>1, FS_Subset, SlotsFinite
      <4> QED BY <1>7, <1>8, <4>2
    <3>5. CASE z = p.bucket
      <4>1. Used(u, z) \subseteq Used(t, z) \union {p.slot}
        BY <3>2, <3>3
      <4>2. /\ IsFiniteSet(Used(t, z)) /\ Cardinality(Used(t, z)) \in Nat
            /\ Cardinality(Used(u, z)) \in Nat
        BY <3>3, SlotsFinite
      <4>3. /\ IsFiniteSet(Used(t, z) \union {p.slot})
            /\ Cardinality(Used(t, z) \union {p.slot}) <= Cardinality(Used(t, z)) + 1
            /\ Cardinality(Used(t, z) \union {p.slot}) \in Nat
        BY <4>2, FS_AddElement
      <4>4. Cardinality(Used(u, z)) <= Cardinality(Used(t, z) \union {p.slot})
        BY <4>1, <4>3, FS_Subset
      <4>5. z % capacity = b
        BY <2>3, <2>6, <3>5
      <4>6. Cardinality(Seen(i + 1, b)) = Cardinality(Seen(i, b)) + 1 /\ Cardinality(Seen(i, b)) \in Nat
        BY <1>5, SlotsFinite, FS_AddElement
      <4>7. Cardinality(Used(t, z)) <= Cardinality(Seen(i, b))
        BY <1>8, <4>5
      <4> QED BY <4>2, <4>3, <4>4, <4>5, <4>6, <4>7
    <3> QED BY <3>4, <3>5
  <2> QED BY <1>1, <2>9, <2>10, <2>11 DEF RehashOK
<1> QED BY <1>10, <1>11

\* cuckoo_resize finds room for every entry, and the new table holds what the old one
\* held.
LEMMA RehashHolds ==
    ASSUME HashOK, Good(table, capacity), NEW n, n = capacity * RESIZE_FACTOR
    PROVE  /\ Good(Rehashed(n), n) /\ Holds(Rehashed(n), n) = Holds(table, capacity)
           /\ Rehashed(n) # << >>
<1>1. capacity \in Nat /\ capacity > 0 /\ n \in Nat /\ n > 0 /\ table \in Tables(capacity)
  BY Sizes, ModMod DEF HashOK, Good
<1>2. PICK l \in Nat : l = capacity * CUCKOO_HASH_ASSOC_NUM
  BY <1>1, Sizes, ModMod
<1>3. PICK f : f = Rehash(n)
  OBVIOUS
<1>4. \A i \in 0 .. l : f[i] = IF i = 0 THEN EmptyTable(n)
                               ELSE AddTo(f[i - 1],
                                          table[(i - 1) \div CUCKOO_HASH_ASSOC_NUM][(i - 1) % CUCKOO_HASH_ASSOC_NUM],
                                          (i - 1) \div CUCKOO_HASH_ASSOC_NUM, n)
  BY <1>2, <1>3, RehashDefined
<1> DEFINE Bad == {i \in 0 .. l : ~RehashOK(f[i], n, i)}
<1>5. RehashOK(f[0], n, 0)
  <2>1. f[0] = EmptyTable(n)
    BY <1>2, <1>4
  <2>2. EmptyTable(n) \in Tables(n)
    BY DEF EmptyTable, Tables, Entries
  <2>3. \A c \in Cells(n) : At(EmptyTable(n), c) = Empty
    BY DEF EmptyTable, Cells, At
  <2>4. Good(EmptyTable(n), n) /\ Holds(EmptyTable(n), n) = {}
    BY <2>2, <2>3 DEF Good, Holds
  <2>5. \A b \in 0 .. capacity - 1, s \in Slots : Index(b, s) \in Nat
    BY <1>1, IndexIs
  <2>6. SeenEntries(0) = {}
    BY <2>5 DEF SeenEntries, Cells
  <2>7. ASSUME NEW x \in 0 .. n - 1
        PROVE  Cardinality(Used(EmptyTable(n), x)) <= Cardinality(Seen(0, x % capacity))
    <3>1. Free(EmptyTable(n), x) = Slots
      BY DEF Free, EmptyTable, Empty
    <3>2. Used(EmptyTable(n), x) = {}
      BY <3>1 DEF Used
    <3>3. Cardinality(Used(EmptyTable(n), x)) = 0
      BY <3>2, FS_EmptySet
    <3>4. Cardinality(Seen(0, x % capacity)) \in Nat
      BY SlotsFinite DEF Seen
    <3> QED BY <3>3, <3>4
  <2> QED BY <2>1, <2>4, <2>6, <2>7 DEF RehashOK
<1>6. Bad = {}
  <2> SUFFICES ASSUME Bad # {} PROVE FALSE
    OBVIOUS
  <2>1. PICK i \in Bad : \A j \in Bad : i <= j
    <3>1. Bad \in SUBSET Nat
      OBVIOUS
    <3> HIDE DEF Bad
    <3> QED BY <3>1, LeastNat
  <2>2. i \in 0 .. l /\ ~RehashOK(f[i], n, i)
    OBVIOUS
  <2>3. i # 0
    BY <1>5, <2>2
  <2>4. PICK j : j = i - 1
    OBVIOUS
  <2>5. j \in Nat /\ j < l /\ j \in 0 .. l /\ j < i /\ i = j + 1
    BY <2>2, <2>3, <2>4
  <2>6. j \notin Bad
    <3> HIDE DEF Bad
    <3> QED BY <2>1, <2>2, <2>5
  <2>7. RehashOK(f[j], n, j)
    BY <2>5, <2>6
  <2>8. PICK b, s : b = j \div CUCKOO_HASH_ASSOC_NUM /\ s = j % CUCKOO_HASH_ASSOC_NUM
    OBVIOUS
  <2>9. b \in 0 .. capacity - 1 /\ s \in Slots /\ Index(b, s) = j
    BY <1>1, <1>2, <2>5, <2>8, Indexed
  <2>10. PICK c : c = [bucket |-> b, slot |-> s]
    OBVIOUS
  <2>11. /\ c \in Cells(capacity) /\ c.bucket = b /\ c.slot = s /\ At(table, c) = table[b][s]
         /\ Index(c.bucket, c.slot) = j
    BY <2>9, <2>10 DEF Cells, At
  <2>12. f[i] = AddTo(f[j], At(table, c), c.bucket, n)
    BY <1>4, <2>2, <2>3, <2>4, <2>8, <2>11
  <2>13. RehashOK(AddTo(f[j], At(table, c), c.bucket, n), n, j + 1)
    BY <2>5, <2>7, <2>11, RehashStep
  <2> QED BY <2>2, <2>5, <2>12, <2>13
<1>7. RehashOK(f[l], n, l)
  BY <1>6
<1>8. f[l] = Rehashed(n)
  BY <1>2, <1>3 DEF Rehashed
<1>9. SeenEntries(l) = Holds(table, capacity)
  <2>1. \A c \in Cells(capacity) : Index(c.bucket, c.slot) < l
    BY <1>1, <1>2, IndexIs DEF Cells
  <2> QED BY <2>1 DEF SeenEntries, Holds
<1>10. Good(Rehashed(n), n) /\ Holds(Rehashed(n), n) = Holds(table, capacity)
  BY <1>7, <1>8, <1>9 DEF RehashOK
<1>11. Rehashed(n) # << >>
  <2>1. DOMAIN Rehashed(n) = 0 .. n - 1 /\ 0 \in 0 .. n - 1
    BY <1>1, <1>10 DEF Good, Tables
  <2>2. DOMAIN << >> = {}
    OBVIOUS
  <2> QED BY <2>1, <2>2
<1> QED BY <1>10, <1>11
-----------------------------------------------------------------------------
(* The table as a set of entries *)

KeysOf(t) == {t[b][i].key : b \in DOMAIN t, i \in Slots} \ {INVALID}

LEMMA KeysAre ==
    ASSUME NEW n \in Nat, NEW t \in Tables(n)
    PROVE  KeysOf(t) = {e.key : e \in Holds(t, n)}
<1>1. DOMAIN t = 0 .. n - 1
  BY DEF Tables
<1>2. ASSUME NEW k \in KeysOf(t)
      PROVE  \E e \in Holds(t, n) : e.key = k
  <2>1. PICK b \in 0 .. n - 1, i \in Slots : k = t[b][i].key /\ k # INVALID
    BY <1>1, <1>2 DEF KeysOf
  <2>2. PICK c : c = [bucket |-> b, slot |-> i]
    OBVIOUS
  <2>3. c \in Cells(n) /\ At(t, c) = t[b][i]
    BY <2>2 DEF Cells, At
  <2>4. At(t, c) # Empty
    BY <2>1, <2>3 DEF Empty
  <2> QED BY <2>1, <2>3, <2>4 DEF Holds
<1>3. ASSUME NEW e \in Holds(t, n)
      PROVE  e.key \in KeysOf(t)
  <2>1. PICK c \in Cells(n) : e = At(t, c) /\ e # Empty
    BY <1>3 DEF Holds
  <2>2. c.bucket \in 0 .. n - 1 /\ c.slot \in Slots
    BY DEF Cells
  <2>3. e \in Entries
    BY <2>1, CellType
  <2>4. e.key # INVALID
    BY <2>1, <2>3, EntryKey
  <2> QED BY <1>1, <2>1, <2>2, <2>4 DEF KeysOf, At
<1> QED BY <1>2, <1>3

\* An entry is taken out.
LEMMA PutEmpty ==
    ASSUME NEW n \in Nat, NEW t, Good(t, n), NEW c \in Cells(n), At(t, c) # Empty
    PROVE  /\ Good(Put(t, c, Empty), n)
           /\ Holds(Put(t, c, Empty), n) = Holds(t, n) \ {At(t, c)}
<1>1. PICK u : u = Put(t, c, Empty)
  OBVIOUS
<1>2. t \in Tables(n) /\ Empty \in Entries
  BY DEF Good, Entries
<1>3. /\ u \in Tables(n) /\ At(u, c) = Empty
      /\ \A d \in Cells(n) : d # c => At(u, d) = At(t, d)
  BY <1>1, <1>2, PutAt
<1>4. ASSUME NEW d \in Cells(n), At(u, d) # Empty
      PROVE  d.bucket \in Home(At(u, d).key, n)
  BY <1>3, <1>4 DEF Good
<1>5. ASSUME NEW d \in Cells(n), NEW f \in Cells(n), At(u, d) # Empty, At(u, d).key = At(u, f).key
      PROVE  d = f
  <2>1. d # c /\ At(u, d) \in Entries
    BY <1>3, <1>5, CellType
  <2>2. At(u, d).key # INVALID /\ Empty.key = INVALID
    BY <1>2, <1>5, <2>1, EntryKey
  <2>3. f # c
    BY <1>3, <1>5, <2>2
  <2> QED BY <1>3, <1>5, <2>1, <2>3 DEF Good
<1>6. Good(u, n)
  BY <1>3, <1>4, <1>5 DEF Good
<1>7. ASSUME NEW d \in Cells(n), d # c
      PROVE  At(t, d) # At(t, c)
  BY <1>7 DEF Good
<1>8. ASSUME NEW e
      PROVE  e \in Holds(u, n) <=> e \in Holds(t, n) \ {At(t, c)}
  BY <1>3, <1>7 DEF Holds
<1>9. Holds(u, n) = Holds(t, n) \ {At(t, c)}
  BY <1>8
<1> QED BY <1>1, <1>6, <1>9

\* An entry is written over another one for its key.
LEMMA PutOver ==
    ASSUME NEW n \in Nat, NEW t, Good(t, n), NEW c \in Cells(n), At(t, c) # Empty,
           NEW e \in Entries, e # Empty, e.key = At(t, c).key
    PROVE  /\ Good(Put(t, c, e), n)
           /\ Holds(Put(t, c, e), n) = (Holds(t, n) \ {At(t, c)}) \union {e}
<1>1. PICK u : u = Put(t, c, Empty)
  OBVIOUS
<1>2. t \in Tables(n) /\ Empty \in Entries
  BY DEF Good, Entries
<1>3. Good(u, n) /\ Holds(u, n) = Holds(t, n) \ {At(t, c)} /\ At(u, c) = Empty
  BY <1>1, <1>2, PutEmpty, PutAt
<1>4. c.bucket \in Home(e.key, n)
  BY DEF Good
<1>5. ASSUME NEW x \in Holds(u, n)
      PROVE  x.key # e.key
  <2>1. PICK d \in Cells(n) : x = At(t, d) /\ x # Empty /\ x # At(t, c)
    BY <1>3 DEF Holds
  <2> QED BY <2>1 DEF Good
<1>6. Good(Put(u, c, e), n) /\ Holds(Put(u, c, e), n) = Holds(u, n) \union {e}
  BY <1>3, <1>4, <1>5, PutFree
<1>7. Put(u, c, e) = Put(t, c, e)
  BY <1>1, <1>2, PutTwice
<1> QED BY <1>3, <1>6, <1>7

-----------------------------------------------------------------------------
(* The inductive invariant *)

\* The table is good, entry_num counts its keys, and no operation has met an entry that
\* is out of its buckets or has no room in a larger table.
CuckooInv ==
    /\ HashOK /\ Good(table, capacity)
    /\ IsFiniteSet(Stored) /\ entry_num = Cardinality(Stored)
    /\ out.status \notin {"ENOSPC", "error"}

LEMMA StoredIs ==
    ASSUME CuckooInv
    PROVE  /\ capacity \in Nat /\ table \in Tables(capacity) /\ Stored = KeysOf(table)
           /\ Stored = {e.key : e \in Holds(table, capacity)} /\ Stored \subseteq Keys
<1>1. capacity \in Nat /\ table \in Tables(capacity) /\ Stored = KeysOf(table)
  BY DEF CuckooInv, HashOK, Good, Stored, KeysOf
<1>2. KeysOf(table) = {e.key : e \in Holds(table, capacity)}
  BY <1>1, KeysAre
<1>3. ASSUME NEW e \in Holds(table, capacity)
      PROVE  e.key \in Keys
  <2>1. PICK c \in Cells(capacity) : e = At(table, c) /\ e # Empty
    BY DEF Holds
  <2>2. e \in Entries
    BY <1>1, <2>1, CellType
  <2> QED BY <2>1, <2>2, EntryKey
<1> QED BY <1>1, <1>2, <1>3

\* Where a key is found: in the one slot that has it, or nowhere.
LEMMA FoundAt ==
    ASSUME CuckooInv, NEW c \in Cells(capacity), At(table, c) # Empty
    PROVE  Found(At(table, c).key) = {c} /\ First(At(table, c).key) = c
<1>1. PICK k : k = At(table, c).key
  OBVIOUS
<1>2. capacity \in Nat /\ table \in Tables(capacity) /\ HashOK /\ capacity > 0
  BY StoredIs DEF CuckooInv, HashOK
<1>3. k \in Keys /\ c.bucket \in Home(k, capacity)
  <2>1. At(table, c) \in Entries
    BY <1>2, CellType
  <2>2. k \in Keys
    BY <1>1, <2>1, EntryKey
  <2> QED BY <1>1, <2>2 DEF CuckooInv, Good
<1>4. F_IDX(k, capacity) \in 0 .. capacity - 1 /\ S_IDX(k, capacity) \in 0 .. capacity - 1
  BY <1>2, <1>3, HomeIn
<1>5. c = [bucket |-> c.bucket, slot |-> c.slot] /\ c.slot \in Slots
  BY DEF Cells
<1>6. ASSUME NEW d \in Found(k)
      PROVE  d = c
  <2>1. d \in Cells(capacity) /\ At(table, d).key = k
    BY <1>4 DEF Found, Cells, At
  <2> QED BY <1>1, <2>1 DEF CuckooInv, Good
<1>7. c \in Found(k)
  BY <1>1, <1>3, <1>5 DEF Found, Home, At
<1>8. Found(k) = {c}
  BY <1>6, <1>7
<1>9. {at.slot : at \in Found(k)} = {c.slot}
  BY <1>8
<1>10. Min({c.slot}) = c.slot
  <2>1. {c.slot} \subseteq Slots
    BY <1>5
  <2> QED BY <2>1, MinIn
<1>11. First(k) = c
  <2>1. PICK f : f = [bucket |-> F_IDX(k, capacity), slot |-> c.slot]
    OBVIOUS
  <2>2. First(k) = IF f \in Found(k) THEN f ELSE [f EXCEPT !.bucket = S_IDX(k, capacity)]
    BY <1>9, <1>10, <2>1 DEF First
  <2>3. CASE f \in Found(k)
    BY <1>8, <2>2, <2>3
  <2>4. CASE f \notin Found(k)
    <3>1. c.bucket = S_IDX(k, capacity)
      BY <1>3, <1>5, <1>8, <2>1, <2>4 DEF Home
    <3>2. [f EXCEPT !.bucket = S_IDX(k, capacity)] = [bucket |-> c.bucket, slot |-> c.slot]
      BY <2>1, <3>1
    <3> QED BY <1>5, <2>2, <2>4, <3>2
  <2> QED BY <2>3, <2>4
<1> QED BY <1>1, <1>8, <1>11

LEMMA NotFound ==
    ASSUME CuckooInv, NEW k \in Keys
    PROVE  Found(k) = {} <=> k \notin Stored
<1>1. capacity \in Nat /\ table \in Tables(capacity) /\ HashOK /\ capacity > 0
  BY StoredIs DEF CuckooInv, HashOK
<1>2. Stored = {e.key : e \in Holds(table, capacity)}
  BY StoredIs
<1>3. ASSUME k \in Stored
      PROVE  Found(k) # {}
  <2>1. PICK c \in Cells(capacity) : At(table, c) # Empty /\ At(table, c).key = k
    BY <1>2, <1>3 DEF Holds
  <2> QED BY <2>1, FoundAt
<1>4. ASSUME NEW d \in Found(k)
      PROVE  k \in Stored
  <2>1. F_IDX(k, capacity) \in 0 .. capacity - 1 /\ S_IDX(k, capacity) \in 0 .. capacity - 1
    BY <1>1, HomeIn
  <2>2. d \in Cells(capacity) /\ At(table, d).key = k
    BY <2>1 DEF Found, Cells, At
  <2>3. At(table, d) # Empty
    BY <2>2, CuckooAssumption DEF Empty
  <2> QED BY <1>2, <2>2, <2>3 DEF Holds
<1> QED BY <1>3, <1>4

\* An invariant table is what the properties of the run say.
LEMMA InvInPlace ==
    ASSUME CuckooInv
    PROVE  InPlace
<1>1. capacity \in Nat /\ table \in Tables(capacity) /\ DOMAIN table = 0 .. capacity - 1
  BY StoredIs DEF Tables
<1>2. ASSUME NEW b \in DOMAIN table, NEW i \in Slots, table[b][i].key # INVALID
      PROVE  [bucket |-> b, slot |-> i] \in Found(table[b][i].key)
  <2>1. PICK c : c = [bucket |-> b, slot |-> i]
    OBVIOUS
  <2>2. c \in Cells(capacity) /\ At(table, c) = table[b][i]
    BY <1>1, <2>1 DEF Cells, At
  <2>3. At(table, c) # Empty
    BY <1>2, <2>2 DEF Empty
  <2>4. Found(At(table, c).key) = {c}
    BY <2>2, <2>3, FoundAt
  <2> QED BY <2>1, <2>2, <2>4
<1>3. ASSUME NEW k \in Stored
      PROVE  Cardinality(Found(k)) = 1
  <2>1. PICK c \in Cells(capacity) : At(table, c) # Empty /\ At(table, c).key = k
    BY StoredIs DEF Holds
  <2>2. Found(k) = {c}
    BY <2>1, FoundAt
  <2> QED BY <2>2, FS_Singleton
<1>4. entry_num = Cardinality(Stored)
  BY DEF CuckooInv
<1> QED BY <1>2, <1>3, <1>4 DEF InPlace

-----------------------------------------------------------------------------
(* What the operations do to the set of entries *)

\* The entry k, v is new.
Added(k, v) ==
    /\ Good(table', capacity) /\ Holds(table', capacity) = Holds(table, capacity) \union {Entry(k, v)}
    /\ entry_num' = entry_num + 1 /\ out' = [status |-> "SUCCESS", value |-> NoValue]
Refused ==
    /\ UNCHANGED <<table, entry_num>> /\ out' = [status |-> "FAIL", value |-> NoValue]

LEMMA InsertFree ==
    ASSUME CuckooInv, NEW k \in Keys, NEW v \in Values[k], k \notin Stored,
           NEW c \in Cells(capacity), At(table, c) = Empty, c.bucket \in Home(k, capacity),
           Store(Put(table, c, Entry(k, v)))
    PROVE  Added(k, v)
<1>1. PICK e : e = Entry(k, v)
  OBVIOUS
<1>2. e \in Entries /\ e # Empty /\ e.key = k
  BY <1>1, EntryMade
<1>3. capacity \in Nat /\ Good(table, capacity) /\ Stored = {x.key : x \in Holds(table, capacity)}
  BY StoredIs DEF CuckooInv
<1>4. \A x \in Holds(table, capacity) : x.key # e.key
  BY <1>2, <1>3
<1>5. /\ Good(Put(table, c, e), capacity)
      /\ Holds(Put(table, c, e), capacity) = Holds(table, capacity) \union {e}
  BY <1>2, <1>3, <1>4, PutFree
<1>6. /\ table' = Put(table, c, e) /\ entry_num' = entry_num + 1
      /\ out' = [status |-> "SUCCESS", value |-> NoValue]
  BY <1>1 DEF Store, Answer
<1> QED BY <1>1, <1>5, <1>6 DEF Added

LEMMA InsertPath ==
    ASSUME CuckooInv, NEW k \in Keys, NEW v \in Values[k], k \notin Stored,
           NEW c \in Cells(capacity), At(table, c) # Empty, c.bucket \in Home(k, capacity),
           NEW p, IsPath(table, c, p), p.end = "free",
           Store(Put(execute_path(table, p.nodes), p.nodes[1].pre, Entry(k, v)))
    PROVE  Added(k, v)
<1>1. PICK e, x, u : e = Entry(k, v) /\ x = execute_path(table, p.nodes) /\ u = Put(x, c, Empty)
  OBVIOUS
<1>2. e \in Entries /\ e # Empty /\ e.key = k /\ Empty \in Entries
  BY <1>1, EntryMade DEF Entries
<1>3. capacity \in Nat /\ Good(table, capacity) /\ HashOK
      /\ Stored = {y.key : y \in Holds(table, capacity)}
  BY StoredIs DEF CuckooInv
<1>4. /\ p.nodes[1].pre = c /\ x \in Tables(capacity) /\ Good(u, capacity)
      /\ Holds(u, capacity) = Holds(table, capacity)
  BY <1>1, <1>3, Execute
<1>5. At(u, c) = Empty /\ Put(u, c, e) = Put(x, c, e)
  BY <1>1, <1>2, <1>3, <1>4, PutAt, PutTwice
<1>6. \A y \in Holds(u, capacity) : y.key # e.key
  BY <1>2, <1>3, <1>4
<1>7. /\ Good(Put(u, c, e), capacity)
      /\ Holds(Put(u, c, e), capacity) = Holds(u, capacity) \union {e}
  BY <1>2, <1>3, <1>4, <1>5, <1>6, PutFree
<1>8. /\ table' = Put(x, c, e) /\ entry_num' = entry_num + 1
      /\ out' = [status |-> "SUCCESS", value |-> NoValue]
  BY <1>1, <1>4 DEF Store, Answer
<1> QED BY <1>1, <1>4, <1>5, <1>7, <1>8 DEF Added

\* A path of the two from a slot of full buckets starts in a full slot, and is never an
\* error ("find path error").
LEMMA ShorterIs ==
    ASSUME CuckooInv, NEW k \in Keys, NEW i \in Slots,
           Free(table, F_IDX(k, capacity)) \union Free(table, S_IDX(k, capacity)) = {},
           NEW p, p = Shorter(find_path(table, F_IDX(k, capacity), i), find_path(table, S_IDX(k, capacity), i))
    PROVE  \E c \in Cells(capacity) :
             At(table, c) # Empty /\ c.bucket \in Home(k, capacity) /\ IsPath(table, c, p)
<1>1. capacity \in Nat /\ capacity > 0 /\ Good(table, capacity) /\ HashOK /\ table \in Tables(capacity)
  BY StoredIs DEF CuckooInv, HashOK
<1>2. PICK b1, b2 : b1 = F_IDX(k, capacity) /\ b2 = S_IDX(k, capacity)
  OBVIOUS
<1>3. b1 \in 0 .. capacity - 1 /\ b2 \in 0 .. capacity - 1
  BY <1>1, <1>2, HomeIn
<1>4. PICK c1, c2 : c1 = [bucket |-> b1, slot |-> i] /\ c2 = [bucket |-> b2, slot |-> i]
  OBVIOUS
<1>5. c1 \in Cells(capacity) /\ At(table, c1) # Empty
  BY <1>1, <1>2, <1>3, <1>4, FreeSlot
<1>6. c2 \in Cells(capacity) /\ At(table, c2) # Empty
  BY <1>1, <1>2, <1>3, <1>4, FreeSlot
<1>7. IsPath(table, c1, find_path(table, b1, i)) /\ IsPath(table, c2, find_path(table, b2, i))
  BY <1>1, <1>4, <1>5, <1>6, FindPath
<1>8. p = find_path(table, b1, i) \/ p = find_path(table, b2, i)
  BY <1>2 DEF Shorter
<1>9. c1.bucket \in Home(k, capacity) /\ c2.bucket \in Home(k, capacity)
  BY <1>2, <1>4 DEF Home
<1> QED BY <1>5, <1>6, <1>7, <1>8, <1>9

LEMMA InsertIs ==
    ASSUME CuckooInv, NEW k \in Keys, NEW v \in Values[k], cuckoo_insert(k, v)
    PROVE  k \notin Stored /\ UNCHANGED <<hash, capacity>> /\ (Added(k, v) \/ Refused)
<1> DEFINE b1 == F_IDX(k, capacity)
           b2 == S_IDX(k, capacity)
           path == [i \in Slots |-> Shorter(find_path(table, b1, i), find_path(table, b2, i))]
           found == {i \in Slots : path[i].end # "open"}
           p == path[Min(found)]
<1>1. k \notin Stored /\ UNCHANGED <<hash, capacity>>
  BY DEF cuckoo_insert
<1>2. IF Free(table, b1) \union Free(table, b2) # {}
      THEN Store(Put(table, FirstFree(table, b1, b2), Entry(k, v)))
      ELSE IF found = {} THEN Answer("FAIL", NoValue) /\ UNCHANGED <<table, entry_num>>
      ELSE IF p.end = "error" THEN Answer("error", NoValue) /\ UNCHANGED <<table, entry_num>>
      ELSE Store(Put(execute_path(table, p.nodes), p.nodes[1].pre, Entry(k, v)))
  BY DEF cuckoo_insert
<1>3. capacity \in Nat /\ capacity > 0 /\ HashOK /\ table \in Tables(capacity)
  BY StoredIs DEF CuckooInv, HashOK
<1>4. b1 \in 0 .. capacity - 1 /\ b2 \in 0 .. capacity - 1 /\ Home(k, capacity) = {b1, b2}
  BY <1>3, HomeIn DEF Home
<1>5. CASE Free(table, b1) \union Free(table, b2) # {}
  <2> HIDE DEF b1, b2
  <2>1. PICK c : c = FirstFree(table, b1, b2)
    OBVIOUS
  <2>2. c \in Cells(capacity) /\ At(table, c) = Empty /\ c.bucket \in {b1, b2}
    BY <1>3, <1>4, <1>5, <2>1, FirstFreeIs
  <2>3. Store(Put(table, c, Entry(k, v)))
    BY <1>2, <1>5, <2>1
  <2> QED BY <1>1, <1>4, <2>2, <2>3, InsertFree
<1>6. CASE Free(table, b1) \union Free(table, b2) = {}
  <2>1. \A i \in Slots : path[i] = Shorter(find_path(table, b1, i), find_path(table, b2, i))
    OBVIOUS
  <2>2. CASE found = {}
    <3>1. Answer("FAIL", NoValue) /\ UNCHANGED <<table, entry_num>>
      <4> HIDE DEF b1, b2, found, p
      <4> QED BY <1>2, <1>6, <2>2
    <3> QED BY <1>1, <3>1 DEF Refused, Answer
  <2>3. CASE found # {}
    <3>1. Min(found) \in found
      BY <2>3, MinIn
    <3>2. PICK i \in Slots : i = Min(found) /\ path[i].end # "open"
      BY <3>1
    <3>3. PICK x : x = path[i]
      OBVIOUS
    <3>4. x = p /\ x.end # "open" /\ x = Shorter(find_path(table, b1, i), find_path(table, b2, i))
      BY <2>1, <3>2, <3>3
    <3>5. PICK c \in Cells(capacity) :
             At(table, c) # Empty /\ c.bucket \in Home(k, capacity) /\ IsPath(table, c, x)
      BY <1>6, <3>4, ShorterIs
    <3>6. x.end = "free"
      BY <3>4, <3>5 DEF IsPath
    <3>7. Store(Put(execute_path(table, x.nodes), x.nodes[1].pre, Entry(k, v)))
      <4> HIDE DEF b1, b2, found, p
      <4> QED BY <1>2, <1>6, <2>3, <3>4, <3>6
    <3> QED BY <1>1, <3>5, <3>6, <3>7, InsertPath
  <2> QED BY <2>2, <2>3
<1> QED BY <1>5, <1>6

LEMMA UpdateIs ==
    ASSUME CuckooInv, NEW k \in Keys, NEW v \in Values[k], cuckoo_update(k, v)
    PROVE  /\ UNCHANGED <<hash, capacity, entry_num>>
           /\ k \notin Stored => Refused
           /\ k \in Stored =>
                /\ Good(table', capacity) /\ out' = [status |-> "SUCCESS", value |-> NoValue]
                /\ \E e \in Holds(table, capacity) :
                     /\ e.key = k
                     /\ Holds(table', capacity) = (Holds(table, capacity) \ {e}) \union {Entry(k, v)}
<1>1. UNCHANGED <<hash, capacity, entry_num>>
  BY DEF cuckoo_update
<1>2. ASSUME k \notin Stored
      PROVE  Refused
  BY <1>1, <1>2, NotFound DEF cuckoo_update, Refused, Answer
<1>3. ASSUME k \in Stored
      PROVE  /\ Good(table', capacity) /\ out' = [status |-> "SUCCESS", value |-> NoValue]
             /\ \E e \in Holds(table, capacity) :
                  /\ e.key = k
                  /\ Holds(table', capacity) = (Holds(table, capacity) \ {e}) \union {Entry(k, v)}
  <2>1. PICK c \in Cells(capacity) : At(table, c) # Empty /\ At(table, c).key = k
    BY <1>3, StoredIs DEF Holds
  <2>2. Found(k) = {c} /\ First(k) = c
    BY <2>1, FoundAt
  <2>3. table' = Put(table, c, Entry(k, v)) /\ out' = [status |-> "SUCCESS", value |-> NoValue]
    BY <2>2 DEF cuckoo_update, Answer
  <2>4. PICK e : e = Entry(k, v)
    OBVIOUS
  <2>5. e \in Entries /\ e # Empty /\ e.key = k
    BY <2>4, EntryMade
  <2>6. capacity \in Nat /\ Good(table, capacity)
    BY StoredIs DEF CuckooInv
  <2>7. /\ Good(Put(table, c, e), capacity)
        /\ Holds(Put(table, c, e), capacity) = (Holds(table, capacity) \ {At(table, c)}) \union {e}
    BY <2>1, <2>5, <2>6, PutOver
  <2>8. At(table, c) \in Holds(table, capacity)
    BY <2>1 DEF Holds
  <2> QED BY <2>1, <2>3, <2>4, <2>7, <2>8
<1> QED BY <1>1, <1>2, <1>3

LEMMA ResizeIs ==
    ASSUME CuckooInv, cuckoo_resize
    PROVE  /\ UNCHANGED <<hash, entry_num>>
           /\ \/ UNCHANGED <<table, capacity>> /\ out' = [status |-> "no memory", value |-> NoValue]
              \/ /\ Good(table', capacity') /\ Holds(table', capacity') = Holds(table, capacity)
                 /\ capacity' \in Nat /\ capacity' > 0
                 /\ out' = [status |-> "SUCCESS", value |-> NoValue]
<1>1. PICK n : n = capacity * RESIZE_FACTOR
  OBVIOUS
<1>2. HashOK /\ Good(table, capacity)
  BY DEF CuckooInv
<1>3. Good(Rehashed(n), n) /\ Holds(Rehashed(n), n) = Holds(table, capacity) /\ Rehashed(n) # << >>
  BY <1>1, <1>2, RehashHolds
<1>4. n \in Nat /\ n > 0
  BY <1>1, <1>2, Sizes, ModMod DEF HashOK
<1>5. /\ \/ UNCHANGED <<table, capacity>> /\ out' = [status |-> "no memory", value |-> NoValue]
         \/ /\ out' = [status |-> "SUCCESS", value |-> NoValue]
            /\ table' = Rehashed(n) /\ capacity' = n
      /\ UNCHANGED <<hash, entry_num>>
  BY <1>1, <1>3, Zenon DEF cuckoo_resize, Answer
<1> QED BY <1>3, <1>4, <1>5

-----------------------------------------------------------------------------
(* Every operation keeps the invariant *)

\* The keys after a step, and the invariant, from a good table.
LEMMA InvAfter ==
    ASSUME CuckooInv, hash' = hash, capacity' \in Nat, capacity' > 0, Good(table', capacity'),
           IsFiniteSet({e.key : e \in Holds(table', capacity')}),
           entry_num' = Cardinality({e.key : e \in Holds(table', capacity')}),
           out'.status \notin {"ENOSPC", "error"}
    PROVE  CuckooInv'
<1>1. HashOK'
  BY SMTT(30) DEF CuckooInv, HashOK
<1>2. Good(table, capacity)'
  BY DEF Good, Home, F_IDX, S_IDX, Cells, Tables, At
<1>3. table' \in Tables(capacity')
  BY DEF Good
<1>4. KeysOf(table') = {e.key : e \in Holds(table', capacity')}
  BY <1>3, KeysAre
<1>5. Stored' = KeysOf(table')
  BY DEF Stored, KeysOf
<1> QED BY <1>1, <1>2, <1>4, <1>5 DEF CuckooInv

LEMMA Kept ==
    ASSUME CuckooInv, [Next]_vars
    PROVE  CuckooInv'
<1>0. /\ capacity \in Nat /\ capacity > 0 /\ Good(table, capacity)
      /\ Stored = {e.key : e \in Holds(table, capacity)}
      /\ IsFiniteSet(Stored) /\ entry_num = Cardinality(Stored)
      /\ out.status \notin {"ENOSPC", "error"}
  BY StoredIs DEF CuckooInv, HashOK
<1>1. ASSUME NEW k \in Keys, NEW v \in Values[k], cuckoo_insert(k, v)
      PROVE  CuckooInv'
  <2>1. k \notin Stored /\ UNCHANGED <<hash, capacity>> /\ (Added(k, v) \/ Refused)
    BY <1>1, InsertIs
  <2>2. CASE Refused
    <3>1. table' = table /\ entry_num' = entry_num /\ out'.status = "FAIL"
      BY <2>2 DEF Refused
    <3> QED BY <1>0, <2>1, <3>1, InvAfter
  <2>3. CASE Added(k, v)
    <3>1. /\ Good(table', capacity) /\ entry_num' = entry_num + 1 /\ out'.status = "SUCCESS"
          /\ Holds(table', capacity) = Holds(table, capacity) \union {Entry(k, v)}
      BY <2>3 DEF Added
    <3>2. Entry(k, v).key = k
      BY DEF Entry
    <3>3. {e.key : e \in Holds(table', capacity)} = Stored \union {k}
      BY <1>0, <3>1, <3>2
    <3>4. IsFiniteSet(Stored \union {k}) /\ Cardinality(Stored \union {k}) = Cardinality(Stored) + 1
      BY <1>0, <2>1, FS_AddElement
    <3>5. entry_num' = Cardinality(Stored \union {k})
      BY <1>0, <3>1, <3>4
    <3>6. capacity' = capacity /\ hash' = hash
      BY <2>1
    <3> QED BY <1>0, <3>1, <3>3, <3>4, <3>5, <3>6, InvAfter
  <2> QED BY <2>1, <2>2, <2>3
<1>2. ASSUME NEW k \in Keys, NEW v \in Values[k], cuckoo_update(k, v)
      PROVE  CuckooInv'
  <2>1. hash' = hash /\ capacity' = capacity /\ entry_num' = entry_num
    BY <1>2, UpdateIs
  <2>2. CASE k \notin Stored
    <3>1. table' = table /\ out'.status = "FAIL"
      BY <1>2, <2>2, UpdateIs DEF Refused
    <3> QED BY <1>0, <2>1, <3>1, InvAfter
  <2>3. CASE k \in Stored
    <3>1. Good(table', capacity) /\ out'.status = "SUCCESS"
      BY <1>2, <2>3, UpdateIs
    <3>2. PICK e \in Holds(table, capacity) :
            /\ e.key = k
            /\ Holds(table', capacity) = (Holds(table, capacity) \ {e}) \union {Entry(k, v)}
      BY <1>2, <2>3, UpdateIs
    <3>3. Entry(k, v).key = k
      BY DEF Entry
    <3>4. {x.key : x \in Holds(table', capacity)} = Stored
      BY <1>0, <3>2, <3>3
    <3> QED BY <1>0, <2>1, <3>1, <3>4, InvAfter
  <2> QED BY <2>2, <2>3
<1>3. ASSUME NEW k \in Keys, cuckoo_query(k)
      PROVE  CuckooInv'
  <2>1. UNCHANGED <<hash, table, capacity, entry_num>> /\ out'.status \in {"FAIL", "SUCCESS"}
    BY <1>3 DEF cuckoo_query, Answer
  <2> QED BY <1>0, <2>1, InvAfter
<1>4. ASSUME cuckoo_resize
      PROVE  CuckooInv'
  <2>1. UNCHANGED <<hash, entry_num>>
    BY <1>4, ResizeIs
  <2>2. /\ capacity' \in Nat /\ capacity' > 0 /\ Good(table', capacity')
        /\ Holds(table', capacity') = Holds(table, capacity)
        /\ out'.status \in {"no memory", "SUCCESS"}
    <3>1. CASE UNCHANGED <<table, capacity>> /\ out' = [status |-> "no memory", value |-> NoValue]
      <4>1. table' = table /\ capacity' = capacity /\ out'.status = "no memory"
        BY <3>1
      <4> QED BY <1>0, <4>1
    <3>2. CASE /\ Good(table', capacity') /\ Holds(table', capacity') = Holds(table, capacity)
               /\ capacity' \in Nat /\ capacity' > 0
               /\ out' = [status |-> "SUCCESS", value |-> NoValue]
      BY <3>2
    <3> QED BY <1>4, <3>1, <3>2, ResizeIs
  <2> QED BY <1>0, <2>1, <2>2, InvAfter
<1>5. ASSUME UNCHANGED vars
      PROVE  CuckooInv'
  BY <1>0, <1>5, InvAfter DEF vars
<1> QED BY <1>1, <1>2, <1>3, <1>4, <1>5 DEF Next

\* A new table has no entries.
LEMMA EmptyHolds ==
    ASSUME NEW n \in Nat
    PROVE  Good(EmptyTable(n), n) /\ Holds(EmptyTable(n), n) = {}
<1>1. EmptyTable(n) \in Tables(n)
  BY DEF EmptyTable, Tables, Entries
<1>2. \A c \in Cells(n) : At(EmptyTable(n), c) = Empty
  BY DEF EmptyTable, Cells, At
<1> QED BY <1>1, <1>2 DEF Good, Holds

LEMMA Started ==
    ASSUME Init
    PROVE  CuckooInv /\ Stored = {}
<1>1. Capacity \in Nat /\ Capacity > 0
  BY Sizes
<1>2. HashOK
  BY <1>1, CuckooAssumption DEF Init, HashOK
<1>3. Good(table, capacity) /\ Holds(table, capacity) = {}
  BY <1>1, EmptyHolds DEF Init
<1>4. table \in Tables(capacity) /\ capacity \in Nat
  BY <1>1, <1>3 DEF Init, Good
<1>5. KeysOf(table) = {} /\ Stored = KeysOf(table)
  BY <1>3, <1>4, KeysAre DEF Stored, KeysOf
<1>6. IsFiniteSet({}) /\ Cardinality({}) = 0
  BY FS_EmptySet
<1> QED BY <1>2, <1>3, <1>5, <1>6 DEF Init, CuckooInv

\* The inductive invariant of the cuckoo hash table, and with it: no insert ever reports
\* a "find path error".
THEOREM CuckooInvariant == Spec => []CuckooInv
<1>1. Init => CuckooInv
  BY Started
<1>2. CuckooInv /\ [Next]_vars => CuckooInv'
  BY Kept
<1> QED BY <1>1, <1>2, PTL DEF Spec

\* For any hashes, slots per bucket, longest path and factor, evictions and doubling
\* leave every entry in a bucket its key hashes to, each key once, and entry_num right.
THEOREM CuckooInPlace == Spec => []InPlace
<1>1. CuckooInv => InPlace
  BY InvInPlace
<1> QED BY <1>1, CuckooInvariant, PTL

\* A table of any size can always be made larger: an entry that cuckoo_resize moves
\* finds room, as its new bucket only takes entries of its old one.
THEOREM CuckooResizes == Spec => []ResizeSucceeds
<1>1. CuckooInv => ResizeSucceeds
  BY DEF CuckooInv, ResizeSucceeds
<1> QED BY <1>1, CuckooInvariant, PTL

-----------------------------------------------------------------------------
(* The table is a map *)

\* The map that a set of entries, one for each key, stands for.
MapOf(H) == [k \in {e.key : e \in H} |-> (CHOOSE e \in H : e.key = k).value]
MapPlus(m, k, v) == [x \in DOMAIN m \union {k} |-> IF x = k THEN v ELSE m[x]]
OnePerKey(H) == \A e, f \in H : e.key = f.key => e = f

LEMMA MapValue ==
    ASSUME NEW H, OnePerKey(H), NEW e \in H
    PROVE  e.key \in DOMAIN MapOf(H) /\ MapOf(H)[e.key] = e.value
<1>1. PICK k : k = e.key
  OBVIOUS
<1>2. (CHOOSE f \in H : f.key = k) = e
  BY <1>1 DEF OnePerKey
<1> QED BY <1>1, <1>2 DEF MapOf

\* Two such maps agree when they have the same keys and values.
LEMMA MapWith ==
    ASSUME NEW H, OnePerKey(H), NEW G, OnePerKey(G), NEW k, NEW v, Entry(k, v) \in G,
           \A e : e \in G => e = Entry(k, v) \/ (e \in H /\ e.key # k),
           \A e : e \in H /\ e.key # k => e \in G
    PROVE  MapOf(G) = MapPlus(MapOf(H), k, v)
<1>1. Entry(k, v).key = k /\ Entry(k, v).value = v
  BY DEF Entry
<1>2. DOMAIN MapOf(G) = {e.key : e \in G} /\ DOMAIN MapOf(H) = {e.key : e \in H}
  BY DEF MapOf
<1>3. {e.key : e \in G} = {e.key : e \in H} \union {k}
  BY <1>1
<1>4. ASSUME NEW x \in {e.key : e \in G}
      PROVE  MapOf(G)[x] = IF x = k THEN v ELSE MapOf(H)[x]
  <2>1. CASE x = k
    BY <1>1, <2>1, MapValue
  <2>2. CASE x # k
    <3>1. PICK e \in H : e.key = x /\ e \in G
      BY <1>1, <2>2
    <3>2. MapOf(G)[x] = e.value /\ MapOf(H)[x] = e.value
      BY <3>1, MapValue
    <3> QED BY <2>2, <3>2
  <2> QED BY <2>1, <2>2
<1>5. MapOf(G) = [x \in {e.key : e \in G} |-> MapOf(G)[x]]
  BY DEF MapOf
<1> QED BY <1>2, <1>3, <1>4, <1>5 DEF MapPlus

LEMMA Singles ==
    ASSUME NEW n \in Nat, NEW t, Good(t, n)
    PROVE  OnePerKey(Holds(t, n))
  BY DEF OnePerKey, Holds, Good

\* The map of the refinement is the one of the entries.
LEMMA MapIs ==
    ASSUME CuckooInv
    PROVE  map = MapOf(Holds(table, capacity))
<1>1. /\ capacity \in Nat /\ Good(table, capacity)
      /\ Stored = {e.key : e \in Holds(table, capacity)}
  BY StoredIs DEF CuckooInv
<1>2. OnePerKey(Holds(table, capacity))
  BY <1>1, Singles
<1>3. ASSUME NEW k \in Stored
      PROVE  At(table, First(k)).value = MapOf(Holds(table, capacity))[k]
  <2>1. PICK c \in Cells(capacity) : At(table, c) # Empty /\ At(table, c).key = k
    BY <1>1 DEF Holds
  <2>2. First(k) = c
    BY <2>1, FoundAt
  <2>3. At(table, c) \in Holds(table, capacity)
    BY <2>1 DEF Holds
  <2> QED BY <1>2, <2>1, <2>2, <2>3, MapValue
<1>4. map = [k \in Stored |-> At(table, First(k)).value]
  BY DEF map, At
<1>5. MapOf(Holds(table, capacity)) = [k \in Stored |-> MapOf(Holds(table, capacity))[k]]
  BY <1>1 DEF MapOf
<1> QED BY <1>3, <1>4, <1>5

LEMMA MapStarts ==
    ASSUME Init
    PROVE  Dict!Init
<1>1. Stored = {}
  BY Started
<1>2. map = << >>
  BY <1>1 DEF map
<1> QED BY <1>2 DEF Init, Dict!Init

LEMMA MapSteps ==
    ASSUME CuckooInv, CuckooInv', [Next]_vars,
           map = MapOf(Holds(table, capacity)), (map = MapOf(Holds(table, capacity)))'
    PROVE  [Dict!Next]_<<map, out>>
<1>0. /\ capacity \in Nat /\ Good(table, capacity)
      /\ Stored = {e.key : e \in Holds(table, capacity)} /\ DOMAIN map = Stored
  BY StoredIs DEF CuckooInv, MapOf
<1>1. PICK H, G : H = Holds(table, capacity) /\ G = Holds(table', capacity')
  OBVIOUS
<1>2. map = MapOf(H) /\ map' = MapOf(G)
  BY <1>1 DEF Holds, MapOf, Cells, At
<1>3. OnePerKey(H)
  BY <1>0, <1>1, Singles
<1>4. ASSUME table' = table, capacity' = capacity
      PROVE  map' = map
  BY <1>1, <1>2, <1>4
<1>5. ASSUME NEW k \in Keys, NEW v \in Values[k], cuckoo_insert(k, v)
      PROVE  Dict!Insert(k, v)
  <2>1. k \notin Stored /\ UNCHANGED <<hash, capacity>> /\ (Added(k, v) \/ Refused)
    BY <1>5, InsertIs
  <2>2. CASE Refused
    BY <1>0, <1>4, <2>1, <2>2 DEF Refused, Dict!Insert, Dict!Answer
  <2>3. CASE Added(k, v)
    <3>1. G = H \union {Entry(k, v)} /\ out' = [status |-> "SUCCESS", value |-> NoValue]
          /\ Good(table', capacity) /\ capacity' = capacity
      BY <1>1, <2>1, <2>3 DEF Added
    <3>2. OnePerKey(G)
      BY <1>0, <1>1, <3>1, Singles
    <3>3. \A e \in H : e.key # k
      BY <1>0, <1>1, <2>1
    <3>4. MapOf(G) = MapPlus(MapOf(H), k, v)
      <4>1. /\ Entry(k, v) \in G /\ \A e : e \in H /\ e.key # k => e \in G
            /\ \A e : e \in G => e = Entry(k, v) \/ (e \in H /\ e.key # k)
        BY <3>1, <3>3
      <4> QED BY <1>3, <3>2, <4>1, MapWith
    <3>5. map' = Dict!With(k, v)
      BY <1>2, <3>4 DEF Dict!With, MapPlus
    <3> QED BY <1>0, <2>1, <3>1, <3>5 DEF Dict!Insert, Dict!Answer
  <2> QED BY <2>1, <2>2, <2>3
<1>6. ASSUME NEW k \in Keys, NEW v \in Values[k], cuckoo_update(k, v)
      PROVE  Dict!Update(k, v)
  <2>1. hash' = hash /\ capacity' = capacity
    BY <1>6, UpdateIs
  <2>2. CASE k \notin Stored
    <3>1. Refused
      BY <1>6, <2>2, UpdateIs
    <3> QED BY <1>0, <1>4, <2>1, <2>2, <3>1 DEF Refused, Dict!Update, Dict!Answer
  <2>3. CASE k \in Stored
    <3>1. Good(table', capacity) /\ out' = [status |-> "SUCCESS", value |-> NoValue]
      BY <1>6, <2>3, UpdateIs
    <3>2. PICK e \in H : e.key = k /\ G = (H \ {e}) \union {Entry(k, v)}
      BY <1>1, <1>6, <2>1, <2>3, UpdateIs
    <3>3. OnePerKey(G)
      BY <1>0, <1>1, <2>1, <3>1, Singles
    <3>4. \A f \in H : f.key = k => f = e
      BY <1>3, <3>2 DEF OnePerKey
    <3>5. MapOf(G) = MapPlus(MapOf(H), k, v)
      <4>1. /\ Entry(k, v) \in G /\ \A f : f \in H /\ f.key # k => f \in G
            /\ \A f : f \in G => f = Entry(k, v) \/ (f \in H /\ f.key # k)
        BY <3>2, <3>4
      <4> QED BY <1>3, <3>3, <4>1, MapWith
    <3>6. map' = Dict!With(k, v)
      BY <1>2, <3>5 DEF Dict!With, MapPlus
    <3> QED BY <1>0, <2>3, <3>1, <3>6 DEF Dict!Update, Dict!Answer
  <2> QED BY <2>2, <2>3
<1>7. ASSUME NEW k \in Keys, cuckoo_query(k)
      PROVE  Dict!Query(k)
  <2>1. UNCHANGED map
    BY <1>4, <1>7 DEF cuckoo_query
  <2>2. CASE k \notin Stored
    BY <1>0, <1>7, <2>1, <2>2, NotFound DEF cuckoo_query, Answer, Dict!Query, Dict!Answer
  <2>3. CASE k \in Stored
    <3>1. Found(k) # {}
      BY <2>3, NotFound
    <3>2. map[k] = table[First(k).bucket][First(k).slot].value
      BY <2>3 DEF map
    <3>3. out' = [status |-> "SUCCESS", value |-> map[k]]
      BY <1>7, <3>1, <3>2 DEF cuckoo_query, Answer
    <3> QED BY <1>0, <2>1, <2>3, <3>3 DEF Dict!Query, Dict!Answer
  <2> QED BY <2>2, <2>3
<1>8. ASSUME cuckoo_resize
      PROVE  Dict!Grow
  <2>1. CASE UNCHANGED <<table, capacity>> /\ out' = [status |-> "no memory", value |-> NoValue]
    <3>1. table' = table /\ capacity' = capacity
      BY <2>1
    <3> QED BY <1>4, <2>1, <3>1 DEF Dict!Grow
  <2>2. CASE /\ Holds(table', capacity') = Holds(table, capacity)
             /\ out' = [status |-> "SUCCESS", value |-> NoValue]
    <3>1. map' = map
      BY <1>1, <1>2, <2>2
    <3> QED BY <2>2, <3>1 DEF Dict!Grow
  <2> QED BY <1>8, <2>1, <2>2, ResizeIs
<1>9. ASSUME UNCHANGED vars
      PROVE  UNCHANGED <<map, out>>
  BY <1>4, <1>9 DEF vars
<1> QED BY <1>5, <1>6, <1>7, <1>8, <1>9 DEF Next, Dict!Next

\* The cuckoo hash table implements a map of keys to values: whatever is moved to make
\* room or to double the table, a lookup answers what was last stored.
THEOREM CuckooIsMap == Spec => IsMap
<1>1. CuckooInv => map = MapOf(Holds(table, capacity))
  BY MapIs
<1>2. Init => Dict!Init
  BY MapStarts
<1> QED BY <1>1, <1>2, MapSteps, CuckooInvariant, PTL DEF Spec, IsMap, Dict!Spec

=============================================================================
