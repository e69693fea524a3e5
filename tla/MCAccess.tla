------------------------------ MODULE MCAccess -------------------------------
(* Questions for Access. *)
EXTENDS Access

Plain == [type |-> "reg", uid |-> 1, gid |-> 1, u |-> Rights, g |-> {"r", "x"}, o |-> {"r", "x"},
          suid |-> FALSE, sgid |-> FALSE, sticky |-> FALSE, flags |-> {},
          acl |-> "none", cached |-> TRUE]
Caller == [uid |-> 1, groups |-> {1}, caps |-> {}, mapped |-> TRUE]
Question ==
    [call |-> "permission", cred |-> Caller, inode |-> Plain, dir |-> [Plain EXCEPT !.type = "dir"],
     mask |-> {"r"}, isdir |-> FALSE, rdonly |-> FALSE, rcu |-> FALSE, protected |-> TRUE,
     levels |-> [fifos |-> 1, regular |-> 1],
     open |-> [acc |-> "rdonly", trunc |-> FALSE, append |-> FALSE, noatime |-> FALSE,
               nodev |-> FALSE]]

\* The caller owns the inode, is in its group, or neither.
Callers(caps) ==
    {[Caller EXCEPT !.uid = u, !.groups = gs, !.caps = cs] :
        u \in {1, 2}, gs \in {{1}, {2}}, cs \in caps}
Dac == {{}, {"DAC_READ_SEARCH"}, {"DAC_OVERRIDE"}}

Permissions ==
    {[Question EXCEPT !.cred = c, !.mask = m, !.rcu = rc, !.rdonly = (m = {"w"}),
        !.inode = [Plain EXCEPT !.type = t, !.uid = us, !.u = uu, !.g = gg, !.o = {"r", "w"},
                                !.acl = a, !.cached = ca]] :
        c \in Callers(Dac), m \in {{"r"}, {"w"}, {"x"}, {"r", "w"}}, rc \in BOOLEAN,
        t \in {"reg", "dir"}, us \in {0, 1}, uu \in {{"r"}, {}}, gg \in {{}, {"w", "x"}},
        a \in {"none", "grants", "denies"}, ca \in BOOLEAN}

Entries ==
    {[Plain EXCEPT !.type = t, !.uid = id[1], !.gid = id[2], !.flags = f] :
        t \in {"none", "reg"}, id \in {<<0, 1>>, <<1, 1>>, <<2, 1>>, <<1, 0>>}, f \in {{}, {"append"}}}
Directories ==
    {[Plain EXCEPT !.type = "dir", !.uid = u, !.sticky = st, !.sgid = st, !.o = oo, !.flags = f] :
        u \in {0, 1, 2}, st \in BOOLEAN, oo \in {{"w"}, {"w", "x"}}, f \in {{}, {"append"}, {"dead"}}}
InDirectories ==
    {[Question EXCEPT !.call = k, !.cred = c, !.dir = d, !.inode = i] :
        k \in {"delete", "create"}, c \in Callers({{}, {"FOWNER"}}),
        d \in Directories, i \in Entries}
      \union
    {[Question EXCEPT !.call = "delete", !.dir = d, !.inode = [Plain EXCEPT !.type = t, 
                                        !.flags = IF t = "dir" THEN f ELSE {}],
                      !.isdir = TRUE, !.rdonly = ro] :
        d \in Directories, t \in {"reg", "dir"}, f \in {{}, {"root"}}, ro \in BOOLEAN}
      \union
    {[Question EXCEPT !.call = "create", !.dir = d, !.inode.type = "none", !.cred.mapped = mp] :
        d \in Directories, mp \in BOOLEAN}

Openings ==
    {[Question EXCEPT !.call = "open", !.cred = c, !.inode = [Plain EXCEPT !.type = t, !.flags = f],
        !.open = [acc |-> a, trunc |-> tr, append |-> ap, noatime |-> na, nodev |-> TRUE]] :
        c \in Callers({{}, {"FOWNER"}}), t \in {"none", "reg", "dir", "lnk", "chr", "fifo"},
        f \in {{}, {"append"}}, a \in {"rdonly", "wronly", "rdwr"}, tr \in BOOLEAN,
        ap \in BOOLEAN, na \in BOOLEAN}

Links ==
    {[Question EXCEPT !.call = k, !.cred = c, !.protected = p, !.rcu = rc,
        !.dir = [Plain EXCEPT !.type = "dir", !.uid = du, !.sticky = st, !.o = oo],
        !.inode = [Plain EXCEPT !.type = t, !.uid = u, !.suid = sg, !.sgid = ~sg, !.o = oo]] :
        k \in {"follow", "link"}, c \in Callers({{}, {"FOWNER"}}), p \in BOOLEAN, rc \in BOOLEAN,
        du \in {1, 3}, st \in BOOLEAN, oo \in {{"r"}, {"r", "w"}}, t \in {"reg", "lnk"},
        u \in {1, 3}, sg \in BOOLEAN}
      \union
    {[Question EXCEPT !.call = "sticky", !.cred = c, !.levels = [fifos |-> lf, regular |-> lr],
        !.dir = [Plain EXCEPT !.type = "dir", !.uid = du, !.sticky = st, !.o = oo, !.g = gg],
        !.inode = [Plain EXCEPT !.type = t, !.uid = u]] :
        c \in Callers({{}}), lf \in 0 .. 2, lr \in 0 .. 2, du \in {1, 3}, st \in BOOLEAN,
        oo \in {{}, {"w"}}, gg \in {{}, {"w"}}, t \in {"reg", "fifo", "chr", "sock"}, u \in {1, 3}}

MCQuestions == Permissions \union InDirectories \union Openings \union Links

=============================================================================
