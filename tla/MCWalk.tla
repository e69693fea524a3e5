------------------------------- MODULE MCWalk --------------------------------
(* An instance of Walk for TLC. *)
EXTENDS Walk, TLC

CONSTANTS dr, dx, dy, dz, dq, df, m0, m1, n1, n2

\* Inodes: 0 is the root, 1 a directory, 2 a file, 3 a symlink to n1, 4 an
\* absolute symlink to n1/n2/n2, 5 the root of the mounted file system, 6 a
\* directory.
MCBody == 3 :> [abs |-> FALSE, comps |-> <<n1>>, delayed |-> TRUE]
       @@ 4 :> [abs |-> TRUE, comps |-> <<n1, n2, n2>>, delayed |-> FALSE]

\* The root dr holds dx as n1, dx holds dz as n2; dy is n2 of dr or, for a task whose
\* home is dx, n1 of dx; dq is the root of the mounted file system and df is unused.
On(d) == [mnt |-> m0, dentry |-> d]
StartIn(home, ix, iy, iz, over, path, follow, lookup_root, changes) ==
    [place |-> (dr :> <<dr, Null>> @@ dq :> <<dq, Null>> @@ dx :> <<dr, n1>>
                @@ dy :> <<home, IF home = dr THEN n2 ELSE n1>> @@ dz :> <<dx, n2>> @@ df :> <<Null, Null>>),
     inode |-> (dr :> 0 @@ dq :> 5 @@ dx :> ix @@ dy :> iy @@ dz :> iz @@ df :> Null),
     at |-> (m0 :> Nowhere @@ m1 :> over), mroot |-> (m0 :> dr @@ m1 :> dq),
     pwd |-> On(home), top |-> On(home),
     path |-> path, follow |-> follow, lookup_root |-> lookup_root, changes |-> changes]
Start(ix, iy, iz, over, path, follow, lookup_root, changes) ==
    StartIn(dr, ix, iy, iz, over, path, follow, lookup_root, changes)
\* The absolute paths are looked up with LOOKUP_DIRECTORY.
Relative(p) == [abs |-> FALSE, comps |-> p, directory |-> FALSE]
Absolute(p) == [abs |-> TRUE, comps |-> p, directory |-> TRUE]

\* A walk through a directory under two changes; mounts and symlinks, nested and
\* absolute, under one; and walks of a task in dx, which is its root and working
\* directory and may itself be moved or deleted.
MCStarts ==
    {Start(1, 3, 2, Nowhere, Relative(<<n1, n2>>), TRUE, FALSE, 2)}
      \union
    {Start(1, 3, 2, over, p, TRUE, FALSE, 1) : over \in {Nowhere, On(dx)},
        p \in {Absolute(<<n2, DotDot>>), Relative(<<n2, n2>>)}}
      \union
    {Start(1, 4, 3, over, p, over = Nowhere, over # Nowhere, 1) : over \in {Nowhere, On(dx)},
        p \in {Absolute(<<n2, DotDot>>), Relative(<<n1, n2>>)}}
      \union
    {StartIn(dx, 1, 6, 2, Nowhere, p, TRUE, FALSE, 1) :
        p \in {Absolute(<<n1, n2>>), Relative(<<n1, DotDot>>), Absolute(<<n2>>)}}

=============================================================================
