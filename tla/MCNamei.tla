------------------------------- MODULE MCNamei -------------------------------
(* An instance of Namei for TLC. *)
EXTENDS Namei, TLC

CONSTANTS p1, p2, p3, na, nb

\* The root holds a directory 1 with a directory 2 in it, and 2 holds a file 3,
\* or a symlink that is also the root's second name and leads there, or nothing;
\* the other inodes are free.
Scene(k3, c1, c2, c3, names, delegs, times) ==
    [kind |-> [i \in Inodes |-> IF i < 3 THEN "dir" ELSE IF i = 3 THEN k3 ELSE "free"],
     child |-> [i \in Inodes |-> [n \in Names |->
        CASE <<i, n>> = <<0, na>> -> 1 [] <<i, n>> = <<1, na>> -> 2
          [] <<i, n>> = <<2, na>> /\ k3 # "free" -> 3
          [] <<i, n>> = <<0, nb>> /\ k3 = "link" -> 3 [] OTHER -> None]],
     up |-> [i \in Inodes |-> IF i = 2 THEN 1 ELSE 0],
     body |-> [i \in Inodes |-> nb],
     calls |-> [p \in Procs |-> CASE p = p1 -> c1 [] p = p2 -> c2 [] OTHER -> c3],
     names |-> names, deleg |-> delegs, admin |-> times]

\* Two processes, one of which renames; two processes around a delegation; an
\* open beside an unlink; one process and a file system that is frozen.
MCScenarios ==
    {Scene("file", "rename", "rename", None, {na, nb}, {}, 0)}
      \union
    {Scene(k, c1, c2, None, {na}, {}, 0) : k \in {"file", "free"},
        c1 \in {"mkdir", "exchange"}, c2 \in {"exchange", "noreplace", "rmdir"}}
      \union
    {Scene("file", c1, c2, None, {na}, {3}, 0) : c1 \in {"link", "unlink"},
        c2 \in {"link", "unlink", "rename"}}
      \union
    {Scene(k, c, "unlink", None, {nb}, {}, 0) : k \in {"file", "link"},
        c \in Opens \union {"tmpfile"}}
      \union
    {Scene(k, c, None, None, {na, nb, Dots}, {}, 1) : k \in {"file", "link"}, c \in AllCalls}

=============================================================================
