------------------------------- MODULE Readdir -------------------------------
(***************************************************************************)
(* Listing a directory: ffs_readdir of file.c and the three functions it   *)
(* calls, read_dir_dirs of dir.c, read_dir_files and read_big_dir_files of *)
(* lba.c.                                                                  *)
(*                                                                         *)
(* Where a listing has got to is kept in three cursors of the directory:   *)
(* the number of entries listed so far from the list of subdirectories,    *)
(* from the small table and from the big one.  All open files of the       *)
(* directory share them; of its own an open file has only ctx->pos, which  *)
(* is 0 at the first call.  Calls of several open files run at once, for   *)
(* ->iterate_shared is set and the VFS takes i_rwsem shared; creates and   *)
(* removals take it exclusively, but the completion of an unlink's discard *)
(* clears its slot at any time.  A step ends where the code may sleep: at  *)
(* a buffer or in the copy to the reader.                                  *)
(*                                                                         *)
(* An entry is the place it stands at: a cell of the list of               *)
(* subdirectories, counted from its head, or a slot of a table.  What is   *)
(* emitted for it is left out: the names of files are taken from the block *)
(* whose number is the inode number, which is not the block                *)
(* ffs_dirty_inode wrote.  So is the -EIO of read_dir_dirs, which          *)
(* ffs_readdir ignores.  Which directories the list holds is what DirTree  *)
(* models, and they are not all that exist.                                *)
(***************************************************************************)
EXTENDS Integers, FiniteSets

CONSTANTS
    Readers,      \* open files of the directory
    MaxCells,     \* bound: cells of the list of subdirectories
    NB,           \* 1 << MIN_FILE_BUCKET_BITS
    NBig,         \* 1 << (MIN_FILE_BUCKET_BITS + MIN_DIR_BITS)
    NS,           \* 1 << FILE_SLOT_BITS
    MaxChanges,   \* bound: changes of the directory
    Nobody

ASSUME ListAssumption ==
    /\ NB \in Nat \ {0} /\ NBig \in Nat \ {0} /\ NS \in Nat \ {0} /\ MaxCells \in Nat
    /\ Nobody \notin Readers

VARIABLES
    cells,        \* how many cells a walk from subdirs->head visits
    slots,        \* [Tables -> the occupied slots], the slot bitmaps
    is_big_dir,   \* the directory has a big table
    pos,          \* [Parts -> the cursor]: de->pos and hashtbl->pos of each table
    file,         \* [Readers -> the open file and the call that runs on it]
    changes,      \* how often the directory has changed
    alone,        \* the reader that is the only one since it began its listing
    got,          \* [Entries -> how often the reader "alone" was given the entry]
    dropped       \* an entry did not fit into its buffer

dirVars == <<cells, slots, is_big_dir, changes>>
seenVars == <<alone, got, dropped>>
vars == <<dirVars, pos, file, seenVars>>

\* A slot of a table is bucket * NS + slot, its place in the order of the loops.
Size == [small |-> NB * NS, big |-> NBig * NS]
Tables == DOMAIN Size
Parts == Tables \union {"dirs"}
Entries == {<<"dirs", x>> : x \in 0 .. MaxCells - 1}
             \union UNION {{<<t, x>> : x \in 0 .. Size[t] - 1} : t \in Tables}

\* The part an open file's call is in ("rest" between two calls), whether ctx->pos is
\* not 0, was not 0 when the call began, and has moved since; the place the loop is at,
\* whether the buffer is full, and whether a call has found nothing, which ends the
\* listing.
Rewound == [pc |-> "rest", ctx |-> FALSE, later |-> FALSE, moved |-> FALSE, at |-> 0,
            full |-> FALSE, ended |-> FALSE]

\* The places of a part that hold an entry.
Occupied(part) == IF part = "dirs" THEN 0 .. cells - 1 ELSE slots[part]
Present == UNION {{<<part, p>> : p \in Occupied(part)} : part \in Parts}
End(part) == IF part = "dirs" THEN cells ELSE Size[part]

-----------------------------------------------------------------------------
(* A call of ffs_readdir *)

\* The place behind the first n entries of a part, or its end.  Mutant: the one
\* before it.
Behind(part, n) ==
    LET ends == {p \in 0 .. End(part) : Cardinality({x \in Occupied(part) : x < p}) >= n}
    IN IF ends = {} THEN End(part) ELSE CHOOSE p \in ends : \A q \in ends : p <= q
MutTooEarly(part) == Behind(part, IF pos[part] = 0 THEN 0 ELSE pos[part] - 1)
Resume(part) == Behind(part, pos[part])

\* Reader r begins or goes on with its listing: is it the only one?
BeginAlone(r) ==
    LET goesOn == alone = r /\ file[r].ctx
        begins == ~file[r].ctx /\ \A o \in Readers \ {r} : file[o].pc = "rest"
    IN
    /\ alone' = IF goesOn \/ begins THEN r ELSE Nobody
    /\ got' = IF goesOn THEN got ELSE [e \in Entries |-> 0]
    /\ dropped' = (goesOn /\ dropped)

\* The start: at ctx->pos 0 the cursors are reset, here and in read_dir_dirs.  Mutant:
\* the big table's is not.
MutKeepBig(r) == IF ~file[r].ctx THEN [pos EXCEPT !["dirs"] = 0, !["small"] = 0] ELSE pos
Reset(r) ==
    [part \in Parts |->
       IF ~file[r].ctx /\ (part = "big" => is_big_dir) THEN 0 ELSE pos[part]]

ffs_readdir(r) ==
    /\ file[r].pc = "rest" /\ ~file[r].ended
    /\ pos' = Reset(r)
    /\ file' = [file EXCEPT ![r] = [Rewound EXCEPT !.pc = "dirs", !.ctx = file[r].ctx,
                                    !.later = file[r].ctx,
                                    !.at = IF file[r].ctx THEN Resume("dirs") ELSE 0]]
    /\ BeginAlone(r)
    /\ UNCHANGED dirVars

\* dir_emit of the next entry.  It fails when the reader's buffer is full, which is
\* not looked at: ctx->pos and the cursor advance in any case.
Emit(r, part) ==
    \E p \in Occupied(part), full \in BOOLEAN :
        /\ file[r].at <= p /\ \A q \in Occupied(part) : q < p => q < file[r].at
        /\ file[r].full => full
        /\ file' = [file EXCEPT ![r] = [@ EXCEPT !.ctx = TRUE, !.moved = TRUE,
                                                !.at = p + 1, !.full = full]]
        /\ pos' = [pos EXCEPT ![part] = @ + 1]
        /\ got' = IF r = alone /\ ~full THEN [got EXCEPT ![<<part, p>>] = @ + 1] ELSE got
        /\ dropped' = (dropped \/ (r = alone /\ full))
        /\ UNCHANGED alone

\* The loop has reached the end of its part, and the call goes on with the next.
Enter(r, part) ==
    /\ file' = [file EXCEPT ![r] = [@ EXCEPT !.pc = part, !.at = Resume(part)]]
    /\ UNCHANGED <<pos, seenVars>>
Leave(r) ==
    /\ file' = [file EXCEPT ![r] = [Rewound EXCEPT !.ctx = file[r].ctx,
                                                    !.ended = ~file[r].moved]]
    /\ UNCHANGED <<pos, seenVars>>
AtEnd(r, part) == \A p \in Occupied(part) : p < file[r].at

read_dir_dirs(r) ==
    /\ file[r].pc = "dirs"
    /\ Emit(r, "dirs") \/ (AtEnd(r, "dirs") /\ Enter(r, "small"))
    /\ UNCHANGED dirVars

read_dir_files(r) ==
    /\ file[r].pc = "small"
    /\ \/ Emit(r, "small")
       \/ AtEnd(r, "small") /\ is_big_dir /\ Enter(r, "big")
       \/ AtEnd(r, "small") /\ ~is_big_dir /\ Leave(r)
    /\ UNCHANGED dirVars

read_big_dir_files(r) ==
    /\ file[r].pc = "big"
    /\ Emit(r, "big") \/ (AtEnd(r, "big") /\ Leave(r))
    /\ UNCHANGED dirVars

\* lseek to 0, or close and a new open.
Rewind(r) ==
    /\ file[r].pc = "rest" /\ file[r] # Rewound
    /\ file' = [file EXCEPT ![r] = Rewound]
    /\ alone' = IF alone = r THEN Nobody ELSE alone
    /\ got' = IF alone = r THEN [e \in Entries |-> 0] ELSE got
    /\ dropped' = (dropped /\ alone # r)
    /\ UNCHANGED <<dirVars, pos>>

-----------------------------------------------------------------------------
(* Changes of the directory *)

Changed ==
    /\ changes < MaxChanges
    /\ changes' = changes + 1
    /\ alone' = Nobody /\ got' = [e \in Entries |-> 0] /\ dropped' = FALSE
    /\ UNCHANGED file
Locked == \A r \in Readers : file[r].pc = "rest"

\* ffs_mknod on a file: a slot of the table in use is taken.  The directory may become
\* big first; the cursor of a table that vmalloc returned is whatever memory held.
Create ==
    /\ Locked
    /\ \E big \in {is_big_dir, TRUE}, x \in 0 .. Size["big"] - 1 :
        LET t == IF big THEN "big" ELSE "small" IN
        /\ x < Size[t] /\ x \notin slots[t]
        /\ slots' = [slots EXCEPT ![t] = @ \union {x}]
        /\ is_big_dir' = big
        /\ IF big = is_big_dir THEN UNCHANGED pos
           ELSE \E n \in 0 .. Size["big"] : pos' = [pos EXCEPT !["big"] = n]
    /\ UNCHANGED cells
    /\ Changed

\* delete_file and delete_big_file, from the completion of a discard.
SlotCleared ==
    /\ \E t \in Tables : \E x \in slots[t] : slots' = [slots EXCEPT ![t] = @ \ {x}]
    /\ UNCHANGED <<cells, is_big_dir, pos>>
    /\ Changed

\* mkdir and rmdir, as a walk of the list sees them: one cell more or fewer; as many,
\* where insert_dir has appended behind a tail that remove_dir left at a freed cell; or
\* others, where remove_dir has set the tail or a link too early.  A directory whose
\* stale tail is a cell of this list appends to it without this directory's i_rwsem.
SubdirChange ==
    /\ cells' \in 0 .. MaxCells
    /\ UNCHANGED <<slots, is_big_dir, pos>>
    /\ Changed

-----------------------------------------------------------------------------

\* Any directory, with the cursors as an earlier listing may have left them.
Init ==
    /\ cells \in 0 .. MaxCells
    /\ is_big_dir \in BOOLEAN
    /\ slots \in [Tables -> SUBSET (0 .. Size["big"] - 1)]
    /\ \A t \in Tables : slots[t] \subseteq 0 .. Size[t] - 1
    /\ ~is_big_dir => slots["big"] = {}
    /\ pos = [part \in Parts |-> Cardinality(Occupied(part))]
    /\ file = [r \in Readers |-> Rewound]
    /\ changes = 0
    /\ alone = Nobody /\ got = [e \in Entries |-> 0] /\ dropped = FALSE

Next ==
    \/ \E r \in Readers :
         \/ ffs_readdir(r) \/ read_dir_dirs(r) \/ read_dir_files(r)
         \/ read_big_dir_files(r) \/ Rewind(r)
    \/ Create \/ SlotCleared \/ SubdirChange

Spec == Init /\ [][Next]_vars

-----------------------------------------------------------------------------
(* Properties *)

\* A reader that has the directory to itself, and whose directory does not change, is
\* given no entry of the list or the tables twice, whatever listings and changes there
\* were before, and when its listing ends it has been given all of them, unless its
\* buffer was too small (the cursors of ffs_readdir against its three loops).
Listing ==
    alone # Nobody =>
        /\ \A e \in Entries : got[e] <= 1
        /\ file[alone].ended /\ ~dropped => \A e \in Present : got[e] = 1

\* The listing of such a reader ends: its second call finds nothing more, even when
\* the buffer of the first was too small (the skipping of read_dir_dirs,
\* read_dir_files and read_big_dir_files).
SecondCallEmpty ==
    alone # Nobody /\ file[alone].later => ~file[alone].moved

=============================================================================
