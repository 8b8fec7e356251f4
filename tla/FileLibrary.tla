---------------------------- MODULE FileLibrary ----------------------------
(***************************************************************************)
(* What the members of an organization are promised about its files,       *)
(* without storage, locks, leases and maintenance: a write they asked for  *)
(* takes effect at one instant, once and as a whole, against the revision  *)
(* they had read, or it is refused and has no effect at all.  No two files *)
(* of the folder have the same name, and what a project refers to stays.   *)
(***************************************************************************)
EXTENDS Naturals

CONSTANTS Ops, First, Home, None

VARIABLES
    files,    \* what a member sees of a file
    copies,   \* which versions live, and of which file they are
    refs,     \* versions some project refers to
    asked,    \* what each operation is to do
    outcome   \* "none", "pending", "done" or "refused"

vars == <<files, copies, refs, asked, outcome>>

Ids == Ops \cup {First}
NoFile == [state |-> "absent", path |-> None, current |-> None, rev |-> 0]
NoCopy == [state |-> "unborn", file |-> None]

Init ==
    /\ files = [f \in Ids |-> IF f = First
          THEN [state |-> "active", path |-> Home, current |-> First, rev |-> 1] ELSE NoFile]
    /\ copies = [v \in Ids |-> IF v = First
          THEN [state |-> "live", file |-> First] ELSE NoCopy]
    /\ refs = {}
    /\ outcome = [o \in Ops |-> "none"]

CopiesOf(f) == {v \in Ids : copies[v].state = "live" /\ copies[v].file = f}
Unreferenced(f) == CopiesOf(f) \cap refs = {}
NameFree(p, f) == \A g \in Ids \ {f} : ~(files[g].state = "active" /\ files[g].path = p)
AsRead(o) == files[asked[o].file].rev = asked[o].rev

\* Who changes a file makes a revision of it.
Becomes(f, state, path, current) ==
    files' = [files EXCEPT ![f] = [state |-> state, path |-> path, current |-> current,
                                   rev |-> files[f].rev + 1]]
Gone(set) ==
    copies' = [v \in Ids |-> IF v \in set THEN [state |-> "purged", file |-> copies[v].file]
                             ELSE copies[v]]

-----------------------------------------------------------------------------
(* What an operation does to the files *)

Upload(o) ==
    /\ asked[o].kind = "upload" /\ files[o].state = "absent" /\ copies[o].state = "unborn"
    /\ NameFree(asked[o].path, o)
    /\ files' = [files EXCEPT ![o] =
                    [state |-> "active", path |-> asked[o].path, current |-> o, rev |-> 1]]
    /\ copies' = [copies EXCEPT ![o] = [state |-> "live", file |-> o]]

\* The old version stays, as history.
Overwrite(o) ==
    LET f == asked[o].file
    IN  /\ asked[o].kind = "overwrite" /\ AsRead(o)
        /\ files[f].state = "active" /\ copies[o].state = "unborn"
        /\ Becomes(f, "active", files[f].path, o)
        /\ copies' = [copies EXCEPT ![o] = [state |-> "live", file |-> f]]

Move(o) ==
    LET f == asked[o].file
    IN  /\ asked[o].kind = "move" /\ AsRead(o)
        /\ files[f].state = "active" /\ NameFree(asked[o].path, f)
        /\ Becomes(f, "active", asked[o].path, files[f].current)
        /\ UNCHANGED copies

Trash(o) ==
    LET f == asked[o].file
    IN  /\ asked[o].kind = "trash" /\ AsRead(o)
        /\ files[f].state = "active" /\ Unreferenced(f)
        /\ Becomes(f, "trashed", files[f].path, files[f].current)
        /\ UNCHANGED copies

Restore(o) ==
    LET f == asked[o].file
    IN  /\ asked[o].kind = "restore" /\ AsRead(o)
        /\ files[f].state = "trashed" /\ NameFree(asked[o].path, f)
        /\ Becomes(f, "active", asked[o].path, files[f].current)
        /\ UNCHANGED copies

\* A file in the trash goes with every version it has.  The end of its term
\* in the trash is nobody's revision.
Purge(o) ==
    LET f == asked[o].file
    IN  /\ asked[o].kind \in {"purge", "trash_purge"}
        /\ asked[o].kind = "purge" => AsRead(o)
        /\ files[f].state = "trashed" /\ Unreferenced(f)
        /\ Becomes(f, "purged", files[f].path, files[f].current)
        /\ Gone(CopiesOf(f))

\* Superseded versions go at the end of their term, the file stays as it is.
PurgeHistory(o) ==
    LET f == asked[o].file
    IN  /\ asked[o].kind = "history_purge"
        /\ \E set \in SUBSET (CopiesOf(f) \ ({files[f].current} \cup refs)) : set # {} /\ Gone(set)
        /\ UNCHANGED files

-----------------------------------------------------------------------------
(* The life of an operation, and the projects *)

\* What is asked for is the member's to choose.
Ask(o) ==
    /\ outcome[o] = "none"
    /\ outcome' = [outcome EXCEPT ![o] = "pending"]
    /\ \A q \in Ops \ {o} : asked'[q] = asked[q]
    /\ UNCHANGED <<files, copies, refs>>

TakeEffect(o) ==
    /\ outcome[o] = "pending"
    /\ \/ Upload(o) \/ Overwrite(o) \/ Move(o) \/ Trash(o) \/ Restore(o)
       \/ Purge(o) \/ PurgeHistory(o)
    /\ outcome' = [outcome EXCEPT ![o] = "done"]
    /\ UNCHANGED <<refs, asked>>

Refuse(o) ==
    /\ outcome[o] = "pending"
    /\ outcome' = [outcome EXCEPT ![o] = "refused"]
    /\ UNCHANGED <<files, copies, refs, asked>>

Refer(v) ==
    /\ v \notin refs /\ copies[v].state = "live" /\ files[copies[v].file].state = "active"
    /\ refs' = refs \cup {v}
    /\ UNCHANGED <<files, copies, asked, outcome>>

Unrefer(v) ==
    /\ v \in refs
    /\ refs' = refs \ {v}
    /\ UNCHANGED <<files, copies, asked, outcome>>

Next ==
    \/ \E o \in Ops : Ask(o) \/ TakeEffect(o) \/ Refuse(o)
    \/ \E v \in Ids : Refer(v) \/ Unrefer(v)

Spec == Init /\ [][Next]_vars
=============================================================================
