------------------------------- MODULE Repair -------------------------------
(***************************************************************************)
(* What the runner may expect of a Recoverable (internal/agent), whatever  *)
(* model drives it: the abstract specification that Recovery implements    *)
(* and that Conveyor composes with the runner.                             *)
(*                                                                         *)
(* A recovery is refused with the tree untouched, kept with whatever it    *)
(* wrote, or failed.  A failed one is undone, or abandoned where git fails *)
(* to undo it; the caller sees the same error for both.                    *)
(***************************************************************************)
CONSTANTS
    File,       \* paths of the repository
    Tracked,    \* those git tracks
    Content,    \* what a file can hold
    Absent      \* no such file

VARIABLES
    tree,       \* the working tree
    before,     \* the working tree when the recovery began
    outcome,    \* of the last recovery, or "working"
    rollbackErr \* the undo failed; the caller is not told

vars == <<tree, before, outcome, rollbackErr>>

Tree == [File -> Content \cup {Absent}]

Init ==
    /\ tree \in Tree
    /\ before = tree
    /\ outcome = "none"
    /\ rollbackErr = FALSE

\* Mutation: the snapshot of an earlier recovery is used again.
BeginStale ==
    /\ outcome \in {"none", "kept"}
    /\ outcome' = "working"
    /\ before' = IF outcome = "none" THEN tree ELSE before
    /\ rollbackErr' = FALSE
    /\ UNCHANGED tree

\* Recover is called; again only after a repair that was kept.
Begin ==
    /\ outcome \in {"none", "kept"}
    /\ outcome' = "working"
    /\ before' = tree
    /\ rollbackErr' = FALSE
    /\ UNCHANGED tree

\* The model writes a file.
Edit ==
    /\ outcome = "working"
    /\ \E f \in File, c \in Content : tree' = [tree EXCEPT ![f] = c]
    /\ UNCHANGED <<before, outcome, rollbackErr>>

End(how) == outcome = "working" /\ outcome' = how

\* Recover returns the stage's own error.
Refuse ==
    /\ tree = before
    /\ End("refused")
    /\ UNCHANGED <<tree, before, rollbackErr>>

\* Recover returns nil.
Keep ==
    /\ End("kept")
    /\ UNCHANGED <<tree, before, rollbackErr>>

\* Recover returns an error of its own, after a rollback of every file that
\* the snapshot holds.
Undo ==
    /\ End("failed")
    /\ tree' = [f \in File |-> IF f \in Tracked /\ before[f] # Absent THEN before[f] ELSE tree[f]]
    /\ rollbackErr' = FALSE
    /\ UNCHANGED before

\* What a failed rollback may leave of a file: what the recovery wrote, what
\* it found, or nothing, where git removed the file to write it anew.
Leftover(f) == {tree[f]} \cup (IF f \in Tracked /\ before[f] # Absent THEN {before[f], Absent} ELSE {})

\* The same, where the rollback failed.
Abandon ==
    /\ End("failed")
    /\ tree' \in Tree
    /\ \A f \in File : tree'[f] \in Leftover(f)
    /\ rollbackErr' = TRUE
    /\ UNCHANGED before

Next == Begin \/ Edit \/ Refuse \/ Keep \/ Undo \/ Abandon

Spec == Init /\ [][Next]_vars
=============================================================================
