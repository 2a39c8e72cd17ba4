------------------------------ MODULE Recovery ------------------------------
(***************************************************************************)
(* One recovery of a failed stage, as internal/agent runs it: triage by a  *)
(* cheap classifier (TriagedRecovery), dispatch by stage (StageRecovery),  *)
(* and the fixer of the stage (FixTest, FixBuild, GenerateDockerfile,      *)
(* FixWorkflow): snapshot, bounded tool loop, verification, and either a   *)
(* kept fix or a rollback.                                                 *)
(*                                                                         *)
(* The four fixers share one control flow; they differ in how they verify  *)
(* (build and test run a command under the context, the other two look at  *)
(* files) and in whether a kept fix is added to the fix history.           *)
(*                                                                         *)
(* The repository is a function from files to contents.  The model's       *)
(* replies, the verdict of a verification and git's failures are open.     *)
(***************************************************************************)
EXTENDS Integers

CONSTANTS
    File,           \* paths the agent can read or write
    Tracked,        \* those git tracks
    Content,        \* what a file can hold
    Absent,         \* no such file
    Triaged,        \* a classifier is configured
    MaxIterations,  \* model calls per tool loop
    MaxToolCalls,   \* bound of the model: tool calls in one reply
    MaxParts        \* bound of the model: parts of a classifier's reply, see Reply

ASSUME RecoveryAssumption ==
    /\ Tracked \subseteq File
    /\ Absent \notin Content
    /\ Triaged \in BOOLEAN
    /\ MaxIterations \in Nat \ {0}
    /\ MaxToolCalls \in Nat \ {0}
    /\ MaxParts \in Nat

VARIABLES
    stage,      \* the stage being recovered
    pc,         \* where Recover is, or how it returned
    tier,       \* whose model the fixer drives
    snapshot,   \* the tree the snapshot stands for
    named,      \* the snapshot's name is one git can resolve
    iter,       \* model calls of the tool loop so far
    calls,      \* tool calls of the current reply still to run
    tree,       \* the working tree
    before,     \* the working tree when Recover was called
    ctxDone,    \* the pipeline context is cancelled
    spent,      \* model calls per model, for this recovery
    rollbackErr,    \* git checkout failed; its error is dropped by the fixer
    recorded    \* what a history entry was appended of

vars == <<stage, pc, tier, snapshot, named, iter, calls, tree, before, ctxDone, spent, rollbackErr, recorded>>

Model == {"classifier", "cheap", "strong"}
FixerStage == {"build", "test", "docker-build", "workflow"}
StageName == FixerStage \cup {"docker-push", "deploy", "health-check"}
Tree == [File -> Content \cup {Absent}]

\* Stages whose fix is verified by a command that dies with the context, and
\* recorded in the fix history.
CommandVerified == {"build", "test"}

Returned == {"refused", "failed", "kept"}

Init ==
    /\ stage \in StageName
    /\ pc = "idle"
    /\ tier = "cheap"
    /\ tree \in Tree
    /\ before = tree
    /\ snapshot = tree
    /\ named = FALSE
    /\ iter = 0
    /\ calls = 0
    /\ ctxDone = FALSE
    /\ spent = [m \in Model |-> 0]
    /\ rollbackErr = FALSE
    /\ recorded = "nothing"

\* Mutation: a recovery that returned an error is tried again.
CallAfterFailure(s) ==
    /\ pc \in {"idle", "kept", "failed"}
    /\ stage' = s
    /\ pc' = IF Triaged THEN "triage" ELSE "dispatch"
    /\ tier' = "cheap"
    /\ before' = tree
    /\ iter' = 0
    /\ calls' = 0
    /\ spent' = [m \in Model |-> 0]
    /\ rollbackErr' = FALSE
    /\ recorded' = "nothing"
    /\ UNCHANGED <<snapshot, named, tree, ctxDone>>

\* The runner calls Recover for the failed stage s; it calls again when the
\* stage still fails after a kept fix.
Call(s) ==
    /\ pc \in {"idle", "kept"}
    /\ stage' = s
    /\ pc' = IF Triaged THEN "triage" ELSE "dispatch"
    /\ tier' = "cheap"
    /\ before' = tree
    /\ iter' = 0
    /\ calls' = 0
    /\ spent' = [m \in Model |-> 0]
    /\ rollbackErr' = FALSE
    /\ recorded' = "nothing"
    /\ UNCHANGED <<snapshot, named, tree, ctxDone>>

\* A signal, at any time.
Cancel ==
    /\ ~ctxDone
    /\ ctxDone' = TRUE
    /\ UNCHANGED <<stage, pc, tier, snapshot, named, iter, calls, tree, before, spent, rollbackErr, recorded>>
-----------------------------------------------------------------------------
(* Triage and dispatch.                                                    *)

Classify(class) ==
    /\ pc = "triage"
    /\ spent' = [spent EXCEPT !["classifier"] = @ + 1]
    /\ pc' = IF class = "not-fixable" THEN "refused" ELSE "dispatch"
    /\ tier' = IF class = "trivial" THEN "cheap" ELSE "strong"
    /\ UNCHANGED <<stage, snapshot, named, iter, calls, tree, before, ctxDone, rollbackErr, recorded>>

Rd == INSTANCE Reply

\* The classifier answers; while the context is alive.
ClassifierReplies ==
    /\ ~ctxDone
    /\ \E class \in Rd!Classes : Classify(class)

\* Mutation: a classifier that fails is asked again, for as long as it fails.
ClassifierAskedAgain == pc = "triage" /\ UNCHANGED vars

\* A failed call or a reply that does not parse counts as complex.
ClassifierFails == Classify("complex")

Dispatch ==
    /\ pc = "dispatch"
    /\ pc' = IF stage \in FixerStage THEN "snapshot" ELSE "refused"
    /\ UNCHANGED <<stage, tier, snapshot, named, iter, calls, tree, before, ctxDone, spent, rollbackErr, recorded>>
-----------------------------------------------------------------------------
(* The fixer.                                                              *)

\* git stash create: tracked changes as they are in the working tree.  Its
\* stderr is read as part of the name, which may make the name unusable.
TakeSnapshot ==
    /\ pc = "snapshot"
    /\ ~ctxDone
    /\ snapshot' = tree
    /\ named' \in BOOLEAN
    /\ pc' = "generate"
    /\ UNCHANGED <<stage, tier, iter, calls, tree, before, ctxDone, spent, rollbackErr, recorded>>

\* git fails or was cancelled, or RepoTools fails: nothing was touched.
SnapshotFails ==
    /\ pc = "snapshot"
    /\ pc' = "failed"
    /\ UNCHANGED <<stage, tier, snapshot, named, iter, calls, tree, before, ctxDone, spent, rollbackErr, recorded>>

\* A call of bound.Generate that ended, whatever its outcome.
Generated ==
    /\ pc = "generate"
    /\ iter' = iter + 1
    /\ spent' = [spent EXCEPT ![tier] = @ + 1]
    /\ UNCHANGED <<stage, tier, snapshot, named, tree, before, ctxDone, rollbackErr, recorded>>

\* The reply holds tool calls.
ReplyWithTools ==
    /\ ~ctxDone
    /\ Generated
    /\ calls' \in 1..MaxToolCalls
    /\ pc' = "tools"

\* The reply holds none: the model is done.
ReplyDone ==
    /\ ~ctxDone
    /\ Generated
    /\ UNCHANGED calls
    /\ pc' = "verify"

\* Generate returns an error, as it does once the context is cancelled.
GenerateFails ==
    /\ Generated
    /\ UNCHANGED calls
    /\ pc' = "rollback"

\* Mutation: one iteration too many.
AfterToolsOnceMore ==
    IF calls > 1 THEN "tools" ELSE IF iter <= MaxIterations THEN "generate" ELSE "verify"

\* Where the loop is after a tool call; exhaustion is left to verification.
AfterTools ==
    IF calls > 1 THEN "tools" ELSE IF iter < MaxIterations THEN "generate" ELSE "verify"

\* One tool call: a write, or one that leaves the tree alone (a read, a
\* failed write, an unknown tool).  Tools do not look at the context.
RunTool ==
    /\ pc = "tools"
    /\ \/ UNCHANGED tree
       \/ \E f \in File, c \in Content : tree' = [tree EXCEPT ![f] = c]
    /\ calls' = calls - 1
    /\ pc' = AfterTools
    /\ UNCHANGED <<stage, tier, snapshot, named, iter, before, ctxDone, spent, rollbackErr, recorded>>

\* Verification passes; go build and go test cannot under a dead context.
VerifyPasses ==
    /\ pc = "verify"
    /\ stage \in CommandVerified => ~ctxDone
    /\ pc' = "record"
    /\ UNCHANGED <<stage, tier, snapshot, named, iter, calls, tree, before, ctxDone, spent, rollbackErr, recorded>>

\* Mutation: a fix that fails verification is left in the tree.
VerifyFailsKeepsTree ==
    /\ pc = "verify"
    /\ pc' = "failed"
    /\ UNCHANGED <<stage, tier, snapshot, named, iter, calls, tree, before, ctxDone, spent, rollbackErr, recorded>>

VerifyFails ==
    /\ pc = "verify"
    /\ pc' = "rollback"
    /\ UNCHANGED <<stage, tier, snapshot, named, iter, calls, tree, before, ctxDone, spent, rollbackErr, recorded>>

\* Mutation: the error of git diff is ignored, its message taken for a diff.
DiffErrorIgnored ==
    IF named /\ \E f \in Tracked : tree[f] # snapshot[f] THEN {"diff"} ELSE {"nothing", "stderr"}

\* What a git diff snapshot that succeeds may print: the difference in tracked
\* files, or, its stderr being read as output, no more than a warning.
Diff ==
    IF ctxDone \/ ~named
      THEN {"nothing"}
      ELSE IF \E f \in Tracked : tree[f] # snapshot[f] THEN {"diff"} ELSE {"nothing", "stderr"}

\* The verified fix is kept.  For build and test only, whatever git diff
\* printed makes a history entry; git may fail, or the entry may fail to be
\* written, and nobody is told.
RecordFix ==
    /\ pc = "record"
    /\ recorded' \in {"nothing"} \cup (IF stage \in CommandVerified THEN Diff ELSE {})
    /\ pc' = "kept"
    /\ UNCHANGED <<stage, tier, snapshot, named, iter, calls, tree, before, ctxDone, spent, rollbackErr>>

\* Files that git checkout restores.
Restorable == {f \in Tracked : snapshot[f] # Absent}

\* Mutation: git clean after the checkout.
RestoredAndCleaned(files) ==
    [f \in File |-> IF f \in files THEN snapshot[f] ELSE IF f \in Tracked THEN tree[f] ELSE Absent]

\* The tree after git checkout has written back the given files.
Restored(files) == [f \in File |-> IF f \in files THEN snapshot[f] ELSE tree[f]]

\* git checkout snapshot -- . under the caller's context.  It fails without
\* touching a file once that is cancelled, or if the name cannot be resolved.
\* The caller drops its error.
Rollback ==
    /\ pc = "rollback"
    /\ tree' = IF ctxDone \/ ~named THEN tree ELSE Restored(Restorable)
    /\ rollbackErr' = (ctxDone \/ ~named)
    /\ pc' = "failed"
    /\ UNCHANGED <<stage, tier, snapshot, named, iter, calls, before, ctxDone, spent, recorded>>

\* git checkout fails at its start or half-way: of its own (a locked index, a
\* full disk, a file it may not write) or killed by a signal.  Some files are
\* written back, one may have been removed to be written anew.
RollbackFails ==
    /\ pc = "rollback"
    /\ ~ctxDone
    /\ named
    /\ ctxDone' \in BOOLEAN
    /\ \E files \in SUBSET Restorable :
         \/ tree' = Restored(files)
         \/ \E f \in Restorable \ files : tree' = [Restored(files) EXCEPT ![f] = Absent]
    /\ rollbackErr' = TRUE
    /\ pc' = "failed"
    /\ UNCHANGED <<stage, tier, snapshot, named, iter, calls, before, spent, recorded>>
-----------------------------------------------------------------------------
ModelReplies == ClassifierReplies \/ ReplyWithTools \/ ReplyDone
ModelFails == ClassifierFails \/ GenerateFails

\* What goes on without the model.
Control ==
    \/ Dispatch
    \/ TakeSnapshot
    \/ SnapshotFails
    \/ RunTool
    \/ VerifyPasses
    \/ VerifyFails
    \/ RecordFix
    \/ Rollback
    \/ RollbackFails

Next ==
    \/ \E s \in StageName : Call(s)
    \/ Cancel
    \/ ModelReplies
    \/ ModelFails
    \/ Control

Spec == Init /\ [][Next]_vars

\* Tools, git and the verification return; a model call returns once its
\* context is cancelled.  Nothing is promised of a call that is not.
FairSpec == Spec /\ WF_vars(Control) /\ WF_vars(ctxDone /\ ModelFails)
-----------------------------------------------------------------------------
\* Every variable has its type; no tool loop makes more than MaxIterations calls.
TypeOK ==
    /\ stage \in StageName
    /\ pc \in {"idle", "triage", "dispatch", "snapshot", "generate", "tools", "verify",
               "record", "rollback"} \cup Returned
    /\ tier \in {"cheap", "strong"}
    /\ snapshot \in Tree
    /\ named \in BOOLEAN
    /\ iter \in 0..MaxIterations
    /\ calls \in 0..MaxToolCalls
    /\ tree \in Tree
    /\ before \in Tree
    /\ ctxDone \in BOOLEAN
    /\ spent \in [Model -> Nat]
    /\ rollbackErr \in BOOLEAN
    /\ recorded \in {"nothing", "diff", "stderr"}

\* Every file git can restore is as it was before the recovery.
TrackedRestored == \A f \in Tracked : before[f] # Absent => tree[f] = before[f]

\* A repair that failed leaves no trace in tracked files, unless git checkout
\* failed.  The condition is the weak spot of the code: the fixers drop that
\* error, so neither the runner nor the reader of its log can tell the two.
FailedRepairRestored == pc = "failed" /\ ~rollbackErr => TrackedRestored

\* A recovery that was refused, by the classifier or for want of a fixer, has
\* touched nothing and called no fixer's model.
RefusalTouchesNothing ==
    pc = "refused" => tree = before /\ spent["cheap"] = 0 /\ spent["strong"] = 0

\* One recovery costs at most one classification, made only when triage is
\* configured, and MaxIterations calls of one fixer's model; the strong model
\* is never paid for without triage.
ModelBudget ==
    /\ spent["classifier"] <= IF Triaged THEN 1 ELSE 0
    /\ spent["cheap"] + spent["strong"] <= MaxIterations
    /\ spent["cheap"] > 0 => spent["strong"] = 0
    /\ spent["strong"] > 0 => Triaged /\ spent["classifier"] = 1

\* The history teaches later recoveries only from repairs that passed their
\* verification, never from git's message that there is no such snapshot; an
\* entry that shows a difference shows one to the tree the recovery began with.
HistoryIsOfVerifiedFixes ==
    /\ recorded # "nothing" => pc = "kept" /\ stage \in CommandVerified /\ named
    /\ recorded = "diff" => \E f \in Tracked : tree[f] # before[f]

\* No recovery, failed or kept, interrupted or not, deletes a file that git
\* does not know: the reason the rollback is a checkout without a clean.
UntrackedSurvive == \A f \in File \ Tracked : before[f] # Absent => tree[f] # Absent

\* Triage does with the reply it waits for what that says: an answer wrapped in
\* the ways extractJSON knows is not taken for a complex failure, and no
\* recovery is skipped for unreadable text or for a draft in a think block,
\* unless the block is the last one and was cut off, or blocks are nested.
ReplyReadAsMeant == pc = "triage" => Rd!WrappedIsRead /\ Rd!RefusalIsMeant

\* A signal ends a recovery, even one that waits for a model that hangs.
CancelEndsRecovery == ctxDone ~> pc \in Returned \cup {"idle"}

\* What the runner sees of a recovery.
outcome == IF pc = "idle" THEN "none" ELSE IF pc \in Returned THEN pc ELSE "working"

\* All that a recovery does to the tree, and how it returns, is what Repair
\* allows; the runner composed with Repair is composed with any fixer.
Rp == INSTANCE Repair
RepairImplemented == Rp!Spec

\* The promise of FixTest.Recover, "on failure or exhaustion the working tree
\* is rolled back to its pre-attempt state", for every rollback that is not
\* itself killed: a signal that came earlier is no exception.
RollbackRestores == [][Rollback /\ named => TrackedRestored']_vars
=============================================================================
