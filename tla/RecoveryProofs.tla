--------------------------- MODULE RecoveryProofs ---------------------------
(***************************************************************************)
(* The safety of a recovery for every repository, every number of model    *)
(* and tool calls, with and without triage.                                *)
(***************************************************************************)
EXTENDS Recovery, FiniteSetTheorems, SequenceTheorems, WellFoundedInduction, TLAPS

Fixing == {"generate", "tools", "verify", "record", "rollback"}

\* The tool loop stays within its budget.
LoopInv ==
    /\ pc \in {"idle", "triage", "dispatch", "snapshot"} => iter = 0
    /\ pc = "generate" => iter < MaxIterations
    /\ pc = "tools" => calls > 0

\* The tree against the one the recovery started from: untouched until the
\* fixer runs, whose snapshot is that tree, and restored where it failed.
TreeInv ==
    /\ pc \in {"idle", "triage", "dispatch", "snapshot", "refused"} => tree = before
    /\ pc \in Fixing => snapshot = before
    /\ pc # "failed" => rollbackErr = FALSE
    /\ FailedRepairRestored
    /\ UntrackedSurvive

\* The calls made so far, by model.
SpentInv ==
    /\ spent[tier] = iter
    /\ tier = "cheap" => spent["strong"] = 0
    /\ tier = "strong" => spent["cheap"] = 0 /\ Triaged /\ spent["classifier"] = 1
    /\ pc = "triage" => tier = "cheap" /\ Triaged /\ spent["classifier"] = 0
    /\ spent["classifier"] <= IF Triaged THEN 1 ELSE 0
    /\ pc = "refused" => iter = 0

IInv == TypeOK /\ LoopInv /\ TreeInv /\ SpentInv

LEMMA InitHolds == Init => IInv
<1> SUFFICES ASSUME Init PROVE IInv
  OBVIOUS
<1> USE RecoveryAssumption DEF Init
<1>1. TypeOK
  <2>1. spent \in [Model -> Nat] /\ iter \in 0..MaxIterations /\ calls \in 0..MaxToolCalls
    OBVIOUS
  <2> QED BY <2>1 DEF TypeOK
<1>2. LoopInv
  BY DEF LoopInv
<1>3. TreeInv
  BY DEF TreeInv, Fixing, FailedRepairRestored, UntrackedSurvive
<1>4. SpentInv
  BY DEF SpentInv, Model
<1> QED BY <1>1, <1>2, <1>3, <1>4 DEF IInv

\* Whatever git checkout writes back, or fails to, untracked files stay as
\* they are, and what is written back is the snapshot.
LEMMA CheckoutKeepsUntracked ==
    ASSUME TypeOK, NEW files \in SUBSET Restorable
    PROVE  /\ Restored(files) \in Tree
           /\ \A f \in File \ Tracked : Restored(files)[f] = tree[f]
           /\ \A f \in files : Restored(files)[f] = snapshot[f]
BY RecoveryAssumption DEF Restored, Restorable, Tree, TypeOK

\* The inductive step, one case per action.
LEMMA StepHolds == IInv /\ [Next]_vars => IInv'
<1> SUFFICES ASSUME IInv, [Next]_vars PROVE IInv'
  OBVIOUS
<1> USE RecoveryAssumption DEF IInv, Returned
<1>1. ASSUME NEW s \in StageName, Call(s) PROVE IInv'
  <2>1. TypeOK'
    <3>1. spent' \in [Model -> Nat] /\ iter' \in 0..MaxIterations /\ calls' \in 0..MaxToolCalls
      BY <1>1 DEF Call
    <3> QED BY <1>1, <3>1 DEF Call, TypeOK
  <2>2. LoopInv'
    BY <1>1 DEF Call, TypeOK, LoopInv
  <2>3. TreeInv'
    BY <1>1 DEF Call, TypeOK, TreeInv, Fixing, FailedRepairRestored, UntrackedSurvive, TrackedRestored
  <2>4. SpentInv'
    BY <1>1 DEF Call, TypeOK, LoopInv, SpentInv, Model
  <2> QED BY <2>1, <2>2, <2>3, <2>4 DEF IInv
<1>2. CASE Cancel
  <2>1. TypeOK'
    BY <1>2 DEF Cancel, TypeOK
  <2>2. LoopInv'
    BY <1>2 DEF Cancel, TypeOK, LoopInv
  <2>3. TreeInv'
    BY <1>2 DEF Cancel, TypeOK, TreeInv, Fixing, FailedRepairRestored, UntrackedSurvive, TrackedRestored
  <2>4. SpentInv'
    BY <1>2 DEF Cancel, TypeOK, LoopInv, SpentInv, Model
  <2> QED BY <2>1, <2>2, <2>3, <2>4 DEF IInv
<1>3. ASSUME NEW class, Classify(class) PROVE IInv'
  <2>1. spent' \in [Model -> Nat] /\ spent' = [spent EXCEPT !["classifier"] = @ + 1]
    BY <1>3 DEF Classify, TypeOK, Model
  <2>2. TypeOK'
    BY <1>3, <2>1 DEF Classify, TypeOK
  <2>3. LoopInv'
    BY <1>3, <2>1 DEF Classify, TypeOK, LoopInv
  <2>4. TreeInv'
    BY <1>3, <2>1 DEF Classify, TypeOK, TreeInv, Fixing, FailedRepairRestored, UntrackedSurvive, TrackedRestored
  <2>5. SpentInv'
    BY <1>3, <2>1 DEF Classify, TypeOK, LoopInv, SpentInv, Model
  <2> QED BY <2>2, <2>3, <2>4, <2>5 DEF IInv
<1>4. CASE Dispatch
  <2>1. TypeOK'
    BY <1>4 DEF Dispatch, TypeOK
  <2>2. LoopInv'
    BY <1>4 DEF Dispatch, TypeOK, LoopInv
  <2>3. TreeInv'
    BY <1>4 DEF Dispatch, TypeOK, TreeInv, Fixing, FailedRepairRestored, UntrackedSurvive, TrackedRestored
  <2>4. SpentInv'
    BY <1>4 DEF Dispatch, TypeOK, LoopInv, SpentInv, Model
  <2> QED BY <2>1, <2>2, <2>3, <2>4 DEF IInv
<1>5. CASE TakeSnapshot
  <2>1. TypeOK'
    BY <1>5 DEF TakeSnapshot, TypeOK
  <2>2. LoopInv'
    BY <1>5 DEF TakeSnapshot, TypeOK, LoopInv
  <2>3. TreeInv'
    BY <1>5 DEF TakeSnapshot, TypeOK, TreeInv, Fixing, FailedRepairRestored, UntrackedSurvive, TrackedRestored
  <2>4. SpentInv'
    BY <1>5 DEF TakeSnapshot, TypeOK, LoopInv, SpentInv, Model
  <2> QED BY <2>1, <2>2, <2>3, <2>4 DEF IInv
<1>6. CASE SnapshotFails
  <2>1. TypeOK'
    BY <1>6 DEF SnapshotFails, TypeOK
  <2>2. LoopInv'
    BY <1>6 DEF SnapshotFails, TypeOK, LoopInv
  <2>3. TreeInv'
    BY <1>6 DEF SnapshotFails, TypeOK, TreeInv, Fixing, FailedRepairRestored, UntrackedSurvive, TrackedRestored
  <2>4. SpentInv'
    BY <1>6 DEF SnapshotFails, TypeOK, LoopInv, SpentInv, Model
  <2> QED BY <2>1, <2>2, <2>3, <2>4 DEF IInv
<1>7. CASE ReplyWithTools
  <2>1. iter < MaxIterations /\ iter' = iter + 1 /\ iter' \in 0..MaxIterations
    BY <1>7 DEF ReplyWithTools, Generated, LoopInv, TypeOK
  <2>2. spent' \in [Model -> Nat] /\ spent' = [spent EXCEPT ![tier] = @ + 1]
    BY <1>7 DEF ReplyWithTools, Generated, TypeOK, Model
  <2>3. TypeOK'
    BY <1>7, <2>1, <2>2 DEF ReplyWithTools, Generated, TypeOK
  <2>4. LoopInv'
    BY <1>7, <2>1, <2>2 DEF ReplyWithTools, Generated, TypeOK, LoopInv
  <2>5. TreeInv'
    BY <1>7, <2>1, <2>2 DEF ReplyWithTools, Generated, TypeOK, TreeInv, Fixing, FailedRepairRestored, UntrackedSurvive, TrackedRestored
  <2>6. SpentInv'
    BY <1>7, <2>1, <2>2 DEF ReplyWithTools, Generated, TypeOK, LoopInv, SpentInv, Model
  <2> QED BY <2>3, <2>4, <2>5, <2>6 DEF IInv
<1>8. CASE ReplyDone
  <2>1. iter < MaxIterations /\ iter' = iter + 1 /\ iter' \in 0..MaxIterations
    BY <1>8 DEF ReplyDone, Generated, LoopInv, TypeOK
  <2>2. spent' \in [Model -> Nat] /\ spent' = [spent EXCEPT ![tier] = @ + 1]
    BY <1>8 DEF ReplyDone, Generated, TypeOK, Model
  <2>3. TypeOK'
    BY <1>8, <2>1, <2>2 DEF ReplyDone, Generated, TypeOK
  <2>4. LoopInv'
    BY <1>8, <2>1, <2>2 DEF ReplyDone, Generated, TypeOK, LoopInv
  <2>5. TreeInv'
    BY <1>8, <2>1, <2>2 DEF ReplyDone, Generated, TypeOK, TreeInv, Fixing, FailedRepairRestored, UntrackedSurvive, TrackedRestored
  <2>6. SpentInv'
    BY <1>8, <2>1, <2>2 DEF ReplyDone, Generated, TypeOK, LoopInv, SpentInv, Model
  <2> QED BY <2>3, <2>4, <2>5, <2>6 DEF IInv
<1>9. CASE GenerateFails
  <2>1. iter < MaxIterations /\ iter' = iter + 1 /\ iter' \in 0..MaxIterations
    BY <1>9 DEF GenerateFails, Generated, LoopInv, TypeOK
  <2>2. spent' \in [Model -> Nat] /\ spent' = [spent EXCEPT ![tier] = @ + 1]
    BY <1>9 DEF GenerateFails, Generated, TypeOK, Model
  <2>3. TypeOK'
    BY <1>9, <2>1, <2>2 DEF GenerateFails, Generated, TypeOK
  <2>4. LoopInv'
    BY <1>9, <2>1, <2>2 DEF GenerateFails, Generated, TypeOK, LoopInv
  <2>5. TreeInv'
    BY <1>9, <2>1, <2>2 DEF GenerateFails, Generated, TypeOK, TreeInv, Fixing, FailedRepairRestored, UntrackedSurvive, TrackedRestored
  <2>6. SpentInv'
    BY <1>9, <2>1, <2>2 DEF GenerateFails, Generated, TypeOK, LoopInv, SpentInv, Model
  <2> QED BY <2>3, <2>4, <2>5, <2>6 DEF IInv
<1>10. CASE RunTool
  <2>1. tree' \in Tree /\ \A f \in File : tree[f] # Absent => tree'[f] # Absent
    BY <1>10 DEF RunTool, Tree, TypeOK
  <2>2. calls' \in 0..MaxToolCalls /\ pc' \in {"tools", "generate", "verify"}
    BY <1>10 DEF RunTool, AfterTools, LoopInv, TypeOK
  <2>3. TypeOK'
    BY <1>10, <2>1, <2>2 DEF RunTool, TypeOK
  <2>4. LoopInv'
    BY <1>10, <2>1, <2>2 DEF RunTool, TypeOK, LoopInv, AfterTools
  <2>5. TreeInv'
    BY <1>10, <2>1, <2>2 DEF RunTool, TypeOK, TreeInv, Fixing, FailedRepairRestored, UntrackedSurvive, TrackedRestored
  <2>6. SpentInv'
    BY <1>10, <2>1, <2>2 DEF RunTool, TypeOK, LoopInv, SpentInv, Model
  <2> QED BY <2>3, <2>4, <2>5, <2>6 DEF IInv
<1>11. CASE VerifyPasses
  <2>1. TypeOK'
    BY <1>11 DEF VerifyPasses, TypeOK
  <2>2. LoopInv'
    BY <1>11 DEF VerifyPasses, TypeOK, LoopInv
  <2>3. TreeInv'
    BY <1>11 DEF VerifyPasses, TypeOK, TreeInv, Fixing, FailedRepairRestored, UntrackedSurvive, TrackedRestored
  <2>4. SpentInv'
    BY <1>11 DEF VerifyPasses, TypeOK, LoopInv, SpentInv, Model
  <2> QED BY <2>1, <2>2, <2>3, <2>4 DEF IInv
<1>12. CASE VerifyFails
  <2>1. TypeOK'
    BY <1>12 DEF VerifyFails, TypeOK
  <2>2. LoopInv'
    BY <1>12 DEF VerifyFails, TypeOK, LoopInv
  <2>3. TreeInv'
    BY <1>12 DEF VerifyFails, TypeOK, TreeInv, Fixing, FailedRepairRestored, UntrackedSurvive, TrackedRestored
  <2>4. SpentInv'
    BY <1>12 DEF VerifyFails, TypeOK, LoopInv, SpentInv, Model
  <2> QED BY <2>1, <2>2, <2>3, <2>4 DEF IInv
<1>13. CASE RecordFix
  <2>1. TypeOK'
    <3>1. recorded' \in {"nothing", "diff", "stderr"}
      BY <1>13 DEF RecordFix, Diff
    <3>2. pc' = "kept" /\ UNCHANGED <<stage, tier, snapshot, named, iter, calls, tree, before, ctxDone, spent, rollbackErr>>
      BY <1>13 DEF RecordFix
    <3> QED BY <3>1, <3>2, Zenon DEF TypeOK
  <2>2. LoopInv'
    BY <1>13 DEF RecordFix, TypeOK, LoopInv
  <2>3. TreeInv'
    BY <1>13 DEF RecordFix, TypeOK, TreeInv, Fixing, FailedRepairRestored, UntrackedSurvive, TrackedRestored
  <2>4. SpentInv'
    BY <1>13 DEF RecordFix, TypeOK, LoopInv, SpentInv, Model
  <2> QED BY <2>1, <2>2, <2>3, <2>4 DEF IInv
<1>14. CASE Rollback
  <2>1. tree' \in {tree, Restored(Restorable)} /\ (~rollbackErr' => tree' = Restored(Restorable))
    BY <1>14 DEF Rollback
  <2>2. tree' \in Tree /\ \A f \in File \ Tracked : tree'[f] = tree[f]
    BY <2>1, CheckoutKeepsUntracked DEF TypeOK
  <2>7. rollbackErr' \in BOOLEAN
    BY <1>14 DEF Rollback
  <2>3. TypeOK'
    <3>1. pc' \in {"failed"} /\ UNCHANGED <<stage, tier, snapshot, named, iter, calls, before, ctxDone, spent, recorded>>
      BY <1>14 DEF Rollback
    <3> QED BY <2>2, <2>7, <3>1, Zenon DEF TypeOK
  <2>4. LoopInv'
    BY <1>14, <2>1, <2>2 DEF Rollback, TypeOK, LoopInv
  <2>5. TreeInv'
    <3>1. UntrackedSurvive'
      BY <1>14, <2>2 DEF Rollback, TreeInv, UntrackedSurvive
    <3>2. ASSUME ~rollbackErr', NEW f \in Tracked, before[f] # Absent PROVE tree'[f] = before[f]
      <4>1. f \in Restorable /\ snapshot = before
        BY <1>14, <3>2 DEF Rollback, TreeInv, Fixing, Restorable
      <4> QED BY <2>1, <3>2, <4>1, CheckoutKeepsUntracked
    <3> QED BY <1>14, <3>1, <3>2 DEF Rollback, TreeInv, Fixing, FailedRepairRestored, TrackedRestored
  <2>6. SpentInv'
    BY <1>14, <2>1, <2>2 DEF Rollback, TypeOK, LoopInv, SpentInv, Model
  <2> QED BY <2>3, <2>4, <2>5, <2>6 DEF IInv
<1>15. CASE RollbackFails
  <2>1. PICK files \in SUBSET Restorable : \/ tree' = Restored(files) \/ \E f \in Restorable \ files : tree' = [Restored(files) EXCEPT ![f] = Absent]
    BY <1>15 DEF RollbackFails
  <2>2. tree' \in Tree /\ \A f \in File \ Tracked : tree'[f] = tree[f]
    BY <2>1, CheckoutKeepsUntracked DEF Restorable, Tree
  <2>3. TypeOK'
    BY <1>15, <2>1, <2>2 DEF RollbackFails, TypeOK
  <2>4. LoopInv'
    BY <1>15, <2>1, <2>2 DEF RollbackFails, TypeOK, LoopInv
  <2>5. TreeInv'
    BY <1>15, <2>1, <2>2 DEF RollbackFails, TypeOK, TreeInv, Fixing, FailedRepairRestored, UntrackedSurvive, TrackedRestored, Restorable
  <2>6. SpentInv'
    BY <1>15, <2>1, <2>2 DEF RollbackFails, TypeOK, LoopInv, SpentInv, Model
  <2> QED BY <2>3, <2>4, <2>5, <2>6 DEF IInv
<1>16. CASE UNCHANGED vars
  <2>1. TypeOK'
    BY <1>16 DEF vars, TypeOK
  <2>2. LoopInv'
    BY <1>16 DEF vars, TypeOK, LoopInv
  <2>3. TreeInv'
    BY <1>16 DEF vars, TypeOK, TreeInv, Fixing, FailedRepairRestored, UntrackedSurvive, TrackedRestored
  <2>4. SpentInv'
    BY <1>16 DEF vars, TypeOK, LoopInv, SpentInv, Model
  <2> QED BY <2>1, <2>2, <2>3, <2>4 DEF IInv
<1> QED
  BY <1>1, <1>2, <1>3, <1>4, <1>5, <1>6, <1>7, <1>8, <1>9, <1>10, <1>11, <1>12, <1>13, <1>14, <1>15, <1>16
  DEF Next, ModelReplies, ModelFails, ClassifierReplies, ClassifierFails, Control

THEOREM InductiveInvariant == Spec => []IInv
BY InitHolds, StepHolds, PTL DEF Spec

\* Type correctness: among others, no tool loop exceeds MaxIterations.
THEOREM TypeCorrect == Spec => []TypeOK
<1>1. IInv => TypeOK
  BY DEF IInv
<1> QED BY <1>1, InductiveInvariant, PTL

\* A failed repair leaves tracked files as they were, unless git checkout itself
\* failed, at its start or half-way, which the fixers do not tell anybody.
THEOREM FailedRepairsAreUndone == Spec => []FailedRepairRestored
<1>1. IInv => FailedRepairRestored
  BY DEF IInv, TreeInv
<1> QED BY <1>1, InductiveInvariant, PTL

\* A refused recovery touches nothing and calls no fixer's model.
THEOREM RefusalIsFree == Spec => []RefusalTouchesNothing
<1>1. IInv => RefusalTouchesNothing
  BY DEF IInv, TypeOK, TreeInv, SpentInv, RefusalTouchesNothing
<1> QED BY <1>1, InductiveInvariant, PTL

\* The calls of one recovery are bounded, by model.
THEOREM ModelCallsBounded == Spec => []ModelBudget
<1>1. IInv => ModelBudget
  BY RecoveryAssumption DEF IInv, TypeOK, SpentInv, ModelBudget, Model
<1> QED BY <1>1, InductiveInvariant, PTL

\* No recovery deletes a file git does not know.
THEOREM UntrackedFilesSurvive == Spec => []UntrackedSurvive
<1>1. IInv => UntrackedSurvive
  BY DEF IInv, TreeInv
<1> QED BY <1>1, InductiveInvariant, PTL

\* A history entry is written as the last thing of a recovery, of what git diff
\* printed against the snapshot, which then is the tree the recovery began with.
LEMMA HistoryStep == IInv /\ HistoryIsOfVerifiedFixes /\ [Next]_vars => HistoryIsOfVerifiedFixes'
<1> SUFFICES ASSUME IInv, HistoryIsOfVerifiedFixes, [Next]_vars, recorded' # "nothing"
             PROVE HistoryIsOfVerifiedFixes'
  BY DEF HistoryIsOfVerifiedFixes
<1>1. ~(\E s \in StageName : Call(s))
  BY DEF Call
<1>2. CASE RecordFix
  <2>1. stage \in CommandVerified /\ recorded' \in Diff
    BY <1>2 DEF RecordFix
  <2>2. snapshot = before
    BY <1>2 DEF RecordFix, IInv, TreeInv, Fixing
  <2>3. named /\ (recorded' = "diff" => \E f \in Tracked : tree[f] # snapshot[f])
    BY <2>1 DEF Diff
  <2> QED BY <1>2, <2>1, <2>2, <2>3 DEF RecordFix, HistoryIsOfVerifiedFixes
<1>3. CASE ~RecordFix
  <2>1. recorded' = recorded /\ recorded # "nothing" /\ pc = "kept"
    BY <1>1, <1>3 DEF HistoryIsOfVerifiedFixes, Next, Cancel, ModelReplies, ModelFails, ClassifierReplies,
       ClassifierFails, Classify, Control, Dispatch, TakeSnapshot, SnapshotFails, ReplyWithTools, ReplyDone,
       GenerateFails, Generated, RunTool, VerifyPasses, VerifyFails, Rollback, RollbackFails, vars
  <2>2. Cancel \/ UNCHANGED vars
    BY <1>1, <1>3, <2>1 DEF Next, ModelReplies, ModelFails, ClassifierReplies, ClassifierFails, Classify,
       Control, Dispatch, TakeSnapshot, SnapshotFails, ReplyWithTools, ReplyDone, GenerateFails, Generated,
       RunTool, VerifyPasses, VerifyFails, Rollback, RollbackFails
  <2> QED BY <2>1, <2>2 DEF Cancel, vars, HistoryIsOfVerifiedFixes
<1> QED BY <1>2, <1>3

\* The history holds what git diff printed of verified fixes, a warning at
\* worst: see HistoryIsOfVerifiedFixes in Recovery.
THEOREM OnlyVerifiedFixesAreRecorded == Spec => []HistoryIsOfVerifiedFixes
<1>1. Init => HistoryIsOfVerifiedFixes
  BY DEF Init, HistoryIsOfVerifiedFixes
<1> QED BY <1>1, HistoryStep, InductiveInvariant, PTL DEF Spec

\* A step of the recovery is one that Repair allows, or changes nothing that
\* the runner sees.
LEMMA StepRefines == IInv /\ [Next]_vars => [Rp!Next]_(Rp!vars)
<1> SUFFICES ASSUME IInv, [Next]_vars PROVE Rp!Next \/ UNCHANGED Rp!vars
  OBVIOUS
<1> USE DEF IInv, TreeInv, Returned, outcome
<1>1. ASSUME NEW s \in StageName, Call(s) PROVE Rp!Begin
  BY <1>1 DEF Call, Rp!Begin
<1>2. CASE Cancel \/ TakeSnapshot
  BY <1>2 DEF Cancel, TakeSnapshot, Rp!vars
<1>3. ASSUME NEW class, Classify(class)
      PROVE  Rp!Refuse \/ UNCHANGED Rp!vars
  BY <1>3 DEF Classify, Rp!Refuse, Rp!End, Rp!vars
<1>4. CASE Dispatch
  BY <1>4 DEF Dispatch, Rp!Next, Rp!Refuse, Rp!End, Rp!vars
<1>5. CASE SnapshotFails
  <2>1. tree = [f \in File |-> IF f \in Tracked /\ before[f] # Absent THEN before[f] ELSE tree[f]]
    BY <1>5 DEF SnapshotFails, TypeOK, Tree
  <2>2. rollbackErr' = FALSE
    BY <1>5 DEF SnapshotFails
  <2> QED BY <1>5, <2>1, <2>2 DEF SnapshotFails, Rp!Next, Rp!Undo, Rp!End
<1>6. CASE ReplyWithTools \/ ReplyDone \/ GenerateFails
  BY <1>6 DEF ReplyWithTools, ReplyDone, GenerateFails, Generated, Rp!vars
<1>7. CASE RunTool
  <2>1. outcome = "working" /\ UNCHANGED <<before, outcome, rollbackErr>>
    BY <1>7 DEF RunTool, AfterTools
  <2>2. UNCHANGED tree \/ \E f \in File, c \in Content : tree' = [tree EXCEPT ![f] = c]
    BY <1>7 DEF RunTool
  <2> QED BY <2>1, <2>2 DEF Rp!Next, Rp!Edit, Rp!vars
<1>8. CASE VerifyPasses \/ VerifyFails
  BY <1>8 DEF VerifyPasses, VerifyFails, Rp!vars
<1>9. CASE RecordFix
  BY <1>9 DEF RecordFix, Rp!Next, Rp!Keep, Rp!End
<1>10. CASE Rollback
  <2>1. snapshot = before /\ outcome = "working" /\ outcome' = "failed" /\ UNCHANGED before
    BY <1>10 DEF Rollback, Fixing
  <2>2. CASE ctxDone \/ ~named
    <3>1. tree' = tree /\ tree' \in Rp!Tree /\ rollbackErr' = TRUE
      BY <1>10, <2>2 DEF Rollback, TypeOK, Tree, Rp!Tree
    <3> QED BY <2>1, <3>1 DEF Rp!Next, Rp!Abandon, Rp!Leftover, Rp!End
  <2>3. CASE ~(ctxDone \/ ~named)
    <3>1. tree' = [f \in File |-> IF f \in Restorable THEN snapshot[f] ELSE tree[f]] /\ rollbackErr' = FALSE
      BY <1>10, <2>3 DEF Rollback, Restored
    <3>2. tree' = [f \in File |-> IF f \in Tracked /\ before[f] # Absent THEN before[f] ELSE tree[f]]
      BY <2>1, <3>1 DEF Restorable
    <3> QED BY <2>1, <3>1, <3>2 DEF Rp!Next, Rp!Undo, Rp!End
  <2> QED BY <2>2, <2>3
<1>11. CASE RollbackFails
  <2>1. snapshot = before /\ outcome = "working" /\ outcome' = "failed" /\ rollbackErr' = TRUE /\ UNCHANGED before
    BY <1>11 DEF RollbackFails, Fixing
  <2>2. PICK files \in SUBSET Restorable :
          \/ tree' = Restored(files)
          \/ \E f \in Restorable \ files : tree' = [Restored(files) EXCEPT ![f] = Absent]
    BY <1>11 DEF RollbackFails
  <2>3. tree' \in Rp!Tree
    BY <2>2, CheckoutKeepsUntracked DEF Restorable, Tree, Rp!Tree
  <2>4. ASSUME NEW f \in File
        PROVE  tree'[f] \in Rp!Leftover(f)
    <3>1. Restored(files)[f] \in Rp!Leftover(f)
      <4>1. CASE f \in files
        BY <2>1, <2>2, <4>1 DEF Restored, Restorable, Rp!Leftover
      <4>2. CASE f \notin files
        BY <2>2, <4>2 DEF Restored, Rp!Leftover
      <4> QED BY <4>1, <4>2
    <3>2. ASSUME NEW g \in Restorable \ files, tree' = [Restored(files) EXCEPT ![g] = Absent]
          PROVE  tree'[f] \in Rp!Leftover(f)
      <4>1. CASE f = g
        <5>1. before[f] # Absent /\ f \in Tracked
          BY <2>1, <3>2, <4>1 DEF Restorable
        <5>2. tree'[f] = Absent
          BY <3>2, <4>1 DEF Restored
        <5> QED BY <5>1, <5>2 DEF Rp!Leftover
      <4>2. CASE f # g
        <5>1. tree'[f] = Restored(files)[f]
          BY <3>2, <4>2 DEF Restored
        <5> QED BY <3>1, <5>1
      <4> QED BY <4>1, <4>2
    <3> QED BY <2>2, <3>1, <3>2
  <2> QED BY <2>1, <2>3, <2>4 DEF Rp!Next, Rp!Abandon, Rp!End
<1>12. CASE UNCHANGED vars
  BY <1>12 DEF vars, Rp!vars
<1> QED
  BY <1>1, <1>2, <1>3, <1>4, <1>5, <1>6, <1>7, <1>8, <1>9, <1>10, <1>11, <1>12
  DEF Next, ModelReplies, ModelFails, ClassifierReplies, ClassifierFails, Control, Rp!Next

\* Every recovery is one that Repair allows: the runner may be composed with
\* Repair instead of any of the fixers.
THEOREM ImplementsRepair == Spec => RepairImplemented
<1>1. Init => Rp!Init
  BY DEF Init, Rp!Init, outcome, Tree, Rp!Tree
<1>2. QED
  BY <1>1, StepRefines, InductiveInvariant, PTL DEF Spec, RepairImplemented, Rp!Spec
-----------------------------------------------------------------------------
(* Numbers.                                                                *)

\* A set of numbers has a least.
LEMMA LeastNat ==
  ASSUME NEW S \in SUBSET Nat, S # {}
  PROVE  \E n \in S : \A m \in S : n <= m
<1> DEFINE R == OpToRel(<, Nat)
<1>1. IsWellFoundedOn(R, Nat)
  BY NatLessThanWellFounded
<1> HIDE DEF R
<1>2. PICK n \in S : \A m \in S : ~(<<m, n>> \in R)
  BY <1>1, WFMin
<1>3. \A m \in S : ~(m < n)
  BY <1>2 DEF R, OpToRel
<1> QED BY <1>3

\* A set of numbers with a bound has a greatest.
LEMMA GreatestNat ==
  ASSUME NEW n \in Nat, NEW S \in SUBSET (0..n), S # {}
  PROVE  \E m \in S : \A k \in S : m >= k
<1> DEFINE D == {d \in 0..n : n - d \in S}
<1>1. D \in SUBSET Nat
  OBVIOUS
<1>2. D # {}
  <2>1. PICK k \in S : TRUE
    OBVIOUS
  <2>2. n - k \in 0..n /\ n - (n - k) = k
    OBVIOUS
  <2> QED BY <2>1, <2>2
<1>3. PICK d \in D : \A e \in D : d <= e
  BY <1>1, <1>2, LeastNat
<1>4. ASSUME NEW k \in S PROVE n - d >= k
  <2>1. n - k \in 0..n /\ n - (n - k) = k
    OBVIOUS
  <2>2. n - k \in D
    BY <2>1
  <2>3. d <= n - k
    BY <1>3, <2>2
  <2> QED BY <2>1, <2>3
<1> QED BY <1>3, <1>4

\* Induction over a set of numbers.
LEMMA Induction ==
  ASSUME NEW S, 0 \in S, \A n \in Nat : n \in S => n + 1 \in S
  PROVE  Nat \subseteq S
<1> SUFFICES ASSUME Nat \ S # {} PROVE FALSE
  OBVIOUS
<1>1. PICK n \in Nat \ S : \A m \in Nat \ S : n <= m
  BY LeastNat
<1>2. n # 0 /\ n - 1 \in Nat
  BY <1>1
<1>3. n - 1 \in S
  BY <1>1, <1>2
<1> QED BY <1>1, <1>2, <1>3

-----------------------------------------------------------------------------
(* Tuples of a few tokens.                                                 *)

\* The positions of a tuple.
LEMMA One == \A i \in 1..1 : i = 1
OBVIOUS

LEMMA Two == \A i \in 1..2 : i = 1 \/ i = 2
OBVIOUS

LEMMA Three == \A i \in 1..3 : i = 1 \/ i = 2 \/ i = 3
OBVIOUS

\* A tuple's tokens.
LEMMA TupleOne ==
  ASSUME NEW S, NEW t \in S
  PROVE  <<t>> \in Seq(S) /\ Len(<<t>>) = 1 /\ <<t>>[1] = t
OBVIOUS

LEMMA TupleTwo ==
  ASSUME NEW S, NEW a \in S, NEW b \in S
  PROVE  /\ <<a, b>> \in Seq(S) /\ Len(<<a, b>>) = 2
         /\ <<a, b>>[1] = a /\ <<a, b>>[2] = b
OBVIOUS

LEMMA TupleThree ==
  ASSUME NEW S, NEW a \in S, NEW b \in S, NEW c \in S
  PROVE  /\ <<a, b, c>> \in Seq(S) /\ Len(<<a, b, c>>) = 3
         /\ <<a, b, c>>[1] = a /\ <<a, b, c>>[2] = b /\ <<a, b, c>>[3] = c
OBVIOUS

LEMMA TupleFour ==
  ASSUME NEW S, NEW a \in S, NEW b \in S, NEW c \in S, NEW d \in S
  PROVE  /\ <<a, b, c, d>> \in Seq(S) /\ Len(<<a, b, c, d>>) = 4
         /\ <<a, b, c, d>>[1] = a /\ <<a, b, c, d>>[2] = b /\ <<a, b, c, d>>[3] = c /\ <<a, b, c, d>>[4] = d
OBVIOUS

LEMMA EmptyText == \A S : <<>> \in Seq(S) /\ Len(<<>>) = 0
OBVIOUS

-----------------------------------------------------------------------------
(* Tokens of a reply, and the think blocks open after each.                *)

\* What a reply is made of.
Token == Rd!Verdict \cup {"{", "}", "[", "]", "text", "nl", "fence", "<think>", "</think>"}

\* Where a token is first.
LEMMA FirstToken ==
  ASSUME NEW N, NEW s \in Seq(N), NEW t
  PROVE  /\ Rd!First(s, t) \in 0..Len(s)
         /\ Rd!First(s, t) = 0 => \A i \in 1..Len(s) : s[i] # t
         /\ Rd!First(s, t) # 0 => /\ s[Rd!First(s, t)] = t
                                  /\ \A i \in 1..Len(s) : s[i] = t => Rd!First(s, t) <= i
<1> DEFINE I == {i \in 1..Len(s) : s[i] = t}
<1>0. Len(s) \in Nat
  OBVIOUS
<1>1. Rd!First(s, t) = IF I # {} THEN Rd!Min(I) ELSE 0
  BY DEF Rd!First, Rd!SelectInSeq
<1>2. CASE I = {}
  BY <1>1, <1>2
<1>3. CASE I # {}
  <2>1. I \in SUBSET Nat
    BY <1>0
  <2>2. \E x \in I : \A y \in I : x =< y
    BY <1>3, <2>1, LeastNat
  <2>3. Rd!Min(I) \in I /\ \A y \in I : Rd!Min(I) =< y
    BY <2>2 DEF Rd!Min
  <2> QED BY <1>0, <1>1, <1>3, <2>3
<1> QED BY <1>2, <1>3

\* Where a token is last.
LEMMA LastToken ==
  ASSUME NEW N, NEW s \in Seq(N), NEW t
  PROVE  /\ Rd!Final(s, t) \in 0..Len(s)
         /\ Rd!Final(s, t) = 0 => \A i \in 1..Len(s) : s[i] # t
         /\ Rd!Final(s, t) # 0 => /\ s[Rd!Final(s, t)] = t
                                  /\ \A i \in 1..Len(s) : s[i] = t => i <= Rd!Final(s, t)
<1> DEFINE I == {i \in 1..Len(s) : s[i] = t}
<1>0. Len(s) \in Nat
  OBVIOUS
<1>1. Rd!Final(s, t) = IF I # {} THEN Rd!Max(I) ELSE 0
  BY DEF Rd!Final, Rd!SelectLastInSeq
<1>2. CASE I = {}
  BY <1>1, <1>2
<1>3. CASE I # {}
  <2>1. I \in SUBSET (0..Len(s))
    BY <1>0
  <2>2. \E x \in I : \A y \in I : x >= y
    BY <1>0, <1>3, <2>1, GreatestNat
  <2>3. Rd!Max(I) \in I /\ \A y \in I : Rd!Max(I) >= y
    BY <2>2 DEF Rd!Max
  <2> QED BY <1>0, <1>1, <1>3, <2>3
<1> QED BY <1>2, <1>3

\* Counting goes token by token.
LEMMA CountSteps ==
  ASSUME NEW s \in Seq(Token), NEW t
  PROVE  /\ Rd!Count(s, 0, t) = 0
         /\ \A n \in 0..Len(s) : Rd!Count(s, n, t) \in Nat
         /\ \A n \in 0..(Len(s) - 1) :
              Rd!Count(s, n + 1, t) = Rd!Count(s, n, t) + IF s[n + 1] = t THEN 1 ELSE 0
<1> DEFINE C(n) == {i \in 1..n : s[i] = t}
<1>0. Len(s) \in Nat
  OBVIOUS
<1>1. \A n \in 0..Len(s) : Rd!Count(s, n, t) = Cardinality(C(n))
  BY DEF Rd!Count, Rd!Cardinality, Cardinality
<1>2. ASSUME NEW n \in 0..Len(s) PROVE IsFiniteSet(C(n)) /\ Cardinality(C(n)) \in Nat
  <2>1. n \in Int /\ 1 \in Int
    BY <1>0
  <2>2. IsFiniteSet(1..n)
    BY <2>1, FS_Interval
  <2>3. C(n) \subseteq 1..n
    OBVIOUS
  <2>4. IsFiniteSet(C(n))
    BY <2>2, <2>3, FS_Subset
  <2> QED BY <2>4, FS_CardinalityType
<1>3. Cardinality(C(0)) = 0
  <2>1. C(0) = {}
    OBVIOUS
  <2> QED BY <2>1, FS_EmptySet
<1>4. ASSUME NEW n \in 0..(Len(s) - 1)
      PROVE  Cardinality(C(n + 1)) = Cardinality(C(n)) + IF s[n + 1] = t THEN 1 ELSE 0
  <2>0. n \in 0..Len(s) /\ n \in Nat /\ n + 1 \notin 1..n
    BY <1>0
  <2>1. CASE s[n + 1] = t
    <3>1. C(n + 1) = C(n) \cup {n + 1} /\ n + 1 \notin C(n)
      BY <2>0, <2>1
    <3> HIDE DEF C
    <3> QED BY <1>2, <2>0, <2>1, <3>1, FS_AddElement
  <2>2. CASE s[n + 1] # t
    <3>1. C(n + 1) = C(n)
      BY <2>0, <2>2
    <3> HIDE DEF C
    <3> QED BY <1>2, <2>0, <2>2, <3>1
  <2> QED BY <2>1, <2>2
<1> HIDE DEF C
<1>5. \A n \in 0..(Len(s) - 1) : n \in 0..Len(s) /\ n + 1 \in 0..Len(s)
  BY <1>0
<1>6. 0 \in 0..Len(s)
  BY <1>0
<1> QED BY <1>1, <1>2, <1>3, <1>4, <1>5, <1>6

\* What a token adds to the open think blocks.
Adds(t) == IF t = "<think>" THEN 1 ELSE IF t = "</think>" THEN -1 ELSE 0

\* The open think blocks change token by token.
LEMMA OpenSteps ==
  ASSUME NEW s \in Seq(Token)
  PROVE  /\ Rd!Open(s, 0) = 0
         /\ \A n \in 0..Len(s) : Rd!Open(s, n) \in Int
         /\ \A n \in 0..(Len(s) - 1) : Rd!Open(s, n + 1) = Rd!Open(s, n) + Adds(s[n + 1])
<1>0. Len(s) \in Nat
  OBVIOUS
<1>1. Rd!Open(s, 0) = 0
  BY CountSteps DEF Rd!Open
<1>2. ASSUME NEW n \in 0..Len(s) PROVE Rd!Open(s, n) \in Int
  <2>1. Rd!Count(s, n, "<think>") \in Nat /\ Rd!Count(s, n, "</think>") \in Nat
    BY CountSteps
  <2> QED BY <2>1 DEF Rd!Open
<1>3. ASSUME NEW n \in 0..(Len(s) - 1) PROVE Rd!Open(s, n + 1) = Rd!Open(s, n) + Adds(s[n + 1])
  <2>0. n \in 0..Len(s) /\ n + 1 \in 0..Len(s)
    BY <1>0
  <2>1. PICK a, b \in Nat : a = Rd!Count(s, n, "<think>") /\ b = Rd!Count(s, n, "</think>")
    BY <2>0, CountSteps
  <2>2. /\ Rd!Count(s, n + 1, "<think>") = a + IF s[n + 1] = "<think>" THEN 1 ELSE 0
        /\ Rd!Count(s, n + 1, "</think>") = b + IF s[n + 1] = "</think>" THEN 1 ELSE 0
    BY <2>1, CountSteps
  <2> QED BY <2>1, <2>2 DEF Rd!Open, Adds
<1> QED BY <1>1, <1>2, <1>3

\* The m tokens of s after the first j are those of q after the first k.
Same(s, j, q, k, m) ==
    j + m <= Len(s) /\ k + m <= Len(q) /\ \A i \in 1..m : q[k + i] = s[j + i]

\* The same tokens add the same.
LEMMA SamePiece ==
  ASSUME NEW s \in Seq(Token), NEW q \in Seq(Token), NEW j \in Nat, NEW k \in Nat, NEW m \in Nat,
         Same(s, j, q, k, m)
  PROVE  Rd!Open(q, k + m) - Rd!Open(q, k) = Rd!Open(s, j + m) - Rd!Open(s, j)
<1>s. j + m <= Len(s) /\ k + m <= Len(q) /\ \A i \in 1..m : q[k + i] = s[j + i]
  BY DEF Same
<1> DEFINE P(n) == Rd!Open(q, k + n) - Rd!Open(q, k) = Rd!Open(s, j + n) - Rd!Open(s, j)
           S == {n \in Nat : n <= m => P(n)}
<1>0. Len(s) \in Nat /\ Len(q) \in Nat
  OBVIOUS
<1>1. 0 \in S
  <2>1. k \in 0..Len(q) /\ j \in 0..Len(s) /\ k + 0 = k /\ j + 0 = j
    BY <1>0, <1>s
  <2>2. Rd!Open(q, k) \in Int /\ Rd!Open(s, j) \in Int
    BY <2>1, OpenSteps
  <2> QED BY <2>1, <2>2
<1>2. ASSUME NEW n \in Nat, n \in S PROVE n + 1 \in S
  <2> SUFFICES ASSUME n + 1 <= m PROVE P(n + 1)
    OBVIOUS
  <2>1. /\ k + n \in 0..(Len(q) - 1) /\ j + n \in 0..(Len(s) - 1)
        /\ k + (n + 1) = (k + n) + 1 /\ j + (n + 1) = (j + n) + 1
        /\ k \in 0..Len(q) /\ j \in 0..Len(s) /\ k + n \in 0..Len(q) /\ j + n \in 0..Len(s)
        /\ n + 1 \in 1..m
    BY <1>0, <1>s
  <2>2. PICK a, b, c, d \in Int :
           a = Rd!Open(q, k + n) /\ b = Rd!Open(q, k) /\ c = Rd!Open(s, j + n) /\ d = Rd!Open(s, j)
    BY <2>1, OpenSteps
  <2>3. a - b = c - d
    BY <1>2, <2>2
  <2>4. Rd!Open(q, k + (n + 1)) = a + Adds(q[k + (n + 1)])
    BY <2>1, <2>2, OpenSteps
  <2>5. Rd!Open(s, j + (n + 1)) = c + Adds(s[j + (n + 1)])
    BY <2>1, <2>2, OpenSteps
  <2>6. q[k + (n + 1)] = s[j + (n + 1)]
    BY <1>s, <2>1
  <2>7. PICK e \in Int : e = Adds(s[j + (n + 1)])
    BY DEF Adds
  <2>8. Rd!Open(q, k + (n + 1)) = a + e /\ Rd!Open(s, j + (n + 1)) = c + e
    BY <2>4, <2>5, <2>6, <2>7
  <2>9. (a + e) - b = (c + e) - d
    BY <2>3
  <2> QED BY <2>2, <2>8, <2>9
<1> HIDE DEF P
<1>3. m \in S
  <2> HIDE DEF S
  <2> QED BY <1>1, <1>2, Induction
<1> QED BY <1>3 DEF P

\* Tokens that are no marks of a think block change nothing.
LEMMA QuietPiece ==
  ASSUME NEW s \in Seq(Token), NEW j \in Nat, NEW m \in Nat, j + m <= Len(s),
         \A i \in (j + 1)..(j + m) : s[i] \notin {"<think>", "</think>"}
  PROVE  Rd!Open(s, j + m) = Rd!Open(s, j)
<1> DEFINE P(n) == Rd!Open(s, j + n) = Rd!Open(s, j)
           S == {n \in Nat : n <= m => P(n)}
<1>0. Len(s) \in Nat
  OBVIOUS
<1>1. 0 \in S
  OBVIOUS
<1>2. ASSUME NEW n \in Nat, n \in S PROVE n + 1 \in S
  <2> SUFFICES ASSUME n + 1 <= m PROVE P(n + 1)
    OBVIOUS
  <2>1. /\ j + n \in 0..(Len(s) - 1) /\ j + n \in 0..Len(s)
        /\ j + (n + 1) = (j + n) + 1 /\ j + (n + 1) \in (j + 1)..(j + m)
    BY <1>0
  <2>2. Rd!Open(s, j + n) \in Int
    BY <2>1, OpenSteps
  <2>3. Rd!Open(s, j + (n + 1)) = Rd!Open(s, j + n) + Adds(s[j + (n + 1)])
    BY <2>1, OpenSteps
  <2>4. Adds(s[j + (n + 1)]) = 0
    BY <2>1 DEF Adds
  <2> QED BY <1>2, <2>2, <2>3, <2>4
<1> HIDE DEF P
<1>3. m \in S
  <2> HIDE DEF S
  <2> QED BY <1>1, <1>2, Induction
<1> QED BY <1>3 DEF P

\* q is s without the first j tokens and with m of the others.
PieceOf(q, s, j, m) ==
    /\ q \in Seq(Token) /\ Len(q) = m
    /\ j \in Nat /\ m \in Nat /\ j + m <= Len(s)
    /\ \A i \in 1..m : q[i] = s[j + i]

\* A subsequence is a piece of its sequence.
LEMMA SubSeqPiece ==
  ASSUME NEW s \in Seq(Token), NEW j \in Nat, NEW e \in Nat, j <= e, e <= Len(s)
  PROVE  PieceOf(SubSeq(s, j + 1, e), s, j, e - j)
<1>0. Len(s) \in Nat /\ e - j \in Nat /\ j + (e - j) <= Len(s)
  OBVIOUS
<1>1. \A i \in (j + 1)..e : i \in 1..Len(s)
  BY <1>0
<1>2. SubSeq(s, j + 1, e) \in Seq(Token)
  BY <1>1, SubSeqProperties
<1>3. Len(SubSeq(s, j + 1, e)) = e - j
  BY <1>0, <1>1, SubSeqProperties
<1>4. ASSUME NEW i \in 1..(e - j) PROVE SubSeq(s, j + 1, e)[i] = s[j + i]
  BY <1>0, <1>1, <1>3, SubSeqProperties
<1> QED BY <1>0, <1>2, <1>3, <1>4 DEF PieceOf

\* strings.TrimSpace takes white space off both ends.
LEMMA TrimPiece ==
  ASSUME NEW s \in Seq(Token)
  PROVE  \E j, m \in Nat : /\ PieceOf(Rd!Trim(s), s, j, m)
                           /\ \A i \in 1..j : s[i] = "nl"
                           /\ \A i \in (j + m + 1)..Len(s) : s[i] = "nl"
<1> DEFINE I == {i \in 1..Len(s) : s[i] # "nl"}
           from == Rd!SelectInSeq(s, LAMBDA x : x # "nl")
           to == Rd!SelectLastInSeq(s, LAMBDA x : x # "nl")
<1>0. Len(s) \in Nat
  OBVIOUS
<1>1. /\ from = IF I # {} THEN Rd!Min(I) ELSE 0
      /\ to = IF I # {} THEN Rd!Max(I) ELSE 0
  BY DEF Rd!SelectInSeq, Rd!SelectLastInSeq
<1>2. Rd!Trim(s) = IF from = 0 THEN <<>> ELSE SubSeq(s, from, to)
  BY DEF Rd!Trim
<1> HIDE DEF from, to
<1>3. CASE I = {}
  <2>1. Rd!Trim(s) = <<>> /\ <<>> \in Seq(Token) /\ Len(<<>>) = 0
    BY <1>1, <1>2, <1>3
  <2>2. PieceOf(Rd!Trim(s), s, 0, 0)
    BY <1>0, <2>1 DEF PieceOf
  <2>3. \A i \in 1..Len(s) : s[i] = "nl"
    BY <1>3
  <2>4. \A i \in (0 + 0 + 1)..Len(s) : i \in 1..Len(s)
    OBVIOUS
  <2> QED BY <2>2, <2>3, <2>4
<1>4. CASE I # {}
  <2>1. I \in SUBSET Nat /\ I \in SUBSET (0..Len(s))
    BY <1>0
  <2>2. from \in I /\ \A y \in I : from =< y
    <3>1. \E x \in I : \A y \in I : x =< y
      BY <1>4, <2>1, LeastNat
    <3> QED BY <1>1, <1>4, <3>1 DEF Rd!Min
  <2>3. to \in I /\ \A y \in I : to >= y
    <3>1. \E x \in I : \A y \in I : x >= y
      BY <1>0, <1>4, <2>1, GreatestNat
    <3> QED BY <1>1, <1>4, <3>1 DEF Rd!Max
  <2>4. PICK j \in Nat : from = j + 1 /\ j <= to /\ to \in Nat /\ to <= Len(s) /\ from # 0
    <3>1. from - 1 \in Nat /\ from = (from - 1) + 1 /\ from - 1 <= to /\ to \in Nat /\ to <= Len(s)
      BY <1>0, <2>2, <2>3
    <3> QED BY <3>1
  <2>5. PieceOf(Rd!Trim(s), s, j, to - j)
    BY <1>2, <2>4, SubSeqPiece
  <2>6. ASSUME NEW i \in 1..j PROVE s[i] = "nl"
    BY <1>0, <2>2, <2>4
  <2>7. ASSUME NEW i \in (j + (to - j) + 1)..Len(s) PROVE s[i] = "nl"
    BY <1>0, <2>3, <2>4
  <2>8. to - j \in Nat
    BY <2>4
  <2> QED BY <2>5, <2>6, <2>7, <2>8
<1> QED BY <1>3, <1>4

\* Two sequences one after the other.
LEMMA Joined ==
  ASSUME NEW u \in Seq(Token), NEW w \in Seq(Token)
  PROVE  /\ u \o w \in Seq(Token) /\ Len(u \o w) = Len(u) + Len(w)
         /\ \A i \in 1..(Len(u) + Len(w)) : (u \o w)[i] = IF i <= Len(u) THEN u[i] ELSE w[i - Len(u)]
  BY ConcatProperties

\* Every number up to h + r is one up to h or one above it.
LEMMA Either ==
  ASSUME NEW h \in Nat, NEW r \in Nat
  PROVE  /\ \A i \in 1..(h + r) : i \in 1..h \/ \E m \in 1..r : i = h + m
         /\ \A i \in 0..(h + r) : i \in 0..h \/ \E m \in 1..r : i = h + m
<1>1. ASSUME NEW i \in 0..(h + r), i \notin 0..h
      PROVE  \E m \in 1..r : i = h + m
  <2>1. i - h \in 1..r /\ i = h + (i - h)
    BY <1>1
  <2> QED BY <2>1
<1>2. ASSUME NEW i \in 1..(h + r), i \notin 1..h
      PROVE  i \in 0..(h + r) /\ i \notin 0..h
  BY <1>2
<1> QED BY <1>1, <1>2

-----------------------------------------------------------------------------
(* What refuses: a reply made of parts has its refusals in objects.  It is *)
(* tidy if no think block holds another, and clean if each ends as well.   *)

\* A refusal stands in its object, as in every part of a reply.
Framed(s) ==
    \A i \in 1..Len(s) : s[i] = "not-fixable" =>
      i > 1 /\ i < Len(s) /\ s[i - 1] = "{" /\ s[i + 1] = "}"

\* The i-th token is outside the think blocks, or in one that is cut off.
Left(s, i) == Rd!Open(s, i) = 0 \/ \A k \in i..Len(s) : Rd!Open(s, k) = 1

\* A refusal is there.
Refuses(s) == \E i \in 1..Len(s) : s[i] = "not-fixable" /\ Left(s, i)

\* A reply without nested think blocks.
Tidy(s) == s \in Seq(Token) /\ Framed(s) /\ Rd!Unnested(s)

\* Its last think block ends.
Ends(s) == Rd!Open(s, Len(s)) = 0

\* A reply whose think blocks are closed.
Clean(s) == Tidy(s) /\ Ends(s)

\* A part, or parts one after the other.
Parts(s) == s \in Seq(Token) /\ Framed(s)

\* Parts stay parts, one after the other.
LEMMA JoinedParts ==
  ASSUME NEW u, NEW w, Parts(u), Parts(w)
  PROVE  Parts(u \o w)
<1>0. /\ u \in Seq(Token) /\ w \in Seq(Token)
      /\ Len(u) \in Nat /\ Len(w) \in Nat
  BY DEF Parts
<1> DEFINE q == u \o w
<1>1. /\ q \in Seq(Token) /\ Len(q) = Len(u) + Len(w)
      /\ \A i \in 1..(Len(u) + Len(w)) : q[i] = IF i <= Len(u) THEN u[i] ELSE w[i - Len(u)]
  BY <1>0, Joined
<1> HIDE DEF q
<1>2. PICK h, r \in Nat : h = Len(u) /\ r = Len(w)
  BY <1>0
<1>3. /\ Len(q) = h + r
      /\ \A i \in 1..(h + r) : q[i] = IF i <= h THEN u[i] ELSE w[i - h]
  BY <1>1, <1>2
<1>4. ASSUME NEW i \in 1..(h + r), q[i] = "not-fixable"
      PROVE  i > 1 /\ i < h + r /\ q[i - 1] = "{" /\ q[i + 1] = "}"
  <2>1. CASE i <= h
    <3>1. i \in 1..h /\ u[i] = "not-fixable"
      BY <1>3, <1>4, <2>1
    <3>2. i > 1 /\ i < h /\ u[i - 1] = "{" /\ u[i + 1] = "}"
      BY <1>2, <3>1 DEF Parts, Framed
    <3>i. i > 1 /\ i < h
      BY <3>2, Zenon
    <3>3. i - 1 \in 1..(h + r) /\ i + 1 \in 1..(h + r) /\ i - 1 <= h /\ i + 1 <= h /\ i < h + r
      BY <3>i
    <3> QED BY <1>3, <3>2, <3>3
  <2>2. CASE ~(i <= h)
    <3>0. PICK m \in 1..r : i = h + m
      <4>1. i - h \in 1..r /\ i = h + (i - h)
        BY <2>2
      <4> QED BY <4>1
    <3>n. i - h = m
      BY <3>0
    <3>1. w[m] = "not-fixable"
      BY <1>3, <1>4, <2>2, <3>n
    <3>2. m > 1 /\ m < r /\ w[m - 1] = "{" /\ w[m + 1] = "}"
      BY <1>2, <3>1 DEF Parts, Framed
    <3>i. m > 1 /\ m < r
      BY <3>2, Zenon
    <3>3. /\ i - 1 \in 1..(h + r) /\ i + 1 \in 1..(h + r) /\ ~(i - 1 <= h) /\ ~(i + 1 <= h)
          /\ i < h + r /\ i > 1 /\ (i - 1) - h = m - 1 /\ (i + 1) - h = m + 1
      BY <3>0, <3>i
    <3> QED BY <1>3, <3>2, <3>3
  <2> QED BY <2>1, <2>2
<1>5. Framed(q)
  BY <1>3, <1>4 DEF Framed
<1> QED BY <1>1, <1>5 DEF Parts, q

\* A part of a few tokens, none of which refuses.
Inert == Token \ {"not-fixable"}

\* A token that does not refuse is a part.
LEMMA InertParts ==
  ASSUME NEW s \in Seq(Inert)
  PROVE  Parts(s)
<1>1. Len(s) \in Nat /\ \A i \in 1..Len(s) : s[i] # "not-fixable"
  BY DEF Inert
<1>2. Framed(s)
  BY <1>1 DEF Framed
<1>3. s \in Seq(Token)
  <2>1. Inert \subseteq Token
    BY DEF Inert
  <2> QED BY <2>1
<1> QED BY <1>2, <1>3 DEF Parts

\* An object is a part.
LEMMA ObjectParts ==
  ASSUME NEW v \in Rd!Verdict
  PROVE  /\ Parts(Rd!Object(v)) /\ Len(Rd!Object(v)) = 3
         /\ Rd!Object(v)[1] = "{" /\ Rd!Object(v)[2] = v /\ Rd!Object(v)[3] = "}"
<1> DEFINE o == <<"{", v, "}">>
<1>0. "{" \in Token /\ v \in Token /\ "}" \in Token
  BY DEF Token
<1>1. o \in Seq(Token) /\ Len(o) = 3 /\ o[1] = "{" /\ o[2] = v /\ o[3] = "}"
  BY <1>0, TupleThree
<1>4. "{" # "not-fixable" /\ "}" # "not-fixable"
  OBVIOUS
<1>5. o = Rd!Object(v)
  BY DEF Rd!Object
<1> HIDE DEF o
<1>2. \A i \in 1..3 : o[i] = "not-fixable" => i = 2
  <2>1. \A i \in 1..3 : i = 1 \/ i = 2 \/ i = 3
    OBVIOUS
  <2> QED BY <1>1, <1>4, <2>1
<1>3. Framed(o)
  <2>1. 2 > 1 /\ 2 < 3 /\ 2 - 1 = 1 /\ 2 + 1 = 3
    OBVIOUS
  <2> QED BY ONLY <1>1, <1>2, <2>1 DEF Framed
<1> QED BY <1>1, <1>3, <1>5 DEF Parts

-----------------------------------------------------------------------------
(* Two things are taken off a reply: white space at its ends, and the first think*)
(* block.  Neither takes a refusal off, nor puts one outside the think blocks.*)

\* q is s without white space at its ends; j tokens are before it.
Trimmed(q, s, j) ==
    /\ PieceOf(q, s, j, Len(q))
    /\ \A i \in 1..j : s[i] = "nl"
    /\ \A i \in (j + Len(q) + 1)..Len(s) : s[i] = "nl"
    /\ \A n \in 0..Len(q) : Rd!Open(q, n) = Rd!Open(s, j + n)

\* Trimming does not change which think blocks are open.
LEMMA TrimOpen ==
  ASSUME NEW s, Tidy(s)
  PROVE  \E j \in Nat : Trimmed(Rd!Trim(s), s, j)
<1>0. s \in Seq(Token) /\ Len(s) \in Nat
  BY DEF Tidy
<1> DEFINE q == Rd!Trim(s)
<1>1. PICK j, m \in Nat : /\ PieceOf(q, s, j, m)
                          /\ \A i \in 1..j : s[i] = "nl"
                          /\ \A i \in (j + m + 1)..Len(s) : s[i] = "nl"
  BY <1>0, TrimPiece
<1> HIDE DEF q
<1>2. /\ q \in Seq(Token) /\ Len(q) = m /\ j + m <= Len(s)
      /\ \A i \in 1..m : q[i] = s[j + i]
  BY <1>1 DEF PieceOf
<1>3. Rd!Open(s, j) = 0
  <2>1. \A i \in (0 + 1)..(0 + j) : s[i] \notin {"<think>", "</think>"}
    BY <1>1
  <2>2. Rd!Open(s, 0 + j) = Rd!Open(s, 0)
    <3>1. 0 \in Nat /\ 0 + j <= Len(s)
      BY <1>0, <1>2
    <3> QED BY <1>0, <2>1, <3>1, QuietPiece
  <2> QED BY <1>0, <2>2, OpenSteps
<1>4. ASSUME NEW n \in 0..m PROVE Rd!Open(q, n) = Rd!Open(s, j + n)
  <2>1. \A i \in 1..n : q[0 + i] = s[j + i]
    BY <1>2
  <2>2. n \in Nat /\ 0 \in Nat /\ j + n <= Len(s) /\ 0 + n <= Len(q) /\ 0 + n = n
    BY <1>0, <1>2
  <2>3. Rd!Open(q, 0 + n) - Rd!Open(q, 0) = Rd!Open(s, j + n) - Rd!Open(s, j)
    <3>1. q \in Seq(Token)
      BY <1>2
    <3>2. Same(s, j, q, 0, n)
      BY <2>1, <2>2 DEF Same
    <3> QED BY <1>0, <2>2, <3>1, <3>2, SamePiece
  <2>4. Rd!Open(q, 0) = 0 /\ Rd!Open(q, n) \in Int /\ Rd!Open(s, j + n) \in Int
    BY <1>0, <1>2, <2>2, OpenSteps
  <2> QED BY <1>3, <2>2, <2>3, <2>4
<1>5. Trimmed(q, s, j)
  <2>1. m = Len(q)
    BY <1>2
  <2> QED BY <1>1, <1>4, <2>1 DEF Trimmed
<1> QED BY <1>5 DEF q

\* White space around a reply says nothing.
LEMMA TrimKeeps ==
  ASSUME NEW s, Tidy(s)
  PROVE  /\ Tidy(Rd!Trim(s)) /\ Len(Rd!Trim(s)) <= Len(s)
         /\ Ends(s) => Ends(Rd!Trim(s))
         /\ Refuses(Rd!Trim(s)) => Refuses(s)
<1>0. s \in Seq(Token) /\ Len(s) \in Nat
  BY DEF Tidy
<1> DEFINE q == Rd!Trim(s)
<1>t. PICK j \in Nat : Trimmed(q, s, j)
  BY TrimOpen
<1> HIDE DEF q
<1>m. PICK m \in Nat : m = Len(q)
  BY <1>t DEF Trimmed, PieceOf
<1>1. /\ PieceOf(q, s, j, m)
      /\ \A i \in 1..j : s[i] = "nl"
      /\ \A i \in (j + m + 1)..Len(s) : s[i] = "nl"
  BY <1>m, <1>t DEF Trimmed
<1>2. /\ q \in Seq(Token) /\ Len(q) = m /\ j + m <= Len(s)
      /\ \A i \in 1..m : q[i] = s[j + i]
  BY <1>1 DEF PieceOf
<1>4. ASSUME NEW n \in 0..m PROVE Rd!Open(q, n) = Rd!Open(s, j + n)
  BY <1>m, <1>t DEF Trimmed
<1>5. ASSUME NEW k \in (j + m)..Len(s) PROVE Rd!Open(s, k) = Rd!Open(s, j + m)
  <2>1. PICK r \in Nat : k = (j + m) + r
    <3>1. k - (j + m) \in Nat /\ k = (j + m) + (k - (j + m))
      OBVIOUS
    <3> QED BY <3>1
  <2>2. j + m \in Nat /\ (j + m) + r <= Len(s)
    BY <1>0, <2>1
  <2>3. \A i \in ((j + m) + 1)..((j + m) + r) : s[i] \notin {"<think>", "</think>"}
    BY <1>0, <1>1, <2>2
  <2> QED BY <1>0, <2>1, <2>2, <2>3, QuietPiece
<1>6. Rd!Unnested(q)
  <2>1. \A n \in 0..m : j + n \in 0..Len(s)
    BY <1>0, <1>2
  <2>2. \A n \in 0..m : Rd!Open(q, n) \in {0, 1}
    BY <1>4, <2>1 DEF Tidy, Rd!Unnested
  <2> QED BY <1>2, <2>2 DEF Rd!Unnested
<1>9. Ends(s) => Ends(q)
  <2>1. Len(s) \in (j + m)..Len(s) /\ m \in 0..m
    BY <1>0, <1>2
  <2>2. Rd!Open(s, Len(s)) = Rd!Open(s, j + m)
    BY <1>5, <2>1
  <2>3. Rd!Open(q, m) = Rd!Open(s, j + m)
    BY <1>4, <2>1
  <2> QED BY <1>2, <2>2, <2>3 DEF Ends
<1>7. Framed(q)
  <2> SUFFICES ASSUME NEW i \in 1..m, q[i] = "not-fixable"
               PROVE  i > 1 /\ i < m /\ q[i - 1] = "{" /\ q[i + 1] = "}"
    BY <1>2 DEF Framed
  <2>1. j + i \in 1..Len(s) /\ s[j + i] = "not-fixable"
    BY <1>0, <1>2
  <2>2. /\ j + i > 1 /\ j + i < Len(s)
        /\ s[(j + i) - 1] = "{" /\ s[(j + i) + 1] = "}"
    BY <2>1 DEF Tidy, Framed
  <2>n. i \in Nat /\ j + i > 1 /\ j + i < Len(s)
    <3>1. i \in Nat
      OBVIOUS
    <3>2. j + i > 1 /\ j + i < Len(s)
      BY <2>2, Zenon
    <3> QED BY <3>1, <3>2
  <2>3. i # 1
    <3> SUFFICES ASSUME i = 1 PROVE FALSE
      OBVIOUS
    <3>1. j \in 1..j /\ (j + i) - 1 = j
      BY <2>n
    <3> QED BY <1>1, <2>2, <3>1
  <2>4. i # m
    <3> SUFFICES ASSUME i = m PROVE FALSE
      OBVIOUS
    <3>1. (j + i) + 1 \in (j + m + 1)..Len(s)
      BY <1>0, <2>n
    <3> QED BY <1>1, <2>2, <3>1
  <2>5. /\ i - 1 \in 1..m /\ i + 1 \in 1..m
        /\ j + (i - 1) = (j + i) - 1 /\ j + (i + 1) = (j + i) + 1 /\ i > 1 /\ i < m
    BY <2>3, <2>4
  <2> QED BY <1>2, <2>2, <2>5
<1>8. Refuses(q) => Refuses(s)
  <2> SUFFICES ASSUME NEW i \in 1..m, q[i] = "not-fixable", Left(q, i) PROVE Refuses(s)
    BY <1>2 DEF Refuses
  <2>1. j + i \in 1..Len(s) /\ s[j + i] = "not-fixable" /\ i \in 0..m
    BY <1>0, <1>2
  <2>2. CASE Rd!Open(q, i) = 0
    <3>1. Rd!Open(s, j + i) = 0
      BY <1>4, <2>1, <2>2
    <3> QED BY <2>1, <3>1 DEF Refuses, Left
  <2>3. CASE \A k \in i..m : Rd!Open(q, k) = 1
    <3>1. ASSUME NEW k \in (j + i)..Len(s) PROVE Rd!Open(s, k) = 1
      <4>1. CASE k <= j + m
        <5>1. k - j \in i..m /\ k - j \in 0..m /\ k = j + (k - j)
          BY <1>1, <4>1
        <5> QED BY <1>4, <2>3, <5>1
      <4>2. CASE ~(k <= j + m)
        <5>1. k \in (j + m)..Len(s) /\ m \in i..m /\ m \in 0..m
          BY <4>2
        <5>2. Rd!Open(s, j + m) = 1
          BY <1>4, <2>3, <5>1
        <5> QED BY <1>5, <5>1, <5>2
      <4> QED BY <4>1, <4>2
    <3> QED BY <2>1, <3>1 DEF Refuses, Left
  <2> QED BY <1>2, <2>2, <2>3 DEF Left
<1> QED BY <1>0, <1>2, <1>6, <1>7, <1>8, <1>9 DEF Tidy, q

\* Within a think block it stays open.
LEMMA InsideBlock ==
  ASSUME NEW s, Tidy(s), NEW a \in Nat, NEW m \in Nat, a + m <= Len(s), Rd!Open(s, a) = 1,
         \A i \in (a + 1)..(a + m) : s[i] # "</think>"
  PROVE  Rd!Open(s, a + m) = 1
<1> DEFINE S == {n \in Nat : n <= m => Rd!Open(s, a + n) = 1}
<1>0. s \in Seq(Token) /\ Len(s) \in Nat
  BY DEF Tidy
<1>1. 0 \in S
  OBVIOUS
<1>2. ASSUME NEW n \in Nat, n \in S PROVE n + 1 \in S
  <2> SUFFICES ASSUME n + 1 <= m PROVE Rd!Open(s, a + (n + 1)) = 1
    OBVIOUS
  <2>1. /\ a + n \in 0..(Len(s) - 1) /\ a + (n + 1) = (a + n) + 1
        /\ a + (n + 1) \in (a + 1)..(a + m) /\ a + (n + 1) \in 0..Len(s)
    BY <1>0
  <2>2. Rd!Open(s, a + n) = 1
    BY <1>2
  <2>3. Rd!Open(s, a + (n + 1)) = 1 + Adds(s[a + (n + 1)])
    BY <1>0, <2>1, <2>2, OpenSteps
  <2>4. s[a + (n + 1)] # "</think>"
    BY <2>1
  <2>5. Rd!Open(s, a + (n + 1)) \in {0, 1}
    BY <2>1 DEF Tidy, Rd!Unnested
  <2> QED BY <2>3, <2>4, <2>5 DEF Adds
<1>3. m \in S
  <2> HIDE DEF S
  <2> QED BY <1>1, <1>2, Induction
<1> QED BY <1>3

\* The first think block that ends: where it opens and closes.
LEMMA FirstBlock ==
  ASSUME NEW s, Tidy(s), Rd!First(s, "<think>") # 0, Rd!First(s, "</think>") # 0
  PROVE  \E a, b \in 1..Len(s) :
           /\ a = Rd!First(s, "<think>") /\ b = Rd!First(s, "</think>") /\ a < b
           /\ s[a] = "<think>" /\ s[b] = "</think>"
           /\ Rd!Open(s, a - 1) = 0 /\ Rd!Open(s, b) = 0
           /\ \A i \in a..(b - 1) : Rd!Open(s, i) = 1
<1>0. s \in Seq(Token) /\ Len(s) \in Nat
  BY DEF Tidy
<1>1. PICK a \in 1..Len(s) : /\ a = Rd!First(s, "<think>") /\ s[a] = "<think>"
                             /\ \A i \in 1..Len(s) : s[i] = "<think>" => a <= i
  <2>1. Rd!First(s, "<think>") \in 1..Len(s)
    BY <1>0, FirstToken
  <2> QED BY <1>0, <2>1, FirstToken
<1>2. PICK b \in 0..Len(s) : /\ b = Rd!First(s, "</think>")
                             /\ b = 0 => \A i \in 1..Len(s) : s[i] # "</think>"
                             /\ b # 0 => s[b] = "</think>" /\ \A i \in 1..Len(s) : s[i] = "</think>" => b <= i
  BY <1>0, FirstToken
<1>q. ASSUME NEW e \in 1..Len(s), e <= a, b # 0 => e <= b
      PROVE  Rd!Open(s, e - 1) = 0
  <2>1. e - 1 \in Nat /\ 0 + (e - 1) <= Len(s) /\ 0 + (e - 1) = e - 1
    BY <1>0
  <2>2. ASSUME NEW i \in (0 + 1)..(0 + (e - 1)) PROVE s[i] \notin {"<think>", "</think>"}
    <3>1. i \in 1..Len(s) /\ i < a /\ (b # 0 => i < b)
      BY <1>0, <1>q, <2>2
    <3> QED BY <1>1, <1>2, <3>1
  <2>3. Rd!Open(s, 0 + (e - 1)) = Rd!Open(s, 0)
    BY <1>0, <2>1, <2>2, QuietPiece
  <2> QED BY <1>0, <2>1, <2>3, OpenSteps
<1>3. b = 0 \/ a < b
  <2> SUFFICES ASSUME b # 0, ~(a < b) PROVE FALSE
    OBVIOUS
  <2>1. b \in 1..Len(s) /\ b <= a /\ b - 1 \in 0..(Len(s) - 1) /\ (b - 1) + 1 = b /\ b \in 0..Len(s)
    BY <1>0
  <2>2. Rd!Open(s, b - 1) = 0
    BY <1>q, <2>1
  <2>3. Rd!Open(s, b) = 0 + Adds(s[b])
    BY <1>0, <2>1, <2>2, OpenSteps
  <2>4. Rd!Open(s, b) \in {0, 1}
    BY <2>1 DEF Tidy, Rd!Unnested
  <2> QED BY <1>2, <2>3, <2>4 DEF Adds
<1>4. Rd!Open(s, a - 1) = 0
  <2>1. a <= a /\ (b # 0 => a <= b)
    BY <1>0, <1>3
  <2> QED BY <1>q, <2>1
<1>5. Rd!Open(s, a) = 1
  <2>1. a - 1 \in 0..(Len(s) - 1) /\ (a - 1) + 1 = a
    BY <1>0
  <2>2. Rd!Open(s, a) = 0 + Adds(s[a])
    BY <1>0, <1>4, <2>1, OpenSteps
  <2> QED BY <1>1, <2>2 DEF Adds
<1>6. b # 0
  BY <1>2
<1>9. ASSUME NEW i \in a..(b - 1) PROVE Rd!Open(s, i) = 1
  <2>1. PICK m \in Nat : i = a + m
    <3>1. i - a \in Nat /\ i = a + (i - a)
      OBVIOUS
    <3> QED BY <3>1
  <2>2. a \in Nat /\ a + m <= b - 1 /\ a + m <= Len(s) /\ b \in 1..Len(s)
    BY <1>0, <1>6, <2>1
  <2>3. \A k \in (a + 1)..(a + m) : s[k] # "</think>"
    BY <1>0, <1>2, <1>6, <2>2
  <2> QED BY <1>5, <2>1, <2>2, <2>3, InsideBlock
<1>7. Rd!Open(s, b) = 0
  <2>4. Rd!Open(s, b - 1) = 1
    <3>1. b - 1 \in a..(b - 1)
      BY <1>0, <1>3, <1>6
    <3> QED BY <1>9, <3>1
  <2>5. b - 1 \in 0..(Len(s) - 1) /\ (b - 1) + 1 = b
    BY <1>0, <1>6
  <2>6. Rd!Open(s, b) = 1 + Adds(s[b])
    BY <1>0, <2>4, <2>5, OpenSteps
  <2> QED BY <1>2, <1>6, <2>6 DEF Adds
<1>8. b \in 1..Len(s) /\ a < b
  BY <1>0, <1>3, <1>6
<1> QED BY <1>1, <1>2, <1>4, <1>6, <1>7, <1>8, <1>9

\* q is s without what follows the first h tokens, up to the b-th; r are left.
Cut(q, s, h, b, r) ==
    /\ q \in Seq(Token) /\ Len(q) = h + r
    /\ \A i \in 1..h : q[i] = s[i]
    /\ \A i \in 1..r : q[h + i] = s[b + i]

\* What is left where a block is cut out.
LEMMA CutShape ==
  ASSUME NEW s \in Seq(Token), NEW h \in Nat, NEW b \in Nat, NEW r \in Nat,
         h + 1 < b, b + r = Len(s)
  PROVE  Cut(SubSeq(s, 1, h) \o SubSeq(s, b + 1, Len(s)), s, h, b, r)
<1> DEFINE q == SubSeq(s, 1, h) \o SubSeq(s, b + 1, Len(s))
<1> DEFINE u == SubSeq(s, 0 + 1, h)
           w == SubSeq(s, b + 1, Len(s))
<1>0. Len(s) \in Nat
  OBVIOUS
<1>1. PieceOf(u, s, 0, h)
  <2>1. 0 \in Nat /\ 0 <= h /\ h <= Len(s) /\ h - 0 = h
    BY <1>0
  <2> QED BY <2>1, SubSeqPiece
<1>2. PieceOf(w, s, b, r)
  <2>1. b <= Len(s) /\ Len(s) <= Len(s) /\ Len(s) - b = r
    BY <1>0
  <2> QED BY <1>0, <2>1, SubSeqPiece
<1>3. q = u \o w
  <2>1. 0 + 1 = 1
    OBVIOUS
  <2> QED BY <2>1
<1> HIDE DEF u, w, q
<1>4. /\ u \in Seq(Token) /\ Len(u) = h /\ \A i \in 1..h : u[i] = s[0 + i]
      /\ w \in Seq(Token) /\ Len(w) = r /\ \A i \in 1..r : w[i] = s[b + i]
  BY <1>1, <1>2 DEF PieceOf
<1>5. /\ q \in Seq(Token) /\ Len(q) = h + r
      /\ \A i \in 1..(h + r) : q[i] = IF i <= h THEN u[i] ELSE w[i - h]
  <2>1. /\ u \o w \in Seq(Token) /\ Len(u \o w) = Len(u) + Len(w)
        /\ \A i \in 1..(Len(u) + Len(w)) : (u \o w)[i] = IF i <= Len(u) THEN u[i] ELSE w[i - Len(u)]
    BY <1>4, Joined
  <2> QED BY ONLY <1>3, <1>4, <2>1
<1>6. ASSUME NEW i \in 1..h PROVE q[i] = s[i]
  <2>1. i \in 1..(h + r) /\ i <= h /\ 0 + i = i
    OBVIOUS
  <2> QED BY <1>4, <1>5, <2>1
<1>7. ASSUME NEW i \in 1..r PROVE q[h + i] = s[b + i]
  <2>1. h + i \in 1..(h + r) /\ ~(h + i <= h) /\ (h + i) - h = i
    OBVIOUS
  <2> QED BY <1>4, <1>5, <2>1
<1> QED BY <1>5, <1>6, <1>7 DEF Cut, q

\* The first h tokens of s are followed by a think block up to the b-th.
BlockAt(s, h, b, r) ==
    /\ h + 1 < b /\ b + r = Len(s)
    /\ s[h + 1] = "<think>" /\ s[b] = "</think>"
    /\ Rd!Open(s, h) = 0 /\ Rd!Open(s, b) = 0
    /\ \A i \in (h + 1)..(b - 1) : Rd!Open(s, i) = 1

\* It is cut out: what is left is as far within think blocks as it was.
OpenKept(q, s, h, b, r) ==
    /\ \A n \in 0..h : Rd!Open(q, n) = Rd!Open(s, n)
    /\ \A n \in 0..r : Rd!Open(q, h + n) = Rd!Open(s, b + n)

\* Cutting a block out does not change which of the others are open.
LEMMA CutOpen ==
  ASSUME NEW s, Tidy(s), NEW h \in Nat, NEW b \in Nat, NEW r \in Nat, BlockAt(s, h, b, r),
         NEW q, Cut(q, s, h, b, r)
  PROVE  OpenKept(q, s, h, b, r)
<1>b. /\ h + 1 < b /\ b + r = Len(s) /\ s[b] = "</think>" /\ s[h + 1] = "<think>"
      /\ Rd!Open(s, h) = 0 /\ Rd!Open(s, b) = 0
  BY DEF BlockAt
<1>0. s \in Seq(Token) /\ Len(s) \in Nat
  BY DEF Tidy
<1>a. h + 1 < b /\ b + r = Len(s)
  BY <1>b, Zenon
<1> USE <1>a
<1>1. h + 2 + r <= Len(s)
  BY <1>a
<1>2. /\ q \in Seq(Token) /\ Len(q) = h + r /\ Len(q) \in Nat
      /\ \A i \in 1..h : q[i] = s[i]
      /\ \A i \in 1..r : q[h + i] = s[b + i]
  BY DEF Cut
<1>n. h < b /\ h <= Len(s) /\ b <= Len(s)
  BY <1>0, <1>a
<1>3. ASSUME NEW n \in 0..h PROVE Rd!Open(q, n) = Rd!Open(s, n)
  <2>1. \A i \in 1..n : q[0 + i] = s[0 + i]
    BY <1>1, <1>2
  <2>2. n \in Nat /\ 0 \in Nat /\ 0 + n <= Len(s) /\ 0 + n <= Len(q) /\ 0 + n = n
    BY <1>0, <1>1, <1>2, <1>n
  <2>3. q \in Seq(Token)
    BY <1>2
  <2>4. Rd!Open(q, 0 + n) - Rd!Open(q, 0) = Rd!Open(s, 0 + n) - Rd!Open(s, 0)
    <3>1. Same(s, 0, q, 0, n)
      BY <2>1, <2>2 DEF Same
    <3> QED BY ONLY <1>0, <2>2, <2>3, <3>1, SamePiece
  <2>5. n \in 0..Len(q) /\ n \in 0..Len(s)
    BY <1>0, <1>2, <2>2
  <2>6. Rd!Open(q, 0) = 0 /\ Rd!Open(s, 0) = 0 /\ Rd!Open(q, n) \in Int /\ Rd!Open(s, n) \in Int
    BY <1>0, <2>3, <2>5, OpenSteps
  <2> QED BY <2>2, <2>4, <2>6
<1>4. ASSUME NEW n \in 0..r PROVE Rd!Open(q, h + n) = Rd!Open(s, b + n)
  <2>1. \A i \in 1..n : q[h + i] = s[b + i]
    BY <1>1, <1>2
  <2>2. n \in Nat /\ b + n <= Len(s) /\ h + n <= Len(q)
    BY <1>0, <1>1, <1>2, <1>n
  <2>3. q \in Seq(Token)
    BY <1>2
  <2>n. h \in Nat /\ b \in Nat
    OBVIOUS
  <2>4. Rd!Open(q, h + n) - Rd!Open(q, h) = Rd!Open(s, b + n) - Rd!Open(s, b)
    <3>1. Same(s, b, q, h, n)
      BY <2>1, <2>2 DEF Same
    <3> QED BY ONLY <1>0, <2>2, <2>3, <2>n, <3>1, SamePiece
  <2>5. h + n \in 0..Len(q) /\ b + n \in 0..Len(s)
    BY <1>0, <1>1, <1>2, <1>n, <2>2
  <2>6. Rd!Open(q, h + n) \in Int /\ Rd!Open(s, b + n) \in Int
    BY <1>0, <2>3, <2>5, OpenSteps
  <2>7. Rd!Open(q, h) = 0
    <3>1. h \in 0..h
      BY <1>1
    <3> QED BY <1>b, <1>3, <3>1
  <2> QED BY <1>b, <2>4, <2>6, <2>7
<1> QED BY <1>3, <1>4 DEF OpenKept

\* A think block says nothing.
LEMMA CutKeeps ==
  ASSUME NEW s, Tidy(s), NEW h \in Nat, NEW b \in Nat, NEW r \in Nat, BlockAt(s, h, b, r),
         NEW q, Cut(q, s, h, b, r)
  PROVE  /\ Tidy(q) /\ Len(q) + 2 <= Len(s)
         /\ Ends(s) => Ends(q)
         /\ Refuses(q) => Refuses(s)
<1>b. /\ h + 1 < b /\ b + r = Len(s) /\ s[b] = "</think>" /\ s[h + 1] = "<think>"
      /\ Rd!Open(s, h) = 0 /\ Rd!Open(s, b) = 0
  BY DEF BlockAt
<1>0. s \in Seq(Token) /\ Len(s) \in Nat
  BY DEF Tidy
<1>a. h + 1 < b /\ b + r = Len(s)
  BY <1>b, Zenon
<1> USE <1>a
<1>1. h + 2 + r <= Len(s)
  BY <1>a
<1>2. /\ q \in Seq(Token) /\ Len(q) = h + r /\ Len(q) \in Nat
      /\ \A i \in 1..h : q[i] = s[i]
      /\ \A i \in 1..r : q[h + i] = s[b + i]
  BY DEF Cut
<1>n. h < b /\ h <= Len(s) /\ b <= Len(s)
  BY <1>0, <1>a
<1>3. \A n \in 0..h : Rd!Open(q, n) = Rd!Open(s, n)
  BY CutOpen DEF OpenKept
<1>4. \A n \in 0..r : Rd!Open(q, h + n) = Rd!Open(s, b + n)
  BY CutOpen DEF OpenKept
<1>5. \A n \in 0..Len(q) : n \in 0..h \/ \E m \in 0..r : n = h + m
  <2> SUFFICES ASSUME NEW n \in 0..Len(q), n > h PROVE \E m \in 0..r : n = h + m
    BY <1>1, <1>2
  <2>1. n - h \in 0..r /\ n = h + (n - h)
    BY <1>1, <1>2
  <2> QED BY <2>1
<1>6. Rd!Unnested(q)
  <2>1. ASSUME NEW n \in 0..Len(q) PROVE Rd!Open(q, n) \in {0, 1}
    <3>1. CASE n \in 0..h
      <4>1. n \in 0..Len(s)
        BY <1>0, <1>n, <3>1
      <4> QED BY <1>3, <3>1, <4>1 DEF Tidy, Rd!Unnested
    <3>2. CASE \E m \in 0..r : n = h + m
      <4>1. PICK m \in 0..r : n = h + m
        BY <3>2
      <4>2. b + m \in 0..Len(s)
        BY <1>0, <1>1, <1>n
      <4> QED BY <1>4, <4>1, <4>2 DEF Tidy, Rd!Unnested
    <3> QED BY <1>5, <3>1, <3>2
  <2> QED BY <2>1 DEF Rd!Unnested
<1>11. Ends(s) => Ends(q)
  <2>1. r \in 0..r
    BY <1>1
  <2> QED BY <1>1, <1>2, <1>4, <2>1 DEF Ends
<1>12. ASSUME NEW i \in 1..h, Left(q, i) PROVE Left(s, i)
  <2>1. h \in i..Len(q) /\ h \in 0..h /\ i \in 0..h
    BY <1>2
  <2>2. Rd!Open(q, h) # 1
    BY <1>3, <1>b, <2>1
  <2>3. Rd!Open(q, i) = 0
    BY <1>12, <2>1, <2>2 DEF Left
  <2> QED BY <1>3, <2>1, <2>3 DEF Left
<1>13. ASSUME NEW m \in 1..r, Left(q, h + m) PROVE Left(s, b + m)
  <2>1. CASE Rd!Open(q, h + m) = 0
    <3>1. m \in 0..r
      OBVIOUS
    <3> QED BY <1>4, <2>1, <3>1 DEF Left
  <2>2. CASE \A k \in (h + m)..Len(q) : Rd!Open(q, k) = 1
    <3>1. ASSUME NEW k \in (b + m)..Len(s) PROVE Rd!Open(s, k) = 1
      <4>1. PICK n \in 0..r : k = b + n /\ h + n \in (h + m)..Len(q)
        <5>1. k - b \in 0..r /\ k = b + (k - b) /\ h + (k - b) \in (h + m)..Len(q)
          BY <1>2
        <5> QED BY <5>1
      <4> QED BY <1>4, <2>2, <4>1
    <3> QED BY <3>1 DEF Left
  <2> QED BY <1>13, <2>1, <2>2 DEF Left
<1>7. ASSUME NEW i \in 1..Len(q), q[i] = "not-fixable"
      PROVE  /\ i > 1 /\ i < Len(q) /\ q[i - 1] = "{" /\ q[i + 1] = "}"
             /\ \E k \in 1..Len(s) : s[k] = "not-fixable" /\ (Left(q, i) => Left(s, k))
  <2>1. CASE i \in 1..h
    <3>1. i \in 1..Len(s) /\ s[i] = "not-fixable" /\ i \in 0..h
      BY <1>0, <1>2, <1>7, <1>n, <2>1
    <3>2. /\ i > 1 /\ i < Len(s)
          /\ s[i - 1] = "{" /\ s[i + 1] = "}"
      BY <3>1 DEF Tidy, Framed
    <3>3. i # h
      BY <1>b, <1>n, <3>2
    <3>4. i - 1 \in 1..h /\ i + 1 \in 1..h
      <4>1. i > 1
        BY <3>2, Zenon
      <4> QED BY <2>1, <3>3, <4>1
    <3>5. i < Len(q)
      BY <1>1, <1>2, <3>4
    <3> QED BY <1>2, <1>12, <2>1, <3>1, <3>2, <3>4, <3>5
  <2>2. CASE i \notin 1..h
    <3>1. PICK m \in 1..r : i = h + m
      <4>1. i - h \in 1..r /\ i = h + (i - h)
        BY <1>1, <1>2, <2>2
      <4> QED BY <4>1
    <3>2. b + m \in 1..Len(s) /\ s[b + m] = "not-fixable" /\ m \in 0..r
      BY <1>0, <1>1, <1>2, <1>7, <1>n, <3>1
    <3>3. /\ b + m > 1 /\ b + m < Len(s)
          /\ s[(b + m) - 1] = "{" /\ s[(b + m) + 1] = "}"
      BY <3>2 DEF Tidy, Framed
    <3>4. m # 1
      <4> SUFFICES ASSUME m = 1 PROVE FALSE
        OBVIOUS
      <4>1. (b + m) - 1 = b
        BY <1>n
      <4> QED BY <1>b, <3>3, <4>1
    <3>5. m < r
      <4>1. b + m < Len(s)
        BY <3>3, Zenon
      <4> QED BY <1>1, <1>n, <4>1
    <3>6. /\ m - 1 \in 1..r /\ m + 1 \in 1..r
          /\ h + (m - 1) = i - 1 /\ h + (m + 1) = i + 1
          /\ b + (m - 1) = (b + m) - 1 /\ b + (m + 1) = (b + m) + 1
          /\ i > 1 /\ i < h + r
      BY <1>1, <1>n, <3>1, <3>4, <3>5
    <3>7. q[i - 1] = s[(b + m) - 1] /\ q[i + 1] = s[(b + m) + 1]
      <4>1. q[h + (m - 1)] = s[b + (m - 1)] /\ q[h + (m + 1)] = s[b + (m + 1)]
        BY <1>2, <3>6
      <4> QED BY <3>6, <4>1, Zenon
    <3>8. Left(q, i) => Left(s, b + m)
      BY <1>13, <3>1
    <3>9. i > 1 /\ i < Len(q)
      BY <1>2, <3>6
    <3> QED BY <3>2, <3>3, <3>7, <3>8, <3>9
  <2> QED BY <2>1, <2>2
<1>8. Framed(q)
  BY <1>7 DEF Framed
<1>9. Refuses(q) => Refuses(s)
  BY <1>7 DEF Refuses
<1>10. Len(q) + 2 <= Len(s)
  BY <1>0, <1>1, <1>2
<1> QED BY <1>2, <1>6, <1>8, <1>9, <1>10, <1>11 DEF Tidy

-----------------------------------------------------------------------------
(* The object a reply is meant by, outside the think blocks, stays too.    *)

\* The i-th token stands outside the think blocks.
Out(s, i) == Rd!Open(s, i) = 0 /\ s[i] # "</think>"

\* A fence at i: its line ends before the object at a, and another fence
\* comes after it.
Closed(s, a, i) ==
    /\ \E k \in (i + 1)..(a - 1) : Out(s, k) /\ s[k] = "nl"
    /\ \E k \in (a + 3)..Len(s) : Out(s, k) /\ s[k] = "fence"

\* Every brace outside the think blocks is the object's, no bracket opens there,
\* and every fence before the object is closed.
Lone(s, a, i) ==
    /\ s[i] = "{" => i = a
    /\ s[i] = "}" => i = a + 2
    /\ s[i] # "["
    /\ s[i] = "fence" /\ i < a => Closed(s, a, i)

\* Outside the think blocks, the one object is Object(v) at a, and it is not
\* on the line of a fence.
Aim(s, v, a) ==
    /\ a \in Nat /\ 1 <= a /\ a + 2 <= Len(s)
    /\ s[a] = "{" /\ s[a + 1] = v /\ s[a + 2] = "}"
    /\ Out(s, a) /\ Out(s, a + 1) /\ Out(s, a + 2)
    /\ \A i \in 1..Len(s) : Out(s, i) => Lone(s, a, i)

\* q is s without tokens that are within think blocks, and without white space
\* at its ends; F is where the tokens of q were.
Thins(q, s, F) ==
    /\ Len(q) \in Nat /\ Len(s) \in Nat
    /\ \A i \in 1..Len(q) : F[i] \in 1..Len(s) /\ q[i] = s[F[i]] /\ (Out(q, i) <=> Out(s, F[i]))
    /\ \A i, k \in 1..Len(q) : i < k => F[i] < F[k]
    /\ \A i \in 1..Len(s) : Out(s, i) =>
         \/ \E k \in 1..Len(q) : i = F[k]
         \/ s[i] = "nl" /\ ((\A k \in 1..Len(q) : F[k] < i) \/ \A k \in 1..Len(q) : i < F[k])

\* Thinning a reply leaves the one object that is meant.
LEMMA ThinsAim ==
  ASSUME NEW q, NEW s, NEW F, Thins(q, s, F), NEW v \in Rd!Verdict, NEW a, Aim(s, v, a)
  PROVE  \E x : Aim(q, v, x)
<1>1. /\ Len(q) \in Nat /\ Len(s) \in Nat
      /\ \A i \in 1..Len(q) : F[i] \in 1..Len(s) /\ q[i] = s[F[i]] /\ (Out(q, i) <=> Out(s, F[i]))
      /\ \A i, k \in 1..Len(q) : i < k => F[i] < F[k]
  BY DEF Thins
<1>2. \A i \in 1..Len(s) : Out(s, i) /\ s[i] # "nl" => \E k \in 1..Len(q) : i = F[k]
  BY DEF Thins
<1>3. /\ s[a] = "{" /\ s[a + 1] = v /\ s[a + 2] = "}"
      /\ Out(s, a) /\ Out(s, a + 1) /\ Out(s, a + 2)
  BY DEF Aim
<1>n. a \in Nat /\ 1 <= a /\ a + 2 <= Len(s)
  BY DEF Aim
<1>4. v # "nl" /\ "{" # "nl" /\ "}" # "nl"
  BY DEF Rd!Verdict
<1>5. a \in 1..Len(s) /\ a + 1 \in 1..Len(s) /\ a + 2 \in 1..Len(s)
  BY <1>1, <1>n
<1>6. PICK x \in 1..Len(q), y \in 1..Len(q), z \in 1..Len(q) : a = F[x] /\ a + 1 = F[y] /\ a + 2 = F[z]
  BY <1>2, <1>3, <1>4, <1>5
<1>7. \A i, k \in 1..Len(q) : /\ F[i] \in Int /\ F[k] \in Int
                              /\ F[i] = F[k] => i = k
                              /\ F[i] < F[k] <=> i < k
  <2> SUFFICES ASSUME NEW i \in 1..Len(q), NEW k \in 1..Len(q)
               PROVE  /\ F[i] \in Int /\ F[k] \in Int
                      /\ F[i] = F[k] => i = k
                      /\ F[i] < F[k] <=> i < k
    OBVIOUS
  <2>1. F[i] \in Int /\ F[k] \in Int
    BY <1>1
  <2>2. i < k => F[i] < F[k]
    BY <1>1
  <2>3. k < i => F[k] < F[i]
    BY <1>1
  <2>4. i < k \/ k < i \/ i = k
    BY <1>1
  <2> QED BY <2>1, <2>2, <2>3, <2>4
<1>8. \A i, k \in 1..Len(q) : F[k] = F[i] + 1 => k = i + 1
  <2> SUFFICES ASSUME NEW i \in 1..Len(q), NEW k \in 1..Len(q), F[k] = F[i] + 1 PROVE k = i + 1
    OBVIOUS
  <2>1. F[i] \in Int /\ F[k] \in Int
    BY <1>7
  <2>2. i < k
    BY <1>7, <2>1
  <2>3. ASSUME i + 1 < k PROVE FALSE
    <3>1. i + 1 \in 1..Len(q) /\ i < i + 1
      BY <1>1, <2>3
    <3>2. F[i] < F[i + 1] /\ F[i + 1] < F[k] /\ F[i + 1] \in Int
      BY <1>7, <2>3, <3>1
    <3> QED BY <2>1, <3>2
  <2> QED BY <1>1, <2>2, <2>3
<1>9. y = x + 1 /\ z = x + 2
  <2>1. F[y] = F[x] + 1 /\ F[z] = F[y] + 1
    BY <1>6, <1>n
  <2>2. y = x + 1 /\ z = y + 1
    BY <1>8, <2>1
  <2> QED BY <1>1, <2>2
<1>10. /\ q[x] = "{" /\ q[x + 1] = v /\ q[x + 2] = "}"
       /\ Out(q, x) /\ Out(q, x + 1) /\ Out(q, x + 2)
  <2>1. /\ q[x] = s[F[x]] /\ (Out(q, x) <=> Out(s, F[x]))
        /\ q[y] = s[F[y]] /\ (Out(q, y) <=> Out(s, F[y]))
        /\ q[z] = s[F[z]] /\ (Out(q, z) <=> Out(s, F[z]))
    BY <1>1
  <2> QED BY <1>3, <1>6, <1>9, <2>1, Zenon
<1>11. ASSUME NEW i \in 1..Len(q), Out(q, i) PROVE Lone(q, x, i)
  <2>1. F[i] \in 1..Len(s) /\ q[i] = s[F[i]] /\ Out(s, F[i])
    BY <1>1, <1>11
  <2>2. Lone(s, a, F[i])
    BY <2>1 DEF Aim
  <2>3. /\ q[i] = "{" => F[i] = a
        /\ q[i] = "}" => F[i] = a + 2
        /\ q[i] # "["
        /\ q[i] = "fence" /\ F[i] < a => Closed(s, a, F[i])
    BY <2>1, <2>2 DEF Lone
  <2>4. /\ F[i] = a => i = x
        /\ F[i] = a + 2 => i = z
        /\ i < x => F[i] < a
    BY <1>6, <1>7
  <2>5. ASSUME Closed(s, a, F[i]), i < x PROVE Closed(q, x, i)
    <3>1. PICK k \in (F[i] + 1)..(a - 1) : Out(s, k) /\ s[k] = "nl"
      BY <2>5 DEF Closed
    <3>2. PICK l \in (a + 3)..Len(s) : Out(s, l) /\ s[l] = "fence"
      BY <2>5 DEF Closed
    <3>3. F[i] \in Int /\ k \in 1..Len(s) /\ F[i] < k /\ k < a /\ l \in 1..Len(s) /\ a + 2 < l
      BY <1>1, <1>n, <2>1
    <3>4. PICK m \in 1..Len(q) : k = F[m]
      <4>1. ~(\A w \in 1..Len(q) : F[w] < k)
        <5>1. ~(F[x] < k)
          BY <1>6, <1>n, <3>3
        <5> QED BY <5>1
      <4>2. ~(\A w \in 1..Len(q) : k < F[w])
        <5>1. ~(k < F[i])
          BY <3>3
        <5> QED BY <5>1
      <4> QED BY <3>1, <3>3, <4>1, <4>2 DEF Thins
    <3>5. PICK n \in 1..Len(q) : l = F[n]
      BY <1>2, <3>2, <3>3
    <3>6. i < m /\ m < x /\ z < n
      <4>1. F[i] < F[m] /\ F[m] < F[x] /\ F[z] < F[n]
        BY <1>6, <3>3, <3>4, <3>5
      <4> QED BY <1>7, <4>1
    <3>7. m \in (i + 1)..(x - 1) /\ n \in (x + 3)..Len(q)
      BY <1>1, <1>9, <3>6
    <3>8. Out(q, m) /\ q[m] = "nl" /\ Out(q, n) /\ q[n] = "fence"
      BY <1>1, <3>1, <3>2, <3>4, <3>5
    <3> QED BY <3>7, <3>8 DEF Closed
  <2> QED BY <1>9, <2>3, <2>4, <2>5 DEF Lone
<1>12. x \in Nat /\ 1 <= x /\ x + 2 <= Len(q)
  BY <1>1, <1>9
<1>13. Aim(q, v, x)
  BY <1>10, <1>11, <1>12 DEF Aim
<1> QED BY <1>13

\* White space around the reply.
LEMMA TrimAim ==
  ASSUME NEW s, Tidy(s), NEW v \in Rd!Verdict, \E a : Aim(s, v, a)
  PROVE  \E a : Aim(Rd!Trim(s), v, a)
<1>0. Len(s) \in Nat
  BY DEF Tidy
<1> DEFINE q == Rd!Trim(s)
<1>1. PICK j \in Nat : Trimmed(q, s, j)
  BY TrimOpen
<1> HIDE DEF q
<1>2. /\ Len(q) \in Nat /\ j + Len(q) <= Len(s)
      /\ \A i \in 1..Len(q) : q[i] = s[j + i]
      /\ \A i \in 1..j : s[i] = "nl"
      /\ \A i \in (j + Len(q) + 1)..Len(s) : s[i] = "nl"
      /\ \A n \in 0..Len(q) : Rd!Open(q, n) = Rd!Open(s, j + n)
  BY <1>1 DEF Trimmed, PieceOf
<1> DEFINE F == [i \in 1..Len(q) |-> j + i]
<1>3. \A i \in 1..Len(q) : F[i] = j + i /\ F[i] \in 1..Len(s) /\ i \in 0..Len(q)
  BY <1>0, <1>2
<1>f. \A i \in 1..Len(q) : F[i] = j + i
  OBVIOUS
<1> HIDE DEF F
<1>4. \A i \in 1..Len(q) : q[i] = s[F[i]] /\ (Out(q, i) <=> Out(s, F[i]))
  BY <1>2, <1>3 DEF Out
<1>5. \A i, k \in 1..Len(q) : i < k => F[i] < F[k]
  BY <1>f, <1>2
<1>6. ASSUME NEW i \in 1..Len(s)
      PROVE  \/ \E k \in 1..Len(q) : i = F[k]
             \/ s[i] = "nl" /\ ((\A k \in 1..Len(q) : F[k] < i) \/ \A k \in 1..Len(q) : i < F[k])
  <2>1. CASE i <= j
    <3>1. i \in 1..j
      BY <2>1
    <3>2. \A k \in 1..Len(q) : i < F[k]
      BY <1>f, <2>1
    <3> QED BY <1>2, <3>1, <3>2
  <2>2. CASE i > j + Len(q)
    <3>1. i \in (j + Len(q) + 1)..Len(s)
      BY <1>0, <1>2, <2>2
    <3>2. \A k \in 1..Len(q) : F[k] < i
      BY <1>f, <1>2, <2>2
    <3> QED BY <1>2, <3>1, <3>2
  <2>3. CASE ~(i <= j) /\ ~(i > j + Len(q))
    <3>1. i - j \in 1..Len(q) /\ i = j + (i - j)
      BY <1>2, <2>3
    <3> QED BY <1>f, <3>1
  <2> QED BY <2>1, <2>2, <2>3
<1>7. Thins(q, s, F)
  BY <1>0, <1>2, <1>3, <1>4, <1>5, <1>6 DEF Thins
<1> QED BY <1>7, ThinsAim DEF q

\* A think block.
LEMMA CutAim ==
  ASSUME NEW s, Tidy(s), NEW h \in Nat, NEW b \in Nat, NEW r \in Nat, BlockAt(s, h, b, r),
         NEW q, Cut(q, s, h, b, r),
         NEW v \in Rd!Verdict, \E a : Aim(s, v, a)
  PROVE  \E a : Aim(q, v, a)
<1>a. h + 1 < b /\ b + r = Len(s)
  BY DEF BlockAt
<1>0. Len(s) \in Nat /\ b <= Len(s) /\ h < b /\ h <= Len(s)
  <2>1. Len(s) \in Nat
    BY DEF Tidy
  <2> QED BY <1>a, <2>1
<1>1. /\ Len(q) = h + r
      /\ \A i \in 1..h : q[i] = s[i]
      /\ \A i \in 1..r : q[h + i] = s[b + i]
  BY DEF Cut
<1>2. /\ \A n \in 0..h : Rd!Open(q, n) = Rd!Open(s, n)
      /\ \A n \in 0..r : Rd!Open(q, h + n) = Rd!Open(s, b + n)
  BY CutOpen DEF OpenKept
<1>b. /\ s[b] = "</think>"
      /\ \A i \in (h + 1)..(b - 1) : Rd!Open(s, i) = 1
  BY DEF BlockAt
<1> DEFINE F == [i \in 1..(h + r) |-> IF i <= h THEN i ELSE b + (i - h)]
<1>3. \A i \in 1..h : F[i] = i
  OBVIOUS
<1>4. \A k \in 1..r : F[h + k] = b + k
  <2> SUFFICES ASSUME NEW k \in 1..r PROVE F[h + k] = b + k
    OBVIOUS
  <2>1. h + k \in 1..(h + r) /\ ~(h + k <= h) /\ (h + k) - h = k
    OBVIOUS
  <2> QED BY <2>1
<1>5. \A i \in 1..(h + r) : F[i] = IF i <= h THEN i ELSE b + (i - h)
  OBVIOUS
<1> HIDE DEF F
<1>e. \A i \in 1..(h + r) : i \in 1..h \/ \E m \in 1..r : i = h + m
  BY Either
<1>6. ASSUME NEW i \in 1..(h + r)
      PROVE  F[i] \in 1..Len(s) /\ q[i] = s[F[i]] /\ (Out(q, i) <=> Out(s, F[i]))
  <2>1. CASE i \in 1..h
    <3>1. i \in 0..h /\ i \in 1..Len(s) /\ F[i] = i
      BY <1>0, <1>3, <2>1
    <3> QED BY <1>1, <1>2, <2>1, <3>1 DEF Out
  <2>2. CASE \E m \in 1..r : i = h + m
    <3>1. PICK m \in 1..r : i = h + m
      BY <2>2
    <3>2. m \in 0..r /\ b + m \in 1..Len(s) /\ F[i] = b + m
      BY <1>0, <1>4, <1>a, <3>1
    <3> QED BY <1>1, <1>2, <3>1, <3>2 DEF Out
  <2> QED BY <1>e, <2>1, <2>2
<1>7. ASSUME NEW i \in 1..(h + r), NEW k \in 1..(h + r), i < k PROVE F[i] < F[k]
  BY <1>0, <1>5, <1>7
<1>8. ASSUME NEW i \in 1..Len(s), Out(s, i) PROVE \E k \in 1..(h + r) : i = F[k]
  <2>1. CASE i <= h
    <3>1. i \in 1..h /\ i \in 1..(h + r)
      BY <2>1
    <3> QED BY <1>3, <3>1
  <2>2. CASE i > b
    <3>1. i - b \in 1..r /\ i = b + (i - b) /\ h + (i - b) \in 1..(h + r)
      BY <1>0, <1>a, <2>2
    <3> QED BY <1>4, <3>1
  <2>3. ASSUME ~(i <= h), ~(i > b) PROVE FALSE
    <3>1. i = b \/ i \in (h + 1)..(b - 1)
      BY <2>3
    <3>2. Out(s, i) /\ s[b] = "</think>" /\ (i \in (h + 1)..(b - 1) => Rd!Open(s, i) = 1)
      BY <1>8, <1>b
    <3> QED BY <3>1, <3>2 DEF Out
  <2> QED BY <2>1, <2>2, <2>3
<1>9. Len(q) \in Nat
  BY <1>1
<1>10. Thins(q, s, F)
  BY <1>0, <1>1, <1>6, <1>7, <1>8, <1>9 DEF Thins
<1> QED BY <1>10, ThinsAim

-----------------------------------------------------------------------------
(* The loop that strips think blocks.                                      *)

\* A pass cuts out the first think block, if that ends.
LEMMA StripBlockCuts ==
  ASSUME NEW s, Tidy(s), Rd!First(s, "<think>") # 0, Rd!First(s, "</think>") # 0
  PROVE  \E h, b, r \in Nat : \E q :
           BlockAt(s, h, b, r) /\ Cut(q, s, h, b, r) /\ Rd!StripBlock(s) = Rd!Trim(q)
<1>0. s \in Seq(Token) /\ Len(s) \in Nat
  BY DEF Tidy
<1>1. PICK a, b \in 1..Len(s) :
         /\ a = Rd!First(s, "<think>") /\ b = Rd!First(s, "</think>") /\ a < b
         /\ s[a] = "<think>" /\ s[b] = "</think>"
         /\ Rd!Open(s, a - 1) = 0 /\ Rd!Open(s, b) = 0
         /\ \A i \in a..(b - 1) : Rd!Open(s, i) = 1
  BY FirstBlock
<1> DEFINE h == a - 1
           r == Len(s) - b
           q == SubSeq(s, 1, h) \o SubSeq(s, b + 1, Len(s))
<1>2. Rd!StripBlock(s) = Rd!Trim(q)
  <2>1. a # 0 /\ ~(b < a)
    BY <1>0, <1>1
  <2> QED BY <1>1, <2>1 DEF Rd!StripBlock
<1>3. h \in Nat /\ b \in Nat /\ r \in Nat /\ h + 1 < b /\ b + r = Len(s) /\ h + 1 = a
  <2>1. a \in 1..Len(s) /\ b \in 1..Len(s) /\ a < b
    BY <1>1
  <2> QED BY ONLY <1>0, <2>1
<1>4. BlockAt(s, h, b, r)
  BY <1>1, <1>3 DEF BlockAt
<1> HIDE DEF h, r
<1>5. Cut(q, s, h, b, r)
  BY <1>0, <1>3, CutShape
<1> HIDE DEF q
<1> QED BY <1>2, <1>3, <1>4, <1>5

\* What a pass leaves of a reply.
Keeps(q, s) ==
    /\ Tidy(q)
    /\ Ends(s) => Ends(q)
    /\ Refuses(q) => Refuses(s)
    /\ \A v \in Rd!Verdict : (\E a : Aim(s, v, a)) => \E a : Aim(q, v, a)

\* A reply without think blocks is not in one.
LEMMA NoBlocks ==
  ASSUME NEW s, Tidy(s), Rd!First(s, "<think>") = 0
  PROVE  \A i \in 1..Len(s) : Rd!Open(s, i) = 0
<1>0. s \in Seq(Token) /\ Len(s) \in Nat
  BY DEF Tidy
<1> DEFINE S == {n \in Nat : n <= Len(s) => Rd!Open(s, n) = 0}
<1>1. 0 \in S
  BY <1>0, OpenSteps
<1>2. ASSUME NEW n \in Nat, n \in S PROVE n + 1 \in S
  <2> SUFFICES ASSUME n + 1 <= Len(s) PROVE Rd!Open(s, n + 1) = 0
    OBVIOUS
  <2>1. n \in 0..(Len(s) - 1) /\ n + 1 \in 1..Len(s) /\ n + 1 \in 0..Len(s) /\ n <= Len(s)
    BY <1>0
  <2>2. Rd!Open(s, n) = 0
    BY <1>2, <2>1
  <2>3. s[n + 1] # "<think>"
    BY <1>0, <2>1, FirstToken
  <2>4. Rd!Open(s, n + 1) \in {0, 1}
    BY <2>1 DEF Tidy, Rd!Unnested
  <2>5. Rd!Open(s, n + 1) = 0 + Adds(s[n + 1])
    BY <1>0, <2>1, <2>2, OpenSteps
  <2> QED BY <2>3, <2>4, <2>5 DEF Adds
<1> HIDE DEF S
<1>3. Nat \subseteq S
  BY <1>1, <1>2, Induction
<1> QED BY <1>0, <1>3 DEF S

\* Where no think block begins, none ends.
LEMMA NoEnds ==
  ASSUME NEW s, Tidy(s), Rd!First(s, "<think>") = 0
  PROVE  Rd!First(s, "</think>") = 0
<1>0. s \in Seq(Token) /\ Len(s) \in Nat
  BY DEF Tidy
<1>1. \A i \in 1..Len(s) : Rd!Open(s, i) = 0
  BY NoBlocks
<1>2. ASSUME NEW i \in 1..Len(s), s[i] = "</think>" PROVE FALSE
  <2>1. i - 1 \in 0..(Len(s) - 1) /\ (i - 1) + 1 = i /\ (i - 1 = 0 \/ i - 1 \in 1..Len(s))
    BY <1>0
  <2>2. Rd!Open(s, 0) = 0
    BY <1>0, OpenSteps
  <2>3. Rd!Open(s, i - 1) = 0
    BY <1>1, <2>1, <2>2
  <2>4. Rd!Open(s, i) = 0 + Adds(s[i])
    BY <1>0, <2>1, <2>3, OpenSteps
  <2>5. 0 + Adds("</think>") # 0
    BY DEF Adds
  <2>6. Rd!Open(s, i) = 0
    BY <1>1
  <2> QED BY <1>2, <2>4, <2>5, <2>6
<1>3. Rd!First(s, "</think>") \in 0..Len(s)
  BY <1>0, FirstToken
<1>4. Rd!First(s, "</think>") \notin 1..Len(s)
  BY <1>0, <1>2, FirstToken
<1> QED BY <1>0, <1>3, <1>4

\* Where no think block ends, one that is open stays so.
LEMMA CutOff ==
  ASSUME NEW s, Tidy(s), Rd!First(s, "</think>") = 0, NEW i \in 1..Len(s), Rd!Open(s, i) = 1
  PROVE  \A k \in i..Len(s) : Rd!Open(s, k) = 1
<1>0. s \in Seq(Token) /\ Len(s) \in Nat
  BY DEF Tidy
<1> SUFFICES ASSUME NEW k \in i..Len(s) PROVE Rd!Open(s, k) = 1
  OBVIOUS
<1>1. PICK m \in Nat : k = i + m
  <2>1. k - i \in Nat /\ k = i + (k - i)
    OBVIOUS
  <2> QED BY <2>1
<1>2. i \in Nat /\ i + m <= Len(s)
  BY <1>0, <1>1
<1>3. \A j \in (i + 1)..(i + m) : s[j] # "</think>"
  <2>1. \A j \in (i + 1)..(i + m) : j \in 1..Len(s)
    BY <1>0, <1>2
  <2> QED BY <1>0, <2>1, FirstToken
<1> QED BY <1>1, <1>2, <1>3, InsideBlock

\* One pass of the loop.
LEMMA StripBlockKeeps ==
  ASSUME NEW s, Tidy(s)
  PROVE  /\ Keeps(Rd!StripBlock(s), s)
         /\ IF Rd!First(s, "</think>") = 0 THEN Rd!StripBlock(s) = s
                                           ELSE Len(Rd!StripBlock(s)) + 2 <= Len(s)
<1>0. s \in Seq(Token) /\ Len(s) \in Nat
  BY DEF Tidy
<1>1. CASE Rd!First(s, "</think>") = 0
  <2>1. Rd!StripBlock(s) = s
    <3>1. Rd!First(s, "<think>") \in Nat
      BY <1>0, FirstToken
    <3>2. Rd!First(s, "<think>") = 0 \/ 0 < Rd!First(s, "<think>")
      BY <3>1
    <3> QED BY <1>1, <3>2 DEF Rd!StripBlock
  <2> QED BY <1>1, <2>1 DEF Keeps
<1>2. CASE Rd!First(s, "</think>") # 0
  <2>0. Rd!First(s, "<think>") # 0
    BY <1>2, NoEnds
  <2>1. PICK h \in Nat, b \in Nat, r \in Nat : \E q :
           BlockAt(s, h, b, r) /\ Cut(q, s, h, b, r) /\ Rd!StripBlock(s) = Rd!Trim(q)
    BY <1>2, <2>0, StripBlockCuts
  <2>2. PICK q : BlockAt(s, h, b, r) /\ Cut(q, s, h, b, r) /\ Rd!StripBlock(s) = Rd!Trim(q)
    BY <2>1
  <2>3. Tidy(q) /\ Len(q) + 2 <= Len(s) /\ (Ends(s) => Ends(q)) /\ (Refuses(q) => Refuses(s))
    BY <2>2, CutKeeps
  <2>4. /\ Tidy(Rd!Trim(q)) /\ Len(Rd!Trim(q)) <= Len(q)
        /\ Ends(q) => Ends(Rd!Trim(q))
        /\ Refuses(Rd!Trim(q)) => Refuses(q)
    BY <2>3, TrimKeeps
  <2>5. Len(q) \in Nat /\ Len(Rd!Trim(q)) \in Nat
    BY <2>3, <2>4 DEF Tidy
  <2>6. Len(Rd!Trim(q)) + 2 <= Len(s)
    <3>1. Len(q) + 2 <= Len(s) /\ Len(Rd!Trim(q)) <= Len(q)
      BY <2>3, <2>4, Zenon
    <3> QED BY ONLY <1>0, <2>5, <3>1
  <2>7. ASSUME NEW v \in Rd!Verdict, \E a : Aim(s, v, a) PROVE \E a : Aim(Rd!Trim(q), v, a)
    <3>1. \E a : Aim(q, v, a)
      BY <2>2, <2>7, CutAim
    <3> QED BY <2>3, <3>1, TrimAim
  <2>8. Keeps(Rd!Trim(q), s)
    BY <2>3, <2>4, <2>7 DEF Keeps
  <2> QED BY <1>2, <2>2, <2>6, <2>8
<1> QED BY <1>1, <1>2

\* What two passes leave.
LEMMA KeepsOn ==
  ASSUME NEW p, NEW q, NEW s, Keeps(p, q), Keeps(q, s)
  PROVE  Keeps(p, s)
<1>1. (Refuses(p) => Refuses(s)) /\ (Ends(s) => Ends(p))
  BY DEF Keeps
<1>2. ASSUME NEW v \in Rd!Verdict, \E a : Aim(s, v, a) PROVE \E a : Aim(p, v, a)
  BY <1>2 DEF Keeps
<1> QED BY <1>1, <1>2 DEF Keeps

\* What trimming leaves.
LEMMA WhiteSpaceKeeps ==
  ASSUME NEW s, Tidy(s)
  PROVE  Keeps(Rd!Trim(s), s)
BY TrimKeeps, TrimAim DEF Keeps

\* The loop that strips think blocks, pass after pass.
LEMMA StripSteps ==
  ASSUME NEW s \in Seq(Token)
  PROVE  \E f : /\ f[0] = s
                /\ \A n \in 0..(Len(s) - 1) : f[n + 1] = Rd!StripBlock(f[n])
                /\ Rd!StripThink(s) = f[Len(s)]
<1> DEFINE Fits(g, m) == g = [n \in 0..m |-> IF n = 0 THEN s ELSE Rd!StripBlock(g[n - 1])]
           S == {m \in Nat : \E g : Fits(g, m)}
           f == CHOOSE g : Fits(g, Len(s))
<1>1. Rd!StripThink(s) = f[Len(s)]
  BY DEF Rd!StripThink
<1>2. 0 \in S
  <2>1. Fits([n \in 0..0 |-> s], 0)
    OBVIOUS
  <2> QED BY <2>1
<1>3. ASSUME NEW m \in Nat, m \in S PROVE m + 1 \in S
  <2>1. PICK g : Fits(g, m)
    BY <1>3
  <2> DEFINE h == [n \in 0..(m + 1) |-> IF n = m + 1 THEN Rd!StripBlock(g[m]) ELSE g[n]]
  <2>2. Fits(h, m + 1)
    <3>1. ASSUME NEW n \in 0..(m + 1)
          PROVE  h[n] = IF n = 0 THEN s ELSE Rd!StripBlock(h[n - 1])
      BY <2>1
    <3> QED BY <3>1
  <2> HIDE DEF h, Fits
  <2> QED BY <2>2
<1>0. Len(s) \in Nat
  OBVIOUS
<1>4. \E g : Fits(g, Len(s))
  <2> HIDE DEF S
  <2>2. Len(s) \in S
    BY <1>0, <1>2, <1>3, Induction
  <2> QED BY <2>2 DEF S
<1>5. Fits(f, Len(s))
  <2> HIDE DEF Fits
  <2> QED BY <1>4
<1> HIDE DEF f
<1>6. f = [n \in 0..Len(s) |-> IF n = 0 THEN s ELSE Rd!StripBlock(f[n - 1])]
  BY <1>5
<1>7. f[0] = s
  BY <1>0, <1>6
<1>8. ASSUME NEW n \in 0..(Len(s) - 1) PROVE f[n + 1] = Rd!StripBlock(f[n])
  <2>1. n + 1 \in 0..Len(s) /\ n + 1 # 0 /\ (n + 1) - 1 = n
    BY <1>0
  <2> QED BY <1>6, <2>1
<1> QED BY <1>1, <1>7, <1>8

\* The loop leaves no think block that ends, and what is said outside those.
LEMMA StripThinkKeeps ==
  ASSUME NEW s, Tidy(s)
  PROVE  /\ Keeps(Rd!StripThink(s), s)
         /\ Rd!First(Rd!StripThink(s), "</think>") = 0
<1>0. s \in Seq(Token) /\ Len(s) \in Nat
  BY DEF Tidy
<1>1. PICK f : /\ f[0] = s
               /\ \A n \in 0..(Len(s) - 1) : f[n + 1] = Rd!StripBlock(f[n])
               /\ Rd!StripThink(s) = f[Len(s)]
  BY <1>0, StripSteps
<1> DEFINE P(n) == /\ Keeps(f[n], s)
                   /\ Rd!First(f[n], "</think>") = 0 \/ Len(f[n]) + (n + n) <= Len(s)
           S == {n \in Nat : n <= Len(s) => P(n)}
<1>2. 0 \in S
  <2>1. Keeps(s, s)
    BY DEF Keeps
  <2>2. P(0)
    BY <1>0, <1>1, <2>1
  <2> QED BY <2>2
<1>3. ASSUME NEW n \in Nat, n \in S PROVE n + 1 \in S
  <2>a. (n + 1 <= Len(s) => P(n + 1)) => n + 1 \in S
    <3> HIDE DEF P
    <3> QED OBVIOUS
  <2> SUFFICES ASSUME n + 1 <= Len(s) PROVE P(n + 1)
    BY <2>a
  <2>1. n \in 0..(Len(s) - 1) /\ n <= Len(s)
    BY <1>0
  <2>2. P(n)
    <3> HIDE DEF P
    <3> QED BY <1>3, <2>1
  <2>3. f[n + 1] = Rd!StripBlock(f[n])
    BY <1>1, <2>1
  <2>c. Tidy(f[n])
    BY <2>2 DEF Keeps
  <2>4. /\ Keeps(f[n + 1], f[n])
        /\ IF Rd!First(f[n], "</think>") = 0 THEN f[n + 1] = f[n]
                                            ELSE Len(f[n + 1]) + 2 <= Len(f[n])
    BY <2>c, <2>3, StripBlockKeeps
  <2>5. Rd!First(f[n + 1], "</think>") = 0 \/ Len(f[n + 1]) + ((n + 1) + (n + 1)) <= Len(s)
    <3>1. CASE Rd!First(f[n], "</think>") = 0
      BY <2>4, <3>1
    <3>2. CASE Rd!First(f[n], "</think>") # 0
      <4>1. Len(f[n]) + (n + n) <= Len(s) /\ Len(f[n + 1]) + 2 <= Len(f[n])
        BY <2>2, <2>4, <3>2, Zenon
      <4>2. Len(f[n]) \in Nat /\ Len(f[n + 1]) \in Nat
        BY <2>c, <2>4 DEF Tidy, Keeps
      <4>3. Len(f[n + 1]) + ((n + 1) + (n + 1)) <= Len(s)
        <5>1. PICK a, b, l \in Nat : a = Len(f[n]) /\ b = Len(f[n + 1]) /\ l = Len(s)
          BY <1>0, <4>2
        <5>2. a + (n + n) <= l /\ b + 2 <= a
          BY <4>1, <5>1
        <5>3. b + ((n + 1) + (n + 1)) <= l
          BY ONLY <5>2, n \in Nat, a \in Nat, b \in Nat, l \in Nat
        <5> QED BY <5>1, <5>3
      <4> QED BY <4>3, Zenon
    <3> QED BY <3>1, <3>2, Zenon
  <2>6. Keeps(f[n + 1], s)
    BY <2>2, <2>4, KeepsOn
  <2> QED BY <2>5, <2>6, Zenon
<1> DEFINE q == f[Len(s)]
<1>4. P(Len(s))
  <2> HIDE DEF P
  <2>1. \A n \in Nat : n \in S => n + 1 \in S
    BY <1>3
  <2>2. Len(s) \in S
    <3> HIDE DEF S
    <3> QED BY <1>0, <1>2, <2>1, Induction
  <2> QED BY <1>0, <2>2
<1>q. q \in Seq(Token) /\ Len(q) \in Nat
  BY <1>4 DEF Tidy, Keeps
<1>5. Rd!First(q, "</think>") = 0
  <2> SUFFICES ASSUME Rd!First(q, "</think>") # 0 PROVE FALSE
    OBVIOUS
  <2>1. Len(q) + (Len(s) + Len(s)) <= Len(s)
    BY <1>4, Zenon
  <2>2. Rd!First(q, "</think>") \in 1..Len(q)
    BY <1>q, FirstToken
  <2>3. PICK k, l \in Nat : k = Len(q) /\ l = Len(s)
    BY <1>0, <1>q
  <2>4. k + (l + l) <= l
    BY <2>1, <2>3, Zenon
  <2>5. k # 0
    <3>1. Rd!First(q, "</think>") \in 1..k
      BY <2>2, <2>3, Zenon
    <3> QED BY ONLY <3>1, k \in Nat
  <2> QED BY ONLY <2>4, <2>5, k \in Nat, l \in Nat
<1> QED BY <1>1, <1>4, <1>5

\* Where every think block ends and none does, all is outside.
LEMMA AllOut ==
  ASSUME NEW s, Tidy(s), Ends(s), Rd!First(s, "</think>") = 0
  PROVE  \A i \in 1..Len(s) : Out(s, i)
<1>0. s \in Seq(Token) /\ Len(s) \in Nat
  BY DEF Tidy
<1>1. \A i \in 1..Len(s) : s[i] # "</think>"
  BY <1>0, FirstToken
<1>2. ASSUME NEW i \in 1..Len(s) PROVE Rd!Open(s, i) = 0
  <2> SUFFICES ASSUME Rd!Open(s, i) = 1 PROVE FALSE
    <3>1. i \in 0..Len(s)
      BY <1>0
    <3> QED BY <3>1 DEF Tidy, Rd!Unnested
  <2>1. i \in i..Len(s) /\ Len(s) \in i..Len(s)
    BY <1>0
  <2>2. Rd!Open(s, Len(s)) = 1
    BY <2>1, CutOff
  <2> QED BY <2>2 DEF Ends
<1> QED BY <1>1, <1>2 DEF Out

-----------------------------------------------------------------------------
(* The fence and the braces.                                               *)

\* The token t is somewhere in s.
Mentions(s, t) == \E i \in 1..Len(s) : s[i] = t

\* A piece of a reply says no more than the reply.
LEMMA PieceMentions ==
  ASSUME NEW s \in Seq(Token), NEW q, NEW j, NEW m, PieceOf(q, s, j, m), NEW t, Mentions(q, t)
  PROVE  Mentions(s, t)
<1>1. /\ Len(q) = m /\ j \in Nat /\ m \in Nat /\ j + m <= Len(s)
      /\ \A i \in 1..m : q[i] = s[j + i]
  BY DEF PieceOf
<1>2. PICK i \in 1..m : q[i] = t
  BY <1>1 DEF Mentions
<1>3. j + i \in 1..Len(s)
  BY <1>1
<1> QED BY <1>1, <1>2, <1>3 DEF Mentions

\* Trimming adds no token.
LEMMA TrimMentions ==
  ASSUME NEW s \in Seq(Token), NEW t
  PROVE  Rd!Trim(s) \in Seq(Token) /\ (Mentions(Rd!Trim(s), t) => Mentions(s, t))
<1>1. PICK j, m \in Nat : PieceOf(Rd!Trim(s), s, j, m)
  BY TrimPiece
<1> QED BY <1>1, PieceMentions DEF PieceOf

\* Stripping a fence adds no token.
LEMMA StripFenceMentions ==
  ASSUME NEW s \in Seq(Token), NEW t
  PROVE  Rd!StripFence(s) \in Seq(Token) /\ (Mentions(Rd!StripFence(s), t) => Mentions(s, t))
<1> DEFINE n == Rd!First(s, "nl")
           body == IF n = 0 THEN s ELSE SubSeq(s, n + 1, Len(s))
           e == Rd!Final(body, "fence")
           u == IF e = 0 THEN body ELSE SubSeq(body, 1, e - 1)
<1>0. Len(s) \in Nat
  OBVIOUS
<1>1. CASE s = <<>> \/ Head(s) # "fence"
  BY <1>1 DEF Rd!StripFence
<1>2. CASE ~(s = <<>> \/ Head(s) # "fence")
  <2>1. Rd!StripFence(s) = Rd!Trim(u)
    BY <1>2 DEF Rd!StripFence
  <2>2. body \in Seq(Token) /\ (Mentions(body, t) => Mentions(s, t))
    <3>1. CASE n = 0
      BY <3>1
    <3>2. CASE n # 0
      <4>1. n \in 1..Len(s)
        BY <3>2, FirstToken
      <4> HIDE DEF n
      <4>2. n \in Nat /\ n <= Len(s) /\ Len(s) <= Len(s)
        BY <1>0, <4>1
      <4>3. PieceOf(SubSeq(s, n + 1, Len(s)), s, n, Len(s) - n)
        BY <1>0, <4>2, SubSeqPiece
      <4>4. body = SubSeq(s, n + 1, Len(s))
        BY <3>2
      <4> HIDE DEF body
      <4>5. PieceOf(body, s, n, Len(s) - n)
        BY <4>3, <4>4
      <4> QED BY <4>5, PieceMentions DEF PieceOf
    <3> QED BY <3>1, <3>2
  <2> HIDE DEF body
  <2>3. u \in Seq(Token) /\ (Mentions(u, t) => Mentions(body, t))
    <3>1. CASE e = 0
      BY <2>2, <3>1
    <3>2. CASE e # 0
      <4>1. e \in 1..Len(body) /\ Len(body) \in Nat
        BY <2>2, <3>2, LastToken
      <4> HIDE DEF e
      <4>2. e - 1 \in Nat /\ e - 1 <= Len(body) /\ 0 <= e - 1 /\ 0 \in Nat /\ 0 + 1 = 1
        BY <4>1
      <4>3. PieceOf(SubSeq(body, 0 + 1, e - 1), body, 0, e - 1 - 0)
        BY <2>2, <4>2, SubSeqPiece
      <4>4. u = SubSeq(body, 0 + 1, e - 1)
        BY <3>2, <4>2
      <4> HIDE DEF u
      <4>5. PieceOf(u, body, 0, e - 1 - 0)
        BY <4>3, <4>4
      <4> QED BY <2>2, <4>5, PieceMentions DEF PieceOf
    <3> QED BY <3>1, <3>2
  <2> HIDE DEF u
  <2> QED BY <2>1, <2>2, <2>3, TrimMentions
<1> QED BY <1>1, <1>2

\* Cutting to the braces adds no token.
LEMMA BracedMentions ==
  ASSUME NEW s \in Seq(Token), NEW t
  PROVE  Mentions(Rd!Braced(s), t) => Mentions(s, t)
<1> DEFINE a == Rd!First(s, "{")
           b == Rd!Final(s, "}")
<1>0. Len(s) \in Nat
  OBVIOUS
<1>1. CASE ~(~Rd!IsJSON(s) /\ a # 0 /\ b > a)
  BY <1>1 DEF Rd!Braced
<1>2. CASE ~Rd!IsJSON(s) /\ a # 0 /\ b > a
  <2>1. Rd!Braced(s) = SubSeq(s, a, b)
    BY <1>2 DEF Rd!Braced
  <2>2. a \in 0..Len(s) /\ b \in 0..Len(s)
    BY FirstToken, LastToken
  <2>3. a # 0 /\ b > a
    BY <1>2
  <2> HIDE DEF a, b
  <2>4. a - 1 \in Nat /\ b \in Nat /\ a - 1 <= b /\ b <= Len(s) /\ (a - 1) + 1 = a
    BY <1>0, <2>2, <2>3
  <2>5. PieceOf(SubSeq(s, (a - 1) + 1, b), s, a - 1, b - (a - 1))
    BY <2>4, SubSeqPiece
  <2>6. PieceOf(SubSeq(s, a, b), s, a - 1, b - (a - 1))
    BY <2>4, <2>5
  <2> QED BY <2>1, <2>6, PieceMentions
<1> QED BY <1>1, <1>2

\* The only braces of s are those of Object(v) at a, and no bracket opens.
HoldsAt(s, v, a) ==
    /\ a \in Nat /\ 1 <= a /\ a + 2 <= Len(s)
    /\ s[a] = "{" /\ s[a + 1] = v /\ s[a + 2] = "}"
    /\ \A i \in 1..Len(s) : (s[i] = "{" => i = a) /\ (s[i] = "}" => i = a + 2) /\ s[i] # "["

\* A piece around the object has it.
LEMMA PieceHolds ==
  ASSUME NEW s \in Seq(Token), NEW q, NEW j, NEW m, PieceOf(q, s, j, m),
         NEW v, NEW a, HoldsAt(s, v, a), j < a, a + 2 <= j + m
  PROVE  HoldsAt(q, v, a - j)
<1>1. /\ Len(q) = m /\ j \in Nat /\ m \in Nat /\ j + m <= Len(s) /\ Len(s) \in Nat
      /\ \A i \in 1..m : q[i] = s[j + i]
  BY DEF PieceOf
<1>2. /\ s[a] = "{" /\ s[a + 1] = v /\ s[a + 2] = "}"
      /\ \A i \in 1..Len(s) : (s[i] = "{" => i = a) /\ (s[i] = "}" => i = a + 2) /\ s[i] # "["
  BY DEF HoldsAt
<1>n. a \in Nat /\ 1 <= a /\ a + 2 <= Len(s)
  BY DEF HoldsAt
<1>3. /\ a - j \in Nat /\ 1 <= a - j /\ (a - j) + 2 <= m
      /\ a - j \in 1..m /\ (a - j) + 1 \in 1..m /\ (a - j) + 2 \in 1..m
      /\ j + (a - j) = a /\ j + ((a - j) + 1) = a + 1 /\ j + ((a - j) + 2) = a + 2
  BY <1>1, <1>n
<1>4. q[a - j] = "{" /\ q[(a - j) + 1] = v /\ q[(a - j) + 2] = "}"
  <2>1. q[a - j] = s[a] /\ q[(a - j) + 1] = s[a + 1] /\ q[(a - j) + 2] = s[a + 2]
    BY <1>1, <1>3
  <2> QED BY <1>2, <2>1
<1>5. ASSUME NEW i \in 1..m
      PROVE  (q[i] = "{" => i = a - j) /\ (q[i] = "}" => i = (a - j) + 2) /\ q[i] # "["
  <2>1. j + i \in 1..Len(s) /\ (j + i = a => i = a - j) /\ (j + i = a + 2 => i = (a - j) + 2)
    BY <1>1, <1>n
  <2>2. q[i] = s[j + i]
    BY <1>1
  <2> QED BY <1>2, <2>1, <2>2
<1> QED BY <1>1, <1>3, <1>4, <1>5 DEF HoldsAt

\* Trimming leaves the object.
LEMMA TrimHolds ==
  ASSUME NEW s \in Seq(Token), NEW v, NEW a, HoldsAt(s, v, a)
  PROVE  \E x : HoldsAt(Rd!Trim(s), v, x)
<1>0. Len(s) \in Nat
  OBVIOUS
<1>1. PICK j \in Nat, m \in Nat : /\ PieceOf(Rd!Trim(s), s, j, m)
                                  /\ \A i \in 1..j : s[i] = "nl"
                                  /\ \A i \in (j + m + 1)..Len(s) : s[i] = "nl"
  BY TrimPiece
<1>2. s[a] = "{" /\ s[a + 2] = "}"
  BY DEF HoldsAt
<1>n. a \in Nat /\ 1 <= a /\ a + 2 <= Len(s)
  BY DEF HoldsAt
<1>3. j < a
  <2> SUFFICES ASSUME ~(j < a) PROVE FALSE
    OBVIOUS
  <2>1. a \in 1..j
    BY <1>n
  <2> QED BY <1>1, <1>2, <2>1
<1>4. a + 2 <= j + m
  <2> SUFFICES ASSUME ~(a + 2 <= j + m) PROVE FALSE
    OBVIOUS
  <2>1. a + 2 \in (j + m + 1)..Len(s)
    BY <1>0, <1>n
  <2> QED BY <1>1, <1>2, <2>1
<1>5. HoldsAt(Rd!Trim(s), v, a - j)
  BY <1>1, <1>3, <1>4, PieceHolds
<1> QED BY <1>5

\* A leading fence is stripped, and the object is still there.
LEMMA FenceHolds ==
  ASSUME NEW s \in Seq(Token), \A i \in 1..Len(s) : Out(s, i), NEW v, NEW a, Aim(s, v, a)
  PROVE  Rd!StripFence(s) \in Seq(Token) /\ \E x : HoldsAt(Rd!StripFence(s), v, x)
<1>0. Len(s) \in Nat
  OBVIOUS
<1>n. a \in Nat /\ 1 <= a /\ a + 2 <= Len(s)
  BY DEF Aim
<1>1. \A i \in 1..Len(s) : Lone(s, a, i)
  BY DEF Aim
<1>2. HoldsAt(s, v, a)
  BY <1>1 DEF Aim, HoldsAt, Lone
<1>3. CASE s = <<>> \/ Head(s) # "fence"
  <2>1. Rd!StripFence(s) = s
    BY <1>3 DEF Rd!StripFence
  <2> QED BY <1>2, <2>1
<1>4. CASE ~(s = <<>> \/ Head(s) # "fence")
  <2> DEFINE n == Rd!First(s, "nl")
             body == IF n = 0 THEN s ELSE SubSeq(s, n + 1, Len(s))
             e == Rd!Final(body, "fence")
             u == IF e = 0 THEN body ELSE SubSeq(body, 1, e - 1)
  <2>1. Rd!StripFence(s) = Rd!Trim(u)
    BY <1>4 DEF Rd!StripFence
  <2>2. s[1] = "fence" /\ 1 \in 1..Len(s)
    BY <1>0, <1>4, <1>n
  <2>3. s[a] = "{"
    BY <1>2 DEF HoldsAt
  <2>4. 1 < a
    <3>1. a # 1
      BY <2>2, <2>3
    <3> QED BY <1>n, <3>1
  <2>5. Closed(s, a, 1)
    BY <1>1, <2>2, <2>4 DEF Lone
  <2>6. PICK k \in 1..Len(s) : k < a /\ s[k] = "nl"
    <3>1. PICK k \in (1 + 1)..(a - 1) : s[k] = "nl"
      BY <2>5 DEF Closed
    <3>2. k \in 1..Len(s) /\ k < a
      BY <1>0, <1>n
    <3> QED BY <3>1, <3>2
  <2>7. PICK l \in 1..Len(s) : a + 2 < l /\ s[l] = "fence"
    <3>1. PICK l \in (a + 3)..Len(s) : s[l] = "fence"
      BY <2>5 DEF Closed
    <3>2. l \in 1..Len(s) /\ a + 2 < l
      BY <1>0, <1>n
    <3> QED BY <3>1, <3>2
  <2>8. n \in 1..Len(s) /\ n < a
    <3>1. n \in 0..Len(s) /\ n # 0 /\ n <= k
      BY <2>6, FirstToken
    <3> HIDE DEF n
    <3> QED BY <1>0, <1>n, <2>6, <3>1
  <2> HIDE DEF n
  <2>9. body = SubSeq(s, n + 1, Len(s))
    BY <2>8
  <2> HIDE DEF body
  <2>10. PICK m \in Nat : m = Len(s) - n /\ n \in Nat
    <3>1. Len(s) - n \in Nat /\ n \in Nat
      BY <1>0, <2>8
    <3> QED BY <3>1
  <2>11. PieceOf(body, s, n, m)
    <3>1. n <= Len(s) /\ Len(s) <= Len(s)
      BY <1>0, <2>8
    <3> QED BY <1>0, <2>9, <2>10, <3>1, SubSeqPiece
  <2>12. HoldsAt(body, v, a - n)
    <3>1. n < a /\ a + 2 <= n + m
      BY <1>0, <1>n, <2>8, <2>10
    <3> QED BY <1>2, <2>11, <3>1, PieceHolds
  <2>13. body \in Seq(Token) /\ Len(body) = m /\ \A i \in 1..m : body[i] = s[n + i]
    BY <2>11 DEF PieceOf
  <2>14. l - n \in 1..m /\ n + (l - n) = l
    BY <1>0, <1>n, <2>7, <2>8, <2>10
  <2>15. body[l - n] = "fence"
    BY <2>7, <2>13, <2>14
  <2>16. e \in 0..m /\ e # 0 /\ l - n <= e
    BY <2>13, <2>14, <2>15, LastToken
  <2> HIDE DEF e
  <2>17. u = SubSeq(body, 0 + 1, e - 1)
    <3>1. 0 + 1 = 1
      OBVIOUS
    <3> QED BY <2>16, <3>1
  <2> HIDE DEF u
  <2>18. PieceOf(u, body, 0, e - 1 - 0)
    <3>1. 0 \in Nat /\ e - 1 \in Nat /\ 0 <= e - 1 /\ e - 1 <= Len(body)
      BY <2>10, <2>13, <2>16
    <3> QED BY <2>13, <2>17, <3>1, SubSeqPiece
  <2>19. HoldsAt(u, v, (a - n) - 0)
    <3>1. 0 < a - n /\ (a - n) + 2 <= 0 + (e - 1 - 0)
      BY <1>n, <2>7, <2>8, <2>10, <2>14, <2>16
    <3> QED BY <2>12, <2>13, <2>18, <3>1, PieceHolds
  <2>20. u \in Seq(Token)
    BY <2>18 DEF PieceOf
  <2> QED BY <2>1, <2>19, <2>20, TrimHolds, TrimMentions
<1> QED BY <1>3, <1>4

\* An object is where its three tokens are.
LEMMA ObjectAt ==
  ASSUME NEW s \in Seq(Token), NEW k \in Nat, k + 3 <= Len(s), NEW v \in Rd!Verdict,
         s[k + 1] = "{", s[k + 2] = v, s[k + 3] = "}"
  PROVE  SubSeq(s, k + 1, k + 3) = Rd!Object(v)
<1> DEFINE q == SubSeq(s, k + 1, k + 3)
           o == Rd!Object(v)
<1>1. PieceOf(q, s, k, 3)
  <2>1. k + 3 \in Nat /\ k <= k + 3 /\ (k + 3) - k = 3
    BY ONLY k \in Nat
  <2> QED BY <2>1, SubSeqPiece
<1> HIDE DEF q
<1>2. q \in Seq(Token) /\ Len(q) = 3 /\ \A n \in 1..3 : q[n] = s[k + n]
  BY <1>1 DEF PieceOf
<1>3. q[1] = "{" /\ q[2] = v /\ q[3] = "}"
  <2>1. 1 \in 1..3 /\ 2 \in 1..3 /\ 3 \in 1..3
    BY ONLY TRUE
  <2>2. q[1] = s[k + 1] /\ q[2] = s[k + 2] /\ q[3] = s[k + 3]
    BY <1>2, <2>1
  <2> QED BY <2>2
<1>4. /\ o \in Seq(Token) /\ Len(o) = 3
      /\ o[1] = "{" /\ o[2] = v /\ o[3] = "}"
  BY ObjectParts DEF Parts
<1> HIDE DEF o
<1>5. \A i \in 1..Len(q) : q[i] = o[i]
  BY <1>2, <1>3, <1>4, Three
<1>6. q = o
  BY ONLY <1>2, <1>4, <1>5, SeqEqual
<1> QED BY <1>6 DEF q, o

\* From the first brace to the last.
LEMMA BracedReads ==
  ASSUME NEW s \in Seq(Token), NEW v \in Rd!Verdict, NEW a, HoldsAt(s, v, a)
  PROVE  Rd!Braced(s) = Rd!Object(v)
<1>0. Len(s) \in Nat
  OBVIOUS
<1>n. a \in Nat /\ 1 <= a /\ a + 2 <= Len(s)
  BY DEF HoldsAt
<1>1. /\ s[a] = "{" /\ s[a + 1] = v /\ s[a + 2] = "}"
      /\ \A i \in 1..Len(s) : (s[i] = "{" => i = a) /\ (s[i] = "}" => i = a + 2) /\ s[i] # "["
  BY DEF HoldsAt
<1>4. Rd!IsJSON(s) <=> Rd!IsObject(s)
  <2>1. 1 \in 1..Len(s)
    BY <1>0, <1>n
  <2>2. ~Rd!IsArray(s)
    BY <1>1, <2>1 DEF Rd!IsArray
  <2> QED BY <2>2 DEF Rd!IsJSON
<1>2. CASE Rd!IsObject(s)
  <2>1. PICK w \in Rd!Verdict : s = Rd!Object(w)
    BY <1>2 DEF Rd!IsObject
  <2>2. Len(s) = 3 /\ s[2] = w
    BY <2>1, ObjectParts
  <2>3. a = 1 /\ a + 1 = 2
    BY <1>n, <2>2
  <2>4. w = v
    BY <1>1, <2>2, <2>3
  <2>5. Rd!Braced(s) = s
    BY <1>2, <1>4 DEF Rd!Braced
  <2> QED BY <2>1, <2>4, <2>5
<1>3. CASE ~Rd!IsObject(s)
  <2> DEFINE f == Rd!First(s, "{")
             l == Rd!Final(s, "}")
  <2>0. a \in 1..Len(s) /\ a + 2 \in 1..Len(s)
    BY <1>0, <1>n
  <2>1. f = a
    <3>1. f \in 0..Len(s) /\ f # 0
      BY <1>1, <2>0, FirstToken
    <3>2. s[f] = "{"
      BY <3>1, FirstToken
    <3> HIDE DEF f
    <3>3. f \in 1..Len(s)
      BY ONLY <1>0, <3>1
    <3> QED BY <1>1, <3>2, <3>3
  <2>2. l = a + 2
    <3>1. l \in 0..Len(s) /\ l # 0
      BY <1>1, <2>0, LastToken
    <3>2. s[l] = "}"
      BY <3>1, LastToken
    <3> HIDE DEF l
    <3>3. l \in 1..Len(s)
      BY ONLY <1>0, <3>1
    <3> QED BY <1>1, <3>2, <3>3
  <2>3. f # 0 /\ l > f
    <3> HIDE DEF f, l
    <3> QED BY <1>n, <2>1, <2>2
  <2>4. Rd!Braced(s) = SubSeq(s, f, l)
    BY <1>3, <1>4, <2>3 DEF Rd!Braced
  <2> HIDE DEF f, l
  <2>5. PICK k \in Nat : a = k + 1
    <3>1. a - 1 \in Nat /\ a = (a - 1) + 1
      BY <1>n
    <3> QED BY <3>1
  <2>6. a + 1 = k + 2 /\ a + 2 = k + 3 /\ k + 3 <= Len(s)
    BY <1>n, <2>5
  <2>7. SubSeq(s, k + 1, k + 3) = Rd!Object(v)
    <3>1. s[k + 1] = "{" /\ s[k + 2] = v /\ s[k + 3] = "}"
      BY <1>1, <2>5, <2>6
    <3> QED BY <2>6, <3>1, ObjectAt
  <2> QED BY <2>1, <2>2, <2>4, <2>5, <2>6, <2>7
<1> QED BY <1>2, <1>3

-----------------------------------------------------------------------------
(* What every reply is read as.                                            *)

\* Where think blocks end and are not nested, and one object with no bracket
\* before or after it stands outside them, the reply is read as that object,
\* whatever else it is wrapped in, unless it is on the line of a fence
\* (extractJSON, and the end of Classifier.Classify).  In brackets it would be
\* part of an array, which the code takes for a complex failure.
THEOREM AnswersAreRead ==
  ASSUME NEW s, Clean(s), NEW v \in Rd!Verdict, \E a : Aim(s, v, a)
  PROVE  Rd!ClassOf(s) = IF v \in {"trivial", "not-fixable"} THEN v ELSE "complex"
<1> DEFINE t == Rd!Trim(s)
           u == Rd!StripThink(t)
           w == Rd!StripFence(u)
           json == Rd!Braced(w)
<1>1. Keeps(t, s)
  BY WhiteSpaceKeeps DEF Clean
<1>2. Tidy(t) /\ Ends(t) /\ \E a : Aim(t, v, a)
  BY <1>1 DEF Keeps, Clean
<1>3. Keeps(u, t) /\ Rd!First(u, "</think>") = 0
  <2> HIDE DEF t
  <2> QED BY <1>2, StripThinkKeeps
<1> HIDE DEF t, u
<1>4. Tidy(u) /\ Ends(u) /\ \E a : Aim(u, v, a)
  BY <1>2, <1>3 DEF Keeps
<1>5. u \in Seq(Token) /\ \A i \in 1..Len(u) : Out(u, i)
  BY <1>3, <1>4, AllOut DEF Tidy
<1>6. w \in Seq(Token) /\ \E x : HoldsAt(w, v, x)
  BY <1>4, <1>5, FenceHolds
<1> HIDE DEF w
<1>7. json = Rd!Object(v)
  BY <1>6, BracedReads
<1>8. Rd!ClassOf(s) = IF json \in {Rd!Object("trivial"), Rd!Object("not-fixable")} THEN json[2] ELSE "complex"
  BY DEF Rd!ClassOf, Rd!ExtractJSON, json, w, u, t
<1> HIDE DEF json
<1>9. \A x, y \in Rd!Verdict : Rd!Object(x) = Rd!Object(y) => x = y
  <2> SUFFICES ASSUME NEW x \in Rd!Verdict, NEW y \in Rd!Verdict, Rd!Object(x) = Rd!Object(y) PROVE x = y
    OBVIOUS
  <2>1. Rd!Object(x)[2] = x /\ Rd!Object(y)[2] = y
    BY ObjectParts
  <2> QED BY <2>1
<1>10. json[2] = v
  BY <1>7, ObjectParts
<1>11. "trivial" \in Rd!Verdict /\ "not-fixable" \in Rd!Verdict
  BY DEF Rd!Verdict
<1>12. json \in {Rd!Object("trivial"), Rd!Object("not-fixable")} <=> v \in {"trivial", "not-fixable"}
  BY <1>7, <1>9, <1>11
<1> QED BY <1>8, <1>10, <1>12

\* In every reply without nested think blocks, what is read as a refusal stands
\* outside them or in one that is cut off: a draft in a block that ends is never
\* taken for the answer.
THEOREM RefusalsAreMeant ==
  ASSUME NEW s, Tidy(s), Rd!ClassOf(s) = "not-fixable"
  PROVE  Refuses(s)
<1> DEFINE t == Rd!Trim(s)
           u == Rd!StripThink(t)
           v == Rd!StripFence(u)
           json == Rd!Braced(v)
<1>1. json = <<"{", "not-fixable", "}">>
  <2>1. Rd!ClassOf(s) = IF json \in {Rd!Object("trivial"), Rd!Object("not-fixable")} THEN json[2] ELSE "complex"
    BY DEF Rd!ClassOf, Rd!ExtractJSON
  <2> HIDE DEF json
  <2>2. <<"{", "trivial", "}">>[2] = "trivial" /\ "trivial" # "not-fixable" /\ "complex" # "not-fixable"
    OBVIOUS
  <2> QED BY <2>1, <2>2 DEF Rd!Object
<1>2. Keeps(t, s)
  BY WhiteSpaceKeeps
<1>c. Tidy(t)
  BY <1>2 DEF Keeps
<1>3. Keeps(u, t) /\ Rd!First(u, "</think>") = 0
  <2> HIDE DEF t
  <2> QED BY <1>c, StripThinkKeeps
<1> HIDE DEF t, u
<1>4. u \in Seq(Token) /\ Len(u) \in Nat /\ Tidy(u)
  BY <1>3 DEF Keeps, Tidy
<1>5. /\ v \in Seq(Token)
      /\ Mentions(v, "not-fixable") => Mentions(u, "not-fixable")
  BY <1>4, StripFenceMentions
<1>6. Mentions(json, "not-fixable") => Mentions(v, "not-fixable")
  <2> HIDE DEF v
  <2> QED BY <1>5, BracedMentions
<1>7. Mentions(json, "not-fixable")
  <2> HIDE DEF json
  <2>1. 2 \in 1..Len(json) /\ json[2] = "not-fixable"
    <3> DEFINE o == <<"{", "not-fixable", "}">>
    <3>1. Len(o) = 3 /\ o[2] = "not-fixable"
      OBVIOUS
    <3> HIDE DEF o
    <3>2. json = o
      BY <1>1 DEF o
    <3> QED BY <3>1, <3>2
  <2> QED BY <2>1 DEF Mentions
<1>8. Refuses(u)
  <2>1. Mentions(u, "not-fixable")
    BY <1>5, <1>6, <1>7, Zenon
  <2>2. PICK i \in 1..Len(u) : u[i] = "not-fixable"
    BY <2>1 DEF Mentions
  <2>3. Rd!Open(u, i) \in {0, 1}
    <3>1. i \in 0..Len(u)
      BY <1>4
    <3> QED BY <1>4, <3>1 DEF Tidy, Rd!Unnested
  <2>4. Left(u, i)
    BY <1>3, <1>4, <2>3, CutOff DEF Left
  <2> QED BY <2>2, <2>4 DEF Refuses
<1> QED BY <1>2, <1>3, <1>8 DEF Keeps

\* What refuses there says so there.
LEMMA RefusesSays ==
  ASSUME NEW s, Tidy(s), Refuses(s)
  PROVE  Rd!Says(s, "not-fixable")
<1>0. s \in Seq(Token) /\ Len(s) \in Nat
  BY DEF Tidy
<1>1. PICK i \in 1..Len(s) : s[i] = "not-fixable" /\ Left(s, i)
  BY DEF Refuses
<1>2. i > 1 /\ i < Len(s) /\ s[i - 1] = "{" /\ s[i + 1] = "}"
  BY <1>1 DEF Tidy, Framed
<1>i. i > 1 /\ i < Len(s)
  BY <1>2, Zenon
<1>3. PICK k \in Nat : i = k + 2
  <2>1. i - 2 \in Nat /\ i = (i - 2) + 2
    BY <1>i
  <2> QED BY <2>1
<1>4. k + 1 = i - 1 /\ k + 3 = i + 1 /\ k + 2 = i /\ k + 3 <= Len(s)
  BY <1>0, <1>i, <1>3
<1>6. SubSeq(s, k + 1, k + 3) = Rd!Object("not-fixable")
  <2>1. s[k + 1] = "{" /\ s[k + 2] = "not-fixable" /\ s[k + 3] = "}"
    BY <1>1, <1>2, <1>4
  <2>2. "not-fixable" \in Rd!Verdict
    BY DEF Rd!Verdict
  <2> QED BY <1>0, <1>4, <2>1, <2>2, ObjectAt
<1>7. Rd!Open(s, k + 1) = Rd!Open(s, i)
  <2>1. k + 1 \in 0..(Len(s) - 1) /\ k + 1 \in 0..Len(s) /\ (k + 1) + 1 = i
    BY <1>0, <1>i, <1>3
  <2>2. Rd!Open(s, k + 1) \in Int
    BY <1>0, <2>1, OpenSteps
  <2>3. Rd!Open(s, i) = Rd!Open(s, k + 1) + Adds(s[i])
    BY <1>0, <2>1, OpenSteps
  <2>4. Adds(s[i]) = 0
    BY <1>1 DEF Adds
  <2> QED BY <2>2, <2>3, <2>4
<1>9. Rd!Open(s, k + 1) = 0 \/ \A n \in (k + 1)..Len(s) : Rd!Open(s, n) = 1
  <2>1. CASE Rd!Open(s, i) = 0
    BY <1>7, <2>1
  <2>2. CASE \A n \in i..Len(s) : Rd!Open(s, n) = 1
    <3>1. i \in i..Len(s) /\ \A n \in (k + 1)..Len(s) : n = k + 1 \/ n \in i..Len(s)
      BY <1>0, <1>3
    <3> QED BY <1>7, <2>2, <3>1
  <2> QED BY <1>1, <2>1, <2>2 DEF Left
<1>8. k + 1 \in 1..(Len(s) - 2) /\ (k + 1) + 2 = k + 3
  BY <1>0, <1>i, <1>3
<1> QED BY <1>6, <1>8, <1>9 DEF Rd!Says

-----------------------------------------------------------------------------
(* The replies of the model are clean: arbitrary ones, part after part.    *)

\* f puts seqs together from left to right.
Joins(f, seqs, n) ==
    /\ f[1] = seqs[1]
    /\ \A i \in 1..(n - 1) : f[i + 1] = f[i] \o seqs[i + 1]

\* Parts are put together from left to right.
LEMMA FlattenSteps ==
  ASSUME NEW X, NEW n \in Nat, n # 0, NEW seqs, seqs \in Seq(X), Len(seqs) = n
  PROVE  \E f : Joins(f, seqs, n) /\ Rd!FlattenSeq(seqs) = f[n]
<1> DEFINE Fits(g, m) == g = [i \in 1..m |-> IF i = 1 THEN seqs[i] ELSE g[i - 1] \o seqs[i]]
           S == {m \in Nat : \E g : Fits(g, m + 1)}
           f == CHOOSE g : Fits(g, n)
<1>1. Rd!FlattenSeq(seqs) = f[n]
  <2>1. ~(Len(seqs) = 0)
    OBVIOUS
  <2> QED BY <2>1 DEF Rd!FlattenSeq
<1>2. 0 \in S
  <2>1. Fits([i \in 1..1 |-> seqs[1]], 0 + 1)
    OBVIOUS
  <2> HIDE DEF Fits
  <2> QED BY <2>1
<1>3. ASSUME NEW m \in Nat, m \in S PROVE m + 1 \in S
  <2>1. PICK g : Fits(g, m + 1)
    BY <1>3
  <2> DEFINE h == [i \in 1..(m + 1 + 1) |-> IF i = m + 1 + 1 THEN g[m + 1] \o seqs[i] ELSE g[i]]
  <2>2. Fits(h, m + 1 + 1)
    <3>1. ASSUME NEW i \in 1..(m + 1 + 1)
          PROVE  h[i] = IF i = 1 THEN seqs[i] ELSE h[i - 1] \o seqs[i]
      <4>1. CASE i = m + 1 + 1
        <5>1. i # 1 /\ i - 1 \in 1..(m + 1) /\ i - 1 = m + 1 /\ i - 1 # m + 1 + 1 /\ i - 1 \in 1..(m + 1 + 1)
          BY <4>1
        <5>2. h[i] = g[m + 1] \o seqs[i]
          BY <4>1
        <5>3. h[i - 1] = g[m + 1]
          BY <5>1
        <5> HIDE DEF h
        <5> QED BY <5>1, <5>2, <5>3
      <4>2. CASE i # m + 1 + 1
        <5>1. i \in 1..(m + 1) /\ h[i] = g[i]
          BY <4>2
        <5>2. ASSUME i # 1 PROVE i - 1 \in 1..(m + 1) /\ h[i - 1] = g[i - 1]
          <6>1. i - 1 \in 1..(m + 1) /\ i - 1 # m + 1 + 1 /\ i - 1 \in 1..(m + 1 + 1)
            BY <4>2, <5>2
          <6> QED BY <6>1
        <5>3. g[i] = IF i = 1 THEN seqs[i] ELSE g[i - 1] \o seqs[i]
          BY <2>1, <5>1
        <5> HIDE DEF h
        <5> QED BY <5>1, <5>2, <5>3
      <4> QED BY <4>1, <4>2
    <3> QED BY <3>1
  <2> HIDE DEF h, Fits
  <2> QED BY <2>2
<1>4. \E g : Fits(g, n)
  <2>0. n - 1 \in Nat /\ (n - 1) + 1 = n
    OBVIOUS
  <2> HIDE DEF S
  <2>2. n - 1 \in S
    BY <1>2, <1>3, <2>0, Induction
  <2> HIDE DEF Fits
  <2>3. \E g : Fits(g, (n - 1) + 1)
    BY <2>2 DEF S
  <2> QED BY <2>0, <2>3
<1>5. Fits(f, n)
  <2> HIDE DEF Fits
  <2> QED BY <1>4
<1> HIDE DEF f
<1>6. f = [i \in 1..n |-> IF i = 1 THEN seqs[i] ELSE f[i - 1] \o seqs[i]]
  BY <1>5
<1>7. f[1] = seqs[1]
  <2>1. 1 \in 1..n
    OBVIOUS
  <2> QED BY <1>6, <2>1
<1>8. ASSUME NEW i \in 1..(n - 1) PROVE f[i + 1] = f[i] \o seqs[i + 1]
  <2>1. i + 1 \in 1..n /\ i + 1 # 1 /\ (i + 1) - 1 = i
    OBVIOUS
  <2> QED BY <1>6, <2>1
<1> QED BY <1>1, <1>7, <1>8 DEF Joins

\* Parts one after the other.
LEMMA FlattenParts ==
  ASSUME NEW X, \A x \in X : Parts(x), NEW n \in Nat, NEW seqs \in [1..n -> X]
  PROVE  Parts(Rd!FlattenSeq(seqs))
<1>0. seqs \in Seq(X) /\ Len(seqs) = n
  OBVIOUS
<1>1. CASE n = 0
  <2>1. seqs = <<>>
    BY <1>0, <1>1
  <2>2. Rd!FlattenSeq(seqs) = <<>>
    BY <1>0, <1>1, <2>1 DEF Rd!FlattenSeq
  <2>3. Parts(<<>>)
    <3>1. <<>> \in Seq(Token) /\ Len(<<>>) = 0 /\ 1..0 = {}
      OBVIOUS
    <3> QED BY ONLY <3>1 DEF Parts, Framed
  <2> QED BY <2>2, <2>3
<1>2. CASE n # 0
  <2>0. PICK f : Joins(f, seqs, n) /\ Rd!FlattenSeq(seqs) = f[n]
    BY <1>0, <1>2, FlattenSteps
  <2>1. /\ f[1] = seqs[1]
        /\ \A i \in 1..(n - 1) : f[i + 1] = f[i] \o seqs[i + 1]
        /\ Rd!FlattenSeq(seqs) = f[n]
    BY <2>0 DEF Joins
  <2> DEFINE S == {i \in Nat : i + 1 <= n => Parts(f[i + 1])}
  <2>2. 0 \in S
    <3>1. 1 \in 1..n /\ seqs[1] \in X
      BY <1>2
    <3> QED BY <2>1, <3>1
  <2>3. ASSUME NEW i \in Nat, i \in S PROVE i + 1 \in S
    <3> SUFFICES ASSUME (i + 1) + 1 <= n PROVE Parts(f[(i + 1) + 1])
      OBVIOUS
    <3>1. i + 1 \in 1..(n - 1) /\ (i + 1) + 1 \in 1..n /\ i + 1 <= n
      OBVIOUS
    <3>2. Parts(f[i + 1]) /\ Parts(seqs[(i + 1) + 1])
      BY <2>3, <3>1
    <3>3. Parts(f[i + 1] \o seqs[(i + 1) + 1])
      BY ONLY <3>2, JoinedParts
    <3> QED BY <2>1, <3>1, <3>3
  <2>4. n - 1 \in Nat /\ (n - 1) + 1 = n
    BY <1>2
  <2> HIDE DEF S
  <2>5. n - 1 \in S
    BY <2>2, <2>3, <2>4, Induction
  <2>6. Parts(f[(n - 1) + 1])
    BY <2>4, <2>5 DEF S
  <2> QED BY <2>1, <2>4, <2>6
<1> QED BY <1>1, <1>2

\* Every arbitrary reply is made of parts.
LEMMA ArbitraryParts == \A s \in Rd!Arbitrary : MaxParts \in Nat => Parts(s)
<1> SUFFICES ASSUME NEW s \in Rd!Arbitrary, MaxParts \in Nat PROVE Parts(s)
  OBVIOUS
<1>1. \A x \in Rd!Part : Parts(x)
  <2>1. ASSUME NEW v \in {"trivial", "not-fixable"} PROVE Parts(Rd!Object(v))
    <3> DEFINE o == <<"{", v, "}">>
    <3>0. "{" \in Token /\ v \in Token /\ "}" \in Token
      BY DEF Token, Rd!Verdict
    <3>1. o \in Seq(Token) /\ Len(o) = 3 /\ o[1] = "{" /\ o[2] = v /\ o[3] = "}"
      BY <3>0, TupleThree
    <3>4. "{" # "not-fixable" /\ "}" # "not-fixable"
      OBVIOUS
    <3> HIDE DEF o
    <3>2. \A i \in 1..3 : o[i] = "not-fixable" => i = 2
      <4>1. \A i \in 1..3 : i = 1 \/ i = 2 \/ i = 3
        OBVIOUS
      <4> QED BY <3>1, <3>4, <4>1
    <3>3. Framed(o)
      <4>1. 2 > 1 /\ 2 < 3 /\ 2 - 1 = 1 /\ 2 + 1 = 3
        OBVIOUS
      <4> QED BY ONLY <3>1, <3>2, <4>1 DEF Framed
    <3> QED BY <3>1, <3>3 DEF Parts, Rd!Object, o
  <2>2. ASSUME NEW t \in {"text", "nl", "fence", "<think>", "</think>", "{", "}", "[", "]"} PROVE Parts(<<t>>)
    <3> DEFINE o == <<t>>
    <3>0. t \in Token /\ t # "not-fixable"
      BY DEF Token
    <3>1. o \in Seq(Token) /\ Len(o) = 1 /\ o[1] # "not-fixable"
      BY <3>0, TupleOne
    <3> HIDE DEF o
    <3>3. Framed(o)
      BY ONLY <3>1, One DEF Framed
    <3> QED BY <3>1, <3>3 DEF Parts, o
  <2> QED BY <2>1, <2>2 DEF Rd!Part
<1>2. PICK n \in 0..MaxParts : \E seqs \in [1..n -> Rd!Part] : s = Rd!FlattenSeq(seqs)
  BY DEF Rd!Arbitrary, Rd!BoundedSeq, Rd!SeqOf
<1>3. n \in Nat
  OBVIOUS
<1> QED BY <1>1, <1>2, <1>3, FlattenParts

-----------------------------------------------------------------------------
(* The wrappings have one object that is meant, and silence around it.     *)

\* u is followed by w in s, where the think blocks of both are those of s.
Follows(s, u, w) ==
    /\ s \in Seq(Token) /\ Len(s) = Len(u) + Len(w)
    /\ \A i \in 1..Len(u) : s[i] = u[i]
    /\ \A i \in 1..Len(w) : s[Len(u) + i] = w[i]
    /\ \A n \in 0..Len(u) : Rd!Open(s, n) = Rd!Open(u, n)
    /\ \A n \in 0..Len(w) : Rd!Open(s, Len(u) + n) = Rd!Open(w, n)

\* The think blocks of two replies one after the other are those of both.
LEMMA JoinedOpen ==
  ASSUME NEW u, NEW w, Clean(u), Clean(w)
  PROVE  Follows(u \o w, u, w)
<1>0. /\ u \in Seq(Token) /\ w \in Seq(Token)
      /\ Len(u) \in Nat /\ Len(w) \in Nat /\ Rd!Open(u, Len(u)) = 0
  BY DEF Clean, Tidy, Ends, Rd!Unnested
<1> DEFINE s == u \o w
<1>1. /\ s \in Seq(Token) /\ Len(s) = Len(u) + Len(w)
      /\ \A i \in 1..(Len(u) + Len(w)) : s[i] = IF i <= Len(u) THEN u[i] ELSE w[i - Len(u)]
  BY <1>0, Joined
<1> HIDE DEF s
<1>2. PICK h, r \in Nat : h = Len(u) /\ r = Len(w)
  BY <1>0
<1>3. \A i \in 1..h : s[i] = u[i]
  <2> SUFFICES ASSUME NEW i \in 1..h PROVE s[i] = u[i]
    OBVIOUS
  <2>1. i \in 1..(h + r) /\ i <= h
    OBVIOUS
  <2> QED BY <1>1, <1>2, <2>1
<1>4. \A i \in 1..r : s[h + i] = w[i]
  <2> SUFFICES ASSUME NEW i \in 1..r PROVE s[h + i] = w[i]
    OBVIOUS
  <2>1. h + i \in 1..(h + r) /\ ~(h + i <= h) /\ (h + i) - h = i
    OBVIOUS
  <2> QED BY <1>1, <1>2, <2>1
<1>5. \A n \in 0..h : Rd!Open(s, n) = Rd!Open(u, n)
  <2> SUFFICES ASSUME NEW n \in 0..h PROVE Rd!Open(s, n) = Rd!Open(u, n)
    OBVIOUS
  <2>1. n \in Nat /\ 0 \in Nat /\ 0 + n <= h + r /\ 0 + n <= h /\ 0 + n = n /\ n \in 0..(h + r)
    OBVIOUS
  <2>2. \A i \in 1..n : s[0 + i] = u[0 + i]
    BY <1>3
  <2>3. Same(u, 0, s, 0, n)
    BY <1>1, <1>2, <2>1, <2>2 DEF Same
  <2>4. Rd!Open(s, 0 + n) - Rd!Open(s, 0) = Rd!Open(u, 0 + n) - Rd!Open(u, 0)
    BY <1>0, <1>1, <2>1, <2>3, SamePiece
  <2>5. Rd!Open(s, 0) = 0 /\ Rd!Open(u, 0) = 0 /\ Rd!Open(s, n) \in Int /\ Rd!Open(u, n) \in Int
    BY <1>0, <1>1, <1>2, <2>1, OpenSteps
  <2> QED BY <2>1, <2>4, <2>5
<1>6. \A n \in 0..r : Rd!Open(s, h + n) = Rd!Open(w, n)
  <2> SUFFICES ASSUME NEW n \in 0..r PROVE Rd!Open(s, h + n) = Rd!Open(w, n)
    OBVIOUS
  <2>1. n \in Nat /\ 0 \in Nat /\ h + n <= h + r /\ 0 + n <= r /\ 0 + n = n /\ h + n \in 0..(h + r)
    OBVIOUS
  <2>2. \A i \in 1..n : s[h + i] = w[0 + i]
    BY <1>4
  <2>3. Same(w, 0, s, h, n)
    BY <1>1, <1>2, <2>1, <2>2 DEF Same
  <2>4. Rd!Open(s, h + n) - Rd!Open(s, h) = Rd!Open(w, 0 + n) - Rd!Open(w, 0)
    BY <1>0, <1>1, <2>1, <2>3, SamePiece
  <2>5. Rd!Open(s, h) = 0
    <3>1. h \in 0..h
      OBVIOUS
    <3> QED BY <1>0, <1>2, <1>5, <3>1
  <2>6. Rd!Open(w, 0) = 0 /\ Rd!Open(s, h + n) \in Int /\ Rd!Open(w, n) \in Int
    BY <1>0, <1>1, <1>2, <2>1, OpenSteps
  <2> QED BY <2>1, <2>4, <2>5, <2>6
<1> QED BY <1>1, <1>2, <1>3, <1>4, <1>5, <1>6 DEF Follows, s

\* Two clean replies one after the other are clean.
LEMMA JoinedClean ==
  ASSUME NEW u, NEW w, Clean(u), Clean(w)
  PROVE  Clean(u \o w)
<1>0. Len(u) \in Nat /\ Len(w) \in Nat
  BY DEF Clean, Tidy
<1> DEFINE s == u \o w
<1>1. Follows(s, u, w)
  BY JoinedOpen
<1>2. s \in Seq(Token) /\ Framed(s)
  BY JoinedParts DEF Clean, Tidy, Parts
<1> HIDE DEF s
<1>3. PICK h, r \in Nat : h = Len(u) /\ r = Len(w) /\ Len(s) = h + r
  BY <1>0, <1>1 DEF Follows
<1>4. \A n \in 0..h : Rd!Open(s, n) = Rd!Open(u, n) /\ Rd!Open(u, n) \in {0, 1}
  BY <1>1, <1>3 DEF Follows, Clean, Tidy, Ends, Rd!Unnested
<1>5. \A n \in 0..r : Rd!Open(s, h + n) = Rd!Open(w, n) /\ Rd!Open(w, n) \in {0, 1}
  BY <1>1, <1>3 DEF Follows, Clean, Tidy, Ends, Rd!Unnested
<1>6. \A n \in 0..(h + r) : Rd!Open(s, n) \in {0, 1}
  <2> SUFFICES ASSUME NEW n \in 0..(h + r) PROVE Rd!Open(s, n) \in {0, 1}
    OBVIOUS
  <2>1. n \in 0..h \/ \E m \in 1..r : n = h + m
    BY Either
  <2>2. \A m \in 1..r : m \in 0..r
    OBVIOUS
  <2> QED BY <1>4, <1>5, <2>1, <2>2
<1>7. Rd!Open(s, h + r) = 0
  <2>1. r \in 0..r
    OBVIOUS
  <2> QED BY <1>3, <1>5, <2>1 DEF Clean, Tidy, Ends, Rd!Unnested
<1>8. Rd!Unnested(s) /\ Ends(s)
  BY <1>3, <1>6, <1>7 DEF Rd!Unnested, Ends
<1> QED BY <1>2, <1>8 DEF Clean, Tidy, s

\* Nothing is said there.
Silent(s) == Clean(s) /\ \A i \in 1..Len(s) : Out(s, i) => s[i] \in {"nl", "text"}

\* Two silent replies one after the other are silent.
LEMMA JoinedSilent ==
  ASSUME NEW u, NEW w, Silent(u), Silent(w)
  PROVE  Silent(u \o w)
<1>c. Clean(u) /\ Clean(w)
  BY DEF Silent
<1>0. Len(u) \in Nat /\ Len(w) \in Nat
  BY <1>c DEF Clean, Tidy
<1> DEFINE s == u \o w
<1>1. Follows(s, u, w) /\ Clean(s)
  BY <1>c, JoinedOpen, JoinedClean
<1> HIDE DEF s
<1>3. PICK h, r \in Nat : h = Len(u) /\ r = Len(w) /\ Len(s) = h + r
  BY <1>0, <1>1 DEF Follows
<1>4. ASSUME NEW i \in 1..Len(s), Out(s, i)
      PROVE  s[i] \in {"nl", "text"}
  <2>0. i \in 1..(h + r)
    BY <1>3
  <2>1. i \in 1..h \/ \E m \in 1..r : i = h + m
    BY <2>0, Either
  <2>2. CASE i \in 1..h
    <3>1. i \in 0..h
      BY <2>2
    <3>2. s[i] = u[i] /\ Rd!Open(s, i) = Rd!Open(u, i)
      BY <1>1, <1>3, <2>2, <3>1 DEF Follows
    <3> QED BY <1>3, <1>4, <2>2, <3>2 DEF Silent, Out
  <2>3. CASE \E m \in 1..r : i = h + m
    <3>0. PICK m \in 1..r : i = h + m
      BY <2>3
    <3>1. m \in 0..r
      OBVIOUS
    <3>2. s[i] = w[m] /\ Rd!Open(s, i) = Rd!Open(w, m)
      BY <1>1, <1>3, <3>0, <3>1 DEF Follows
    <3> QED BY <1>3, <1>4, <3>2 DEF Silent, Out
  <2> QED BY <2>1, <2>2, <2>3
<1> QED BY <1>1, <1>4 DEF Silent, s

\* A reply without the marks of think blocks is not in one.
LEMMA UnmarkedClean ==
  ASSUME NEW s, Parts(s), \A i \in 1..Len(s) : s[i] \notin {"<think>", "</think>"}
  PROVE  Clean(s) /\ \A i \in 1..Len(s) : Out(s, i)
<1>0. s \in Seq(Token) /\ Len(s) \in Nat /\ Framed(s)
  BY DEF Parts
<1>1. \A n \in 0..Len(s) : Rd!Open(s, n) = 0
  <2> SUFFICES ASSUME NEW n \in 0..Len(s) PROVE Rd!Open(s, n) = 0
    OBVIOUS
  <2>1. 0 \in Nat /\ n \in Nat /\ 0 + n <= Len(s) /\ 0 + n = n
    BY <1>0
  <2>2. \A i \in (0 + 1)..(0 + n) : s[i] \notin {"<think>", "</think>"}
    BY <1>0
  <2>3. Rd!Open(s, 0 + n) = Rd!Open(s, 0)
    BY <1>0, <2>1, <2>2, QuietPiece
  <2> QED BY <1>0, <2>1, <2>3, OpenSteps
<1>2. Len(s) \in 0..Len(s) /\ \A i \in 1..Len(s) : i \in 0..Len(s)
  BY <1>0
<1>3. Rd!Unnested(s) /\ Ends(s)
  BY <1>1, <1>2 DEF Rd!Unnested, Ends
<1>4. ASSUME NEW i \in 1..Len(s) PROVE Out(s, i)
  <2>1. Rd!Open(s, i) = 0
    BY <1>1, <1>2
  <2> QED BY <2>1 DEF Out
<1> QED BY <1>0, <1>3, <1>4 DEF Clean, Tidy

\* Nothing opens or closes a think block.
Unmarked(s) == \A i \in 1..Len(s) : s[i] \notin {"<think>", "</think>"}

\* A think block, whatever is in it.
LEMMA BlockSilent ==
  ASSUME NEW b, Parts(b), Unmarked(b)
  PROVE  Silent((<<"<think>">> \o b) \o <<"</think>", "nl">>)
<1>b. b \in Seq(Token) /\ Len(b) \in Nat
  BY DEF Parts
<1> DEFINE l == <<"<think>">>
           e == <<"</think>", "nl">>
           p == l \o b
           s == p \o e
<1>i. "<think>" \in Inert /\ "</think>" \in Inert /\ "nl" \in Inert
  BY DEF Inert, Token
<1>l. l \in Seq(Inert) /\ Len(l) = 1 /\ l[1] = "<think>"
  BY <1>i, TupleOne
<1>e. e \in Seq(Inert) /\ Len(e) = 2 /\ e[1] = "</think>" /\ e[2] = "nl"
  BY <1>i, TupleTwo
<1> HIDE DEF l, e
<1>p. Parts(l) /\ Parts(e) /\ Parts(p)
  BY <1>l, <1>e, InertParts, JoinedParts
<1>s. Parts(s)
  <2> HIDE DEF p
  <2> QED BY <1>p, JoinedParts
<1>t. l \in Seq(Token) /\ e \in Seq(Token) /\ p \in Seq(Token) /\ s \in Seq(Token)
  BY <1>p, <1>s DEF Parts
<1>m. PICK m \in Nat : m = Len(b)
  BY <1>b
<1>1. /\ Len(p) = 1 + m
      /\ \A i \in 1..(1 + m) : p[i] = IF i <= 1 THEN l[i] ELSE b[i - 1]
  <2>1. /\ Len(l \o b) = Len(l) + Len(b)
        /\ \A i \in 1..(Len(l) + Len(b)) : (l \o b)[i] = IF i <= Len(l) THEN l[i] ELSE b[i - Len(l)]
    BY ONLY <1>b, <1>t, Joined
  <2> QED BY <1>l, <1>m, <2>1
<1>2. /\ Len(s) = (1 + m) + 2
      /\ \A i \in 1..((1 + m) + 2) : s[i] = IF i <= 1 + m THEN p[i] ELSE e[i - (1 + m)]
  <2> HIDE DEF p
  <2>1. /\ Len(p \o e) = Len(p) + Len(e)
        /\ \A i \in 1..(Len(p) + Len(e)) : (p \o e)[i] = IF i <= Len(p) THEN p[i] ELSE e[i - Len(p)]
    BY ONLY <1>t, Joined
  <2> QED BY <1>1, <1>e, <2>1
<1> HIDE DEF p, s
<1>3. s[1] = "<think>" /\ s[m + 2] = "</think>" /\ s[m + 3] = "nl"
  <2>1. /\ 1 \in 1..(1 + m) /\ 1 \in 1..((1 + m) + 2) /\ 1 <= 1 + m /\ 1 <= 1
        /\ m + 2 \in 1..((1 + m) + 2) /\ m + 3 \in 1..((1 + m) + 2)
        /\ ~(m + 2 <= 1 + m) /\ ~(m + 3 <= 1 + m)
        /\ (m + 2) - (1 + m) = 1 /\ (m + 3) - (1 + m) = 2
    OBVIOUS
  <2> QED BY <1>1, <1>2, <1>e, <1>l, <2>1
<1>4. \A i \in 2..(1 + m) : s[i] \notin {"<think>", "</think>"}
  <2> SUFFICES ASSUME NEW i \in 2..(1 + m) PROVE s[i] \notin {"<think>", "</think>"}
    OBVIOUS
  <2>1. i \in 1..((1 + m) + 2) /\ i \in 1..(1 + m) /\ i <= 1 + m /\ ~(i <= 1) /\ i - 1 \in 1..m
    OBVIOUS
  <2> QED BY <1>1, <1>2, <1>m, <2>1 DEF Unmarked
<1>5. Rd!Open(s, 0) = 0
  BY <1>t, OpenSteps
<1>6. Rd!Open(s, 1) = 1
  <2>1. 0 \in 0..(Len(s) - 1) /\ 0 + 1 = 1 /\ 0 + Adds("<think>") = 1
    BY <1>2 DEF Adds
  <2>2. Rd!Open(s, 0 + 1) = Rd!Open(s, 0) + Adds(s[0 + 1])
    BY <1>t, <2>1, OpenSteps
  <2> QED BY <1>3, <1>5, <2>1, <2>2
<1>7. \A n \in 0..m : Rd!Open(s, 1 + n) = 1
  <2> SUFFICES ASSUME NEW n \in 0..m PROVE Rd!Open(s, 1 + n) = 1
    OBVIOUS
  <2>1. 1 \in Nat /\ n \in Nat /\ 1 + n <= Len(s)
    BY <1>2
  <2>2. \A i \in (1 + 1)..(1 + n) : s[i] \notin {"<think>", "</think>"}
    BY <1>4
  <2> QED BY <1>6, <1>t, <2>1, <2>2, QuietPiece
<1>8. Rd!Open(s, m + 2) = 0
  <2>1. m \in 0..m /\ 1 + m \in 0..(Len(s) - 1) /\ (1 + m) + 1 = m + 2 /\ 1 + Adds("</think>") = 0
    BY <1>2 DEF Adds
  <2>2. Rd!Open(s, (1 + m) + 1) = Rd!Open(s, 1 + m) + Adds(s[(1 + m) + 1])
    BY <1>t, <2>1, OpenSteps
  <2> QED BY <1>3, <1>7, <2>1, <2>2
<1>9. Rd!Open(s, m + 3) = 0
  <2>1. m + 2 \in 0..(Len(s) - 1) /\ (m + 2) + 1 = m + 3 /\ 0 + Adds("nl") = 0
    BY <1>2 DEF Adds
  <2>2. Rd!Open(s, (m + 2) + 1) = Rd!Open(s, m + 2) + Adds(s[(m + 2) + 1])
    BY <1>t, <2>1, OpenSteps
  <2> QED BY <1>3, <1>8, <2>1, <2>2
<1>10. \A i \in 0..Len(s) : i = 0 \/ (\E n \in 0..m : i = 1 + n) \/ i = m + 2 \/ i = m + 3
  <2> SUFFICES ASSUME NEW i \in 0..Len(s), i # 0, i # m + 2, i # m + 3 PROVE \E n \in 0..m : i = 1 + n
    OBVIOUS
  <2>1. i - 1 \in 0..m /\ i = 1 + (i - 1)
    BY <1>2
  <2> QED BY <2>1
<1>11. Rd!Unnested(s) /\ Ends(s)
  <2>1. \A i \in 0..Len(s) : Rd!Open(s, i) \in {0, 1}
    BY <1>5, <1>7, <1>8, <1>9, <1>10
  <2>2. Len(s) = m + 3
    BY <1>2
  <2> QED BY <1>9, <2>1, <2>2 DEF Rd!Unnested, Ends
<1>12. ASSUME NEW i \in 1..Len(s), Out(s, i) PROVE s[i] \in {"nl", "text"}
  <2>1. i \in 0..Len(s) /\ i # 0
    BY <1>2
  <2>2. CASE \E n \in 0..m : i = 1 + n
    BY <1>7, <1>12, <2>2 DEF Out
  <2>3. CASE i = m + 2
    BY <1>3, <1>12, <2>3 DEF Out
  <2>4. CASE i = m + 3
    BY <1>3, <2>4
  <2> QED BY <1>10, <2>1, <2>2, <2>3, <2>4
<1> QED BY <1>s, <1>11, <1>12 DEF Silent, Clean, Tidy, Parts, s, p, l, e

\* q is a piece of s that starts after j, and what is around it is silent.
Within(q, s, j) ==
    /\ j \in Nat /\ Len(q) \in Nat /\ Len(s) \in Nat /\ j + Len(q) <= Len(s)
    /\ \A i \in 1..Len(q) : s[j + i] = q[i] /\ Rd!Open(s, j + i) = Rd!Open(q, i)
    /\ \A i \in 1..Len(s) : Out(s, i) =>
         (\E k \in 1..Len(q) : i = j + k) \/ s[i] \in {"nl", "text"}

\* The object a piece is meant by is the object of the whole.
LEMMA WithinAim ==
  ASSUME NEW q, NEW s, NEW j, Within(q, s, j), NEW v, NEW a, Aim(q, v, a)
  PROVE  Aim(s, v, j + a)
<1>1. /\ j \in Nat /\ Len(q) \in Nat /\ Len(s) \in Nat /\ j + Len(q) <= Len(s)
      /\ \A i \in 1..Len(q) : s[j + i] = q[i] /\ Rd!Open(s, j + i) = Rd!Open(q, i)
  BY DEF Within
<1>2. /\ a \in Nat /\ 1 <= a /\ a + 2 <= Len(q)
      /\ q[a] = "{" /\ q[a + 1] = v /\ q[a + 2] = "}"
      /\ Out(q, a) /\ Out(q, a + 1) /\ Out(q, a + 2)
  BY DEF Aim
<1>n. a \in Nat /\ 1 <= a /\ a + 2 <= Len(q)
  BY <1>2, Zenon
<1>3. \A i \in 1..Len(q) : s[j + i] = q[i] /\ (Out(s, j + i) <=> Out(q, i))
  BY <1>1 DEF Out
<1>4. /\ a \in 1..Len(q) /\ a + 1 \in 1..Len(q) /\ a + 2 \in 1..Len(q)
      /\ (j + a) + 1 = j + (a + 1) /\ (j + a) + 2 = j + (a + 2)
      /\ j + a \in Nat /\ 1 <= j + a /\ (j + a) + 2 <= Len(s)
  BY <1>1, <1>n
<1>5. /\ s[j + a] = "{" /\ s[(j + a) + 1] = v /\ s[(j + a) + 2] = "}"
      /\ Out(s, j + a) /\ Out(s, (j + a) + 1) /\ Out(s, (j + a) + 2)
  BY <1>2, <1>3, <1>4
<1>6. ASSUME NEW i \in 1..Len(s), Out(s, i) PROVE Lone(s, j + a, i)
  <2>1. (\E k \in 1..Len(q) : i = j + k) \/ s[i] \in {"nl", "text"}
    BY <1>6 DEF Within
  <2>2. CASE s[i] \in {"nl", "text"}
    BY <2>2 DEF Lone
  <2>3. CASE \E k \in 1..Len(q) : i = j + k
    <3>1. PICK k \in 1..Len(q) : i = j + k
      BY <2>3
    <3>2. s[i] = q[k] /\ Out(q, k)
      BY <1>3, <1>6, <3>1
    <3>3. Lone(q, a, k)
      BY <3>2 DEF Aim
    <3>4. /\ s[i] = "{" => k = a
          /\ s[i] = "}" => k = a + 2
          /\ s[i] # "["
          /\ s[i] = "fence" /\ k < a => Closed(q, a, k)
      BY <3>2, <3>3 DEF Lone
    <3>5. (k = a => i = j + a) /\ (k = a + 2 => i = (j + a) + 2) /\ (i < j + a => k < a)
      BY <1>1, <1>n, <3>1
    <3>6. ASSUME Closed(q, a, k) PROVE Closed(s, j + a, i)
      <4>1. PICK x \in (k + 1)..(a - 1) : Out(q, x) /\ q[x] = "nl"
        BY <3>6 DEF Closed
      <4>2. PICK y \in (a + 3)..Len(q) : Out(q, y) /\ q[y] = "fence"
        BY <3>6 DEF Closed
      <4>3. /\ x \in 1..Len(q) /\ y \in 1..Len(q)
            /\ j + x \in (i + 1)..((j + a) - 1) /\ j + y \in ((j + a) + 3)..Len(s)
        BY <1>1, <1>n, <3>1
      <4>4. Out(s, j + x) /\ s[j + x] = "nl" /\ Out(s, j + y) /\ s[j + y] = "fence"
        BY <1>3, <4>1, <4>2, <4>3
      <4> QED BY <4>3, <4>4 DEF Closed
    <3> QED BY <3>4, <3>5, <3>6 DEF Lone
  <2> QED BY <2>1, <2>2, <2>3
<1> QED BY <1>4, <1>5, <1>6 DEF Aim

\* What is silent before or after the object does not matter.
LEMMA SilentAround ==
  ASSUME NEW u, NEW w, Clean(u), Clean(w), NEW v, NEW a
  PROVE  /\ Silent(u) /\ Aim(w, v, a) => Aim(u \o w, v, Len(u) + a)
         /\ Silent(w) /\ Aim(u, v, a) => Aim(u \o w, v, 0 + a)
<1> DEFINE s == u \o w
<1>1. Follows(s, u, w)
  BY JoinedOpen
<1>0. Len(u) \in Nat /\ Len(w) \in Nat
  BY DEF Clean, Tidy
<1> HIDE DEF s
<1>2. PICK h, r \in Nat : h = Len(u) /\ r = Len(w) /\ Len(s) = h + r
  BY <1>0, <1>1 DEF Follows
<1>3. /\ \A i \in 1..h : s[i] = u[i] /\ Rd!Open(s, i) = Rd!Open(u, i)
      /\ \A i \in 1..r : s[h + i] = w[i] /\ Rd!Open(s, h + i) = Rd!Open(w, i)
  <2>1. (\A i \in 1..h : i \in 0..h) /\ (\A i \in 1..r : i \in 0..r)
    OBVIOUS
  <2> QED BY <1>1, <1>2, <2>1 DEF Follows
<1>4. \A i \in 1..(h + r) : i \in 1..h \/ \E m \in 1..r : i = h + m
  BY Either
<1>5. ASSUME Silent(u) PROVE Within(w, s, h)
  <2>1. ASSUME NEW i \in 1..Len(s), Out(s, i)
        PROVE  (\E k \in 1..r : i = h + k) \/ s[i] \in {"nl", "text"}
    <3> SUFFICES ASSUME i \in 1..h PROVE s[i] \in {"nl", "text"}
      BY <1>2, <1>4
    <3> QED BY <1>2, <1>3, <1>5, <2>1 DEF Out, Silent
  <2>2. h + r <= Len(s) /\ Len(s) \in Nat
    BY <1>2
  <2> QED BY <1>2, <1>3, <2>1, <2>2 DEF Within
<1>6. ASSUME Silent(w) PROVE Within(u, s, 0)
  <2>0. \A i \in 1..h : 0 + i = i
    OBVIOUS
  <2>1. ASSUME NEW i \in 1..Len(s), Out(s, i)
        PROVE  (\E k \in 1..h : i = 0 + k) \/ s[i] \in {"nl", "text"}
    <3>1. CASE i \in 1..h
      BY <2>0, <3>1
    <3>2. CASE \E m \in 1..r : i = h + m
      BY <1>2, <1>3, <1>6, <2>1, <3>2 DEF Out, Silent
    <3> QED BY <1>2, <1>4, <3>1, <3>2
  <2>2. 0 + h <= Len(s) /\ Len(s) \in Nat /\ 0 \in Nat
    BY <1>2
  <2>3. \A i \in 1..h : s[0 + i] = u[i] /\ Rd!Open(s, 0 + i) = Rd!Open(u, i)
    BY <1>3, <2>0
  <2> QED BY <1>2, <2>1, <2>2, <2>3 DEF Within
<1> QED BY <1>2, <1>5, <1>6, WithinAim DEF s

\* The object on its own.
LEMMA ObjectAim ==
  ASSUME NEW v \in Rd!Verdict
  PROVE  Clean(Rd!Object(v)) /\ Aim(Rd!Object(v), v, 1)
<1> DEFINE o == Rd!Object(v)
<1>1. /\ Parts(o) /\ Len(o) = 3
      /\ o[1] = "{" /\ o[2] = v /\ o[3] = "}"
  BY ObjectParts
<1> HIDE DEF o
<1>2. \A i \in 1..3 : i = 1 \/ i = 2 \/ i = 3
  OBVIOUS
<1>3. v \notin {"<think>", "</think>", "{", "}", "[", "fence"}
  BY DEF Rd!Verdict
<1>4. \A i \in 1..Len(o) : o[i] \notin {"<think>", "</think>"}
  BY <1>1, <1>2, <1>3
<1>5. Clean(o) /\ \A i \in 1..Len(o) : Out(o, i)
  BY <1>1, <1>4, UnmarkedClean
<1>6. Aim(o, v, 1)
  <2>1. 1 + 1 = 2 /\ 1 + 2 = 3 /\ 1 \in 1..3 /\ 2 \in 1..3 /\ 3 \in 1..3 /\ 1 \in Nat /\ 1 <= 1 /\ 3 <= 3
    OBVIOUS
  <2>2. \A i \in 1..3 : Lone(o, 1, i)
    BY <1>1, <1>2, <1>3, <2>1 DEF Lone
  <2> QED BY <1>1, <1>5, <2>1, <2>2 DEF Aim
<1> QED BY <1>5, <1>6 DEF o

\* The object in a code fence whose fences stand on lines of their own.
LEMMA FencedAim ==
  ASSUME NEW v \in Rd!Verdict, NEW f \in Seq({"fence", "text", "nl"}), f # <<>>, f[Len(f)] = "nl"
  PROVE  LET s == (f \o Rd!Object(v)) \o <<"nl", "fence">>
         IN  Clean(s) /\ Aim(s, v, Len(f) + 1)
<1> DEFINE o == Rd!Object(v)
           e == <<"nl", "fence">>
           p == f \o o
           s == p \o e
<1>o. /\ Parts(o) /\ Len(o) = 3 /\ o \in Seq(Token)
      /\ o[1] = "{" /\ o[2] = v /\ o[3] = "}"
  BY ObjectParts DEF Parts
<1> HIDE DEF o
<1>i. {"fence", "text", "nl"} \subseteq Inert /\ "nl" \in Inert /\ "fence" \in Inert
  BY DEF Inert, Token
<1>e. e \in Seq(Inert) /\ Len(e) = 2 /\ e[1] = "nl" /\ e[2] = "fence"
  BY <1>i, TupleTwo
<1> HIDE DEF e
<1>f. f \in Seq(Inert) /\ f \in Seq({"fence", "text", "nl"})
  BY <1>i
<1>p. Parts(f) /\ Parts(e) /\ Parts(p)
  BY <1>e, <1>f, <1>o, InertParts, JoinedParts
<1>s. Parts(s)
  <2> HIDE DEF p
  <2> QED BY <1>p, JoinedParts
<1>t. f \in Seq(Token) /\ e \in Seq(Token) /\ p \in Seq(Token) /\ s \in Seq(Token)
  BY <1>p, <1>s DEF Parts
<1>m. PICK h \in Nat : h = Len(f) /\ h # 0
  BY <1>f
<1>1. /\ Len(p) = h + 3
      /\ \A i \in 1..(h + 3) : p[i] = IF i <= h THEN f[i] ELSE o[i - h]
  <2>1. /\ Len(f \o o) = Len(f) + Len(o)
        /\ \A i \in 1..(Len(f) + Len(o)) : (f \o o)[i] = IF i <= Len(f) THEN f[i] ELSE o[i - Len(f)]
    BY ONLY <1>o, <1>t, Joined
  <2> QED BY <1>o, <1>m, <2>1
<1>2. /\ Len(s) = (h + 3) + 2
      /\ \A i \in 1..((h + 3) + 2) : s[i] = IF i <= h + 3 THEN p[i] ELSE e[i - (h + 3)]
  <2> HIDE DEF p
  <2>1. /\ Len(p \o e) = Len(p) + Len(e)
        /\ \A i \in 1..(Len(p) + Len(e)) : (p \o e)[i] = IF i <= Len(p) THEN p[i] ELSE e[i - Len(p)]
    BY ONLY <1>t, Joined
  <2> QED BY <1>1, <1>e, <2>1
<1> HIDE DEF p, s
<1>3. \A i \in 1..h : s[i] = f[i] /\ f[i] \in {"fence", "text", "nl"}
  <2> SUFFICES ASSUME NEW i \in 1..h PROVE s[i] = f[i] /\ f[i] \in {"fence", "text", "nl"}
    OBVIOUS
  <2>1. i \in 1..((h + 3) + 2) /\ i \in 1..(h + 3) /\ i <= h /\ i <= h + 3
    OBVIOUS
  <2>2. s[i] = f[i]
    BY <1>1, <1>2, <2>1
  <2>3. f[i] \in {"fence", "text", "nl"}
    BY <1>f, <1>m
  <2> QED BY <2>2, <2>3
<1>4. s[h + 1] = "{" /\ s[h + 2] = v /\ s[h + 3] = "}" /\ s[h + 4] = "nl" /\ s[h + 5] = "fence"
  <2>1. \A k \in 1..3 : /\ h + k \in 1..(h + 3) /\ h + k \in 1..((h + 3) + 2)
                        /\ h + k <= h + 3 /\ ~(h + k <= h) /\ (h + k) - h = k
    OBVIOUS
  <2>2. \A k \in 1..3 : s[h + k] = o[k]
    BY <1>1, <1>2, <2>1
  <2>3. /\ h + 4 \in 1..((h + 3) + 2) /\ ~(h + 4 <= h + 3) /\ (h + 4) - (h + 3) = 1
        /\ h + 5 \in 1..((h + 3) + 2) /\ ~(h + 5 <= h + 3) /\ (h + 5) - (h + 3) = 2
        /\ 1 \in 1..3 /\ 2 \in 1..3 /\ 3 \in 1..3
    OBVIOUS
  <2> QED BY <1>2, <1>e, <1>o, <2>2, <2>3
<1>5. \A i \in 1..Len(s) : i \in 1..h \/ i = h + 1 \/ i = h + 2 \/ i = h + 3 \/ i = h + 4 \/ i = h + 5
  BY <1>2
<1>6. v \notin {"<think>", "</think>", "{", "}", "[", "fence"}
  BY DEF Rd!Verdict
<1>7. Clean(s) /\ \A i \in 1..Len(s) : Out(s, i)
  <2>1. \A i \in 1..Len(s) : s[i] \notin {"<think>", "</think>"}
    BY <1>3, <1>4, <1>5, <1>6
  <2> QED BY <1>s, <2>1, UnmarkedClean
<1>8. \A i \in 1..Len(s) : Lone(s, h + 1, i)
  <2>1. ASSUME NEW i \in 1..h, s[i] = "fence" PROVE Closed(s, h + 1, i)
    <3>1. h \in 1..h /\ h \in 1..Len(s) /\ h + 5 \in 1..Len(s) /\ h + 5 \in ((h + 1) + 3)..Len(s)
      BY <1>2, <1>m
    <3>2. s[h] = "nl"
      BY <1>3, <1>m, <3>1
    <3>3. i # h
      BY <2>1, <3>2
    <3>4. h \in (i + 1)..((h + 1) - 1)
      BY <3>3
    <3> QED BY <1>4, <1>7, <3>1, <3>2, <3>4 DEF Closed
  <2>2. \A i \in 1..h : Lone(s, h + 1, i)
    BY <1>3, <2>1 DEF Lone
  <2>3. /\ (h + 1) + 2 = h + 3 /\ ~(h + 5 < h + 1)
    OBVIOUS
  <2> QED BY <1>4, <1>5, <1>6, <2>2, <2>3 DEF Lone
<1>9. Aim(s, v, h + 1)
  <2>1. /\ h + 1 \in Nat /\ 1 <= h + 1 /\ (h + 1) + 2 <= Len(s)
        /\ (h + 1) + 1 = h + 2 /\ (h + 1) + 2 = h + 3
        /\ h + 1 \in 1..Len(s) /\ h + 2 \in 1..Len(s) /\ h + 3 \in 1..Len(s)
    BY <1>2
  <2> QED BY <1>4, <1>7, <1>8, <2>1 DEF Aim
<1> QED BY <1>7, <1>9, <1>m DEF s, p, o, e

\* Text and white space say nothing.
LEMMA TextSilent ==
  ASSUME NEW s \in Seq({"nl", "text"})
  PROVE  Silent(s)
<1>1. {"nl", "text"} \subseteq Inert
  BY DEF Inert, Token
<1>2. s \in Seq(Inert) /\ \A i \in 1..Len(s) : s[i] \in {"nl", "text"}
  BY <1>1
<1>3. Parts(s) /\ \A i \in 1..Len(s) : s[i] \notin {"<think>", "</think>"}
  BY <1>2, InertParts
<1>4. Clean(s)
  BY <1>3, UnmarkedClean
<1> QED BY <1>2, <1>4 DEF Silent

\* What a model thinks says nothing.
LEMMA ThoughtSilent == \A t \in Rd!Thought : Silent(t)
<1> DEFINE Quiet == Inert \ {"<think>", "</think>"}
<1>1. ASSUME NEW b \in Seq(Quiet) PROVE Parts(b) /\ Unmarked(b)
  <2>1. Quiet \subseteq Inert
    OBVIOUS
  <2>2. b \in Seq(Inert)
    BY <2>1
  <2> QED BY <2>2, InertParts DEF Unmarked
<1>2. "text" \in Quiet /\ "{" \in Quiet /\ "fence" \in Quiet /\ "nl" \in Quiet
  BY DEF Inert, Token
<1> HIDE DEF Quiet
<1>3. Parts(<<>>) /\ Unmarked(<<>>)
  BY <1>1, EmptyText
<1>4. Parts(<<"text">>) /\ Unmarked(<<"text">>)
  BY <1>1, <1>2, TupleOne
<1>5. Parts(<<"{", "text", "fence", "nl">>) /\ Unmarked(<<"{", "text", "fence", "nl">>)
  BY <1>1, <1>2, TupleFour
<1>6. Parts(Rd!Object("not-fixable")) /\ Unmarked(Rd!Object("not-fixable"))
  <2> DEFINE o == Rd!Object("not-fixable")
  <2>1. "not-fixable" \in Rd!Verdict
    BY DEF Rd!Verdict
  <2>2. Parts(o) /\ Len(o) = 3 /\ o[1] = "{" /\ o[2] = "not-fixable" /\ o[3] = "}"
    BY <2>1, ObjectParts
  <2>3. \A i \in 1..3 : i = 1 \/ i = 2 \/ i = 3
    OBVIOUS
  <2> HIDE DEF o
  <2>4. Unmarked(o)
    BY <2>2, <2>3 DEF Unmarked
  <2> QED BY <2>2, <2>4 DEF o
<1> QED BY <1>3, <1>4, <1>5, <1>6, BlockSilent DEF Rd!Thought

\* The four pieces of a wrapping, one after the other.
Reply4(a, b, c, d) == Rd!FlattenSeq(<<a, b, c, d>>)

\* Two sequences, one after the other.
Cat(a, b) == a \o b

\* Four parts are put together from left to right.
LEMMA FlattenFour ==
  ASSUME NEW a \in Seq(Token), NEW b \in Seq(Token), NEW c \in Seq(Token), NEW d \in Seq(Token)
  PROVE  Reply4(a, b, c, d) = Cat(Cat(Cat(a, b), c), d)
<1> DEFINE X == {a, b, c, d}
           s == <<a, b, c, d>>
<1>0. a \in X /\ b \in X /\ c \in X /\ d \in X
  OBVIOUS
<1> HIDE DEF X
<1>1. s \in Seq(X) /\ Len(s) = 4 /\ s[1] = a /\ s[2] = b /\ s[3] = c /\ s[4] = d
  BY <1>0, TupleFour
<1> HIDE DEF s
<1>2. 4 \in Nat /\ 4 # 0
  OBVIOUS
<1>3. PICK f : Joins(f, s, 4) /\ Rd!FlattenSeq(s) = f[4]
  BY <1>1, <1>2, FlattenSteps
<1>4. 1 \in 1..(4 - 1) /\ 2 \in 1..(4 - 1) /\ 3 \in 1..(4 - 1) /\ 1 + 1 = 2 /\ 2 + 1 = 3 /\ 3 + 1 = 4
  OBVIOUS
<1>5. f[1] = s[1] /\ f[2] = f[1] \o s[2] /\ f[3] = f[2] \o s[3] /\ f[4] = f[3] \o s[4]
  <2>1. f[1] = s[1] /\ f[1 + 1] = f[1] \o s[1 + 1]
    BY <1>3, <1>4 DEF Joins
  <2>2. f[2 + 1] = f[2] \o s[2 + 1]
    BY <1>3, <1>4 DEF Joins
  <2>3. f[3 + 1] = f[3] \o s[3 + 1]
    BY <1>3, <1>4 DEF Joins
  <2> QED BY <1>4, <2>1, <2>2, <2>3
<1> QED BY <1>1, <1>3, <1>5 DEF s, Reply4, Cat

\* What is written before or after the object says nothing.
LEMMA TextsSilent ==
  Silent(<<>>) /\ Silent(<<"nl">>) /\ Silent(<<"text", "nl">>) /\ Silent(<<"nl", "text">>)
<1>0. "nl" \in {"nl", "text"} /\ "text" \in {"nl", "text"}
  OBVIOUS
<1>1. Silent(<<>>)
  <2>1. <<>> \in Seq({"nl", "text"})
    BY EmptyText
  <2> QED BY <2>1, TextSilent
<1>2. Silent(<<"nl">>)
  BY <1>0, TupleOne, TextSilent
<1>3. Silent(<<"text", "nl">>)
  <2>1. <<"text", "nl">> \in Seq({"nl", "text"})
    BY <1>0, TupleTwo
  <2> QED BY <2>1, TextSilent
<1>4. Silent(<<"nl", "text">>)
  <2>1. <<"nl", "text">> \in Seq({"nl", "text"})
    BY <1>0, TupleTwo
  <2> QED BY <2>1, TextSilent
<1> QED BY <1>1, <1>2, <1>3, <1>4

\* What a reply with one object is wrapped in does not matter.
LEMMA AroundAim ==
  ASSUME NEW th, NEW pre, NEW body, NEW post, NEW v,
         Silent(th), Silent(pre), Silent(post), Clean(body), \E a : Aim(body, v, a)
  PROVE  LET r == Reply4(th, pre, body, post)
         IN  Clean(r) /\ \E a : Aim(r, v, a)
<1> DEFINE p == th \o pre
           q == p \o body
           r == Reply4(th, pre, body, post)
<1>1. r = q \o post
  <2>1. th \in Seq(Token) /\ pre \in Seq(Token) /\ body \in Seq(Token) /\ post \in Seq(Token)
    BY DEF Silent, Clean, Tidy
  <2>2. r = Cat(Cat(Cat(th, pre), body), post)
    BY <2>1, FlattenFour
  <2> QED BY <2>2 DEF Cat
<1>2. Silent(p)
  BY JoinedSilent
<1>3. Clean(p) /\ Clean(post)
  BY <1>2 DEF Silent
<1> HIDE DEF p, r
<1>4. Clean(q) /\ \E a : Aim(q, v, a)
  BY <1>2, <1>3, JoinedClean, SilentAround
<1> HIDE DEF q
<1>5. Clean(q \o post) /\ \E a : Aim(q \o post, v, a)
  BY <1>3, <1>4, JoinedClean, SilentAround
<1> QED BY <1>1, <1>5 DEF r

\* The object, alone or fenced.
LEMMA BodyAim ==
  ASSUME NEW v \in Rd!Verdict,
         NEW body \in {Rd!Object(v),
                       <<"fence", "nl">> \o Rd!Object(v) \o <<"nl", "fence">>,
                       <<"fence", "text", "nl">> \o Rd!Object(v) \o <<"nl", "fence">>}
  PROVE  Clean(body) /\ \E a : Aim(body, v, a)
<1>1. CASE body = Rd!Object(v)
  BY <1>1, ObjectAim
<1>i. "fence" \in {"fence", "text", "nl"} /\ "text" \in {"fence", "text", "nl"} /\ "nl" \in {"fence", "text", "nl"}
  OBVIOUS
<1>2. CASE body = <<"fence", "nl">> \o Rd!Object(v) \o <<"nl", "fence">>
  <2> DEFINE f == <<"fence", "nl">>
  <2>1. f \in Seq({"fence", "text", "nl"}) /\ Len(f) = 2 /\ f[2] = "nl"
    BY <1>i, TupleTwo
  <2>2. body = (f \o Rd!Object(v)) \o <<"nl", "fence">>
    BY <1>2
  <2> HIDE DEF f
  <2>3. f # <<>> /\ f[Len(f)] = "nl"
    BY <2>1
  <2> QED BY <2>1, <2>2, <2>3, FencedAim
<1>3. CASE body = <<"fence", "text", "nl">> \o Rd!Object(v) \o <<"nl", "fence">>
  <2> DEFINE f == <<"fence", "text", "nl">>
  <2>1. f \in Seq({"fence", "text", "nl"}) /\ Len(f) = 3 /\ f[3] = "nl"
    BY <1>i, TupleThree
  <2>2. body = (f \o Rd!Object(v)) \o <<"nl", "fence">>
    BY <1>3
  <2> HIDE DEF f
  <2>3. f # <<>> /\ f[Len(f)] = "nl"
    BY <2>1
  <2> QED BY <2>1, <2>2, <2>3, FencedAim
<1> QED BY <1>1, <1>2, <1>3

\* Each wrapping has one object that is meant.
LEMMA WrappedAim ==
  ASSUME NEW v \in Rd!Verdict, NEW r \in Rd!Wrapped(v)
  PROVE  Clean(r) /\ \E a : Aim(r, v, a)
<1> DEFINE Pairs == {Cat(a, b) : a, b \in Rd!Thought}
           Thoughts == {<<>>} \cup Rd!Thought \cup Pairs
           Before == {<<>>, <<"nl">>, <<"text", "nl">>}
           Body == {Rd!Object(v),
                    <<"fence", "nl">> \o Rd!Object(v) \o <<"nl", "fence">>,
                    <<"fence", "text", "nl">> \o Rd!Object(v) \o <<"nl", "fence">>}
           After == {<<>>, <<"nl">>, <<"nl", "text">>}
<1>0. Rd!Wrapped(v) = {Reply4(th, pre, body, post) :
                         th \in Thoughts, pre \in Before, body \in Body, post \in After}
  BY DEF Rd!Wrapped, Reply4, Cat
<1>2. \A s \in Before \cup After : Silent(s)
  BY TextsSilent
<1>3. \A s \in Thoughts : Silent(s)
  <2>1. \A s \in Pairs : Silent(s)
    <3>1. ASSUME NEW a \in Rd!Thought, NEW b \in Rd!Thought PROVE Silent(Cat(a, b))
      BY ThoughtSilent, JoinedSilent DEF Cat
    <3> QED BY <3>1
  <2> HIDE DEF Pairs
  <2> QED BY <2>1, ThoughtSilent, TextsSilent
<1>4. \A s \in Body : Clean(s) /\ \E a : Aim(s, v, a)
  BY BodyAim
<1> HIDE DEF Thoughts, Before, Body, After
<1>1. \E th \in Thoughts, pre \in Before, body \in Body, post \in After :
        r = Reply4(th, pre, body, post)
  <2> HIDE DEF Pairs
  <2>1. r \in {Reply4(th, pre, body, post) :
               th \in Thoughts, pre \in Before, body \in Body, post \in After}
    BY <1>0
  <2> QED BY <2>1
<1>5. PICK th \in Thoughts, pre \in Before, body \in Body, post \in After :
        r = Reply4(th, pre, body, post)
  BY <1>1
<1>6. Silent(th) /\ Silent(pre) /\ Silent(post) /\ Clean(body) /\ \E a : Aim(body, v, a)
  BY <1>2, <1>3, <1>4
<1> QED BY <1>5, <1>6, AroundAim

\* Both halves of the property, for any number of parts.
LEMMA RepliesRead ==
  ASSUME MaxParts \in Nat
  PROVE  Rd!WrappedIsRead /\ Rd!RefusalIsMeant
<1>1. ASSUME NEW v \in Rd!Verdict, NEW r \in Rd!Wrapped(v)
      PROVE  Clean(r) /\ Rd!ClassOf(r) = IF v = "something else" THEN "complex" ELSE v
  <2>1. Clean(r) /\ Rd!ClassOf(r) = IF v \in {"trivial", "not-fixable"} THEN v ELSE "complex"
    BY WrappedAim, AnswersAreRead
  <2> QED BY <2>1 DEF Rd!Verdict
<1>2. ASSUME NEW r \in Rd!Replies PROVE Parts(r)
  <2>1. CASE r \in Rd!Arbitrary
    BY <2>1, ArbitraryParts
  <2>2. CASE r \in UNION {Rd!Wrapped(v) : v \in Rd!Verdict}
    BY <1>1, <2>2 DEF Clean, Tidy, Parts
  <2> QED BY <2>1, <2>2 DEF Rd!Replies
<1>3. ASSUME NEW r \in Rd!Replies, Rd!Unnested(r), Rd!ClassOf(r) = "not-fixable"
      PROVE  Rd!Says(r, "not-fixable")
  <2>1. Tidy(r)
    BY <1>2, <1>3 DEF Tidy, Parts
  <2> QED BY <1>3, <2>1, RefusalsAreMeant, RefusesSays
<1> QED BY <1>1, <1>3 DEF Rd!WrappedIsRead, Rd!RefusalIsMeant

\* A recovery does with the classifier's reply what that says, whatever the
\* number of parts of the arbitrary replies: an answer wrapped in the ways
\* extractJSON knows is read as that answer, and, blocks not being nested,
\* recovery is skipped only for a refusal outside the think blocks or in a last
\* one that is cut off.
THEOREM RepliesAreRead == Spec => []ReplyReadAsMeant
<1>1. ReplyReadAsMeant
  <2>1. MaxParts \in Nat
    BY RecoveryAssumption
  <2> QED BY <2>1, RepliesRead DEF ReplyReadAsMeant
<1> QED BY <1>1, PTL
=============================================================================
