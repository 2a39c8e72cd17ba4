---------------------------- MODULE DeployProofs ----------------------------
(***************************************************************************)
(* The safety of Deploy for every set of versions and every helm history.  *)
(***************************************************************************)
EXTENDS Deploy, TLAPS

\* helm before the upgrade left a revision: the history is of old versions
\* and ends with what was asked for before.
HistoryIsOld ==
    target = "k8s" /\ ~recorded /\ (pc = "deploy" \/ Undoing) =>
      /\ revisions \in Seq(OldVersions)
      /\ before = IF revisions = <<>> THEN Down ELSE revisions[Len(revisions)]

\* helm after the upgrade: the new revision comes last, after what was asked for before.
HistoryEndsWithNew ==
    target = "k8s" /\ recorded /\ (pc = "health" \/ Undoing) =>
      /\ revisions # <<>>
      /\ Len(revisions) > 1 => RollbackTarget = before /\ before \in OldVersions

\* What the steps before the end have established.
Progress ==
    /\ pc = "deploy" => ~recorded
    /\ pc \in {"health", "ok"} => recorded
    /\ undone => pc = "failed"
    /\ target = "compose" /\ pc = "health" => live = New
    /\ pc = "deploy" => wanted = before
    /\ pc = "undo deploy" =>
         wanted \in {before, New, Broken} \cup (IF target = "compose" THEN {Down} ELSE {})
    /\ pc \in {"health", "undo health", "ok"} => wanted = New
    /\ target \in {"compose", "k8s"}

IInv ==
    /\ TypeOK
    /\ RolledBackIffFailed
    /\ RollbackRemovesNew
    /\ HelmRestoresReplaced
    /\ ComposeOkIsNew
    /\ HistoryIsOld
    /\ HistoryEndsWithNew
    /\ Progress

USE DeployAssumption DEF Running

LEMMA InitIInv == Init => IInv
<1> SUFFICES ASSUME Init PROVE IInv
  OBVIOUS
<1> USE DEF Init
<1>1. CASE target = "k8s"
  <2>1. PICK n \in 0..MaxRevisions : revisions \in [1..n -> OldVersions]
    BY <1>1
  <2>2. revisions \in Seq(OldVersions) /\ revisions \in Seq(Running)
    BY <2>1
  <2>3. before \in OldVersions \cup {Down} /\ live \in OldVersions \cup {Down}
    BY <1>1, <2>2
  <2>4. TypeOK
    <3>1. before \in OldVersions \cup {Down} /\ wanted \in Running /\ live \in Running
      BY <2>3
    <3>2. rollbacks \in 0..1 /\ pc \in {"deploy", "undo deploy", "health", "undo health", "ok", "failed"}
      OBVIOUS
    <3>3. recorded \in BOOLEAN /\ ctxDone \in BOOLEAN /\ undone \in BOOLEAN
      BY Zenon
    <3>h. healthy \subseteq OldVersions \cup {New}
      OBVIOUS
    <3> QED BY <2>2, <3>1, <3>2, <3>3, <3>h, Zenon DEF TypeOK
  <2>5. HistoryIsOld
    BY <1>1, <2>2 DEF HistoryIsOld
  <2> QED
    BY <1>1, <2>4, <2>5 DEF IInv, RolledBackIffFailed, RollbackRemovesNew, HelmRestoresReplaced,
                            ComposeOkIsNew, HistoryEndsWithNew, Progress, Undoing
<1>2. CASE target = "compose"
  <2>1. TypeOK
    <3>1. revisions \in Seq(Running) /\ live \in OldVersions \cup {Down}
      BY <1>2
    <3>2. before \in OldVersions \cup {Down} /\ wanted \in Running /\ live \in Running
      BY <3>1
    <3>3. rollbacks \in 0..1 /\ pc \in {"deploy", "undo deploy", "health", "undo health", "ok", "failed"}
      OBVIOUS
    <3>4. recorded \in BOOLEAN /\ ctxDone \in BOOLEAN /\ undone \in BOOLEAN
      BY Zenon
    <3>h. healthy \subseteq OldVersions \cup {New}
      OBVIOUS
    <3> QED BY <3>1, <3>2, <3>3, <3>4, <3>h, Zenon DEF TypeOK
  <2> QED
    BY <1>2, <2>1 DEF IInv, RolledBackIffFailed, RollbackRemovesNew, HelmRestoresReplaced,
                      ComposeOkIsNew, HistoryIsOld, HistoryEndsWithNew, Progress, Undoing
<1> QED BY <1>1, <1>2

\* The deploy command leaves a revision behind: only the last is new.
LEMMA RevisionLeft ==
    ASSUME IInv, pc = "deploy", AddRevision(New), recorded', target' = target, before' = before
    PROVE  /\ revisions' \in Seq(Running)
           /\ HistoryEndsWithNew'
<1> USE DEF IInv, TypeOK
<1>1. CASE target = "k8s"
  <2>1. revisions \in Seq(OldVersions) /\ before = IF revisions = <<>> THEN Down ELSE revisions[Len(revisions)]
    BY <1>1 DEF HistoryIsOld, Progress, Undoing
  <2>2. revisions' = Append(revisions, New)
    BY <1>1 DEF AddRevision
  <2>3. Len(revisions') = Len(revisions) + 1 /\ revisions' # <<>> /\ revisions' \in Seq(Running)
    BY <2>1, <2>2
  <2>4. ASSUME Len(revisions') > 1
        PROVE  RollbackTarget' = before /\ before \in OldVersions
    <3>1. Len(revisions) \in Nat /\ Len(revisions) > 0
      BY <2>1, <2>3, <2>4
    <3>2. RollbackTarget' = revisions[Len(revisions)]
      BY <2>1, <2>2, <2>3, <3>1 DEF RollbackTarget
    <3>3. revisions # <<>> /\ revisions[Len(revisions)] \in OldVersions
      BY <2>1, <3>1
    <3> QED BY <2>1, <3>2, <3>3
  <2> QED BY <2>3, <2>4 DEF HistoryEndsWithNew
<1>2. CASE target # "k8s"
  BY <1>2 DEF AddRevision, HistoryEndsWithNew
<1> QED BY <1>1, <1>2

\* A version that helm rollback goes back to is an old one, one of the
\* history's, and after an upgrade that left a revision what was asked for before.
LEMMA RollbackGoesBack ==
    ASSUME IInv, Undoing, HelmRollback
    PROVE  /\ RollbackTarget \in OldVersions
           /\ RollbackTarget \in {revisions[n] : n \in 1..Len(revisions)}
           /\ recorded => RollbackTarget = before
           /\ revisions' \in Seq(Running)
<1>1. target = "k8s" /\ Len(revisions) > 1 /\ revisions' = Append(revisions, RollbackTarget)
  BY DEF HelmRollback, AddRevision
<1>2. recorded => RollbackTarget = before /\ before \in OldVersions
  BY <1>1 DEF IInv, HistoryEndsWithNew
<1>3. ~recorded => revisions \in Seq(OldVersions)
  BY <1>1 DEF IInv, HistoryIsOld
<1>4. revisions \in Seq(Running)
  BY DEF IInv, TypeOK
<1>5. Len(revisions) - 1 \in 1..Len(revisions)
  BY <1>1, <1>4
<1>6. RollbackTarget \in OldVersions
  BY <1>2, <1>3, <1>5 DEF RollbackTarget
<1> QED BY <1>1, <1>2, <1>4, <1>5, <1>6 DEF RollbackTarget

\* Every step preserves the invariant.
LEMMA NextIInv == IInv /\ [Next]_vars => IInv'
<1> SUFFICES ASSUME IInv, [Next]_vars PROVE IInv'
  OBVIOUS
<1> USE DEF IInv
<1> DEFINE Parts == /\ RolledBackIffFailed' /\ RollbackRemovesNew' /\ HelmRestoresReplaced'
                    /\ ComposeOkIsNew' /\ Progress'
<1>1. CASE Cancel
  <2>1. TypeOK'
    BY <1>1 DEF Cancel, TypeOK
  <2>2. Parts
    BY <1>1 DEF Cancel, TypeOK, RolledBackIffFailed, RollbackRemovesNew,
                HelmRestoresReplaced, ComposeOkIsNew, Progress, Undoing
  <2>3. HistoryIsOld' /\ HistoryEndsWithNew'
    BY <1>1 DEF Cancel, HistoryIsOld, HistoryEndsWithNew, Undoing, RollbackTarget
  <2> QED BY <2>1, <2>2, <2>3
<1>2. CASE Rollout
  <2>1. TypeOK'
    BY <1>2 DEF Rollout, TypeOK
  <2>2. Parts
    BY <1>2 DEF Rollout, TypeOK, RolledBackIffFailed, RollbackRemovesNew,
                HelmRestoresReplaced, ComposeOkIsNew, Progress, Undoing
  <2>3. HistoryIsOld' /\ HistoryEndsWithNew'
    BY <1>2 DEF Rollout, HistoryIsOld, HistoryEndsWithNew, Undoing, RollbackTarget
  <2> QED BY <2>1, <2>2, <2>3
<1>3. CASE DeploySucceeds
  <2>1. revisions' \in Seq(Running) /\ HistoryEndsWithNew'
    BY <1>3, RevisionLeft DEF DeploySucceeds
  <2>2. Parts
    BY <1>3 DEF DeploySucceeds, Apply, TypeOK, RolledBackIffFailed, RollbackRemovesNew,
                HelmRestoresReplaced, ComposeOkIsNew, Progress, Undoing
  <2>3. TypeOK'
    BY <1>3, <2>1 DEF DeploySucceeds, Apply, TypeOK
  <2>4. HistoryIsOld'
    BY <1>3 DEF DeploySucceeds, HistoryIsOld
  <2> QED BY <2>1, <2>2, <2>3, <2>4
<1>4. CASE DeployBreaks
  <2>1. revisions' \in Seq(Running) /\ HistoryEndsWithNew'
    BY <1>4, RevisionLeft DEF DeployBreaks
  <2>2. Parts
    BY <1>4 DEF DeployBreaks, Apply, TypeOK, RolledBackIffFailed, RollbackRemovesNew,
                HelmRestoresReplaced, ComposeOkIsNew, Progress, Undoing
  <2>3. TypeOK'
    BY <1>4, <2>1 DEF DeployBreaks, Apply, TypeOK
  <2>4. HistoryIsOld'
    BY <1>4 DEF DeployBreaks, HistoryIsOld
  <2> QED BY <2>1, <2>2, <2>3, <2>4
<1>5. CASE DeployRejected
  <2>1. TypeOK'
    BY <1>5 DEF DeployRejected, TypeOK
  <2>2. Parts
    BY <1>5 DEF DeployRejected, TypeOK, RolledBackIffFailed, RollbackRemovesNew,
                HelmRestoresReplaced, ComposeOkIsNew, Progress, Undoing
  <2>3. HistoryIsOld' /\ HistoryEndsWithNew'
    BY <1>5 DEF DeployRejected, HistoryIsOld, HistoryEndsWithNew, Progress, Undoing, RollbackTarget
  <2> QED BY <2>1, <2>2, <2>3
<1>6. CASE HealthPasses \/ HealthFails
  <2>0. /\ pc = "health" /\ recorded /\ ~undone /\ wanted = New
        /\ pc' \in {"ok", "undo health"} /\ (pc' = "ok" => Answers)
        /\ target = "compose" => live = New
    BY <1>6 DEF HealthPasses, HealthFails, Progress
  <2>1. UNCHANGED <<target, wanted, live, healthy, revisions, before, recorded, ctxDone, rollbacks, undone>>
    BY <1>6, Zenon DEF HealthPasses, HealthFails
  <2>2. TypeOK'
    BY <2>0, <2>1 DEF TypeOK
  <2>3. Parts
    BY <2>0, <2>1 DEF Answers, TypeOK, RolledBackIffFailed, RollbackRemovesNew,
                      HelmRestoresReplaced, ComposeOkIsNew, Progress
  <2>4. HistoryIsOld' /\ HistoryEndsWithNew'
    BY <2>0, <2>1 DEF HistoryIsOld, HistoryEndsWithNew, RollbackTarget
  <2> QED BY <2>2, <2>3, <2>4
<1>7. CASE RollbackSucceeds
  <2>0. /\ pc' = "failed" /\ rollbacks' = 1 /\ rollbacks' \in 0..1
        /\ pc \in {"undo deploy", "undo health"} /\ ~undone
    <3>1. Undoing /\ pc' = "failed" /\ rollbacks' = rollbacks + 1
      BY <1>7, Zenon DEF RollbackSucceeds
    <3>2. pc # "failed" /\ pc \in {"undo deploy", "undo health"}
      BY <3>1 DEF Undoing
    <3>3. rollbacks = 0
      BY <3>2, Zenon DEF RolledBackIffFailed
    <3>4. ~undone
      BY <3>2, Zenon DEF Progress
    <3>5. rollbacks' = 1 /\ rollbacks' \in 0..1
      BY <3>1, <3>3
    <3> QED BY <3>1, <3>2, <3>4, <3>5, Zenon
  <2>1. CASE ComposeDown
    <3>1. TypeOK'
      <4>1. wanted' \in Running /\ live' \in Running /\ revisions' = revisions
        BY <2>1 DEF ComposeDown, Apply
      <4>2. /\ undone' \in BOOLEAN
            /\ UNCHANGED <<target, healthy, before, recorded, ctxDone>>
        BY <1>7, Zenon DEF RollbackSucceeds
      <4>3. rollbacks' \in 0..1 /\ pc' \in {"deploy", "undo deploy", "health", "undo health", "ok", "failed"}
        BY <2>0, Zenon
      <4> QED BY <4>1, <4>2, <4>3, Zenon DEF TypeOK
    <3>2. Parts
      BY <1>7, <2>0, <2>1 DEF RollbackSucceeds, ComposeDown, Apply, TypeOK, RolledBackIffFailed, RollbackRemovesNew,
                HelmRestoresReplaced, ComposeOkIsNew, Progress, Undoing
    <3>3. HistoryIsOld' /\ HistoryEndsWithNew'
      BY <1>7, <2>0, <2>1 DEF RollbackSucceeds, ComposeDown, HistoryIsOld, HistoryEndsWithNew
    <3> QED BY <3>1, <3>2, <3>3
  <2>2. CASE HelmRollback
    <3>1. Undoing /\ wanted' = RollbackTarget /\ target = "k8s" /\ live' = live
      BY <1>7, <2>2 DEF RollbackSucceeds, HelmRollback, Apply
    <3>2. /\ wanted' \in OldVersions
          /\ recorded => wanted' = before
          /\ revisions' \in Seq(Running)
      BY <2>2, <3>1, RollbackGoesBack
    <3>3. TypeOK'
      <4>1. wanted' \in Running /\ live' \in Running
        BY <3>1, <3>2 DEF TypeOK
      <4>2. /\ undone' \in BOOLEAN
            /\ UNCHANGED <<target, healthy, before, recorded, ctxDone>>
        BY <1>7, Zenon DEF RollbackSucceeds
      <4>3. rollbacks' \in 0..1 /\ pc' \in {"deploy", "undo deploy", "health", "undo health", "ok", "failed"}
        BY <2>0, Zenon
      <4> QED BY <3>2, <4>1, <4>2, <4>3, Zenon DEF TypeOK
    <3>4. Parts
      BY <1>7, <2>0, <3>1, <3>2 DEF RollbackSucceeds, TypeOK, RolledBackIffFailed, RollbackRemovesNew,
                HelmRestoresReplaced, ComposeOkIsNew, Progress, Undoing
    <3>5. HistoryIsOld' /\ HistoryEndsWithNew'
      BY <1>7, <2>0 DEF RollbackSucceeds, HistoryIsOld, HistoryEndsWithNew, Undoing
    <3> QED BY <3>3, <3>4, <3>5
  <2> QED BY <1>7, <2>1, <2>2 DEF RollbackSucceeds
<1>8. CASE RollbackFails
  <2>0. /\ pc' = "failed" /\ rollbacks' = 1 /\ rollbacks' \in 0..1
        /\ pc \in {"undo deploy", "undo health"} /\ ~undone
    <3>1. Undoing /\ pc' = "failed" /\ rollbacks' = rollbacks + 1
      BY <1>8, Zenon DEF RollbackFails
    <3>2. pc # "failed" /\ pc \in {"undo deploy", "undo health"}
      BY <3>1 DEF Undoing
    <3>3. rollbacks = 0
      BY <3>2, Zenon DEF RolledBackIffFailed
    <3>4. ~undone
      BY <3>2, Zenon DEF Progress
    <3>5. rollbacks' = 1 /\ rollbacks' \in 0..1
      BY <3>1, <3>3
    <3> QED BY <3>1, <3>2, <3>4, <3>5, Zenon
  <2>1. TypeOK'
    <3>1. wanted' \in Running /\ live' \in Running
      BY <1>8 DEF RollbackFails, Apply, TypeOK
    <3>2. UNCHANGED <<target, healthy, revisions, before, recorded, ctxDone, undone>>
      BY <1>8, Zenon DEF RollbackFails
    <3>3. rollbacks' \in 0..1 /\ pc' \in {"deploy", "undo deploy", "health", "undo health", "ok", "failed"}
      BY <2>0, Zenon
    <3> QED BY <3>1, <3>2, <3>3, Zenon DEF TypeOK
  <2>2. Parts
    BY <1>8, <2>0 DEF RollbackFails, Apply, TypeOK, RolledBackIffFailed, RollbackRemovesNew,
                HelmRestoresReplaced, ComposeOkIsNew, Progress, Undoing
  <2>3. HistoryIsOld' /\ HistoryEndsWithNew'
    BY <1>8, <2>0 DEF RollbackFails, HistoryIsOld, HistoryEndsWithNew, Undoing
  <2> QED BY <2>1, <2>2, <2>3
<1>9. CASE UNCHANGED vars
  <2>1. TypeOK'
    BY <1>9 DEF vars, TypeOK
  <2>2. Parts
    BY <1>9 DEF vars, TypeOK, RolledBackIffFailed, RollbackRemovesNew,
                HelmRestoresReplaced, ComposeOkIsNew, Progress, Undoing
  <2>3. HistoryIsOld' /\ HistoryEndsWithNew'
    BY <1>9 DEF vars, HistoryIsOld, HistoryEndsWithNew, Undoing, RollbackTarget
  <2> QED BY <2>1, <2>2, <2>3
<1> QED BY <1>1, <1>2, <1>3, <1>4, <1>5, <1>6, <1>7, <1>8, <1>9 DEF Next, Command

\* The inductive invariant of the two stages.
THEOREM InductiveInvariant == Spec => []IInv
  BY InitIInv, NextIInv, PTL DEF Spec

\* TypeOK holds of every behaviour.
THEOREM TypeCorrect == Spec => []TypeOK
  BY InductiveInvariant, PTL DEF IInv

\* Every failure of the two stages is answered by exactly one rollback.
THEOREM OneRollbackPerFailure == Spec => []RolledBackIffFailed
  BY InductiveInvariant, PTL DEF IInv

\* A rollback that succeeded takes the new version away.
THEOREM NewVersionGoes == Spec => []RollbackRemovesNew
  BY InductiveInvariant, PTL DEF IInv

\* After an upgrade that left a revision, helm rollback asks for what was
\* asked for before, whatever the history of the release.
THEOREM HelmGoesBack == Spec => []HelmRestoresReplaced
  BY InductiveInvariant, PTL DEF IInv

\* With compose a pipeline that succeeds has its new version running.
THEOREM ComposeSuccessIsNew == Spec => []ComposeOkIsNew
  BY InductiveInvariant, PTL DEF IInv
-----------------------------------------------------------------------------
(* Deploy implements Release: commands, rollbacks and the cluster's pace   *)
(* come down to one step per stage.                                        *)

\* Appending adds one element to those of a sequence.
LEMMA AppendAdds ==
    ASSUME NEW S, NEW s \in Seq(S), NEW v \in S
    PROVE  LET t == Append(s, v)
           IN  {t[n] : n \in 1..Len(t)} = {s[n] : n \in 1..Len(s)} \cup {v}
<1> DEFINE t == Append(s, v)
<1>1. Len(t) = Len(s) + 1 /\ Len(s) \in Nat /\ t[Len(s) + 1] = v
  OBVIOUS
<1>2. \A n \in 1..Len(s) : t[n] = s[n] /\ n \in 1..Len(t)
  BY <1>1
<1>3. Len(s) + 1 \in 1..Len(t) /\ \A n \in 1..Len(t) : n \in 1..Len(s) \/ n = Len(s) + 1
  BY <1>1
<1> HIDE DEF t
<1>4. {t[n] : n \in 1..Len(t)} = {s[n] : n \in 1..Len(s)} \cup {v}
  BY <1>1, <1>2, <1>3
<1> QED BY <1>4 DEF t

\* Both commands that add a revision add one that a rollback may find anyway.
LEMMA RevisionsFound ==
    ASSUME IInv,
           \/ UNCHANGED revisions
           \/ AddRevision(New)
           \/ Undoing /\ HelmRollback
    PROVE  {revisions[n] : n \in 1..Len(revisions)}' \ {New}
             = {revisions[n] : n \in 1..Len(revisions)} \ {New}
<1>1. revisions \in Seq(Running)
  BY DEF IInv, TypeOK
<1>2. CASE UNCHANGED revisions
  BY <1>2
<1>3. CASE AddRevision(New)
  <2>1. New \in Running
    OBVIOUS
  <2>2. revisions' \in {revisions, Append(revisions, New)}
    BY <1>3 DEF AddRevision
  <2> QED BY <1>1, <2>1, <2>2, AppendAdds
<1>4. CASE Undoing /\ HelmRollback
  <2>1. revisions' = Append(revisions, RollbackTarget)
    BY <1>4 DEF HelmRollback, AddRevision
  <2>2. RollbackTarget \in Running /\ RollbackTarget \in {revisions[n] : n \in 1..Len(revisions)}
    BY <1>4, RollbackGoesBack
  <2> QED BY <1>1, <2>1, <2>2, AppendAdds
<1> QED BY <1>2, <1>3, <1>4

LEMMA InitRelease == Init => Rl!Init
<1> SUFFICES ASSUME Init PROVE Rl!Init
  OBVIOUS
<1>1. at = "deploy" /\ target \in {"compose", "k8s"}
  BY DEF Init, at
<1>2. IInv
  BY InitIInv
<1>3. before \in OldVersions \cup {Down} /\ before # Broken
  BY <1>2 DEF IInv, TypeOK
<1>4. asked \in OldVersions \cup {Down}
  BY <1>1, <1>3 DEF asked
<1>5. \A n \in 1..Len(revisions) : revisions[n] \in OldVersions
  BY DEF Init
<1>6. found \subseteq OldVersions \cup {Down} /\ Down \in found
  BY <1>1, <1>5 DEF found
<1> QED BY <1>1, <1>4, <1>6 DEF Rl!Init

\* Every step is one of the four of Release, or changes nothing that it shows.
LEMMA NextRelease == IInv /\ [Next]_vars => [Rl!Next]_(Rl!vars)
<1> SUFFICES ASSUME IInv, [Next]_vars PROVE [Rl!Next]_(Rl!vars)
  OBVIOUS
<1> DEFINE Elements == {revisions[n] : n \in 1..Len(revisions)} \ {New}
<1>1. CASE \/ Cancel \/ Rollout \/ UNCHANGED vars
  <2>1. UNCHANGED <<target, pc, wanted, before, revisions>>
    BY <1>1 DEF Cancel, Rollout, vars
  <2> QED BY <2>1 DEF Rl!vars, at, asked, found
<1>2. CASE DeployRejected \/ DeployBreaks
  <2>1. pc = "deploy" /\ pc' = "undo deploy" /\ UNCHANGED <<target, before>>
    BY <1>2 DEF DeployRejected, DeployBreaks
  <2>2. Elements' = Elements
    BY <1>2, RevisionsFound DEF DeployRejected, DeployBreaks
  <2> QED BY <2>1, <2>2 DEF Rl!vars, at, asked, found
<1>3. CASE DeploySucceeds
  <2>1. at = "deploy" /\ at' = "health" /\ wanted' = New /\ target' = target
    BY <1>3 DEF DeploySucceeds, Apply, at
  <2>2. Elements' = Elements
    BY <1>3, RevisionsFound DEF DeploySucceeds
  <2>3. asked' = New /\ found' = found \cup {New}
    BY <2>1, <2>2 DEF asked, found
  <2> QED BY <2>1, <2>3 DEF Rl!Next, Rl!DeployPasses, Rl!Installs
<1>4. CASE HealthPasses
  <2>1. at = "health" /\ at' = "ok" /\ UNCHANGED <<target, wanted, revisions>>
    BY <1>4 DEF HealthPasses, at
  <2> QED BY <2>1 DEF asked, found, Rl!Next, Rl!HealthPasses
<1>5. CASE HealthFails
  <2>1. at = "health" /\ at' = "health" /\ UNCHANGED <<target, wanted, revisions>>
    BY <1>5 DEF HealthFails, at
  <2> QED BY <2>1 DEF asked, found, Rl!vars
<1>6. CASE RollbackSucceeds \/ RollbackFails
  <2>1. pc' = "failed" /\ Undoing /\ target' = target
    BY <1>6 DEF RollbackSucceeds, RollbackFails
  <2>2. Elements' = Elements
    BY <1>6, <2>1, RevisionsFound DEF RollbackSucceeds, RollbackFails, ComposeDown
  <2>3. at' = "failed" /\ found' = Elements \cup {Down, New}
    BY <2>1, <2>2 DEF at, found
  <2>4. wanted' = wanted \/ wanted' \in {Broken, Down} \/ (wanted' \in Elements /\ target = "k8s")
    <3>1. CASE HelmRollback
      BY <2>1, <3>1, RollbackGoesBack DEF HelmRollback, Apply
    <3>2. CASE ~HelmRollback
      BY <1>6, <3>2 DEF RollbackSucceeds, RollbackFails, ComposeDown, Apply
    <3> QED BY <3>1, <3>2
  <2>5. target \in {"compose", "k8s"}
    BY DEF IInv, Progress
  <2>6. CASE pc = "undo deploy"
    <3>1. at = "deploy" /\ found = Elements \cup {Down}
      BY <2>6 DEF at, found
    <3>2. wanted \in {before, New, Broken} \cup (IF target = "compose" THEN {Down} ELSE {}) /\ before # Broken
      BY <2>6 DEF IInv, Progress, TypeOK
    <3>3. asked = before /\ asked' = IF wanted' = Broken THEN Down ELSE wanted'
      BY <2>3, <3>1, <3>2 DEF asked
    <3> HIDE DEF Elements
    <3>4. Down \in Rl!RolledBack(New) /\ before \in Rl!RolledBack(New)
      BY <2>5, <3>1, <3>3 DEF Rl!RolledBack
    <3>5. wanted' \in Elements => wanted' \in Rl!RolledBack(New) \/ target = "compose"
      BY <2>5, <3>1 DEF Rl!RolledBack
    <3>6. asked' \in Rl!RolledBack(New) \cup {New}
      BY <2>4, <3>2, <3>3, <3>4, <3>5
    <3> QED BY <2>1, <2>3, <3>1, <3>6 DEF Rl!Next, Rl!DeployFails, Rl!InstallFails
  <2>7. CASE pc = "undo health"
    <3>1. at = "health" /\ found = Elements \cup {Down, New}
      BY <2>7 DEF at, found
    <3>2. wanted = New
      BY <2>7 DEF IInv, Progress
    <3>3. asked = New /\ asked' = IF wanted' = Broken THEN Down ELSE wanted'
      BY <2>3, <3>1, <3>2 DEF asked
    <3> HIDE DEF Elements
    <3>4. Down \in Rl!RolledBack(asked) /\ New \in Rl!RolledBack(asked)
      BY <2>5, <3>1, <3>3 DEF Rl!RolledBack
    <3>5. wanted' \in Elements => wanted' \in Rl!RolledBack(asked) \/ target = "compose"
      BY <2>5, <3>1 DEF Rl!RolledBack
    <3>6. asked' \in Rl!RolledBack(asked)
      BY <2>4, <3>2, <3>3, <3>4, <3>5
    <3> QED BY <2>1, <2>3, <3>1, <3>6 DEF Rl!Next, Rl!HealthFails, Rl!Withdraws
  <2> QED BY <2>1, <2>6, <2>7 DEF Undoing
<1> QED BY <1>1, <1>2, <1>3, <1>4, <1>5, <1>6 DEF Next, Command

\* Whatever the versions, the history of the release, the signals and the
\* commands that fail half-way: the two stages do to the environment what
\* Release allows.
THEOREM ImplementsRelease == Spec => ReleaseImplemented
  BY InitRelease, NextRelease, InductiveInvariant, PTL DEF Spec, ReleaseImplemented, Rl!Spec
=============================================================================
