------------------------------- MODULE Deploy -------------------------------
(***************************************************************************)
(* The last two stages of the conveyor and what they do to the live        *)
(* environment: deploy (DeployStage over ComposeDeployer or K8sDeployer)   *)
(* and health-check wrapped by WithRollback.                               *)
(*                                                                         *)
(* Docker compose and helm are external: the commands are modelled by      *)
(* their effect.  Compose replaces the running containers before it        *)
(* returns.  Helm, called without --wait, returns once the release has a   *)
(* new revision; the cluster replaces what runs later, and keeps the old   *)
(* version running for as long as the new one does not become healthy.     *)
(***************************************************************************)
EXTENDS Integers, Sequences

CONSTANTS
    Targets,        \* deploy targets to choose from
    OldVersions,    \* versions that may have been deployed before
    New,            \* the version this pipeline deploys
    Down,           \* nothing runs
    Broken,         \* neither a whole version nor nothing
    MaxRevisions    \* bound of the model: revisions before this pipeline

ASSUME DeployAssumption ==
    /\ Targets \subseteq {"compose", "k8s"}
    /\ New \notin OldVersions
    /\ Down \notin OldVersions \cup {New, Broken}
    /\ Broken \notin OldVersions \cup {New}
    /\ MaxRevisions \in Nat

VARIABLES
    target,     \* DEPLOY_TARGET
    pc,         \* which command runs, in which stage, or how the two ended
    wanted,     \* the version the environment was last told to run
    live,       \* what runs, and is asked by the health check
    healthy,    \* the versions that start and answer 2xx
    revisions,  \* of the helm release, oldest first
    before,     \* what was asked for before this pipeline
    recorded,   \* the deploy command left a new revision or new containers
    ctxDone,    \* the pipeline context is cancelled
    rollbacks,  \* calls of Rollback
    undone      \* the rollback command succeeded

vars == <<target, pc, wanted, live, healthy, revisions, before, recorded, ctxDone, rollbacks, undone>>

Running == OldVersions \cup {New, Down, Broken}

\* The last revision before this pipeline may never have come up.
Init ==
    /\ target \in Targets
    /\ pc = "deploy"
    /\ \/ /\ target = "k8s"
          /\ \E n \in 0..MaxRevisions : revisions \in [1..n -> OldVersions]
          /\ before = IF revisions = <<>> THEN Down ELSE revisions[Len(revisions)]
          /\ live \in {Down} \cup {revisions[n] : n \in 1..Len(revisions)}
       \/ /\ target = "compose"
          /\ revisions = <<>>
          /\ before \in OldVersions \cup {Down}
          /\ live = before
    /\ wanted = before
    /\ healthy \in SUBSET (OldVersions \cup {New})
    /\ recorded = FALSE
    /\ ctxDone = FALSE
    /\ rollbacks = 0
    /\ undone = FALSE

\* SIGINT or SIGTERM, at any time.
Cancel ==
    /\ ~ctxDone
    /\ ctxDone' = TRUE
    /\ UNCHANGED <<target, pc, wanted, live, healthy, revisions, before, recorded, rollbacks, undone>>

\* The environment is told to run v.
Apply(v) ==
    /\ wanted' = v
    /\ live' = IF target = "compose" THEN v ELSE live

\* The cluster replaces what runs, as soon as what replaces it is up.
Rollout ==
    /\ target = "k8s"
    /\ live # wanted
    /\ wanted \in OldVersions \cup {New} => wanted \in healthy
    /\ live' = wanted
    /\ UNCHANGED <<target, pc, wanted, healthy, revisions, before, recorded, ctxDone, rollbacks, undone>>
-----------------------------------------------------------------------------
(* The deploy stage.                                                       *)

\* helm upgrade --install adds a revision; compose keeps no history.
AddRevision(v) ==
    revisions' = IF target = "k8s" THEN Append(revisions, v) ELSE revisions

\* Mutation: compose without --force-recreate keeps the containers it finds.
DeploySucceedsUncreated ==
    /\ pc = "deploy"
    /\ ~ctxDone
    /\ wanted' = New
    /\ live' = IF target = "compose" /\ live = Down THEN New ELSE live
    /\ AddRevision(New)
    /\ recorded' = TRUE
    /\ pc' = "health"
    /\ UNCHANGED <<target, healthy, before, ctxDone, rollbacks, undone>>

DeploySucceeds ==
    /\ pc = "deploy"
    /\ ~ctxDone
    /\ Apply(New)
    /\ AddRevision(New)
    /\ recorded' = TRUE
    /\ pc' = "health"
    /\ UNCHANGED <<target, healthy, before, ctxDone, rollbacks, undone>>

\* Mutation: an error of the command is only logged.
DeployBreaksUnseen ==
    /\ pc = "deploy"
    /\ \E v \in {wanted, New, Broken} \cup (IF target = "compose" THEN {Down} ELSE {}) : Apply(v)
    /\ AddRevision(New)
    /\ recorded' = TRUE
    /\ pc' = "health"
    /\ UNCHANGED <<target, healthy, before, ctxDone, rollbacks, undone>>

\* The command fails, or is killed, after it began to change things.
DeployBreaks ==
    /\ pc = "deploy"
    /\ \E v \in {wanted, New, Broken} \cup (IF target = "compose" THEN {Down} ELSE {}) : Apply(v)
    /\ AddRevision(New)
    /\ recorded' = TRUE
    /\ pc' = "undo deploy"
    /\ UNCHANGED <<target, healthy, before, ctxDone, rollbacks, undone>>

\* Mutation: a deployment that fails before it began is not rolled back.
DeployRejectedOnly ==
    /\ pc = "deploy"
    /\ pc' = "failed"
    /\ UNCHANGED <<target, wanted, live, healthy, revisions, before, recorded, ctxDone, rollbacks, undone>>

\* The command fails before it changes anything: a rejected chart, a missing
\* file, an unreachable daemon, or a context cancelled before it started.
DeployRejected ==
    /\ pc = "deploy"
    /\ pc' = "undo deploy"
    /\ UNCHANGED <<target, wanted, live, healthy, revisions, before, recorded, ctxDone, rollbacks, undone>>
-----------------------------------------------------------------------------
(* The health check, see HealthCheck, and its wrapper.                     *)

\* What runs answers 2xx.
Answers == live \in healthy

HealthPasses ==
    /\ pc = "health"
    /\ Answers
    /\ pc' = "ok"
    /\ UNCHANGED <<target, wanted, live, healthy, revisions, before, recorded, ctxDone, rollbacks, undone>>

\* Timed out or cancelled.
HealthFails ==
    /\ pc = "health"
    /\ pc' = "undo health"
    /\ UNCHANGED <<target, wanted, live, healthy, revisions, before, recorded, ctxDone, rollbacks, undone>>
-----------------------------------------------------------------------------
(* The rollback, in a context of its own: a cancelled pipeline does not    *)
(* keep it from running.                                                   *)

\* Mutation: rolls back to the first revision.
RollbackTargetFirst == revisions[1]

\* helm rollback without a revision: the one before the current.
RollbackTarget == revisions[Len(revisions) - 1]

Undoing == pc \in {"undo deploy", "undo health"}

\* docker compose down.
ComposeDown ==
    /\ target = "compose"
    /\ Apply(Down)
    /\ UNCHANGED revisions

\* helm rollback, which adds a revision; it fails on a first revision.
HelmRollback ==
    /\ target = "k8s"
    /\ Len(revisions) > 1
    /\ Apply(RollbackTarget)
    /\ AddRevision(RollbackTarget)

RollbackSucceeds ==
    /\ Undoing
    /\ ComposeDown \/ HelmRollback
    /\ undone' = TRUE
    /\ rollbacks' = rollbacks + 1
    /\ pc' = "failed"
    /\ UNCHANGED <<target, healthy, before, recorded, ctxDone>>

\* The command fails or takes more than two minutes.
RollbackFails ==
    /\ Undoing
    /\ \E v \in {wanted, Broken} : Apply(v)
    /\ rollbacks' = rollbacks + 1
    /\ pc' = "failed"
    /\ UNCHANGED <<target, healthy, revisions, before, recorded, ctxDone, undone>>

Command ==
    \/ DeploySucceeds
    \/ DeployBreaks
    \/ DeployRejected
    \/ HealthPasses
    \/ HealthFails
    \/ RollbackSucceeds
    \/ RollbackFails

Next == Cancel \/ Rollout \/ Command

Spec == Init /\ [][Next]_vars

\* Commands and the health check end, see HealthCheck; the cluster rolls out
\* a version that starts.
FairSpec == Spec /\ WF_vars(Command) /\ WF_vars(Rollout)
-----------------------------------------------------------------------------
\* Every variable has its type; there is one rollback at most.
TypeOK ==
    /\ target \in Targets
    /\ pc \in {"deploy", "undo deploy", "health", "undo health", "ok", "failed"}
    /\ wanted \in Running
    /\ live \in Running
    /\ healthy \subseteq OldVersions \cup {New}
    /\ revisions \in Seq(Running)
    /\ before \in OldVersions \cup {Down}
    /\ recorded \in BOOLEAN
    /\ ctxDone \in BOOLEAN
    /\ rollbacks \in 0..1
    /\ undone \in BOOLEAN

\* A failed deployment, a failed health check and a signal in either all lead
\* to exactly one rollback, and a healthy deployment to none.
RolledBackIffFailed ==
    /\ pc = "failed" => rollbacks = 1
    /\ pc # "failed" => rollbacks = 0

\* A rollback that succeeded leaves the environment told to run neither the
\* new version nor half of one.
RollbackRemovesNew == undone => wanted \notin {New, Broken}

\* helm: once the upgrade left a revision, a rollback that succeeds asks for
\* what was asked for before, whether or not that ever came up; where nothing
\* was, it does not succeed.
HelmRestoresReplaced ==
    target = "k8s" /\ recorded /\ undone => wanted = before /\ before # Down

\* compose: the pipeline succeeds only if the new version runs and answers,
\* provided that the compose file names it: the command is given no image.
ComposeOkIsNew ==
    target = "compose" /\ pc = "ok" => live = New /\ New \in healthy

\* helm: what was asked for before the pipeline runs after a rollback of an
\* upgrade that left a revision, if that version comes up at all.
RollbackTakesEffect ==
    target = "k8s" /\ recorded /\ undone /\ before \in healthy ~> live = before

\* Which stage runs, its rollback included.
at ==
    CASE pc \in {"deploy", "undo deploy"} -> "deploy"
      [] pc \in {"health", "undo health"} -> "health"
      [] OTHER -> pc

\* What the environment is told to run once the stage is over: half of a
\* version is none.
asked == LET v == IF at = "deploy" THEN before ELSE wanted IN IF v = Broken THEN Down ELSE v

\* What a rollback may find.
found ==
    ({revisions[n] : n \in 1..Len(revisions)} \ {New}) \cup {Down}
      \cup (IF at = "deploy" THEN {} ELSE {New})

\* The two stages, whatever their commands leave half-done, a signal kills or
\* the cluster puts off, do to the environment what Release allows; the runner
\* composed with Release is composed with either deployer.
Rl == INSTANCE Release WITH Version <- {New}, Older <- OldVersions, None <- Down,
                            live <- asked, revisions <- found
ReleaseImplemented == Rl!Spec

\* The promise of Deployer, "can roll the change back if Deploy fails": after a
\* rollback that succeeded, what was asked for before is asked for again.
RollbackRevertsTheChange == undone /\ before # Down => wanted = before
=============================================================================
