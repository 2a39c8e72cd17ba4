------------------------------ MODULE Conveyor ------------------------------
(***************************************************************************)
(* What runs of the pipeline do to the repository, the image, the registry *)
(* and the live environment: the stages that cmd/deployer wires, run by    *)
(* Runner, their failures handed to a recovery as Repair specifies it.     *)
(*                                                                         *)
(* A process that ended or was killed is followed by another one on the    *)
(* same repository: nothing in the code looks for what the first one left. *)
(*                                                                         *)
(* An image is the tree it was built from.  Whether a command succeeds is  *)
(* open.  Deploy and HealthCheck have the detail of the last two stages.   *)
(***************************************************************************)
EXTENDS Integers, Sequences

CONSTANTS
    File, Tracked, Content, Absent,     \* see Repair
    Dockerfile,     \* DEPLOY_DOCKERFILE
    CheckWorkflow,  \* DEPLOY_CHECK_WORKFLOW
    Targets,        \* values of DEPLOY_TARGET to choose from; {} for none
    Checked,        \* DEPLOY_HEALTH_URL is set
    HasRecoverer,   \* DEPLOY_RECOVER
    MaxRetries,     \* DEPLOY_MAX_RETRIES
    MaxStarts,      \* bound of the model: runs, one after another
    NoImage         \* no image, or one older than these runs

ASSUME ConveyorAssumption ==
    /\ Tracked \subseteq File
    /\ Dockerfile \in File
    /\ Absent \notin Content
    /\ CheckWorkflow \in BOOLEAN
    /\ Targets \subseteq {"compose", "k8s"}
    /\ Checked \in BOOLEAN
    /\ HasRecoverer \in BOOLEAN
    /\ MaxRetries \in Int
    /\ MaxStarts \in Nat \ {0}
    /\ NoImage \notin [File -> Content \cup {Absent}]

\* Mutation: the tests run after the image is built.
DefaultStagesTestLast == <<"build", "docker-build", "docker-push", "test">>

DefaultStages == <<"build", "test", "docker-build", "docker-push">>

\* What main appends to them.
Stages ==
    DefaultStages
      \o (IF CheckWorkflow THEN <<"workflow">> ELSE <<>>)
      \o (IF Targets # {} THEN <<"deploy">> ELSE <<>>)
      \o (IF Checked THEN <<"health-check">> ELSE <<>>)

\* Mutation: a fixer for deployments as well.
FixerStageAndDeploy == {"build", "test", "docker-build", "workflow", "deploy"}

FixerStage == {"build", "test", "docker-build", "workflow"}

VARIABLES
    stage, attempt, phase, okSeen, failSeen, offered,   \* Runner
    tree, before, outcome, rollbackErr,                 \* Repair
    ctxDone,    \* the pipeline context is cancelled
    push,       \* DEPLOY_PUSH
    target,     \* DEPLOY_TARGET
    follows,    \* a deployment takes what the image reference names by then
    stageTree,  \* the tree when the stage began
    tested,     \* the source that go test passed on last, in this run
    image,      \* what the image reference names in the local docker
    registry,   \* what it names in the registry
    live,       \* the image that is deployed
    revisions,  \* the images a rollback may find in the release's history
    pushes,     \* docker push commands of this run
    deploys,    \* deploy commands of this run
    starts      \* processes started so far

runnerVars == <<stage, attempt, phase, okSeen, failSeen, offered>>
repairVars == <<tree, before, outcome, rollbackErr>>
shipVars == <<image, registry, live, revisions, pushes, deploys>>
setup == <<push, target, follows>>
vars == <<runnerVars, repairVars, ctxDone, setup, stageTree, tested, shipVars, starts>>

R == INSTANCE Runner WITH NumStages <- Len(Stages)

Rp == INSTANCE Repair

Name == Stages[stage]

\* The environment; what a run deploys and what was deployed before are images.
Rl == INSTANCE Release WITH Version <- Rp!Tree, Older <- Rp!Tree, None <- NoImage, at <- Name

Running(name) == phase = "run" /\ Name = name
Fixing == phase = "recover" /\ Name \in FixerStage

\* The source is everything but the Dockerfile.
SourceOf(t) == [f \in File \ {Dockerfile} |-> t[f]]

Init ==
    /\ R!Init
    /\ tree \in Rp!Tree
    /\ before = tree
    /\ outcome = "none"
    /\ rollbackErr = FALSE
    /\ ctxDone = FALSE
    /\ push \in BOOLEAN
    /\ target \in Targets \cup {"none"}
    /\ target = "none" <=> Targets = {}
    /\ follows \in BOOLEAN
    /\ stageTree = tree
    /\ tested = NoImage
    /\ image = NoImage
    /\ registry = NoImage
    /\ live = NoImage
    /\ revisions = {NoImage}
    /\ pushes = 0
    /\ deploys = 0
    /\ starts = 1

\* SIGINT or SIGTERM, at any time.
Cancel ==
    /\ ~ctxDone
    /\ ctxDone' = TRUE
    /\ UNCHANGED <<runnerVars, repairVars, setup, stageTree, tested, shipVars, starts>>
-----------------------------------------------------------------------------
(* A stage that succeeds.                                                  *)

\* The next stage starts from this tree.
Passed ==
    /\ R!StageSucceeds
    /\ stageTree' = tree
    /\ UNCHANGED <<repairVars, ctxDone, setup, starts>>

\* go build.
BuildPasses ==
    /\ Running("build")
    /\ ~ctxDone
    /\ Passed
    /\ UNCHANGED <<tested, shipVars>>

\* go test.
TestPasses ==
    /\ Running("test")
    /\ ~ctxDone
    /\ Passed
    /\ tested' = SourceOf(tree)
    /\ UNCHANGED shipVars

\* docker build, with the whole repository as its context.
DockerBuildPasses ==
    /\ Running("docker-build")
    /\ ~ctxDone
    /\ tree[Dockerfile] # Absent
    /\ Passed
    /\ image' = tree
    /\ UNCHANGED <<tested, registry, live, revisions, pushes, deploys>>

\* docker push, or nothing at all.
DockerPushPasses ==
    /\ Running("docker-push")
    /\ push => ~ctxDone
    /\ Passed
    /\ registry' = IF push THEN image ELSE registry
    /\ pushes' = IF push THEN pushes + 1 ELSE pushes
    /\ UNCHANGED <<tested, image, live, revisions, deploys>>

\* Reads files only.
WorkflowPasses ==
    /\ Running("workflow")
    /\ Passed
    /\ UNCHANGED <<tested, shipVars>>

\* What the target runs when it is told to run the image reference: compose
\* takes the local image, the cluster pulls from the registry.  What runs may
\* also stay: the compose file names another image, or the cluster has one by
\* that name and does not pull it again.
Deployed ==
    IF ~follows THEN live
    ELSE IF target = "k8s" THEN registry ELSE image

DeployPasses ==
    /\ Running("deploy")
    /\ ~ctxDone
    /\ Passed
    /\ Rl!Installs(Deployed)
    /\ deploys' = deploys + 1
    /\ UNCHANGED <<tested, image, registry, pushes>>

HealthPasses ==
    /\ Running("health-check")
    /\ Passed
    /\ UNCHANGED <<tested, shipVars>>
-----------------------------------------------------------------------------
(* A stage that fails, and its recovery.                                   *)

\* The runner returns the error, or calls Recover, which takes a snapshot.
Failed ==
    /\ R!StageFails
    /\ UNCHANGED <<ctxDone, setup, stageTree, tested, starts>>
    /\ IF phase' = "recover"
         THEN Rp!Begin
         ELSE UNCHANGED repairVars

CommandFails ==
    /\ phase = "run"
    /\ Name \in {"build", "test", "docker-build", "workflow"}
    /\ Failed
    /\ UNCHANGED shipVars

\* docker push fails, perhaps after the registry has got the image.
DockerPushFails ==
    /\ Running("docker-push")
    /\ push
    /\ Failed
    /\ registry' \in {registry, image}
    /\ pushes' = pushes + 1
    /\ UNCHANGED <<image, live, revisions, deploys>>

\* The deployment is rolled back.
DeployFails ==
    /\ Running("deploy")
    /\ Failed
    /\ Rl!InstallFails(Deployed, registry)
    /\ deploys' = deploys + 1
    /\ UNCHANGED <<image, registry, pushes>>

\* Rolled back likewise, where there is a deploy target.
HealthFails ==
    /\ Running("health-check")
    /\ Failed
    /\ IF target = "none" THEN UNCHANGED <<live, revisions>> ELSE Rl!Withdraws(registry)
    /\ UNCHANGED <<image, registry, pushes, deploys>>

\* The agent edits the tree.  It has write access to all of it, whichever
\* stage it is to repair.
AgentEdits ==
    /\ Fixing
    /\ UNCHANGED <<runnerVars, ctxDone, setup, stageTree, tested, shipVars, starts>>
    /\ Rp!Edit

\* Recover returns nil: go test has passed, or a Dockerfile is there.
RepairKept ==
    /\ Fixing
    /\ Name \in {"build", "test"} => ~ctxDone
    /\ Name = "docker-build" => tree[Dockerfile] # Absent
    /\ tested' = IF Name = "test" THEN SourceOf(tree) ELSE tested
    /\ UNCHANGED <<ctxDone, setup, stageTree, shipVars, starts>>
    /\ R!RecovererFixes
    /\ Rp!Keep

\* Recover returns an error: the classifier refused or there is no fixer, or
\* the fixer failed; its rollback may fail, too, and does under a dead context.
RepairFails ==
    /\ phase = "recover"
    /\ UNCHANGED <<setup, stageTree, tested, shipVars, starts>>
    /\ R!RecovererGivesUp
    /\ \/ UNCHANGED ctxDone /\ Rp!Refuse
       \/ Fixing /\ UNCHANGED ctxDone /\ (ctxDone => tree = before) /\ Rp!Undo
       \/ Fixing /\ ctxDone' \in {ctxDone, TRUE} /\ Rp!Abandon

-----------------------------------------------------------------------------
(* A process that is killed, or ended, and the next one.                   *)

\* What a kill leaves of the tree: a rollback that was writing files back may
\* have got any part of them done.
Left(t) ==
    /\ t \in Rp!Tree
    /\ \A f \in File :
         t[f] \in {tree[f]} \cup (IF Fixing /\ f \in Tracked THEN {before[f], Absent} ELSE {})

\* A command that was running is not killed with the process that waits for
\* it: it may have taken effect by the time the next one starts.
CommandLeft ==
    /\ image' \in {image} \cup
         (IF Running("docker-build") /\ tree[Dockerfile] # Absent THEN {tree} ELSE {})
    /\ registry' \in {registry} \cup (IF Running("docker-push") /\ push THEN {image} ELSE {})
    /\ live' \in {live} \cup (IF Running("deploy") THEN Rl!RolledBack(registry) \cup {Deployed} ELSE {})
                       \cup (IF Running("health-check") THEN Rl!RolledBack(registry) ELSE {})
    /\ revisions' = revisions \cup (IF Running("deploy") THEN {Deployed} ELSE {})

\* main, once more: everything the process knew is gone.
Restart ==
    /\ starts < MaxStarts
    /\ starts' = starts + 1
    /\ stage' = 1
    /\ attempt' = 0
    /\ phase' = "run"
    /\ okSeen' = [s \in R!Stage |-> 0]
    /\ failSeen' = [s \in R!Stage |-> 0]
    /\ offered' = [s \in R!Stage |-> 0]
    /\ \E t \in Rp!Tree : Left(t) /\ tree' = t /\ before' = t /\ stageTree' = t
    /\ outcome' = "none"
    /\ rollbackErr' = FALSE
    /\ ctxDone' = FALSE
    /\ tested' = NoImage
    /\ CommandLeft
    /\ pushes' = 0
    /\ deploys' = 0
    /\ UNCHANGED setup

Next ==
    \/ Cancel
    \/ Restart
    \/ BuildPasses
    \/ TestPasses
    \/ DockerBuildPasses
    \/ DockerPushPasses
    \/ WorkflowPasses
    \/ DeployPasses
    \/ HealthPasses
    \/ CommandFails
    \/ DockerPushFails
    \/ DeployFails
    \/ HealthFails
    \/ AgentEdits
    \/ RepairKept
    \/ RepairFails

Spec == Init /\ [][Next]_vars
-----------------------------------------------------------------------------
\* Every variable has its type, and push and deploy are bounded by the retries.
TypeOK ==
    /\ R!TypeOK
    /\ tree \in Rp!Tree
    /\ before \in Rp!Tree
    /\ stageTree \in Rp!Tree
    /\ outcome \in {"none", "working", "kept", "refused", "failed"}
    /\ rollbackErr \in BOOLEAN
    /\ ctxDone \in BOOLEAN
    /\ push \in BOOLEAN
    /\ target \in Targets \cup {"none"}
    /\ follows \in BOOLEAN
    /\ tested \in {SourceOf(t) : t \in Rp!Tree} \cup {NoImage}
    /\ image \in Rp!Tree \cup {NoImage}
    /\ registry \in Rp!Tree \cup {NoImage}
    /\ live \in Rp!Tree \cup {NoImage}
    /\ revisions \subseteq Rp!Tree \cup {NoImage}
    /\ pushes \in 0..(R!Budget + 1)
    /\ deploys \in 0..(R!Budget + 1)
    /\ starts \in 1..MaxStarts

\* The stage has passed, in this run.
HasPassed(name) == \E s \in R!Stage : Stages[s] = name /\ okSeen[s] = 1

\* docker-build passed and took no repair.
BuiltAsIs == \E s \in R!Stage : Stages[s] = "docker-build" /\ okSeen[s] = 1 /\ offered[s] = 0

\* What a run reports as built, pushed and deployed is what it tested itself,
\* repairs of its earlier stages included, and never what a run before it left
\* in the tree, the docker daemon, the registry or the environment.  Excepted
\* are an image that took a repair to build, whose agent may have written to
\* the source, a cluster that pulls an image this run did not push, and a
\* target that goes on with the image it has.
ShippedIsTested ==
    /\ BuiltAsIs => SourceOf(image) = tested
    /\ HasPassed("docker-push") /\ push => registry = image
    /\ HasPassed("deploy") /\ phase \in {"run", "ok"} /\ follows /\ (target = "k8s" => push)
         => live = image

\* However often stages are retried, no run pushes or deploys twice: the
\* stages that touch the world outside have no fixer.
ShippedOnce == pushes <= 1 /\ deploys <= 1

\* Every tracked file is as it was when the stage began.
StageUndone == \A f \in Tracked : stageTree[f] # Absent => tree[f] = stageTree[f]

\* A stage that fails for good at its first recovery is left with the tree it
\* began with, unless git failed to roll back: what it wrote is gone, the
\* repairs of earlier stages are not.  After a repair that was kept, as the
\* first one of a Dockerfile may be, only what the last one wrote is gone.
EarlierRepairsSurvive ==
    phase = "error" /\ failSeen[stage] = 1 /\ ~rollbackErr => StageUndone

\* The stages of main are run as Runner says, by each process anew.
RunnerImplemented == R!Init /\ [][R!Next \/ (R!Init)']_(R!vars)
=============================================================================
