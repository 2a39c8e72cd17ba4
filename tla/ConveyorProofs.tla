--------------------------- MODULE ConveyorProofs ---------------------------
(***************************************************************************)
(* The stages that main wires behave as Runner says, and ship what they    *)
(* tested, whichever of them are configured, with every retry limit, for   *)
(* every set of files and contents and however often the process is killed *)
(* and started again.                                                      *)
(***************************************************************************)
EXTENDS Conveyor, SequenceTheorems, TLAPS

\* Whatever a stage or a recovery does to the world, the runner takes one of
\* its own steps or none, until another process begins with a runner of its own.
THEOREM ImplementsRunner == Spec => RunnerImplemented
<1>1. Init => R!Init
  BY DEF Init
<1>2. [Next]_vars => [R!Next \/ (R!Init)']_(R!vars)
  <2> SUFFICES ASSUME [Next]_vars PROVE R!Next \/ (R!Init)' \/ UNCHANGED R!vars
    OBVIOUS
  <2>1. CASE \/ BuildPasses \/ TestPasses \/ DockerBuildPasses \/ DockerPushPasses
             \/ WorkflowPasses \/ DeployPasses \/ HealthPasses
    <3>1. R!StageSucceeds
      BY <2>1 DEF BuildPasses, TestPasses, DockerBuildPasses, DockerPushPasses, WorkflowPasses,
                  DeployPasses, HealthPasses, Passed
    <3> QED BY <3>1 DEF R!Next
  <2>2. CASE CommandFails \/ DockerPushFails \/ DeployFails \/ HealthFails
    <3>1. R!StageFails
      BY <2>2 DEF CommandFails, DockerPushFails, DeployFails, HealthFails, Failed
    <3> QED BY <3>1 DEF R!Next
  <2>3. CASE RepairKept
    BY <2>3 DEF RepairKept, R!Next
  <2>4. CASE RepairFails
    BY <2>4 DEF RepairFails, R!Next
  <2>5. CASE Cancel \/ AgentEdits \/ UNCHANGED vars
    <3>1. UNCHANGED runnerVars
      BY <2>5 DEF Cancel, AgentEdits, vars
    <3> QED BY <3>1 DEF runnerVars, R!vars
  <2>6. CASE Restart
    <3>1. Len(Stages) # 0
      BY DEF Stages, DefaultStages
    <3>2. (R!Init)'
      BY <2>6, <3>1 DEF Restart, R!Init
    <3> QED BY <3>2
  <2> QED BY <2>1, <2>2, <2>3, <2>4, <2>5, <2>6 DEF Next
<1> QED BY <1>1, <1>2, PTL DEF Spec, RunnerImplemented
-----------------------------------------------------------------------------
\* An optional stage is a sequence of one or none.
LEMMA OptionalName ==
    ASSUME NEW c, NEW N, NEW name \in N, NEW q, q = IF c THEN <<name>> ELSE <<>>
    PROVE  q \in Seq(N) /\ Len(q) \in 0..1 /\ (Len(q) = 1 => q[1] = name)
<1>1. CASE c
  BY <1>1
<1>2. CASE ~c
  BY <1>2
<1> QED BY <1>1, <1>2

\* The elements of a concatenation.
LEMMA Joined ==
    ASSUME NEW N, NEW p \in Seq(N), NEW q \in Seq(N)
    PROVE  /\ p \o q \in Seq(N) /\ Len(p \o q) = Len(p) + Len(q)
           /\ \A i \in 1..Len(p \o q) :
                (p \o q)[i] = IF i <= Len(p) THEN p[i] ELSE q[i - Len(p)]
<1>1. p \o q \in Seq(N) /\ Len(p \o q) = Len(p) + Len(q)
  BY ConcatProperties
<1>2. \A i \in 1..(Len(p) + Len(q)) :
        (p \o q)[i] = IF i <= Len(p) THEN p[i] ELSE q[i - Len(p)]
  BY ConcatProperties, Zenon
<1> QED BY <1>1, <1>2

\* The stages there can be.
StageName == {"build", "test", "docker-build", "docker-push", "workflow", "deploy", "health-check"}

\* The stages main wires: four that are always there, and behind a deployment
\* nothing but its health check.
LEMMA StagesShape ==
    /\ Len(Stages) \in Nat /\ Len(Stages) >= 4
    /\ Stages[1] = "build" /\ Stages[2] = "test"
    /\ Stages[3] = "docker-build" /\ Stages[4] = "docker-push"
    /\ \A s \in R!Stage : s > 4 => Stages[s] \in {"workflow", "deploy", "health-check"}
    /\ \A s, t \in R!Stage : Stages[s] = "deploy" /\ s < t => Stages[t] = "health-check"
<1> DEFINE W == IF CheckWorkflow THEN <<"workflow">> ELSE <<>>
           D == IF Targets # {} THEN <<"deploy">> ELSE <<>>
           H == IF Checked THEN <<"health-check">> ELSE <<>>
           DW == DefaultStages \o W
           DWD == DW \o D
<1>1. DefaultStages \in Seq(StageName) /\ Len(DefaultStages) = 4
  BY DEF DefaultStages, StageName
<1>2. W \in Seq(StageName) /\ Len(W) \in 0..1 /\ (Len(W) = 1 => W[1] = "workflow")
  <2>1. "workflow" \in StageName
    BY DEF StageName
  <2> QED BY <2>1, OptionalName
<1>3. D \in Seq(StageName) /\ Len(D) \in 0..1 /\ (Len(D) = 1 => D[1] = "deploy")
  <2>1. "deploy" \in StageName
    BY DEF StageName
  <2> QED BY <2>1, OptionalName
<1>4. H \in Seq(StageName) /\ Len(H) \in 0..1 /\ (Len(H) = 1 => H[1] = "health-check")
  <2>1. "health-check" \in StageName
    BY DEF StageName
  <2> QED BY <2>1, OptionalName
<1>5. Stages = DWD \o H
  BY DEF Stages
<1> HIDE DEF W, D, H
<1>6. /\ DW \in Seq(StageName) /\ Len(DW) = Len(DefaultStages) + Len(W)
      /\ \A i \in 1..Len(DW) :
           DW[i] = IF i <= Len(DefaultStages) THEN DefaultStages[i] ELSE W[i - Len(DefaultStages)]
  BY <1>1, <1>2, Joined
<1> HIDE DEF DW
<1>7. /\ DWD \in Seq(StageName) /\ Len(DWD) = Len(DW) + Len(D)
      /\ \A i \in 1..Len(DWD) : DWD[i] = IF i <= Len(DW) THEN DW[i] ELSE D[i - Len(DW)]
  <2>1. D \in Seq(StageName) /\ DW \in Seq(StageName)
    BY <1>3, <1>6
  <2> QED BY <2>1, Joined
<1> HIDE DEF DWD
<1>8. /\ Len(Stages) = Len(DWD) + Len(H)
      /\ \A i \in 1..Len(Stages) : Stages[i] = IF i <= Len(DWD) THEN DWD[i] ELSE H[i - Len(DWD)]
  <2>1. H \in Seq(StageName) /\ DWD \in Seq(StageName)
    BY <1>4, <1>7
  <2> QED BY <1>5, <2>1, Joined
<1>m. PICK w \in 0..1, d \in 0..1, h \in 0..1 : w = Len(W) /\ d = Len(D) /\ h = Len(H)
  BY <1>2, <1>3, <1>4
<1>n. /\ Len(DW) = 4 + w /\ Len(DWD) = 4 + w + d /\ Len(Stages) = 4 + w + d + h
      /\ Len(DW) \in Nat /\ Len(DWD) \in Nat /\ Len(Stages) \in Nat
      /\ w \in Nat /\ d \in Nat /\ h \in Nat /\ w <= 1 /\ d <= 1 /\ h <= 1
  <2>1. w \in Nat /\ d \in Nat /\ h \in Nat /\ w <= 1 /\ d <= 1 /\ h <= 1
    OBVIOUS
  <2>2. Len(DW) = 4 + w
    BY <1>1, <1>6, <1>m
  <2>3. Len(DWD) = 4 + w + d
    BY <1>7, <1>m, <2>2
  <2>4. Len(Stages) = 4 + w + d + h
    BY <1>8, <1>m, <2>3
  <2> QED BY <2>1, <2>2, <2>3, <2>4
<1>9. Len(Stages) \in Nat /\ Len(Stages) >= 4
  BY <1>n
<1>10. \A i \in 1..4 : Stages[i] = DefaultStages[i]
  BY <1>1, <1>n, <1>6, <1>7, <1>8
<1>11. ASSUME NEW s \in R!Stage
       PROVE  /\ s > Len(DWD) => Stages[s] = "health-check"
              /\ s > Len(DW) /\ s <= Len(DWD) => Stages[s] = "deploy" /\ s = Len(DWD)
              /\ s > 4 /\ s <= Len(DW) => Stages[s] = "workflow"
  <2>1. s \in 1..Len(Stages) /\ s \in Int
    BY <1>9 DEF R!Stage
  <2>2. s > Len(DWD) => Stages[s] = "health-check"
    <3> SUFFICES ASSUME s > Len(DWD) PROVE Stages[s] = "health-check"
      OBVIOUS
    <3>1. Len(H) = 1 /\ s - Len(DWD) = 1 /\ ~(s <= Len(DWD))
      BY <1>m, <1>n, <2>1
    <3>2. Stages[s] = H[1]
      BY <1>8, <2>1, <3>1
    <3> QED BY <1>4, <3>1, <3>2
  <2>3. s > Len(DW) /\ s <= Len(DWD) => Stages[s] = "deploy" /\ s = Len(DWD)
    <3> SUFFICES ASSUME s > Len(DW), s <= Len(DWD) PROVE Stages[s] = "deploy" /\ s = Len(DWD)
      OBVIOUS
    <3>1. Len(D) = 1 /\ s - Len(DW) = 1 /\ s = Len(DWD) /\ ~(s <= Len(DW))
      BY <1>m, <1>n, <2>1
    <3>2. s \in 1..Len(DWD) /\ Stages[s] = DWD[s]
      BY <1>n, <1>8, <2>1
    <3>3. DWD[s] = D[1]
      BY <1>7, <3>1, <3>2
    <3> QED BY <1>3, <3>1, <3>2, <3>3
  <2>4. s > 4 /\ s <= Len(DW) => Stages[s] = "workflow"
    <3> SUFFICES ASSUME s > 4, s <= Len(DW) PROVE Stages[s] = "workflow"
      OBVIOUS
    <3>1. Len(W) = 1 /\ s - 4 = 1 /\ ~(s <= 4) /\ s \in 1..Len(DW) /\ s \in 1..Len(DWD)
      BY <1>m, <1>n, <2>1
    <3>2. Stages[s] = DWD[s] /\ DWD[s] = DW[s]
      BY <1>7, <1>8, <2>1, <3>1
    <3>3. DW[s] = W[1]
      BY <1>1, <1>6, <3>1
    <3> QED BY <1>2, <3>1, <3>2, <3>3
  <2> QED BY <2>2, <2>3, <2>4
<1>12. ASSUME NEW s \in R!Stage, NEW t \in R!Stage, Stages[s] = "deploy", s < t
       PROVE  Stages[t] = "health-check"
  <2>1. s \in Int /\ t \in Int /\ s >= 1 /\ s <= Len(Stages) /\ t <= Len(Stages)
    BY <1>9 DEF R!Stage
  <2>2. Len(DW) \in Nat /\ Len(DWD) \in Nat /\ Len(DW) >= 4
    BY <1>n
  <2>3. s > 4
    BY <1>10, <1>12, <2>1 DEF DefaultStages
  <2>4. s > Len(DW)
    BY <1>11, <1>12, <2>1, <2>2, <2>3
  <2>5. t > Len(DWD)
    BY <1>11, <1>12, <2>1, <2>2, <2>4
  <2> QED BY <1>11, <2>5
<1> QED BY <1>n, <1>9, <1>10, <1>11, <1>12 DEF DefaultStages, R!Stage

-----------------------------------------------------------------------------
\* The runner at its stage: the counters of that stage are tied to the loop
\* counter, exactly the stages before it have passed, those after it are new.
AtStage ==
    /\ stage \in R!Stage
    /\ phase = "run" => offered[stage] = attempt /\ failSeen[stage] = attempt
    /\ phase = "recover" =>
         /\ R!CanRecover
         /\ offered[stage] = attempt + 1
         /\ failSeen[stage] = attempt + 1
    /\ phase = "error" => failSeen[stage] > 0
    /\ phase = "ok" => stage = Len(Stages)
    /\ \A s \in R!Stage : okSeen[s] = IF s < stage \/ phase = "ok" THEN 1 ELSE 0
    /\ \A s \in R!Stage : s > stage => offered[s] = 0 /\ failSeen[s] = 0

RunnerInv == R!TypeOK /\ AtStage

\* The types of what the stages work on.
WorldTypeOK ==
    /\ tree \in Rp!Tree
    /\ before \in Rp!Tree
    /\ stageTree \in Rp!Tree
    /\ outcome \in {"none", "working", "kept", "refused", "failed"}
    /\ rollbackErr \in BOOLEAN
    /\ ctxDone \in BOOLEAN
    /\ push \in BOOLEAN
    /\ target \in Targets \cup {"none"}
    /\ follows \in BOOLEAN
    /\ tested \in {SourceOf(t) : t \in Rp!Tree} \cup {NoImage}
    /\ image \in Rp!Tree \cup {NoImage}
    /\ registry \in Rp!Tree \cup {NoImage}
    /\ live \in Rp!Tree \cup {NoImage}
    /\ revisions \subseteq Rp!Tree \cup {NoImage}
    /\ starts \in 1..MaxStarts

\* No attempt at stage s has ended.
Ahead(s) == stage < s \/ (stage = s /\ phase = "run")
DeployAhead == \A s \in R!Stage : Stages[s] = "deploy" => Ahead(s)

\* A stage without a fixer has one attempt, and counts as done after it.
Once ==
    /\ pushes \in 0..1
    /\ deploys \in 0..1
    /\ Ahead(4) => pushes = 0
    /\ DeployAhead => deploys = 0

\* The snapshot of a first recovery is the tree that the stage began with.
Undo ==
    /\ phase = "run" /\ attempt = 0 => tree = stageTree
    /\ phase = "recover" /\ attempt = 0 => before = stageTree
    /\ EarlierRepairsSurvive

\* What docker-build is about to build was tested, and what each of the later
\* stages took was left alone since.
Ship ==
    /\ stage = 3 /\ phase = "run" /\ attempt = 0 => tested = SourceOf(tree)
    /\ stage > 3 /\ offered[3] = 0 => SourceOf(image) = tested
    /\ (stage > 4 \/ phase = "ok") /\ push => registry = image
    /\ \A s \in R!Stage :
         /\ Stages[s] = "deploy"
         /\ (phase = "run" /\ s < stage) \/ phase = "ok"
         /\ follows
         /\ target = "k8s" => push
         => live = image

\* What is shipped depends on where the runner is, and a second push or deploy
\* on whether it can come back: so the invariants of the three belong together.
IInv == RunnerInv /\ WorldTypeOK /\ Once /\ Undo /\ Ship

\* The budget is a natural number, and a recovery keeps within it.
LEMMA BudgetBound == R!Budget \in Nat /\ \A n \in Nat : HasRecoverer /\ n < MaxRetries => n + 1 <= R!Budget
BY ConveyorAssumption DEF R!Budget

\* A runner that begins.
LEMMA RunnerBegins == R!Init => RunnerInv
BY StagesShape, BudgetBound DEF R!Init, RunnerInv, R!TypeOK, AtStage, R!Stage

\* A runner that goes on.
LEMMA RunnerGoesOn == RunnerInv /\ (R!Next \/ UNCHANGED runnerVars) => RunnerInv'
<1> SUFFICES ASSUME RunnerInv, R!Next \/ UNCHANGED runnerVars PROVE RunnerInv'
  OBVIOUS
<1>0. stage \in R!Stage /\ attempt \in 0..R!Budget /\ R!Budget \in Nat /\ Len(Stages) \in Nat
  BY BudgetBound, StagesShape DEF RunnerInv, AtStage, R!TypeOK
<1>1. CASE R!StageSucceeds
  <2>1. (R!TypeOK)'
    BY <1>0, <1>1 DEF R!StageSucceeds, RunnerInv, R!TypeOK, AtStage, R!Stage
  <2>2. AtStage'
    BY <1>0, <1>1 DEF R!StageSucceeds, RunnerInv, R!TypeOK, AtStage, R!Stage
  <2> QED BY <2>1, <2>2 DEF RunnerInv
<1>2. CASE R!StageFails
  <2>1. phase = "run" /\ failSeen[stage] = attempt /\ offered[stage] = attempt
    BY <1>2 DEF R!StageFails, RunnerInv, AtStage
  <2>2. /\ failSeen' = [failSeen EXCEPT ![stage] = attempt + 1]
        /\ UNCHANGED <<stage, attempt, okSeen>>
    BY <1>2, <2>1 DEF R!StageFails
  <2>3. \/ R!CanRecover /\ phase' = "recover" /\ offered' = [offered EXCEPT ![stage] = attempt + 1]
        \/ phase' = "error" /\ offered' = offered
    BY <1>2, <2>1 DEF R!StageFails
  <2>4. R!CanRecover => attempt + 1 <= R!Budget
    BY <1>0, BudgetBound DEF R!CanRecover
  <2>5. failSeen' \in [R!Stage -> 0..(R!Budget + 1)]
    BY <1>0, <2>2 DEF RunnerInv, R!TypeOK
  <2>6. offered' \in [R!Stage -> 0..R!Budget]
    BY <1>0, <2>3, <2>4 DEF RunnerInv, R!TypeOK
  <2>7. (R!TypeOK)'
    BY <2>2, <2>3, <2>5, <2>6 DEF RunnerInv, R!TypeOK
  <2>8. AtStage'
    BY <1>0, <2>1, <2>2, <2>3 DEF RunnerInv, R!TypeOK, AtStage, R!CanRecover, R!Stage
  <2> QED BY <2>7, <2>8 DEF RunnerInv
<1>3. CASE R!RecovererFixes
  <2>1. attempt + 1 \in 0..R!Budget
    BY <1>0, <1>3, BudgetBound DEF R!RecovererFixes, RunnerInv, AtStage, R!CanRecover
  <2> QED BY <1>0, <1>3, <2>1 DEF R!RecovererFixes, RunnerInv, R!TypeOK, AtStage, R!Stage
<1>4. CASE R!RecovererGivesUp
  BY <1>0, <1>4 DEF R!RecovererGivesUp, RunnerInv, R!TypeOK, AtStage, R!Stage
<1>5. CASE UNCHANGED runnerVars
  BY <1>5 DEF runnerVars, RunnerInv, R!TypeOK, AtStage, R!CanRecover
<1> QED BY <1>1, <1>2, <1>3, <1>4, <1>5 DEF R!Next
-----------------------------------------------------------------------------
\* Which stage is which.
LEMMA Positions ==
    ASSUME stage \in R!Stage
    PROVE  /\ stage = 1 => Name = "build"
           /\ stage = 2 => Name = "test"
           /\ Name = "test" => stage = 2
           /\ stage = 3 <=> Name = "docker-build"
           /\ stage = 4 <=> Name = "docker-push"
           /\ Name = "deploy" => stage > 4
           /\ Name = "health-check" => stage > 4
           /\ \A s \in R!Stage : Stages[s] = "deploy" => s > 4
           /\ \A s \in R!Stage : Stages[s] = "deploy" /\ s < stage => Name = "health-check"
           /\ \A s \in R!Stage : Stages[s] = "deploy" /\ Name = "deploy" => s = stage
<1>1. stage \in 1..Len(Stages) /\ Len(Stages) \in Nat
  BY StagesShape DEF R!Stage
<1>2. \A s \in R!Stage : s \in Int /\ (s = 1 \/ s = 2 \/ s = 3 \/ s = 4 \/ s > 4)
  BY <1>1 DEF R!Stage
<1>3. \A s \in R!Stage : Stages[s] = "deploy" => s > 4
  BY <1>2, StagesShape
<1>4. \A s \in R!Stage : Stages[s] = "deploy" /\ s < stage => Name = "health-check"
  BY StagesShape DEF Name
<1>5. \A s \in R!Stage : Stages[s] = "deploy" /\ Name = "deploy" => s = stage
  BY <1>1, <1>2, StagesShape DEF Name
<1>6. stage > 4 => Name \in {"workflow", "deploy", "health-check"}
  BY StagesShape DEF Name
<1> QED BY <1>1, <1>2, <1>3, <1>4, <1>5, <1>6, StagesShape DEF Name

\* A stage that passes is followed by the first attempt of the next one.
LEMMA PassGoesOn ==
    ASSUME RunnerInv, R!StageSucceeds
    PROVE  /\ phase = "run" /\ stage \in R!Stage /\ offered[stage] = attempt
           /\ \/ stage' = stage + 1 /\ attempt' = 0 /\ phase' = "run" /\ stage < Len(Stages)
              \/ stage' = stage /\ attempt' = attempt /\ phase' = "ok" /\ stage = Len(Stages)
           /\ offered' = offered
           /\ stage \in Int /\ Len(Stages) \in Nat
BY StagesShape DEF RunnerInv, AtStage, R!StageSucceeds, R!Stage, R!TypeOK

\* A stage that passes, whatever it does to the world.
LEMMA PassHolds ==
    ASSUME IInv, R!StageSucceeds, stageTree' = tree,
           UNCHANGED <<repairVars, ctxDone, setup, starts>>,
           \/ BuildPasses \/ TestPasses \/ DockerBuildPasses \/ DockerPushPasses
           \/ WorkflowPasses \/ DeployPasses \/ HealthPasses
    PROVE  IInv'
<1>0. stage \in R!Stage /\ phase = "run" /\ offered[stage] = attempt
  BY PassGoesOn DEF IInv
<1>s. UNCHANGED <<push, target, follows>>
  BY DEF setup
<1>1. RunnerInv'
  BY RunnerGoesOn DEF IInv, R!Next
<1>2. WorldTypeOK'
  <2>1. /\ tested' \in {tested, SourceOf(tree)}
        /\ image' \in {image, tree}
        /\ registry' \in {registry, image}
        /\ live' \in {live, registry, image}
        /\ revisions' \subseteq revisions \cup {live, registry, image}
    BY DEF BuildPasses, TestPasses, DockerBuildPasses, DockerPushPasses, WorkflowPasses,
           DeployPasses, HealthPasses, shipVars, Deployed, Rl!Installs
  <2>2. SourceOf(tree) \in {SourceOf(t) : t \in Rp!Tree}
    BY DEF IInv, WorldTypeOK
  <2> QED BY <2>1, <2>2 DEF IInv, WorldTypeOK, repairVars, setup, SourceOf
<1>3. Once'
  <2>1. CASE DockerPushPasses
    <3>1. stage = 4 /\ pushes = 0
      BY <1>0, <2>1, Positions DEF DockerPushPasses, Running, IInv, Once, Ahead
    <3> QED BY <1>0, <2>1, <3>1, PassGoesOn, Positions DEF DockerPushPasses, IInv, Once, Ahead, DeployAhead, R!Stage
  <2>2. CASE DeployPasses
    <3>1. stage > 4 /\ deploys = 0 /\ Name = "deploy"
      BY <1>0, <2>2, Positions DEF DeployPasses, Running, IInv, Once, Ahead, DeployAhead
    <3>2. ~DeployAhead'
      BY <1>0, <3>1, PassGoesOn DEF IInv, Ahead, DeployAhead, Name
    <3> QED BY <1>0, <2>2, <3>1, <3>2, PassGoesOn DEF DeployPasses, IInv, Once, Ahead
  <2>3. CASE ~DockerPushPasses /\ ~DeployPasses
    <3>1. UNCHANGED <<pushes, deploys>>
      BY <2>3 DEF BuildPasses, TestPasses, DockerBuildPasses, WorkflowPasses, HealthPasses, shipVars
    <3>2. Ahead(4)' => Ahead(4)
      BY <1>0, PassGoesOn DEF IInv, Ahead
    <3>3. DeployAhead' => DeployAhead
      BY <1>0, PassGoesOn DEF IInv, Ahead, DeployAhead, R!Stage
    <3> QED BY <3>1, <3>2, <3>3 DEF IInv, Once
  <2> QED BY <2>1, <2>2, <2>3
<1>4. Undo'
  BY PassGoesOn DEF IInv, Undo, EarlierRepairsSurvive, repairVars
<1>5. Ship'
  <2>0. /\ stage = 2 => TestPasses
        /\ stage # 2 => tested' = tested
        /\ stage = 3 => DockerBuildPasses
        /\ stage # 3 => image' = image
        /\ stage = 4 => DockerPushPasses
        /\ stage # 4 => registry' = registry
    BY <1>0, Positions DEF BuildPasses, TestPasses, DockerBuildPasses, DockerPushPasses, WorkflowPasses,
           DeployPasses, HealthPasses, shipVars, Running
  <2>1. (stage = 3 /\ phase = "run" /\ attempt = 0 => tested = SourceOf(tree))'
    <3> SUFFICES ASSUME stage' = 3, phase' = "run" PROVE tested' = SourceOf(tree')
      BY DEF SourceOf
    <3>1. stage = 2
      BY PassGoesOn DEF IInv
    <3> QED BY <2>0, <3>1 DEF TestPasses, repairVars, SourceOf
  <2>2. (stage > 3 /\ offered[3] = 0 => SourceOf(image) = tested)'
    <3> SUFFICES ASSUME stage' > 3, offered[3] = 0 PROVE SourceOf(image') = tested'
      BY PassGoesOn DEF IInv, SourceOf
    <3>1. stage = 3 \/ stage > 3
      BY PassGoesOn DEF IInv
    <3>2. CASE stage = 3
      BY <1>0, <2>0, <3>2 DEF DockerBuildPasses, IInv, Ship, SourceOf
    <3>3. CASE stage > 3
      BY <1>0, <2>0, <3>3 DEF IInv, Ship, SourceOf
    <3> QED BY <3>1, <3>2, <3>3
  <2>3. ((stage > 4 \/ phase = "ok") /\ push => registry = image)'
    <3> SUFFICES ASSUME (stage > 4 \/ phase = "ok")', push PROVE registry' = image'
      BY <1>s
    <3>1. stage = 4 \/ stage > 4
      BY PassGoesOn, StagesShape DEF IInv
    <3>2. CASE stage = 4
      BY <2>0, <3>2 DEF DockerPushPasses
    <3>3. CASE stage > 4
      BY <2>0, <3>3 DEF IInv, Ship
    <3> QED BY <3>1, <3>2, <3>3
  <2>4. ASSUME NEW s \in R!Stage, Stages[s] = "deploy",
               ((phase = "run" /\ s < stage) \/ phase = "ok")', follows, target = "k8s" => push
        PROVE  live' = image'
    <3>1. s > 4 /\ s \in Int
      BY <1>0, <2>4, Positions, StagesShape DEF R!Stage
    <3>2. s < stage \/ s = stage
      BY <1>0, <2>4, <3>1, PassGoesOn DEF IInv, R!Stage
    <3>3. UNCHANGED image
      BY <2>0, <3>1, <3>2
    <3>4. CASE s < stage
      <4>1. Name = "health-check"
        BY <1>0, <2>4, <3>4, Positions
      <4>2. live' = live
        BY <4>1 DEF BuildPasses, TestPasses, DockerBuildPasses, DockerPushPasses, WorkflowPasses,
                    DeployPasses, HealthPasses, shipVars, Running
      <4> QED BY <1>0, <2>4, <3>3, <3>4, <4>2 DEF IInv, Ship
    <3>5. CASE s = stage
      <4>1. DeployPasses
        BY <2>4, <3>5 DEF BuildPasses, TestPasses, DockerBuildPasses, DockerPushPasses, WorkflowPasses,
                    DeployPasses, HealthPasses, Running, Name
      <4>2. target = "k8s" => registry = image
        BY <2>4, <3>1, <3>5 DEF IInv, Ship
      <4>3. Deployed = image
        BY <2>4, <4>2 DEF Deployed
      <4> QED BY <3>3, <4>1, <4>3 DEF DeployPasses, Rl!Installs
    <3> QED BY <3>2, <3>4, <3>5
  <2> QED BY <1>s, <2>1, <2>2, <2>3, <2>4 DEF Ship
<1> QED BY <1>1, <1>2, <1>3, <1>4, <1>5 DEF IInv

\* A stage that fails, and is given to the recovery or not.
LEMMA FailHolds ==
    ASSUME IInv, CommandFails \/ DockerPushFails \/ DeployFails \/ HealthFails
    PROVE  IInv'
<1>0. /\ R!StageFails
      /\ UNCHANGED <<ctxDone, push, target, follows, stageTree, tested, image, starts>>
      /\ \/ phase' = "recover" /\ tree' = tree /\ before' = tree /\ outcome' = "working" /\ rollbackErr' = FALSE
         \/ phase' = "error" /\ UNCHANGED repairVars
  <2>1. R!StageFails => phase' \in {"recover", "error"}
    BY DEF R!StageFails
  <2>2. Failed /\ image' = image
    BY DEF CommandFails, DockerPushFails, DeployFails, HealthFails, shipVars
  <2> QED BY <2>1, <2>2 DEF Failed, Rp!Begin, setup
<1>1. RunnerInv'
  BY <1>0, RunnerGoesOn DEF IInv, R!Next
<1>2. /\ stage \in R!Stage /\ stage \in Int /\ stage' = stage /\ attempt' = attempt
      /\ phase = "run" /\ phase' \in {"recover", "error"} /\ failSeen[stage] = attempt
      /\ failSeen'[stage] = attempt + 1 /\ attempt \in Nat
  <2>1. R!Stage \subseteq Int /\ R!Budget \in Nat
    BY BudgetBound, StagesShape DEF R!Stage
  <2> QED BY <1>0, <2>1 DEF R!StageFails, IInv, RunnerInv, AtStage, R!TypeOK
<1>3. WorldTypeOK'
  <2>1. /\ registry' \in {registry, image}
        /\ live' \in revisions \cup {NoImage, live, registry, image}
        /\ revisions' \subseteq revisions \cup {live, registry, image}
    BY DEF CommandFails, DockerPushFails, DeployFails, HealthFails, shipVars, Deployed,
           Rl!InstallFails, Rl!Withdraws, Rl!RolledBack
  <2>2. /\ registry' \in Rp!Tree \cup {NoImage} /\ live' \in Rp!Tree \cup {NoImage}
        /\ revisions' \subseteq Rp!Tree \cup {NoImage}
    BY <2>1 DEF IInv, WorldTypeOK
  <2>3. rollbackErr' \in {rollbackErr, FALSE}
    BY <1>0 DEF repairVars
  <2>4. rollbackErr' \in BOOLEAN
    BY <2>3 DEF IInv, WorldTypeOK
  <2>5. tree' = tree /\ before' \in {tree, before} /\ outcome' \in {outcome, "working"}
    BY <1>0 DEF repairVars
  <2>6. UNCHANGED <<ctxDone, push, target, follows, stageTree, tested, image, starts>>
    BY <1>0
  <2> QED BY <2>2, <2>4, <2>5, <2>6 DEF IInv, WorldTypeOK, SourceOf
<1>4. Once'
  <2>2. (DeployAhead' => DeployAhead) /\ (Ahead(4)' => Ahead(4))
    BY <1>2 DEF Ahead, DeployAhead, R!Stage
  <2>3. DockerPushFails => stage = 4 /\ ~Ahead(4)' /\ Ahead(4) /\ pushes' = pushes + 1
    BY <1>2, Positions DEF DockerPushFails, Running, Ahead
  <2>4. DeployFails => ~DeployAhead' /\ DeployAhead /\ deploys' = deploys + 1
    BY <1>2, Positions DEF DeployFails, Running, DeployAhead, Ahead, R!Stage, Name
  <2>5. /\ ~DockerPushFails => pushes' = pushes
        /\ ~DeployFails => deploys' = deploys
    BY DEF CommandFails, DockerPushFails, DeployFails, HealthFails, shipVars
  <2> QED BY <2>2, <2>3, <2>4, <2>5 DEF IInv, Once
<1>5. Undo'
  <2>1. (phase = "error" /\ failSeen[stage] = 1 /\ ~rollbackErr => StageUndone)'
    BY <1>0, <1>2 DEF IInv, Undo, StageUndone, repairVars
  <2> QED BY <1>0, <1>2, <2>1 DEF IInv, Undo, EarlierRepairsSurvive
<1>6. Ship'
  <2>1. stage > 3 => offered'[3] = offered[3]
    <3>1. 3 \in R!Stage
      BY StagesShape DEF R!Stage
    <3> QED BY <1>0, <1>2, <3>1 DEF R!StageFails, IInv, RunnerInv, R!TypeOK
  <2>2. stage # 4 => registry' = registry
    BY <1>2, Positions DEF CommandFails, DockerPushFails, DeployFails, HealthFails, shipVars, Running
  <2> QED BY <1>0, <1>2, <2>1, <2>2 DEF IInv, Ship, SourceOf
<1> QED BY <1>1, <1>3, <1>4, <1>5, <1>6 DEF IInv

\* What a recovery does, and how it ends.
LEMMA RecoveryHolds ==
    ASSUME IInv, AgentEdits \/ RepairKept \/ RepairFails
    PROVE  IInv'
<1>0. /\ stage \in R!Stage /\ stage \in Int /\ phase = "recover" /\ stage' = stage
      /\ attempt \in Nat /\ failSeen[stage] = attempt + 1
      /\ offered' = offered /\ failSeen' = failSeen
  <2>1. R!Stage \subseteq Int /\ R!Budget \in Nat
    BY BudgetBound, StagesShape DEF R!Stage
  <2>2. phase = "recover" /\ UNCHANGED <<stage, offered, failSeen>>
    BY DEF AgentEdits, RepairKept, RepairFails, Fixing, R!RecovererFixes, R!RecovererGivesUp, runnerVars
  <2> QED BY <2>1, <2>2 DEF IInv, RunnerInv, AtStage, R!TypeOK
<1>1. RunnerInv'
  BY RunnerGoesOn DEF IInv, R!Next, AgentEdits, RepairKept, RepairFails
<1>2. /\ UNCHANGED <<push, target, follows, stageTree, image, registry, live, revisions, pushes, deploys, starts>>
      /\ before' = before
  BY DEF AgentEdits, RepairKept, RepairFails, shipVars, setup, Rp!Edit, Rp!Keep, Rp!Refuse, Rp!Undo, Rp!Abandon
<1>3. tree' \in Rp!Tree /\ outcome' \in {"working", "kept", "refused", "failed"} /\ ctxDone' \in BOOLEAN
  <2>1. CASE AgentEdits
    <3>1. PICK f \in File, c \in Content : tree' = [tree EXCEPT ![f] = c]
      BY <2>1 DEF AgentEdits, Rp!Edit
    <3> QED BY <2>1, <3>1 DEF AgentEdits, Rp!Edit, IInv, WorldTypeOK, Rp!Tree
  <2>2. CASE RepairKept
    BY <2>2 DEF RepairKept, Rp!Keep, Rp!End, IInv, WorldTypeOK
  <2>3. CASE RepairFails
    <3>1. CASE Rp!Undo /\ UNCHANGED ctxDone
      BY <3>1 DEF Rp!Undo, Rp!End, IInv, WorldTypeOK, Rp!Tree
    <3> QED BY <2>3, <3>1 DEF RepairFails, Rp!Refuse, Rp!Abandon, Rp!End, IInv, WorldTypeOK
  <2> QED BY <2>1, <2>2, <2>3
<1>t. rollbackErr' \in BOOLEAN
  <2>1. rollbackErr' \in {rollbackErr, TRUE, FALSE}
    BY DEF AgentEdits, RepairKept, RepairFails, Rp!Edit, Rp!Keep, Rp!Refuse, Rp!Undo, Rp!Abandon
  <2> QED BY <2>1 DEF IInv, WorldTypeOK
<1>4. tested' = tested \/ (Name = "test" /\ tested' = SourceOf(tree))
  BY DEF AgentEdits, RepairKept, RepairFails
<1>5. WorldTypeOK'
  BY <1>2, <1>3, <1>t, <1>4 DEF IInv, WorldTypeOK, SourceOf
<1>6. phase' = "run" => RepairKept
  BY <1>0 DEF AgentEdits, RepairFails, runnerVars, R!RecovererGivesUp
<1>7. RepairKept => Name \in FixerStage /\ attempt' = attempt + 1 /\ phase' = "run"
  BY DEF RepairKept, Fixing, R!RecovererFixes
<1>8. Once'
  <2>1. Ahead(4)' => Ahead(4)
    BY <1>0, <1>6, <1>7, Positions DEF Ahead, FixerStage
  <2>2. DeployAhead' => DeployAhead
    BY <1>0, <1>6, <1>7, Positions DEF Ahead, DeployAhead, FixerStage, R!Stage, Name
  <2> QED BY <1>2, <2>1, <2>2 DEF IInv, Once
<1>9. Undo'
  <2>1. (phase = "run" /\ attempt = 0 => tree = stageTree)'
    BY <1>0, <1>6, <1>7
  <2>2. (phase = "recover" /\ attempt = 0 => before = stageTree)'
    BY <1>0, <1>2 DEF IInv, Undo, AgentEdits, RepairKept, RepairFails, runnerVars,
                      R!RecovererFixes, R!RecovererGivesUp
  <2>3. ASSUME phase' = "error", failSeen[stage] = 1, ~rollbackErr'
        PROVE  StageUndone'
    <3>1. RepairFails /\ before = stageTree
      BY <1>0, <1>7, <2>3 DEF IInv, Undo, AgentEdits, runnerVars
    <3>2. CASE Rp!Refuse
      BY <1>2, <3>1, <3>2 DEF Rp!Refuse, StageUndone
    <3>3. CASE Rp!Undo
      BY <1>2, <3>1, <3>3, ConveyorAssumption DEF Rp!Undo, StageUndone
    <3>4. CASE Rp!Abandon
      BY <2>3, <3>4 DEF Rp!Abandon
    <3> QED BY <3>1, <3>2, <3>3, <3>4 DEF RepairFails
  <2> QED BY <1>0, <2>1, <2>2, <2>3 DEF Undo, EarlierRepairsSurvive
<1>10. Ship'
  <2>1. (stage = 3 /\ phase = "run" /\ attempt = 0 => tested = SourceOf(tree))'
    BY <1>0, <1>6, <1>7
  <2>2. stage > 3 => tested' = tested
    BY <1>0, <1>4, Positions
  <2>3. phase' # "ok"
    BY <1>0 DEF AgentEdits, RepairKept, RepairFails, runnerVars, R!RecovererFixes, R!RecovererGivesUp
  <2>4. ASSUME NEW s \in R!Stage, Stages[s] = "deploy", phase' = "run" PROVE ~(s < stage)
    BY <1>0, <1>6, <1>7, <2>4, Positions DEF FixerStage
  <2> QED BY <1>0, <1>2, <2>1, <2>2, <2>3, <2>4 DEF IInv, Ship, SourceOf
<1> QED BY <1>1, <1>5, <1>8, <1>9, <1>10 DEF IInv

\* The first stage of a process.
LEMMA BeginHolds == R!Init /\ WorldTypeOK /\ pushes = 0 /\ deploys = 0 /\ tree = stageTree => IInv
<1> SUFFICES ASSUME R!Init, WorldTypeOK, pushes = 0, deploys = 0, tree = stageTree PROVE IInv
  OBVIOUS
<1>1. RunnerInv
  BY RunnerBegins
<1>2. stage = 1 /\ phase = "run" /\ attempt = 0
  BY StagesShape DEF R!Init
<1>3. Once /\ Undo
  BY <1>2, ConveyorAssumption DEF Once, Undo, EarlierRepairsSurvive
<1>4. Ship
  BY <1>2, StagesShape DEF Ship, R!Stage
<1> QED BY <1>1, <1>3, <1>4 DEF IInv

\* The first process.
LEMMA InitHolds == Init => IInv
<1> SUFFICES ASSUME Init PROVE IInv
  OBVIOUS
<1>1. WorldTypeOK
  <2>1. starts \in 1..MaxStarts
    BY ConveyorAssumption DEF Init
  <2>2. /\ rollbackErr \in BOOLEAN /\ ctxDone \in BOOLEAN
        /\ push \in BOOLEAN /\ follows \in BOOLEAN
    BY Zenon DEF Init
  <2> QED BY <2>1, <2>2 DEF Init, WorldTypeOK
<1> QED BY <1>1, BeginHolds DEF Init

\* Another process begins as the first one did, in the world that one left.
LEMMA RestartHolds == IInv /\ Restart => IInv'
<1> SUFFICES ASSUME IInv, Restart PROVE IInv'
  OBVIOUS
<1>1. (R!Init)'
  BY StagesShape DEF Restart, R!Init
<1>2. WorldTypeOK'
  <2>1. image' \in Rp!Tree \cup {NoImage} /\ registry' \in Rp!Tree \cup {NoImage}
    BY DEF IInv, WorldTypeOK, Restart, CommandLeft
  <2>2. live' \in Rp!Tree \cup {NoImage} /\ revisions' \subseteq Rp!Tree \cup {NoImage}
    <3>1. live' \in revisions \cup {NoImage, live, registry, image}
      BY DEF Restart, CommandLeft, Deployed, Rl!RolledBack
    <3>2. revisions' \subseteq revisions \cup {live, registry, image}
      BY DEF Restart, CommandLeft, Deployed
    <3> QED BY <3>1, <3>2 DEF IInv, WorldTypeOK
  <2>3. tree' \in Rp!Tree /\ before' \in Rp!Tree /\ stageTree' \in Rp!Tree
    BY DEF Restart
  <2>4. starts' \in 1..MaxStarts
    BY ConveyorAssumption DEF IInv, WorldTypeOK, Restart
  <2>5. /\ rollbackErr' \in BOOLEAN /\ ctxDone' \in BOOLEAN
        /\ push' \in BOOLEAN /\ follows' \in BOOLEAN
    BY Zenon DEF IInv, WorldTypeOK, Restart, setup
  <2>6. tested' \in {SourceOf(t) : t \in Rp!Tree}' \cup {NoImage} /\ target' \in Targets \cup {"none"}
    BY DEF IInv, WorldTypeOK, Restart, setup
  <2>7. outcome' \in {"none", "working", "kept", "refused", "failed"}
    BY DEF Restart
  <2> QED BY <2>1, <2>2, <2>3, <2>4, <2>5, <2>6, <2>7 DEF WorldTypeOK
<1>3. (pushes = 0 /\ deploys = 0 /\ tree = stageTree)'
  BY DEF Restart
<1> QED BY <1>1, <1>2, <1>3, BeginHolds, PTL

\* The inductive step.
LEMMA StepHolds == IInv /\ [Next]_vars => IInv'
<1> SUFFICES ASSUME IInv, [Next]_vars PROVE IInv'
  OBVIOUS
<1>1. CASE \/ BuildPasses \/ TestPasses \/ DockerBuildPasses \/ DockerPushPasses
           \/ WorkflowPasses \/ DeployPasses \/ HealthPasses
  <2>1. Passed
    BY <1>1 DEF BuildPasses, TestPasses, DockerBuildPasses, DockerPushPasses, WorkflowPasses,
                DeployPasses, HealthPasses
  <2> QED BY <1>1, <2>1, PassHolds DEF Passed
<1>2. CASE CommandFails \/ DockerPushFails \/ DeployFails \/ HealthFails
  BY <1>2, FailHolds
<1>3. CASE AgentEdits \/ RepairKept \/ RepairFails
  BY <1>3, RecoveryHolds
<1>4. CASE Restart
  BY <1>4, RestartHolds
<1>5. CASE Cancel \/ UNCHANGED vars
  <2>1. /\ UNCHANGED <<runnerVars, repairVars, push, target, follows, stageTree, tested, shipVars, starts>>
        /\ ctxDone' \in {ctxDone, TRUE}
    BY <1>5 DEF Cancel, vars, setup
  <2>2. RunnerInv'
    <3>1. RunnerInv /\ UNCHANGED runnerVars
      BY <2>1 DEF IInv
    <3> QED BY <3>1, RunnerGoesOn
  <2>3. WorldTypeOK'
    <3>1. UNCHANGED <<tree, before, outcome, rollbackErr, push, target, follows, stageTree, tested,
                      image, registry, live, revisions, starts>>
      BY <2>1 DEF repairVars, shipVars
    <3>2. ctxDone' \in BOOLEAN
      BY <2>1 DEF IInv, WorldTypeOK
    <3> QED BY <3>1, <3>2 DEF IInv, WorldTypeOK, SourceOf
  <2>4. Once' /\ Ship'
    BY <2>1 DEF IInv, Once, Ahead, DeployAhead, Ship, SourceOf, runnerVars, repairVars, shipVars
  <2>5. Undo'
    BY <2>1 DEF IInv, Undo, EarlierRepairsSurvive, StageUndone, runnerVars, repairVars
  <2> QED BY <2>2, <2>3, <2>4, <2>5 DEF IInv
<1> QED BY <1>1, <1>2, <1>3, <1>4, <1>5 DEF Next

-----------------------------------------------------------------------------
\* The strengthened invariant holds in every run of every process.
THEOREM InductiveInvariant == Spec => []IInv
BY InitHolds, StepHolds, PTL DEF Spec

\* Type correctness; one push and one deployment are within the retry budget.
THEOREM TypeCorrect == Spec => []TypeOK
<1>1. IInv => TypeOK
  <2> SUFFICES ASSUME IInv PROVE TypeOK
    OBVIOUS
  <2>1. pushes \in 0..(R!Budget + 1) /\ deploys \in 0..(R!Budget + 1)
    BY BudgetBound DEF IInv, Once
  <2> QED BY <2>1 DEF IInv, RunnerInv, WorldTypeOK, TypeOK
<1> QED BY <1>1, InductiveInvariant, PTL

\* However large the retry budget is, no run pushes or deploys twice: see
\* ShippedOnce in Conveyor.
THEOREM NoSecondPush == Spec => []ShippedOnce
<1>1. IInv => ShippedOnce
  BY DEF IInv, Once, ShippedOnce
<1> QED BY <1>1, InductiveInvariant, PTL

\* A stage that fails for good at its first recovery is left with the tree it
\* began with, whatever the agent wrote, unless git failed to roll back: see
\* EarlierRepairsSurvive.
THEOREM FailedStageIsUndone == Spec => []EarlierRepairsSurvive
<1>1. IInv => EarlierRepairsSurvive
  BY DEF IInv, Undo
<1> QED BY <1>1, InductiveInvariant, PTL

\* What a run reports as built, pushed and deployed is what it tested, however
\* many processes were killed before it: see ShippedIsTested.
THEOREM OnlyTestedShips == Spec => []ShippedIsTested
<1>1. IInv => ShippedIsTested
  <2> SUFFICES ASSUME IInv PROVE ShippedIsTested
    OBVIOUS
  <2>1. stage \in R!Stage /\ (phase = "ok" => stage > 3)
    BY StagesShape DEF IInv, RunnerInv, AtStage
  <2>2. \A s \in R!Stage : s \in Int /\ (okSeen[s] = 1 <=> s < stage \/ phase = "ok")
    BY StagesShape DEF IInv, RunnerInv, AtStage, R!Stage
  <2>3. \A s \in R!Stage : /\ Stages[s] = "docker-build" => s = 3
                           /\ Stages[s] = "docker-push" => s = 4
    BY StagesShape DEF R!Stage
  <2>4. BuiltAsIs => SourceOf(image) = tested
    BY <2>1, <2>2, <2>3 DEF BuiltAsIs, IInv, Ship
  <2>5. HasPassed("docker-push") /\ push => registry = image
    BY <2>1, <2>2, <2>3 DEF HasPassed, IInv, Ship
  <2>6. HasPassed("deploy") /\ phase \in {"run", "ok"} /\ follows /\ (target = "k8s" => push)
          => live = image
    BY <2>1, <2>2 DEF HasPassed, IInv, Ship
  <2> QED BY <2>4, <2>5, <2>6 DEF ShippedIsTested
<1> QED BY <1>1, InductiveInvariant, PTL
=============================================================================
