# depl-orch in TLA+

A verification development for depl-orch, a Go program that ships one
repository: build, test, docker-build, docker-push, an optional workflow check,
deploy and health check, with an optional, bounded agentic repair of a stage that
failed, and for its dashboard, a web page of the repairs that worked. TLC checks
the models on small instances; TLAPS proves safety and refinement for every value
of the constants.

## Inventory

| Component | Source | State | Operations | What is hard | What makes it correct |
|---|---|---|---|---|---|
| Pipeline runner | `internal/pipeline/pipeline.go`, `recover.go`, `internal/obs/observer.go` | stage index, attempt, per-stage counters | `Run`, `runStage`, observer and recoverer callbacks | retries at the limit, stages left unrun | result, metrics and retries agree; no early failure, no skipped re-run |
| Service lifecycle | `internal/framework/lifecycle/lifecycle.go` | services, error channel, context, shutdown errors | `App.Run` | goroutines against signal and shutdown, a channel that is closed | no panic, no lost failure, closers last, the shutdown ends |
| Agentic recovery | `internal/agent/` | working tree, snapshot, loop counter, fix history | triage, dispatch, four fixers, tool loop, git snapshot and rollback | a model that may do anything, a signal at any step, git that may fail | what fails leaves no trace if git could roll it back, cost is bounded, nothing of the user's is deleted |
| Health check | `internal/pipeline/healthcheck.go` | clock, deadline, current request | poll until 2xx | deadline against a late success, a signal during a request | bounded, prompt, and never wrong about a service that was up in time |
| Deployment, rollback | `internal/pipeline/deploy.go`, `rollback.go` | live environment, helm revisions | compose and helm deployers, `DeployStage`, `WithRollback` | commands that fail half-way, asynchronous rollout | one rollback per failure, and it asks for what was asked for before |
| Conveyor | `cmd/deployer/main.go`, `stages.go`, `agent/workflow_stage.go` | tree, image, registry, deployment | the list of stages | repairs between stages, retries of stages with outside effects | what a run ships it has tested; nothing is shipped twice; a run that was killed does not mislead the next |
| Deployer process | `cmd/deployer/main.go` | configuration, exit code, metrics push | `main`, `pipelineSvc` | a signal during a run, a run that ends on its own | exit code and metrics are those of the run; a signal or the end of the run ends the process |
| Fix history | `internal/agent/history.go` | a file of JSON lines | append a fix; read it into a prompt or a page | a torn line, an overlong line, a reader of another process | bounded loss, fresh examples, an honest page |
| Dashboard | `internal/web/server.go`, `cmd/dashboard/main.go` | HTTP server pointer, listener, request | `Start`, `Stop`, one handler | `Stop` before `Start` has set the pointer, a request that does not end | it ends at a signal, and gracefully if it can |
| Configuration, model factory | `internal/config`, `internal/model`, `cmd/deployer/main.go` | none after start | environment to stages, deployer and models | typos, defaults, copies of one configuration | what is wired is what was asked for |
| Reply parsing | `internal/agent/util.go`, `classify.go` | none | `extractJSON`, the verdict | drafts in think blocks, fences, text around the object | a verdict is one the model gave outside its complete think blocks |
| Metrics, token counts | `internal/obs` | counters | observe, push | one push of a whole run | order of push and run, in Deployer |

`main` builds the stages and a `Runner`, makes it the single service of an
`App`, and exits with what `App.Run` returns. The runner calls stages one at a
time and hands a failed one to the recovery, which shares nothing with it but
the working tree, the captured output and the context. Stages act on the world
through commands (`go`, `docker`, `helm`, `git`) and HTTP. The context is
cancelled by a signal, by a failing service, or by a pipeline that is done. The dashboard is another
process; it shares only the history file with the deployer.

## Modules

| Module | Models | Correspondence |
|---|---|---|
| `Runner` | `Runner.Run`, `runStage` | `phase` is where the loop is; `okSeen`, `failSeen`, `offered` are what Observer and Recoverer were called with. One action per outcome of `s.Run` and of `Recover`. |
| `Lifecycle` | `App.Run` | `svc[i]` is the program counter of a service goroutine (the check of `ctx.Err()`, the send and the cancel are three steps), `appPc` that of `Run`. `errCh` holds at most `Capacity` errors; a send to a full channel waits. |
| `Recovery` | one call of `Recover` after another, through `TriagedRecovery`, `StageRecovery` and a fixer | `pc` is the step of the code; `tree`, `before`, `snapshot` are functions from files to contents. The four fixers are one control flow that differs in verification and history. `rollbackErr` is the error of `git checkout`, which every fixer drops. |
| `Repair` | what a `Recoverable` promises | abstract specification; `Recovery` implements it with `outcome` as its mapping. A failed repair is undone (`Undo`), or left in part where the rollback failed (`Abandon`); the caller sees the same error |
| `HealthCheck` | `healthCheckStage.Run` | discrete time; `Tick` only where the code waits |
| `Deploy` | `DeployStage`, both deployers, `WithRollback` | `wanted` is what the environment was told to run, `live` what runs, `healthy` the versions that come up; `Rollout` is the cluster. The last revision before the pipeline may never have come up |
| `Release` | what the last two stages promise about the live environment | abstract specification, a deploy and a health check being one step each; `Deploy` implements it, `Conveyor` composes its steps with the runner's |
| `Conveyor` | the stages wired by `main`, run after run | `Runner` composed with `Repair`; one action per stage and outcome. `Restart` is a process that was killed, or ended, at any point and the next one: it keeps tree, image, registry and deployment and forgets the rest |
| `Reply` | `extractJSON` and the end of `Classify` | operators on sequences of tokens, objects and arrays among them; `Recovery` takes its classes from them |
| `History` | `appendHistory`, `buildHistoryPrompt`, the loop of `handleDashboard` | the file is a sequence of units written one at a time; reading is a recursive function over them, unit after unit, as `bufio.Scanner` does; a prompt takes the fixes of its own stage only |
| `Dashboard` | `cmd/dashboard` and `web.Server` | `Lifecycle` over one service composed with `History`; `startPc`, `stopPc` and `request` are where `Start`, `Stop` and the handler are. `net/http` is external |
| `Startup` | `Load` of both packages, `model.New`, the first half of `main` | one action per step that may end the process; a variable of the environment is unset, malformed or one of a few values |
| `Deployer` | the process | `Runner` composed with `Lifecycle` over one service, plus `main` |
| `*Proofs` | | theorems about the module of that name |
| `MCRecovery` | | constants of `Recovery` for TLC |

`Conveyor` takes `Repair` in the place of `Recovery`, which is justified by the
theorem `ImplementsRepair`, and the steps of `Release` in the place of `Deploy`,
justified by `ImplementsRelease`. Whether a health check passes is left open
there; `HealthCheck` is its detail. `follows` says that a deployment takes what the
image reference names by then. The code does not see to it: compose is given no
image (`deploy.go:28-30` expects the file to name it), and a cluster that has an
image by that tag need not pull it again. Where it is false, what runs stays, and
`ShippedIsTested` says nothing of it. A command that was running
when its process was killed goes on without it. `CommandLeft` lets it take effect
or not, and assumes that it has ended when the next run starts. `NoImage` is no
image, and also any image older than these runs. `revisions` is what a helm
rollback may find: it may bring back the image of an earlier run, and since every
revision names its image by the same reference, also what the registry holds
under it by then.

`Dashboard` follows one request at a time. Between `Stop` and `Start` the code
has no synchronisation but the mutex of the logger; where that does not order the
write of `s.server` before its read, `FindsServer` leaves the outcome open. The
appender of `History` and its readers share nothing but the file: an append may
be cut short after any unit, by a full disk or a kill, and every prefix may be
read.

Operators marked `Mutation:` are not part of any specification. Each is a
plausible bug in the definition that follows it; a check that puts it in that
definition's place must find a property violated.

## Runs

All state spaces are explored completely.

| Run | Shows | Bounds |
|---|---|---|
| `Runner.cfg` | outcome, metrics and retries agree for every sequence of results | 5 stages, 2 retries: a first, several middle and a last stage, and a stage that fails, is repaired, and fails again |
| `Lifecycle.cfg` | no panic, no lost error, no shutdown without cause, the shutdown ends | 3 services, so that two fail while a third runs; 1 closer, as `main` has |
| `Recovery.cfg` | what a recovery leaves in the tree and costs; a reply is read as what it says outside its complete think blocks; a signal ends it; `Repair` is implemented | 2 tracked files and an untracked one, each perhaps missing, 2 contents, 2 model calls of up to 2 tool calls, repeated recoveries; triage on, the case with more behaviours. Replies: every sequence of up to 4 parts, and up to two think blocks, text, fence and object in every combination |
| `HealthCheck.cfg` | the stage is bounded, prompt, terminates, and does not call a healthy service unhealthy | a timeout of 5 ticks and an interval of 3, so that the deadline falls inside a pause; the interval is configured as 0 to exercise the clamp |
| `Deploy.cfg` | one rollback per failure, what helm rolls back to, when it takes effect, whatever of it comes up; `Release` is implemented; compose reports success only over the new version | up to 3 earlier revisions of 2 versions: none, one, and a previous one that differs from the current |
| `Conveyor.cfg` | a run ships what it tested itself, nothing twice, a failed repair that git could roll back spares earlier ones | all 7 stages, 1 retry (the default), one source file and a Dockerfile, either missing at first; 2 runs, since all that one run leaves to the next is in the state that is kept |
| `Deployer.cfg` | exit code and metrics; a signal or the end of the run ends the process, as far as the push of the metrics | 3 stages, 1 retry |
| `Dashboard.cfg` | what a page shows and a prompt holds, whatever is torn; the exit is graceful, and comes | 3 appends, so that one may be torn, one glued to it and one read; entries of 1 or 2 units and a buffer of 2, so that two glued entries may or may not fit; 1 example per prompt (3 in the code), so that the limit is reached |
| `Startup.cfg` | switches, models and deployment are wired as asked | every combination of unset, malformed and valid values; every image reference with and without host, port, group, tag and digest |

`Startup` has no constants; `ReplyReadAsMeant` is about the operators of `Reply`,
and is evaluated over all their bounded inputs; the theorem `RepliesAreRead` lifts
the bound.

Three runs are expected to fail. Each states what a comment of the repository
says and shows a behaviour of the code that differs.

| Run | Statement | Behaviour |
|---|---|---|
| `RecoveryCancelled.cfg` | `fixtest.go:30`: the tree is rolled back on failure | after a signal `gitRollback` is given a dead context and does nothing; the error still says "(rolled back)" |
| `DeployerExit.cfg` | `cmd/deployer/main.go:3`: the exit code reflects the pipeline result | `lifecycle.go:106` drops an error that arrives after the signal: exit 0, "pipeline ok" |
| `DeployRevert.cfg` | `deploy.go:10`: roll the change back if Deploy fails | a rejected `helm upgrade` leaves no revision, so `helm rollback` takes down the release that ran |

Divergences met while reading that have no run:

- "(rolled back)" is part of every error of a failed fixer, also where `git
  checkout` failed for a reason of its own (a locked index, a full disk, a file it
  may not write): the fixers drop its error (`fixtest.go:64` and `:71`,
  `fixbuild.go:55` and `:60`, `dockerfile.go:68`, `:75` and `:79`,
  `fixworkflow.go:56` and `:61`). `FailedRepairRestored` and
  `EarlierRepairsSurvive` hold as far as git succeeds, and say so.
- `depl-orch-requirements.md:207` and `.agents/plan.md:59` promise a timeout for
  each model call; `loop.go:43` sets none. The push of the metrics
  (`push.go:15`) has neither a context nor a timeout. Either may hold the process
  for ever, the first one until a signal.
- `classify.go:52`: in doubt recovery is not skipped. A reply that is cut off
  inside a think block keeps the block, and a draft of `not-fixable` in there
  skips the recovery.
- `history.go:21` speaks of successful fixes. `git diff` is read with its stderr,
  so a warning is recorded as the difference of a fix that changed no tracked
  file. It passed its verification all the same (`HistoryIsOfVerifiedFixes`).

- `depl-orch-requirements.md:40` asks for a rollback on a still-failing re-run. A
  Dockerfile that contains FROM is kept, and stays when it does not build.
- `healthcheck.go:12`: the check is to confirm that the service is up. `helm
  upgrade` runs without `--wait`, so the old version may answer it.
- `config.go:35` says the workflow check comes before the push; `main.go:55`
  appends it after.
- `depl-orch-requirements.md`, 3.1: compose rollback restores the previous tag;
  the code runs `docker compose down`.
- `WithShutdownTimeout` does not bound `wg.Wait` (`ShutdownIsBounded` in
  `Lifecycle` states it).
- `server.go:56`: a caller that observes the context and calls `Stop` cannot race
  with the listener. `App.Run` can: its `Stop` may run before `s.server` is set,
  and then shuts nothing down. `Start` ends by its context all the same.
- `MODEL_MAX_TOKENS` is documented as the response cap; the ollama backend, the
  default one, is given none. `MODEL_BASE_URL` defaults to a local Ollama also for
  the openai backend.
- The comment about typos at `config.go:118` stands over `getenvInt`, which falls
  back silently; so do durations and floats.
- An object inside a code fence that is closed on the same line counts as
  complex: the fence takes the rest of its line with it. That errs towards the
  stronger model.

An image that needed a Dockerfile repair may hold source that was edited after
the tests, since the agent's tools are not restricted to the Dockerfile;
`ShippedIsTested` excepts that case, a cluster that pulls an image this run did
not push, and a target that does not follow the image reference.

In `Reply`, "text" is prose, so never JSON of its own, the commas of an array are
left out, and an object has the one field that the code reads. Whether blocks are
nested or cut off is told by `Open`; `RefusalIsMeant` allows the draft in a block
that is cut off and leaves nested blocks out.

## Fairness

- `Runner`, `Conveyor`, `Startup`: none, their properties are safety.
- `Lifecycle`: goroutines and `Run` are scheduled (`AppFairness`), and a service
  whose context is done returns (`ServicesHonourCtx`). The second is what
  `Service` asks of its implementations, and all of them do it. No service has
  to end on its own, no signal has to come.
- `Recovery`: tools, git and verification commands return; a model call returns
  once its context is cancelled, as the HTTP clients do. A model call that is
  not cancelled may hang for ever: the code gives it no timeout.
- `HealthCheck`: time passes, and a request ends within the client's timeout.
- `Deploy`: commands end; the cluster replaces the running version by one that
  starts, and never by one that does not.
- `Deployer`: what nothing outside the process can hold up goes on. Stages and
  recoveries return once the pipeline context is cancelled: commands are killed,
  which assumes that they leave no child behind that keeps their output open, and
  model calls honour the context. Until then they may hang, and the push may at
  any time; no signal has to come. `Exits` is stated accordingly: a signal, or the
  end of the run, leads to the exit or to the push, and a push that returns to the
  exit.
- `Dashboard`: main and its goroutines are scheduled, and the timer of the
  shutdown fires. No request has to end, no signal has to come, the deployer may
  stop anywhere in an append.

`CHECK_DEADLOCK FALSE` is set where the program ends: all of the runs above.

## Proofs

No theorem assumes more than the named assumption of its module on the constants
(types, disjointness of special values).

- `RunnerProofs`: types, `OutcomeMatchesMetrics`, `ErrorIsEarned`,
  `RecoveryPerFailure`, for every number of stages and every retry limit, also a
  negative one. The invariant adds, for the stage that runs, that its counters
  are the attempt number, and that stages before and after it are finished and
  untouched: without it nothing connects the attempt to what was counted.
- `LifecycleProofs`: types, the five safety properties, and `SendsAtOnce`: the
  channel is never full for a goroutine that sends. The invariant adds
  that no goroutine is about to send once `Run` is past its wait, which is what
  keeps the close of the channel safe, and accounts for each error from the
  return of `Start` to the list `Run` returns.
- `RecoveryProofs`: types, `FailedRepairRestored` (where `git checkout` succeeds), `RefusalTouchesNothing`,
  `ModelBudget`, `UntrackedSurvive`, and that `Recovery` implements `Repair`.
  The invariant adds that the tree is untouched up to the snapshot, that the
  snapshot is that tree while the fixer works, and that the calls made are the
  loop counter, charged to one model.
- `HealthCheckProofs`: types, `BoundedWait`, `NoFalseTimeout`, `PromptCancel`.
  The invariant bounds the clock at each step of the loop by the deadline and
  by the moment of the signal.
- `DeployProofs`: types, `RolledBackIffFailed`, `RollbackRemovesNew`,
  `HelmRestoresReplaced`, `ComposeOkIsNew`. The invariant describes the helm
  history: of old versions until the upgrade, and ending with the new one right
  after what was asked for before from then on.
- `DeployProofs` also: `ImplementsRelease`, every step of `Deploy` being one of
  `Release` or a stutter: the commands of a stage happen as one step, the last of
  them. The invariant adds what the environment was told to run at each command,
  and that all a rollback can find was there before the pipeline or is its own.
- `ConveyorProofs`, `DeployerProofs`, `DashboardProofs`: `Conveyor` and `Deployer`
  implement `Runner`, `Deployer` and `Dashboard` implement `Lifecycle`, so the
  theorems about the parts hold in them. For `Conveyor` a step is one of `Runner`
  or a restart, which sets its variables to an initial state: each run between
  two restarts is a behaviour of `Runner`.
- `ConveyorProofs` also: types, `ShippedOnce`, `EarlierRepairsSurvive`,
  `ShippedIsTested`, for every file set, retry limit, list of stages and number
  of runs. `StagesShape` first derives from the configuration where each stage
  is in the list. The invariant adds, per process, that nothing was pushed or
  deployed before its stage ended (`Once`), that a first recovery takes its
  snapshot of the tree the stage began with (`Undo`), and the chain from the
  tree that was tested to the image, the registry and the environment, link by
  link for the stages that have passed (`Ship`). What an earlier process left
  only has its type (`WorldTypeOK`): no link is taken from it.
- `DeployerProofs` also: `ExitTellsOutcome`, `MetricsComplete`, that nothing is
  counted after the push (an action property), and that exit code 0 without a
  signal means that every stage passed. The invariant ties the end of the runner
  to the state of the service goroutine (`TieInv`), follows its error through
  the App to the exit code (`AppInv`, `ExitInv`), and lets only a signal
  interrupt a run that has not passed.
- `RecoveryProofs` also: `HistoryIsOfVerifiedFixes`, which needs the snapshot of
  the invariant above: the diff that is recorded is one against it. And
  `ReplyReadAsMeant`, for every `MaxParts`, as a case of two theorems about every
  reply of any length whose think blocks do not nest. If they all end and no
  bracket stands outside them, the one object outside them is what the reply is
  read as, unless it is on the line of a fence (`AnswersAreRead`). What is read as
  a refusal stands outside them, or in the last one if that is cut off
  (`RefusalsAreMeant`). Both are proved by following the reply through
  `ExtractJSON`. `Keeps` says what trimming it and cutting its first think block
  out preserve: blocks that end still do and none becomes nested (`Tidy`, `Ends`), no
  refusal comes out of one, and the object stays (`Aim`, through an increasing map of positions, `Thins`).
  The loop needs an induction over its passes, and that it ends with no complete
  think block left: a pass that strips makes the reply shorter by two. The rest is
  where the fence and the braces are cut. That the replies of the model are of
  this kind takes an induction over the parts of the arbitrary ones
  (`ArbitraryParts`), and that the wrappings are silent around the object
  (`WrappedAim`). All inductions are by `Induction`, as in `DashboardProofs`
  below.
- `DashboardProofs` also: `GracefulExit`, by following `Stop` and the error of a
  `Shutdown` that gave up through the App; and, of the history, `PageHonest`,
  `LossIsBounded`, `PromptIsFresh`, for every length of entries, every buffer,
  every limit and every number of appends. `FileInv` says where each entry is in
  the file, and that one which does not begin a line follows a torn one.
  `ScanInv` says what a reader holds after n units: the line so far is the last
  units of the file, and the items are the entries of the lines that have
  ended. It is proved by induction over n within one state; the step needs
  `FileInv`. `RequestInv` then relates what a request read to what was whole when
  it opened the file. Induction is the lemma `Induction`, on a set of numbers and
  so first-order, from the library's well-foundedness of the naturals; that the
  recursion has a solution is `ScanSteps`. TLC has checked `FileInv`,
  `ScanInv` for all stages and all n, and `RequestInv` on the instance of the run
  and on one with longer lines.

Some theorems state facts that are not among the runs' properties, since they
hold closely by the shape of the code or are steps to those that are: the types
in `Lifecycle`, `HealthCheck` and `Deploy`, `SendsAtOnce`, `FailureReported`, `ClosersAfterServices`,
`RefusalTouchesNothing`, `RollbackRemovesNew`, `PushIsLast`,
`ExitZeroMeansPassed`, `HistoryInvariant`, `AnswersAreRead`, `RefusalsAreMeant`, and the implementation theorems of the
compositions.

Only model-checked:

- the liveness properties (`ShutdownCompletes`, `CancelEndsRecovery`,
  `Terminates`, `RollbackTakesEffect`, `Exits`), which are beyond TLAPS;
- the three properties of `Startup`, which has no constants: its run over every
  environment is the whole statement.

## Not modelled

- The text of logs, prompts, diffs and outputs, and durations in metrics.
- The rationale files the fixers write under `.agents`. They and the history are
  untracked and no part of `tree`; `recorded` says that a history entry is
  written, and `History` what becomes of it.
- Directories, symbolic links and the path guard of the tools.
- `tailString` and the formatting of a prompt; metrics and token counts but for
  the order of their push (a float added to a locked counter).
- A kill inside `Recovery` itself: `Conveyor` has it, over `Repair`.
- More than one request at a time in the dashboard: they share only the file,
  which they read.
- A second pipeline over the same repository or release.

## Plan

1. Done: `Runner`, `Lifecycle`, `Recovery`, `Repair`, `HealthCheck`, `Deploy`,
   `Deployer`, `Conveyor` with restarts, `Reply`, `History`, `Dashboard`,
   `Startup`.
2. Done: the safety of `Conveyor`, `Deployer`, `Dashboard` and `History`, and
   `HistoryIsOfVerifiedFixes`, for every value of the constants.
3. Done: `ReplyReadAsMeant` for replies of any number of parts.
4. Done: `Release`, implemented by `Deploy` and composed by `Conveyor`.
