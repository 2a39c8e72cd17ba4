------------------------------ MODULE Deployer ------------------------------
(***************************************************************************)
(* The deployer process (cmd/deployer): main wires the runner as the one   *)
(* service of a lifecycle App, a closer that pushes the metrics, and turns *)
(* what App.Run returns into an exit code.                                 *)
(*                                                                         *)
(* Composes Runner and Lifecycle: every step is a step of one of them, or  *)
(* of main.                                                                *)
(***************************************************************************)
EXTENDS Integers

CONSTANTS
    NumStages,      \* stages main wires
    HasRecoverer,   \* DEPLOY_RECOVER
    MaxRetries      \* DEPLOY_MAX_RETRIES

\* main wires its default stages always.
ASSUME DeployerAssumption ==
    /\ NumStages \in Nat \ {0}
    /\ HasRecoverer \in BOOLEAN
    /\ MaxRetries \in Int

VARIABLES
    stage, attempt, phase, okSeen, failSeen, offered,               \* Runner
    svc, ctxDone, interrupted, appPc, toStop, closed, errCh, errs,  \* Lifecycle
    configured,     \* main is past its configuration
    signalled,      \* SIGINT or SIGTERM arrived
    pushed,         \* the metrics reached the push gateway
    exit            \* exit code, or Alive

runnerVars == <<stage, attempt, phase, okSeen, failSeen, offered>>
appVars == <<svc, ctxDone, interrupted, appPc, toStop, closed, errCh, errs>>
mainVars == <<configured, signalled, pushed, exit>>
vars == <<runnerVars, appVars, mainVars>>

R == INSTANCE Runner
L == INSTANCE Lifecycle WITH NumServices <- 1, NumClosers <- 1

pipelineSvc == 1
Alive == "alive"
RunDone == phase \in {"ok", "error"}

Init ==
    /\ R!Init
    /\ L!Init
    /\ configured = FALSE
    /\ signalled = FALSE
    /\ pushed = FALSE
    /\ exit = Alive

\* The configuration, the deploy target or a model is rejected.
ConfigFails ==
    /\ exit = Alive
    /\ ~configured
    /\ exit' = "2"
    /\ UNCHANGED <<runnerVars, appVars, configured, signalled, pushed>>

ConfigSucceeds ==
    /\ exit = Alive
    /\ ~configured
    /\ configured' = TRUE
    /\ UNCHANGED <<runnerVars, appVars, signalled, pushed, exit>>

\* SIGINT or SIGTERM: both the context of main and that of App end.
Signal ==
    /\ exit = Alive
    /\ ~signalled
    /\ signalled' = TRUE
    /\ L!Interrupt
    /\ UNCHANGED <<runnerVars, configured, pushed, exit>>

\* pipelineSvc.Start inside runner.Run.
RunSteps ==
    /\ configured
    /\ svc[pipelineSvc] = "running"
    /\ R!Next
    /\ UNCHANGED <<appVars, mainVars>>

\* Start cancels the context of main after a run that succeeded.
CancelWhenDone ==
    /\ phase = "ok"
    /\ svc[pipelineSvc] = "running"
    /\ L!Interrupt
    /\ UNCHANGED <<runnerVars, mainVars>>

\* Mutation: Start reports no failure to App.
StartReturnsNilAlways ==
    /\ RunDone
    /\ IF interrupted THEN L!StartReturnsNil(pipelineSvc) ELSE L!Interrupt
    /\ UNCHANGED <<runnerVars, mainVars>>

\* Mutation: Start returns without the cancel.
StartReturnsUncancelled ==
    /\ \/ phase = "ok" /\ L!StartReturnsNil(pipelineSvc)
       \/ phase = "error" /\ L!StartFails(pipelineSvc)
    /\ UNCHANGED <<runnerVars, mainVars>>

\* Start returns what runner.Run returned.
StartReturns ==
    /\ \/ phase = "ok" /\ interrupted /\ L!StartReturnsNil(pipelineSvc)
       \/ phase = "error" /\ L!StartFails(pipelineSvc)
    /\ UNCHANGED <<runnerVars, mainVars>>

\* Mutation: the metrics are pushed by Stop.
StopPushes ==
    /\ UNCHANGED errs
    /\ L!StopNext
    /\ pushed' = TRUE
    /\ UNCHANGED <<runnerVars, configured, signalled, exit>>

\* pipelineSvc.Stop does nothing and returns nil.
StopPipeline ==
    /\ UNCHANGED errs
    /\ L!StopNext
    /\ UNCHANGED <<runnerVars, mainVars>>

\* The closer pushes the metrics; a failure is only logged.
PushMetrics ==
    /\ UNCHANGED errs
    /\ L!CloseNext
    /\ pushed' \in BOOLEAN
    /\ UNCHANGED <<runnerVars, configured, signalled, exit>>

\* The rest of App.Run.
AppSteps ==
    /\ configured
    /\ \/ L!Goroutine(pipelineSvc)
       \/ L!BeginShutdown
       \/ L!WaitGoroutines
       \/ L!CloseErrCh
       \/ L!Collect
    /\ UNCHANGED <<runnerVars, mainVars>>

\* main ends with what App.Run returned.
Exit ==
    /\ appPc = "returned"
    /\ exit = Alive
    /\ exit' = IF errs = {} THEN "0" ELSE "1"
    /\ UNCHANGED <<runnerVars, appVars, configured, signalled, pushed>>

\* What nothing outside the process can hold up.
Process ==
    \/ ConfigFails
    \/ ConfigSucceeds
    \/ CancelWhenDone
    \/ StartReturns
    \/ StopPipeline
    \/ AppSteps
    \/ Exit

Next == Signal \/ Process \/ RunSteps \/ PushMetrics

Spec == Init /\ [][Next]_vars

\* Stages and recoveries return once the pipeline context is cancelled.  Until
\* then they may hang, as the model's call does that has no timeout, and the
\* push may hang for ever: it has neither a context nor a timeout.
FairSpec == Spec /\ WF_vars(Process) /\ WF_vars(ctxDone /\ RunSteps)
-----------------------------------------------------------------------------
\* Every variable has its type, those of both parts included.
TypeOK ==
    /\ R!TypeOK
    /\ L!TypeOK
    /\ configured \in BOOLEAN
    /\ signalled \in BOOLEAN
    /\ pushed \in BOOLEAN
    /\ exit \in {Alive, "0", "1", "2"}

\* What the exit code tells: 0 that every stage passed, unless a signal came;
\* 1 that the pipeline failed; 2 that no stage ran.
ExitTellsOutcome ==
    /\ exit = "0" => phase = "ok" \/ signalled
    /\ exit = "1" => phase = "error"
    /\ exit = "2" => \A s \in 1..NumStages : okSeen[s] = 0 /\ failSeen[s] = 0

\* The metrics that are pushed are those of the whole run: no stage ends after
\* the push, and no exit that follows a run comes before it.
MetricsComplete ==
    /\ pushed => RunDone
    /\ exit \in {"0", "1"} => closed = 1 /\ RunDone

\* The push is under way, or about to be.
Pushing == appPc = "close" /\ closed = 0

\* A signal ends the process, whatever the pipeline is at, and so does the end
\* of the run, also a success, which nothing but Start's own cancel ends: as far
\* as the push, and to the exit if the push returns.
Exits ==
    /\ signalled \/ RunDone ~> exit # Alive \/ Pushing
    /\ closed = 1 ~> exit # Alive

\* The runner behaves in the process as it does alone.
RunnerImplemented == R!Spec

\* So does the App, over one service whose Stop and closer never fail.
LifecycleImplemented == L!Spec

\* The promise of main, "Exit code reflects the pipeline result".
ExitCodeReflectsResult == exit = "0" => phase = "ok"
=============================================================================
