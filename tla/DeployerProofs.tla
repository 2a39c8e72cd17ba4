--------------------------- MODULE DeployerProofs ---------------------------
(***************************************************************************)
(* The deployer process implements both of its parts, for every number of  *)
(* stages and every retry limit, so what is proved of the parts holds of   *)
(* the process; and its exit code and its metrics tell what the pipeline   *)
(* did.                                                                    *)
(***************************************************************************)
EXTENDS Deployer, TLAPS

\* Every step of the process is a step of the runner or leaves it alone.
THEOREM ImplementsRunner == Spec => RunnerImplemented
<1>1. Init => R!Init
  BY DEF Init
<1>2. [Next]_vars => [R!Next]_(R!vars)
  <2> SUFFICES ASSUME [Next]_vars PROVE R!Next \/ UNCHANGED R!vars
    OBVIOUS
  <2>1. CASE RunSteps
    BY <2>1 DEF RunSteps
  <2>2. CASE ~RunSteps
    <3>1. UNCHANGED runnerVars
      BY <2>2 DEF Next, Process, Signal, ConfigFails, ConfigSucceeds, CancelWhenDone, StartReturns,
                  StopPipeline, PushMetrics, AppSteps, Exit, vars
    <3> QED BY <3>1 DEF runnerVars, R!vars
  <2> QED BY <2>1, <2>2
<1> QED BY <1>1, <1>2, PTL DEF Spec, RunnerImplemented, R!Spec

\* Every step of the process is a step of App.Run or leaves it alone.
THEOREM ImplementsLifecycle == Spec => LifecycleImplemented
<1>1. Init => L!Init
  BY DEF Init
<1>2. [Next]_vars => [L!Next]_(L!vars)
  <2> SUFFICES ASSUME [Next]_vars PROVE L!Next \/ UNCHANGED L!vars
    OBVIOUS
  <2>1. 1 \in L!Service
    BY DEF L!Service
  <2>2. CASE Signal \/ CancelWhenDone
    BY <2>2 DEF Signal, CancelWhenDone, L!Next
  <2>3. CASE StartReturns
    BY <2>1, <2>3 DEF StartReturns, pipelineSvc, L!Next, L!StartEnds
  <2>4. CASE StopPipeline \/ PushMetrics
    BY <2>4 DEF StopPipeline, PushMetrics, L!Next, L!Run
  <2>5. CASE AppSteps
    BY <2>1, <2>5 DEF AppSteps, pipelineSvc, L!Next, L!Run
  <2>6. CASE ConfigFails \/ ConfigSucceeds \/ RunSteps \/ Exit \/ UNCHANGED vars
    <3>1. UNCHANGED appVars
      BY <2>6 DEF ConfigFails, ConfigSucceeds, RunSteps, Exit, vars
    <3> QED BY <3>1 DEF appVars, L!vars, L!appVars
  <2> QED BY <2>2, <2>3, <2>4, <2>5, <2>6 DEF Next, Process
<1> QED BY <1>1, <1>2, PTL DEF Spec, LifecycleImplemented, L!Spec
-----------------------------------------------------------------------------
\* The stages before the current one have passed, and no other.
RunnerInv ==
    /\ stage \in 1..NumStages
    /\ phase \in {"run", "recover", "ok", "error"}
    /\ okSeen \in [1..NumStages -> Nat]
    /\ \A s \in 1..NumStages : okSeen[s] = IF s < stage \/ phase = "ok" THEN 1 ELSE 0
    /\ phase = "ok" => stage = NumStages

\* Before main is past its configuration neither part has moved.
ConfigInv ==
    ~configured => /\ appPc = "wait"
                   /\ svc[1] = "running"
                   /\ phase = "run"
                   /\ \A s \in 1..NumStages : okSeen[s] = 0 /\ failSeen[s] = 0

\* The App over its one service: past wg.Wait the pipeline has returned, its
\* error is in the channel until Run returns it, and only an interrupt or a
\* reported error ends the context.
AppInv ==
    /\ svc \in [L!Service -> L!SvcState]
    /\ appPc \in {"wait", "stop", "close", "collect", "returned"}
    /\ closed \in 0..1
    /\ closed > 0 => appPc \in {"close", "collect", "returned"}
    /\ appPc \in {"close", "collect", "returned"} => L!Joined(1)
    /\ appPc \in {"collect", "returned"} => closed = 1
    /\ appPc # "returned" => errs = {} /\ (1 \in errCh <=> svc[1] \in {"cancel", "reported"})
    /\ appPc = "returned" => (errs # {} <=> svc[1] = "reported")
    /\ errCh \subseteq {1}
    /\ ctxDone => interrupted \/ svc[1] = "reported"
    /\ svc[1] = "dropped" => interrupted

\* What ties the two: the pipeline returns what the runner ended with, and a
\* run that has not succeeded is interrupted by a signal only.
TieInv ==
    /\ svc[1] = "stopped" => phase = "ok"
    /\ svc[1] \notin {"running", "stopped"} => phase = "error"
    /\ interrupted => signalled \/ phase = "ok"

\* The exit code is what main made of the result of App.Run.
ExitInv ==
    /\ pushed => closed = 1
    /\ exit \in {Alive, "0", "1", "2"}
    /\ exit = "0" => appPc = "returned" /\ errs = {}
    /\ exit = "1" => appPc = "returned" /\ errs # {}
    /\ exit = "2" => ~configured

\* The exit code depends on the App, the App on the pipeline it runs, and what
\* a signal may do to both on when it comes.
IInv == RunnerInv /\ ConfigInv /\ AppInv /\ TieInv /\ ExitInv

\* Neither part has moved.
LEMMA InitHolds == Init => IInv
<1> SUFFICES ASSUME Init PROVE IInv
  OBVIOUS
<1>1. RunnerInv /\ ConfigInv
  BY DeployerAssumption DEF Init, R!Init, L!Init, L!Service, R!Stage, RunnerInv, ConfigInv
<1>2. AppInv
  BY DEF Init, L!Init, L!Service, L!SvcState, AppInv
<1>3. TieInv /\ ExitInv
  BY DEF Init, L!Init, L!Service, TieInv, ExitInv, Alive
<1> QED BY <1>1, <1>2, <1>3 DEF IInv

\* The inductive step, one case per action.
LEMMA StepHolds == IInv /\ [Next]_vars => IInv'
<1> SUFFICES ASSUME IInv, [Next]_vars PROVE IInv'
  OBVIOUS
<1>0. 1 \in L!Service /\ 1 \in DOMAIN svc
  BY DEF L!Service, IInv, AppInv
<1>1. CASE ConfigFails \/ ConfigSucceeds
  <2>1. CASE ConfigFails
    BY <2>1 DEF ConfigFails, runnerVars, appVars, Alive, L!Joined,
                IInv, RunnerInv, ConfigInv, AppInv, TieInv, ExitInv
  <2>2. CASE ConfigSucceeds
    BY <2>2 DEF ConfigSucceeds, runnerVars, appVars, Alive, L!Joined,
                IInv, RunnerInv, ConfigInv, AppInv, TieInv, ExitInv
  <2> QED BY <1>1, <2>1, <2>2
<1>2. CASE Signal
  BY <1>2 DEF Signal, L!Interrupt, L!appVars, runnerVars, L!Joined,
              IInv, RunnerInv, ConfigInv, AppInv, TieInv, ExitInv
<1>3. CASE CancelWhenDone
  BY <1>3 DEF CancelWhenDone, L!Interrupt, L!appVars, runnerVars, mainVars, L!Joined, pipelineSvc,
              IInv, RunnerInv, ConfigInv, AppInv, TieInv, ExitInv
<1>4. CASE RunSteps
  <2>1. RunnerInv' /\ phase \in {"run", "recover"}
    BY <1>4, DeployerAssumption DEF RunSteps, R!Next, R!StageSucceeds, R!StageFails, R!RecovererFixes,
                R!RecovererGivesUp, IInv, RunnerInv
  <2>2. svc[1] = "running" /\ configured
    BY <1>4 DEF RunSteps, pipelineSvc
  <2>3. UNCHANGED <<svc, ctxDone, interrupted, appPc, closed, errCh, errs, configured, signalled, pushed, exit>>
    BY <1>4 DEF RunSteps, appVars, mainVars
  <2> QED BY <2>1, <2>2, <2>3 DEF L!Joined, IInv, ConfigInv, AppInv, TieInv, ExitInv
<1>5. CASE StartReturns
  <2>1. PICK to \in {"stopped", "returned"} :
          /\ svc[1] = "running"
          /\ svc' = [svc EXCEPT ![1] = to]
          /\ phase = IF to = "stopped" THEN "ok" ELSE "error"
          /\ to = "stopped" => interrupted
    BY <1>5 DEF StartReturns, L!StartReturnsNil, L!StartFails, L!Goto, pipelineSvc
  <2>2. UNCHANGED <<runnerVars, ctxDone, interrupted, appPc, closed, errCh, errs, configured, signalled, pushed, exit>>
    BY <1>5 DEF StartReturns, L!StartReturnsNil, L!StartFails, L!appVars, mainVars
  <2>3. svc' \in [L!Service -> L!SvcState] /\ svc'[1] = to
    BY <1>0, <2>1 DEF IInv, AppInv, L!SvcState
  <2>4. configured
    BY <2>1 DEF IInv, ConfigInv
  <2> QED BY <2>1, <2>2, <2>3, <2>4 DEF L!Joined, runnerVars, IInv, RunnerInv, ConfigInv, AppInv, TieInv, ExitInv
<1>6. CASE StopPipeline
  BY <1>6 DEF StopPipeline, L!StopNext, L!Joined, runnerVars, mainVars,
              IInv, RunnerInv, ConfigInv, AppInv, TieInv, ExitInv
<1>7. CASE PushMetrics
  BY <1>7 DEF PushMetrics, L!CloseNext, L!Joined, runnerVars,
              IInv, RunnerInv, ConfigInv, AppInv, TieInv, ExitInv
<1>8. CASE AppSteps
  <2>1. CASE L!CheckCtx(1)
    <3>1. svc[1] = "returned" /\ svc' = [svc EXCEPT ![1] = IF ctxDone THEN "dropped" ELSE "send"]
      BY <2>1 DEF L!CheckCtx, L!Goto
    <3>2. svc'[1] = (IF ctxDone THEN "dropped" ELSE "send") /\ svc' \in [L!Service -> L!SvcState]
      BY <1>0, <3>1 DEF IInv, AppInv, L!SvcState
    <3> QED BY <1>8, <2>1, <3>1, <3>2 DEF AppSteps, L!CheckCtx, L!appVars, L!Joined, runnerVars, mainVars,
                                         IInv, RunnerInv, ConfigInv, AppInv, TieInv, ExitInv
  <2>2. CASE L!SendError(1)
    <3>1. svc[1] = "send" /\ svc' = [svc EXCEPT ![1] = "cancel"] /\ svc'[1] = "cancel"
      BY <1>0, <2>2 DEF L!SendError, L!Goto
    <3>2. svc' \in [L!Service -> L!SvcState]
      BY <1>0, <3>1 DEF IInv, AppInv, L!SvcState
    <3>3. appPc \in {"wait", "stop"}
      BY <3>1 DEF IInv, AppInv, L!Joined
    <3>4. errCh' = errCh \cup {1} /\ UNCHANGED <<appPc, ctxDone, interrupted, toStop, closed, errs>>
      BY <2>2, <3>3 DEF L!SendError
    <3> QED BY <1>8, <3>1, <3>2, <3>3, <3>4 DEF AppSteps, L!Joined, runnerVars, mainVars,
                                         IInv, RunnerInv, ConfigInv, AppInv, TieInv, ExitInv
  <2>3. CASE L!CancelOthers(1)
    <3>1. svc[1] = "cancel" /\ svc' = [svc EXCEPT ![1] = "reported"] /\ svc'[1] = "reported"
      BY <1>0, <2>3 DEF L!CancelOthers, L!Goto
    <3>2. svc' \in [L!Service -> L!SvcState]
      BY <1>0, <3>1 DEF IInv, AppInv, L!SvcState
    <3>3. appPc \in {"wait", "stop"}
      BY <3>1 DEF IInv, AppInv, L!Joined
    <3> QED BY <1>8, <2>3, <3>1, <3>2, <3>3 DEF AppSteps, L!CancelOthers, L!appVars, L!Joined, runnerVars, mainVars,
                                         IInv, RunnerInv, ConfigInv, AppInv, TieInv, ExitInv
  <2>4. CASE L!BeginShutdown
    BY <1>8, <2>4 DEF AppSteps, L!BeginShutdown, L!Joined, runnerVars, mainVars,
                      IInv, RunnerInv, ConfigInv, AppInv, TieInv, ExitInv
  <2>5. CASE L!WaitGoroutines
    BY <1>0, <1>8, <2>5 DEF AppSteps, L!WaitGoroutines, L!Joined, runnerVars, mainVars,
                      IInv, RunnerInv, ConfigInv, AppInv, TieInv, ExitInv
  <2>6. CASE L!CloseErrCh
    BY <1>8, <2>6 DEF AppSteps, L!CloseErrCh, L!Joined, runnerVars, mainVars,
                      IInv, RunnerInv, ConfigInv, AppInv, TieInv, ExitInv
  <2>7. CASE L!Collect
    <3>1. errs = {} /\ appPc = "collect" /\ appPc' = "returned" /\ errCh' = {}
      BY <2>7 DEF L!Collect, IInv, AppInv
    <3>2. errs' # {} <=> svc[1] = "reported"
      <4>1. errs' = {<<"start", i>> : i \in errCh}
        BY <2>7, <3>1 DEF L!Collect
      <4>2. errs' # {} <=> 1 \in errCh
        BY <4>1 DEF IInv, AppInv
      <4> QED BY <3>1, <4>2 DEF IInv, AppInv, L!Joined
    <3> QED BY <1>8, <2>7, <3>1, <3>2 DEF AppSteps, L!Collect, L!Joined, runnerVars, mainVars,
                      IInv, RunnerInv, ConfigInv, AppInv, TieInv, ExitInv
  <2> QED BY <1>8, <2>1, <2>2, <2>3, <2>4, <2>5, <2>6, <2>7 DEF AppSteps, L!Goroutine, pipelineSvc
<1>9. CASE Exit
  BY <1>9 DEF Exit, Alive, L!Joined, runnerVars, appVars,
              IInv, RunnerInv, ConfigInv, AppInv, TieInv, ExitInv
<1>10. CASE UNCHANGED vars
  BY <1>10 DEF vars, L!Joined, runnerVars, appVars, mainVars,
              IInv, RunnerInv, ConfigInv, AppInv, TieInv, ExitInv
<1> QED BY <1>1, <1>2, <1>3, <1>4, <1>5, <1>6, <1>7, <1>8, <1>9, <1>10 DEF Next, Process

-----------------------------------------------------------------------------
\* The strengthened invariant holds throughout.
THEOREM InductiveInvariant == Spec => []IInv
BY InitHolds, StepHolds, PTL DEF Spec

\* The exit code tells what the pipeline did: see ExitTellsOutcome in Deployer.
THEOREM ExitCodeIsEarned == Spec => []ExitTellsOutcome
<1>1. IInv => ExitTellsOutcome
  BY DEF IInv, ConfigInv, AppInv, TieInv, ExitInv, L!Joined, ExitTellsOutcome
<1> QED BY <1>1, InductiveInvariant, PTL

\* The metrics are pushed after the run and before any exit that follows one:
\* see MetricsComplete.
THEOREM PushedMetricsAreComplete == Spec => []MetricsComplete
<1>1. IInv => MetricsComplete
  BY DEF IInv, AppInv, TieInv, ExitInv, L!Joined, RunDone, MetricsComplete
<1> QED BY <1>1, InductiveInvariant, PTL

\* No stage ends, and no recovery is counted, once the metrics are pushed.
NothingAfterPush == [][pushed => UNCHANGED runnerVars]_vars

\* The pushed metrics stay true: the runner never moves again.
THEOREM PushIsLast == Spec => NothingAfterPush
<1>1. IInv /\ [Next]_vars => [pushed => UNCHANGED runnerVars]_vars
  <2> SUFFICES ASSUME IInv, Next, pushed PROVE UNCHANGED runnerVars
    OBVIOUS
  <2>1. ~RunSteps
    BY DEF IInv, AppInv, ExitInv, L!Joined, RunSteps, pipelineSvc
  <2> QED BY <2>1 DEF Next, Process, Signal, ConfigFails, ConfigSucceeds, CancelWhenDone, StartReturns,
                      StopPipeline, PushMetrics, AppSteps, Exit
<1> QED BY <1>1, InductiveInvariant, PTL DEF Spec, NothingAfterPush

\* What the two parts give together: with exit code 0 and no signal, every
\* stage was counted ok exactly once.
ZeroMeansPassed == exit = "0" /\ ~signalled => \A s \in 1..NumStages : okSeen[s] = 1

\* The exit code 0 stands for as many passed stages as main wired.
THEOREM ExitZeroMeansPassed == Spec => []ZeroMeansPassed
<1>1. IInv => ZeroMeansPassed
  BY DEF IInv, RunnerInv, AppInv, TieInv, ExitInv, L!Joined, ZeroMeansPassed
<1> QED BY <1>1, InductiveInvariant, PTL
=============================================================================
