-------------------------- MODULE LifecycleProofs --------------------------
(***************************************************************************)
(* The safety of App.Run for every number of services and closers.         *)
(***************************************************************************)
EXTENDS Lifecycle, FiniteSetTheorems, TLAPS

\* A service whose error went into the channel.
Sent(i) == svc[i] \in {"cancel", "reported"}

\* Run is past wg.Wait.
PastWait == appPc \in {"close", "collect", "returned"}

\* Past wg.Wait no goroutine is left to send, so the channel can be closed.
WaitInv ==
    /\ appPc # "panicked"
    /\ PastWait \/ closed > 0 => toStop = 0 /\ \A i \in Service : Joined(i)

\* An error that was sent is in the channel until Run returns it, and nothing
\* else is in there.
ChannelInv ==
    /\ appPc # "returned" =>
         \A i \in Service : /\ Sent(i) <=> i \in errCh
                            /\ <<"start", i>> \notin errs
    /\ appPc = "returned" =>
         \A i \in Service : <<"start", i>> \in errs <=> svc[i] = "reported"

\* Why the context may be done, and what follows from it.
ContextInv ==
    /\ ctxDone => interrupted \/ \E i \in Service : svc[i] = "reported"
    /\ appPc # "wait" => ctxDone

IInv == TypeOK /\ WaitInv /\ ChannelInv /\ ContextInv

LEMMA InitHolds == Init => IInv
<1> SUFFICES ASSUME Init PROVE IInv
  OBVIOUS
<1>1. TypeOK
  <2>1. svc \in [Service -> SvcState]
    BY DEF Init, SvcState
  <2>2. toStop \in 0..NumServices /\ closed \in 0..NumClosers
    BY LifecycleAssumption DEF Init
  <2>3. errCh \subseteq Service /\ errs = {}
    BY DEF Init
  <2> QED BY <2>1, <2>2, <2>3 DEF Init, TypeOK
<1>2. WaitInv
  BY LifecycleAssumption DEF Init, WaitInv, PastWait
<1>3. ChannelInv
  BY DEF Init, ChannelInv, Sent
<1>4. ContextInv
  BY DEF Init, ContextInv
<1> QED BY <1>1, <1>2, <1>3, <1>4 DEF IInv

\* The inductive step, one case per action.
LEMMA StepHolds == IInv /\ [Next]_vars => IInv'
<1> SUFFICES ASSUME IInv, [Next]_vars PROVE IInv'
  OBVIOUS
<1> USE LifecycleAssumption
<1>1. CASE Interrupt
  BY <1>1 DEF Interrupt, appVars, IInv, TypeOK, WaitInv, ChannelInv, ContextInv, PastWait, Sent, Joined
<1>2. ASSUME NEW i \in Service, StartEnds(i) PROVE IInv'
  <2>1. PICK to \in {"stopped", "returned"} : Goto(i, "running", to)
    BY <1>2 DEF StartEnds, StartReturnsNil, StartFails
  <2>2. UNCHANGED <<ctxDone, interrupted, appPc, toStop, closed, errCh, errs>>
    BY <1>2 DEF StartEnds, StartReturnsNil, StartFails, appVars
  <2>3. TypeOK'
    BY <2>1, <2>2 DEF IInv, TypeOK, Goto, SvcState
  <2>4. svc[i] = "running" /\ svc'[i] = to /\ \A j \in Service : j # i => svc'[j] = svc[j]
    BY <2>1 DEF IInv, TypeOK, Goto
  <2>5. WaitInv'
    BY <2>2, <2>4 DEF IInv, WaitInv, PastWait, Joined
  <2>6. ChannelInv'
    BY <2>1, <2>2, <2>4 DEF IInv, ChannelInv, Sent
  <2>7. ContextInv'
    BY <2>2, <2>4 DEF IInv, ContextInv
  <2> QED BY <2>3, <2>5, <2>6, <2>7 DEF IInv
<1>3. ASSUME NEW i \in Service, CheckCtx(i) PROVE IInv'
  <2>1. PICK to \in {"dropped", "send"} : Goto(i, "returned", to)
    BY <1>3 DEF CheckCtx
  <2>2. UNCHANGED <<ctxDone, interrupted, appPc, toStop, closed, errCh, errs>>
    BY <1>3 DEF CheckCtx, appVars
  <2>3. TypeOK'
    BY <2>1, <2>2 DEF IInv, TypeOK, Goto, SvcState
  <2>4. svc[i] = "returned" /\ svc'[i] = to /\ \A j \in Service : j # i => svc'[j] = svc[j]
    BY <2>1 DEF IInv, TypeOK, Goto
  <2>5. WaitInv'
    BY <2>2, <2>4 DEF IInv, WaitInv, PastWait, Joined
  <2>6. ChannelInv'
    BY <2>1, <2>2, <2>4 DEF IInv, ChannelInv, Sent
  <2>7. ContextInv'
    BY <2>2, <2>4 DEF IInv, ContextInv
  <2> QED BY <2>3, <2>5, <2>6, <2>7 DEF IInv
<1>4. ASSUME NEW i \in Service, SendError(i) PROVE IInv'
  <2>1. svc[i] = "send" /\ svc'[i] = "cancel" /\ \A j \in Service : j # i => svc'[j] = svc[j]
    BY <1>4 DEF SendError, Goto, IInv, TypeOK
  <2>2. ~PastWait
    BY <2>1 DEF IInv, WaitInv, Joined
  <2>3. errCh' = errCh \cup {i} /\ UNCHANGED <<ctxDone, interrupted, appPc, toStop, closed, errs>>
    BY <1>4, <2>2 DEF SendError, PastWait
  <2>4. TypeOK'
    BY <1>4, <2>3 DEF SendError, Goto, IInv, TypeOK, SvcState
  <2>5. WaitInv'
    BY <2>1, <2>3 DEF IInv, WaitInv, PastWait, Joined
  <2>6. ChannelInv'
    BY <2>1, <2>2, <2>3 DEF IInv, ChannelInv, Sent, PastWait
  <2>7. ContextInv'
    BY <2>1, <2>3 DEF IInv, ContextInv
  <2> QED BY <2>4, <2>5, <2>6, <2>7 DEF IInv
<1>5. ASSUME NEW i \in Service, CancelOthers(i) PROVE IInv'
  <2>1. svc[i] = "cancel" /\ svc'[i] = "reported" /\ \A j \in Service : j # i => svc'[j] = svc[j]
    BY <1>5 DEF CancelOthers, Goto, IInv, TypeOK
  <2>2. ctxDone' = TRUE /\ UNCHANGED <<interrupted, appPc, toStop, closed, errCh, errs>>
    BY <1>5 DEF CancelOthers, appVars
  <2>3. TypeOK'
    BY <1>5, <2>2 DEF CancelOthers, Goto, IInv, TypeOK, SvcState
  <2>4. WaitInv'
    BY <2>1, <2>2 DEF IInv, WaitInv, PastWait, Joined
  <2>5. ChannelInv'
    <3>1. appPc # "returned"
      BY <2>1 DEF IInv, WaitInv, PastWait, Joined
    <3> QED BY <2>1, <2>2, <3>1 DEF IInv, ChannelInv, Sent
  <2>6. ContextInv'
    BY <2>1, <2>2 DEF IInv, ContextInv
  <2> QED BY <2>3, <2>4, <2>5, <2>6 DEF IInv
<1>6. CASE BeginShutdown
  BY <1>6 DEF BeginShutdown, IInv, TypeOK, WaitInv, ChannelInv, ContextInv, PastWait, Sent, Joined
<1>7. CASE StopNext
  <2>1. errs \subseteq errs' /\ errs' \subseteq errs \cup {<<"stop", toStop>>} /\ toStop \in Service
    BY <1>7 DEF StopNext, IInv, TypeOK, Service
  <2>2. TypeOK'
    BY <1>7, <2>1 DEF StopNext, IInv, TypeOK
  <2>3. WaitInv'
    BY <1>7 DEF StopNext, IInv, TypeOK, WaitInv, PastWait, Joined
  <2>4. ChannelInv'
    BY <1>7, <2>1 DEF StopNext, IInv, ChannelInv, Sent
  <2>5. ContextInv'
    BY <1>7 DEF StopNext, IInv, ContextInv
  <2> QED BY <2>2, <2>3, <2>4, <2>5 DEF IInv
<1>8. CASE WaitGoroutines
  BY <1>8 DEF WaitGoroutines, IInv, TypeOK, WaitInv, ChannelInv, ContextInv, PastWait, Sent, Joined
<1>9. CASE CloseNext
  <2>1. errs \subseteq errs' /\ errs' \subseteq errs \cup {<<"close", closed + 1>>} /\ closed + 1 \in Closer
    BY <1>9 DEF CloseNext, IInv, TypeOK, Closer
  <2>2. TypeOK'
    BY <1>9, <2>1 DEF CloseNext, IInv, TypeOK, Closer
  <2>3. WaitInv'
    BY <1>9 DEF CloseNext, IInv, TypeOK, WaitInv, PastWait, Joined
  <2>4. ChannelInv'
    BY <1>9, <2>1 DEF CloseNext, IInv, ChannelInv, Sent
  <2>5. ContextInv'
    BY <1>9 DEF CloseNext, IInv, ContextInv
  <2> QED BY <2>2, <2>3, <2>4, <2>5 DEF IInv
<1>10. CASE CloseErrCh
  BY <1>10 DEF CloseErrCh, IInv, TypeOK, WaitInv, ChannelInv, ContextInv, PastWait, Sent, Joined
<1>11. CASE Collect
  <2>1. TypeOK'
    BY <1>11 DEF Collect, IInv, TypeOK
  <2>2. WaitInv'
    BY <1>11 DEF Collect, IInv, WaitInv, PastWait, Joined
  <2>3. ChannelInv'
    <3>1. \A i \in Service : i \in errCh <=> svc[i] = "reported"
      BY <1>11 DEF Collect, IInv, ChannelInv, WaitInv, PastWait, Joined, Sent
    <3> QED BY <1>11, <3>1 DEF Collect, IInv, ChannelInv
  <2>4. ContextInv'
    BY <1>11 DEF Collect, IInv, ContextInv
  <2> QED BY <2>1, <2>2, <2>3, <2>4 DEF IInv
<1>12. CASE UNCHANGED vars
  BY <1>12 DEF vars, appVars, IInv, TypeOK, WaitInv, ChannelInv, ContextInv, PastWait, Sent, Joined
<1> QED BY <1>1, <1>2, <1>3, <1>4, <1>5, <1>6, <1>7, <1>8, <1>9, <1>10, <1>11, <1>12 DEF Next, Goroutine, Run

THEOREM InductiveInvariant == Spec => []IInv
BY InitHolds, StepHolds, PTL DEF Spec

\* Type correctness of App.Run.
THEOREM TypeCorrect == Spec => []TypeOK
<1>1. IInv => TypeOK
  BY DEF IInv
<1> QED BY <1>1, InductiveInvariant, PTL

\* No goroutine ever sends on the closed error channel.
THEOREM NeverPanics == Spec => []NoPanic
<1>1. IInv => NoPanic
  BY DEF IInv, WaitInv, NoPanic
<1> QED BY <1>1, InductiveInvariant, PTL

\* The channel has room for every error there can be, so no failed service
\* hangs in its send and keeps wg.Wait from returning: see SendsAtOnce.
THEOREM ChannelHasRoom == Spec => []SendsAtOnce
<1>1. IInv => SendsAtOnce
  <2> SUFFICES ASSUME IInv, NEW i \in Service, svc[i] = "send"
               PROVE  Cardinality(errCh) < Capacity
    BY DEF SendsAtOnce
  <2>1. errCh \in SUBSET Service /\ i \notin errCh
    BY DEF IInv, TypeOK, WaitInv, ChannelInv, PastWait, Joined, Sent
  <2>2. NumServices \in Nat /\ IsFiniteSet(Service) /\ Cardinality(Service) = NumServices
    BY LifecycleAssumption, FS_Interval DEF Service
  <2>3. /\ Cardinality(errCh) <= Cardinality(Service)
        /\ Cardinality(Service) = Cardinality(errCh) => Service = errCh
        /\ IsFiniteSet(errCh)
    BY <2>1, <2>2, FS_Subset
  <2>4. Cardinality(errCh) \in Nat /\ Cardinality(errCh) # NumServices
    BY <2>1, <2>2, <2>3, FS_CardinalityType
  <2> QED BY <2>2, <2>3, <2>4 DEF Capacity
<1> QED BY <1>1, InductiveInvariant, PTL

\* Without an interrupt, a failed service is always in what Run returns.
THEOREM FailuresAreReported == Spec => []FailureReported
<1>1. IInv => FailureReported
  BY DEF IInv, ChannelInv, ContextInv, FailureReported, Failed
<1> QED BY <1>1, InductiveInvariant, PTL

\* Run returns exactly the start errors that were sent.
THEOREM NoStartErrorLost == Spec => []StartErrorsDelivered
<1>1. IInv => StartErrorsDelivered
  BY DEF IInv, ChannelInv, StartErrorsDelivered
<1> QED BY <1>1, InductiveInvariant, PTL

\* Closers run after every service has been stopped and has returned.
THEOREM ClosersLast == Spec => []ClosersAfterServices
<1>1. IInv => ClosersAfterServices
  BY DEF IInv, WaitInv, ClosersAfterServices
<1> QED BY <1>1, InductiveInvariant, PTL

\* Only an interrupt or a reported failure shuts the app down.
THEOREM NoSpuriousShutdown == Spec => []ShutdownHasCause
<1>1. IInv => ShutdownHasCause
  BY DEF IInv, ContextInv, ShutdownHasCause
<1> QED BY <1>1, InductiveInvariant, PTL
=============================================================================
