------------------------------ MODULE Lifecycle ------------------------------
(***************************************************************************)
(* App.Run of internal/framework/lifecycle: one goroutine per service, a   *)
(* context that a signal, the parent or a failing service cancels, and the *)
(* shutdown sequence (stop in reverse, wait, close, collect errors).       *)
(*                                                                         *)
(* The services are open: Start may return nil or an error at any time,    *)
(* Stop and Close may fail.                                                *)
(***************************************************************************)
EXTENDS Integers, FiniteSets

CONSTANTS
    NumServices,    \* len(a.services)
    NumClosers      \* len(a.closers)

ASSUME LifecycleAssumption == NumServices \in Nat /\ NumClosers \in Nat

VARIABLES
    svc,            \* per service: where its goroutine is
    ctxDone,        \* the context Run derived is cancelled
    interrupted,    \* a signal arrived or the parent context was cancelled
    appPc,          \* where Run is
    toStop,         \* services not yet stopped: the loop index plus one
    closed,         \* closers called
    errCh,          \* services whose error is in the channel
    errs            \* shutdownErrs

vars == <<svc, ctxDone, interrupted, appPc, toStop, closed, errCh, errs>>
appVars == <<appPc, toStop, closed, errCh, errs>>

Service == 1..NumServices
Closer == 1..NumClosers
SvcState == {"running", "returned", "send", "cancel", "stopped", "dropped", "reported"}

\* Mutation: room for the first error only.
CapacityOne == 1

\* Of the error channel.
Capacity == NumServices

\* The goroutine has returned: it called wg.Done.
Joined(i) == svc[i] \in {"stopped", "dropped", "reported"}
\* Start returned an error.
Failed(i) == svc[i] \notin {"running", "stopped"}

Init ==
    /\ svc = [i \in Service |-> "running"]
    /\ ctxDone = FALSE
    /\ interrupted = FALSE
    /\ appPc = "wait"
    /\ toStop = NumServices
    /\ closed = 0
    /\ errCh = {}
    /\ errs = {}
-----------------------------------------------------------------------------
(* The service goroutines.                                                 *)

Goto(i, from, to) == svc[i] = from /\ svc' = [svc EXCEPT ![i] = to]

\* Mutation: any service that ends takes the app down.
StartReturnsNilCancels(i) ==
    /\ Goto(i, "running", "stopped")
    /\ ctxDone' = TRUE
    /\ UNCHANGED <<interrupted, appVars>>

StartReturnsNil(i) ==
    /\ Goto(i, "running", "stopped")
    /\ UNCHANGED <<ctxDone, interrupted, appVars>>

StartFails(i) ==
    /\ Goto(i, "running", "returned")
    /\ UNCHANGED <<ctxDone, interrupted, appVars>>

\* The condition ctx.Err() == nil, read after Start has returned.
CheckCtx(i) ==
    /\ Goto(i, "returned", IF ctxDone THEN "dropped" ELSE "send")
    /\ UNCHANGED <<ctxDone, interrupted, appVars>>

\* errCh <- err: blocks while the buffer is full, which nobody empties before
\* all goroutines have returned; on a closed channel it panics.
SendError(i) ==
    /\ Goto(i, "send", "cancel")
    /\ IF appPc \in {"collect", "returned"}
         THEN appPc' = "panicked" /\ UNCHANGED errCh
         ELSE Cardinality(errCh) < Capacity /\ errCh' = errCh \cup {i} /\ UNCHANGED appPc
    /\ UNCHANGED <<ctxDone, interrupted, toStop, closed, errs>>

CancelOthers(i) ==
    /\ Goto(i, "cancel", "reported")
    /\ ctxDone' = TRUE
    /\ UNCHANGED <<interrupted, appVars>>

\* SIGINT, SIGTERM or the parent context: from outside App.
Interrupt ==
    /\ ~interrupted
    /\ interrupted' = TRUE
    /\ ctxDone' = TRUE
    /\ UNCHANGED <<svc, appVars>>
-----------------------------------------------------------------------------
(* Run itself.                                                             *)

\* <-ctx.Done()
BeginShutdown ==
    /\ appPc = "wait"
    /\ ctxDone
    /\ appPc' = "stop"
    /\ UNCHANGED <<svc, ctxDone, interrupted, toStop, closed, errCh, errs>>

\* Stop of the last service not yet stopped; its error is kept.
StopNext ==
    /\ appPc = "stop"
    /\ toStop > 0
    /\ errs' \in {errs, errs \cup {<<"stop", toStop>>}}
    /\ toStop' = toStop - 1
    /\ UNCHANGED <<svc, ctxDone, interrupted, appPc, closed, errCh>>

\* Mutation: Run does not wait for the goroutines.
WaitGoroutinesSkipped ==
    /\ appPc = "stop"
    /\ toStop = 0
    /\ appPc' = "close"
    /\ UNCHANGED <<svc, ctxDone, interrupted, toStop, closed, errCh, errs>>

\* wg.Wait()
WaitGoroutines ==
    /\ appPc = "stop"
    /\ toStop = 0
    /\ \A i \in Service : Joined(i)
    /\ appPc' = "close"
    /\ UNCHANGED <<svc, ctxDone, interrupted, toStop, closed, errCh, errs>>

CloseNext ==
    /\ appPc = "close"
    /\ closed < NumClosers
    /\ closed' = closed + 1
    /\ errs' \in {errs, errs \cup {<<"close", closed + 1>>}}
    /\ UNCHANGED <<svc, ctxDone, interrupted, appPc, toStop, errCh>>

\* close(errCh)
CloseErrCh ==
    /\ appPc = "close"
    /\ closed = NumClosers
    /\ appPc' = "collect"
    /\ UNCHANGED <<svc, ctxDone, interrupted, toStop, closed, errCh, errs>>

\* Mutation: only the first error is read from the channel.
CollectFirst ==
    /\ appPc = "collect"
    /\ appPc' = "returned"
    /\ errs' \in {errs \cup {<<"start", i>>} : i \in errCh} \cup {e \in {errs} : errCh = {}}
    /\ errCh' = {}
    /\ UNCHANGED <<svc, ctxDone, interrupted, toStop, closed>>

\* range errCh, then return: nil if errs is empty, their join otherwise.
Collect ==
    /\ appPc = "collect"
    /\ appPc' = "returned"
    /\ errs' = errs \cup {<<"start", i>> : i \in errCh}
    /\ errCh' = {}
    /\ UNCHANGED <<svc, ctxDone, interrupted, toStop, closed>>
-----------------------------------------------------------------------------
StartEnds(i) == StartReturnsNil(i) \/ StartFails(i)
Goroutine(i) == CheckCtx(i) \/ SendError(i) \/ CancelOthers(i)
Run == BeginShutdown \/ StopNext \/ WaitGoroutines \/ CloseNext \/ CloseErrCh \/ Collect

Next ==
    \/ Interrupt
    \/ \E i \in Service : StartEnds(i) \/ Goroutine(i)
    \/ Run

Spec == Init /\ [][Next]_vars

\* The scheduler runs every goroutine and Run; Stop and Close return.
AppFairness == WF_vars(Run) /\ \A i \in Service : WF_vars(Goroutine(i))
AppFairSpec == Spec /\ AppFairness

\* Services honour the context they are given: Start returns once it is done.
ServicesHonourCtx == \A i \in Service : WF_vars(ctxDone /\ StartEnds(i))
FairSpec == AppFairSpec /\ ServicesHonourCtx
-----------------------------------------------------------------------------
\* Every variable has its type; the stop loop stays within the services.
TypeOK ==
    /\ svc \in [Service -> SvcState]
    /\ ctxDone \in BOOLEAN
    /\ interrupted \in BOOLEAN
    /\ appPc \in {"wait", "stop", "close", "collect", "returned", "panicked"}
    /\ toStop \in 0..NumServices
    /\ closed \in 0..NumClosers
    /\ errCh \subseteq Service
    /\ errs \subseteq ({"stop", "start"} \X Service) \cup ({"close"} \X Closer)

\* No goroutine sends on the closed error channel.
NoPanic == appPc # "panicked"

\* No goroutine waits for room in the channel: nobody would make it.
SendsAtOnce == \A i \in Service : svc[i] = "send" => Cardinality(errCh) < Capacity

\* A service failure is never swallowed unless somebody asked for shutdown: if
\* Run returns after a Start failed, with no signal and no cancelled parent,
\* the error of a failed service is in what Run returns.
FailureReported ==
    appPc = "returned" /\ ~interrupted /\ (\E i \in Service : Failed(i))
      => \E i \in Service : Failed(i) /\ <<"start", i>> \in errs

\* Run returns exactly the start errors whose goroutine found the context
\* alive: none is lost in the channel and none is made up.
StartErrorsDelivered ==
    appPc = "returned" =>
      \A i \in Service : <<"start", i>> \in errs <=> svc[i] = "reported"

\* A closer never runs while a service does: metrics are pushed and resources
\* closed only after every Stop was called and every Start returned.
ClosersAfterServices ==
    closed > 0 => toStop = 0 /\ \A i \in Service : Joined(i)

\* Nobody shuts a healthy app down: the context is done only after an
\* interrupt or a service failure that will be in what Run returns.
ShutdownHasCause ==
    ctxDone => interrupted \/ \E i \in Service : svc[i] = "reported"

\* With services that honour their context, a cancelled app returns, and so
\* does one of which a single service failed.
ShutdownCompletes ==
    (ctxDone \/ \E i \in Service : Failed(i)) ~> appPc = "returned"

\* The same without any promise from the services: what the documentation of
\* WithShutdownTimeout, "the maximum time allowed for graceful shutdown",
\* makes of App on its own.
ShutdownIsBounded == ctxDone ~> appPc = "returned"
=============================================================================
