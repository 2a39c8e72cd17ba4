----------------------------- MODULE HealthCheck -----------------------------
(***************************************************************************)
(* The health-check stage: poll a URL until it answers 2xx, the deadline   *)
(* passes or the pipeline is cancelled.  Time is counted in ticks; code    *)
(* that does not wait takes no time.  A request is given up by the client  *)
(* after one interval, and does not know the context.                      *)
(***************************************************************************)
EXTENDS Integers

CONSTANTS
    Timeout,            \* DEPLOY_HEALTH_TIMEOUT; may be zero or negative
    RawInterval,        \* DEPLOY_HEALTH_INTERVAL as configured
    DefaultInterval     \* what a non-positive interval is replaced by

ASSUME HealthCheckAssumption ==
    /\ Timeout \in Int
    /\ RawInterval \in Int
    /\ DefaultInterval \in Nat \ {0}

\* Mutation: a non-positive interval is used as it is.
IntervalUnclamped == RawInterval

Interval == IF RawInterval <= 0 THEN DefaultInterval ELSE RawInterval

VARIABLES
    pc,         \* where Run is, or how it returned
    now,        \* ticks since the stage started
    began,      \* when the current request or pause began
    ctxDone,    \* the pipeline context is cancelled
    doneAt,     \* when it was cancelled
    up,         \* the service answers 2xx in time, from upAt on
    upAt,
    pollUp      \* the service was up when the current request was sent

vars == <<pc, now, began, ctxDone, doneAt, up, upAt, pollUp>>
service == <<up, upAt>>

Deadline == Timeout
Returned == {"healthy", "cancelled", "timedout"}

Init ==
    /\ pc = "poll"
    /\ now = 0
    /\ began = 0
    /\ ctxDone = FALSE
    /\ doneAt = 0
    /\ up \in BOOLEAN
    /\ upAt = 0
    /\ pollUp = up

\* A 2xx reply ends the stage, whatever the clock and the context say.
PollSucceeds ==
    /\ pc = "poll"
    /\ pc' = "healthy"
    /\ UNCHANGED <<now, began, ctxDone, doneAt, service, pollUp>>

\* Another status, a refused connection, or no answer within the client's
\* timeout.
PollFails ==
    /\ pc = "poll"
    /\ ~pollUp
    /\ pc' = "checkContext"
    /\ UNCHANGED <<now, began, ctxDone, doneAt, service, pollUp>>

CheckContext ==
    /\ pc = "checkContext"
    /\ pc' = IF ctxDone THEN "cancelled" ELSE "checkDeadline"
    /\ UNCHANGED <<now, began, ctxDone, doneAt, service, pollUp>>

\* Mutation: gives up when the next poll would come after the deadline.
ExpiredEarly == now + Interval > Deadline

\* Mutation: the deadline is counted anew from the last poll.
ExpiredSliding == now > began + Interval + Deadline

Expired == now > Deadline

CheckDeadline ==
    /\ pc = "checkDeadline"
    /\ pc' = IF Expired THEN "timedout" ELSE "pause"
    /\ began' = now
    /\ UNCHANGED <<now, ctxDone, doneAt, service, pollUp>>

\* time.After fires and the next request is sent.
NextPoll ==
    /\ pc = "pause"
    /\ now = began + Interval
    /\ pc' = "poll"
    /\ began' = now
    /\ pollUp' = up
    /\ UNCHANGED <<now, ctxDone, doneAt, service>>

\* Mutation: the pause is a plain sleep.
PauseSleeps == FALSE

\* The pause selects on the context as well as on the timer.
PauseCut == ctxDone

PauseCancelled ==
    /\ pc = "pause"
    /\ PauseCut
    /\ pc' = "cancelled"
    /\ UNCHANGED <<now, began, ctxDone, doneAt, service, pollUp>>

Run ==
    \/ PollSucceeds
    \/ PollFails
    \/ CheckContext
    \/ CheckDeadline
    \/ NextPoll
    \/ PauseCancelled

\* Time passes while Run waits: for a reply, at most until the client gives
\* up; in a pause, until the timer fires or the context is done.
Tick ==
    /\ \/ pc = "poll"
       \/ pc = "pause" /\ ~PauseCut
    /\ now < began + Interval
    /\ now' = now + 1
    /\ UNCHANGED <<pc, began, ctxDone, doneAt, service, pollUp>>

\* SIGINT or SIGTERM.
Cancel ==
    /\ pc \notin Returned
    /\ ~ctxDone
    /\ ctxDone' = TRUE
    /\ doneAt' = now
    /\ UNCHANGED <<pc, now, began, service, pollUp>>

\* The deployed service becomes healthy, and stays so.
ServiceUp ==
    /\ pc \notin Returned
    /\ ~up
    /\ up' = TRUE
    /\ upAt' = now
    /\ UNCHANGED <<pc, now, began, ctxDone, doneAt, pollUp>>

Next == Run \/ Tick \/ Cancel \/ ServiceUp

Spec == Init /\ [][Next]_vars

\* Time passes, a reply arrives or the client gives up, timers fire.
FairSpec == Spec /\ WF_vars(Run \/ Tick)
-----------------------------------------------------------------------------
\* Every variable has its type; no request or pause began in the future.
TypeOK ==
    /\ pc \in {"poll", "checkContext", "checkDeadline", "pause"} \cup Returned
    /\ now \in Nat
    /\ began \in 0..now
    /\ ctxDone \in BOOLEAN
    /\ doneAt \in 0..now
    /\ up \in BOOLEAN
    /\ upAt \in 0..now
    /\ pollUp \in BOOLEAN

Budget == (IF Timeout > 0 THEN Timeout ELSE 0) + 2 * Interval

\* The stage lasts at most the timeout, one pause begun just before it and
\* one request: the deploy job cannot hang on a service that never answers.
BoundedWait == now <= Budget

\* A deployment that is healthy one interval before the deadline, and stays
\* so, is never declared failed, whatever its earlier polls cost: otherwise a
\* good deployment would be rolled back.
NoFalseTimeout == pc = "timedout" /\ up => upAt > Deadline - Interval

\* A signal ends the stage within one interval.
PromptCancel == ctxDone => now <= doneAt + Interval

\* The stage returns.
Terminates == <>(pc \in Returned)
=============================================================================
