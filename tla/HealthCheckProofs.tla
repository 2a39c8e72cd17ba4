-------------------------- MODULE HealthCheckProofs --------------------------
(***************************************************************************)
(* The time bounds of the health check for every timeout and interval,     *)
(* zero and negative ones included.                                        *)
(***************************************************************************)
EXTENDS HealthCheck, TLAPS

\* Where the current wait stands: it began when the deadline had not passed
\* (or at the start), and lasts at most one interval.
WaitInv ==
    /\ now <= began + Interval
    /\ pc = "pause" => began <= Deadline
    /\ pc \in {"poll", "checkContext", "checkDeadline"} => began = 0 \/ began <= Deadline + Interval
    /\ pc \in Returned => now <= Budget

\* A request that found the service down was sent before it came up.
ServiceInv ==
    /\ pollUp => up
    /\ pc \in {"checkContext", "checkDeadline"} => ~pollUp
    /\ pc \in {"poll", "checkContext", "checkDeadline"} /\ up /\ ~pollUp => began <= upAt
    /\ NoFalseTimeout

\* From the signal on at most the rest of the current request is waited for.
CancelInv == ctxDone => /\ pc \in {"poll", "checkContext"} => began <= doneAt
                        /\ now <= doneAt + Interval
                        /\ pc \in {"checkDeadline", "pause", "timedout"} => now = doneAt

IInv == TypeOK /\ WaitInv /\ ServiceInv /\ CancelInv

\* The clamp makes the interval a positive number of ticks.
LEMMA IntervalPositive == Interval \in Nat \ {0}
BY HealthCheckAssumption DEF Interval

LEMMA InitHolds == Init => IInv
<1> SUFFICES ASSUME Init PROVE IInv
  OBVIOUS
<1>1. TypeOK
  <2>1. now \in Nat /\ began \in 0..now /\ doneAt \in 0..now /\ upAt \in 0..now
    BY DEF Init
  <2>2. up \in BOOLEAN /\ pollUp \in BOOLEAN /\ ctxDone \in BOOLEAN
    BY Zenon DEF Init
  <2> QED BY <2>1, <2>2 DEF Init, TypeOK
<1>2. WaitInv
  BY IntervalPositive DEF Init, WaitInv, Returned
<1>3. ServiceInv
  BY DEF Init, ServiceInv, NoFalseTimeout
<1>4. CancelInv
  BY DEF Init, CancelInv
<1> QED BY <1>1, <1>2, <1>3, <1>4 DEF IInv

\* The inductive step, one case per action.
LEMMA StepHolds == IInv /\ [Next]_vars => IInv'
<1> SUFFICES ASSUME IInv, [Next]_vars PROVE IInv'
  OBVIOUS
<1> USE HealthCheckAssumption, IntervalPositive
    DEF IInv, TypeOK, WaitInv, ServiceInv, CancelInv, NoFalseTimeout, Returned, service, Deadline, Budget
<1>1. CASE PollSucceeds
  BY <1>1 DEF PollSucceeds
<1>2. CASE PollFails
  BY <1>2 DEF PollFails
<1>3. CASE CheckContext
  BY <1>3 DEF CheckContext
<1>4. CASE CheckDeadline
  <2>1. TypeOK' /\ UNCHANGED <<now, ctxDone, doneAt, up, upAt, pollUp>>
    BY <1>4 DEF CheckDeadline
  <2>2. CASE now > Deadline
    BY <1>4, <2>1, <2>2 DEF CheckDeadline, Expired
  <2>3. CASE ~(now > Deadline)
    BY <1>4, <2>1, <2>3 DEF CheckDeadline, Expired
  <2> QED BY <2>2, <2>3
<1>5. CASE NextPoll
  BY <1>5 DEF NextPoll
<1>6. CASE PauseCancelled
  BY <1>6 DEF PauseCancelled
<1>7. CASE Tick
  BY <1>7 DEF Tick, PauseCut
<1>8. CASE Cancel
  BY <1>8 DEF Cancel
<1>9. CASE ServiceUp
  BY <1>9 DEF ServiceUp
<1>10. CASE UNCHANGED vars
  BY <1>10 DEF vars
<1> QED BY <1>1, <1>2, <1>3, <1>4, <1>5, <1>6, <1>7, <1>8, <1>9, <1>10 DEF Next, Run

THEOREM InductiveInvariant == Spec => []IInv
BY InitHolds, StepHolds, PTL DEF Spec

\* Type correctness of the health check.
THEOREM TypeCorrect == Spec => []TypeOK
<1>1. IInv => TypeOK
  BY DEF IInv
<1> QED BY <1>1, InductiveInvariant, PTL

\* The stage takes at most its timeout and two intervals.
THEOREM StageIsBounded == Spec => []BoundedWait
<1>1. IInv => BoundedWait
  BY HealthCheckAssumption, IntervalPositive
  DEF IInv, TypeOK, WaitInv, BoundedWait, Budget, Deadline, Returned
<1> QED BY <1>1, InductiveInvariant, PTL

\* A service up one interval before the deadline is never given up on.
THEOREM HealthyServiceIsSeen == Spec => []NoFalseTimeout
<1>1. IInv => NoFalseTimeout
  BY DEF IInv, ServiceInv
<1> QED BY <1>1, InductiveInvariant, PTL

\* A signal ends the stage within one interval.
THEOREM CancelIsPrompt == Spec => []PromptCancel
<1>1. IInv => PromptCancel
  BY DEF IInv, CancelInv, PromptCancel
<1> QED BY <1>1, InductiveInvariant, PTL
=============================================================================
