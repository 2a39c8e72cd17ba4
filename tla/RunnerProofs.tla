---------------------------- MODULE RunnerProofs ----------------------------
(***************************************************************************)
(* The invariants of Runner hold for every number of stages, every retry   *)
(* limit (negative ones included), with and without a Recoverer.           *)
(***************************************************************************)
EXTENDS Runner, TLAPS

\* What is known of a stage that has passed, and of one not reached yet.
Passed(s) == okSeen[s] = 1 /\ offered[s] = failSeen[s]
Untouched(s) == okSeen[s] = 0 /\ offered[s] = 0 /\ failSeen[s] = 0

\* What is known of the stage the runner stands at, in each phase.
Current ==
    /\ phase = "run" =>
         /\ stage \in Stage
         /\ okSeen[stage] = 0
         /\ offered[stage] = attempt
         /\ failSeen[stage] = attempt
    /\ phase = "recover" =>
         /\ stage \in Stage
         /\ okSeen[stage] = 0
         /\ CanRecover
         /\ offered[stage] = attempt + 1
         /\ failSeen[stage] = attempt + 1
    /\ phase = "error" =>
         /\ stage \in Stage
         /\ okSeen[stage] = 0
         /\ failSeen[stage] > 0
         /\ ErrorIsEarned
    /\ phase = "ok" => \A s \in Stage : s >= stage => s = stage /\ Passed(s)

\* The invariants are not inductive alone: the counters of the current stage
\* have to be tied to the loop counter, those of the other stages to their
\* side of the current one.
IInv ==
    /\ TypeOK
    /\ Current
    /\ \A s \in Stage : s < stage => Passed(s)
    /\ \A s \in Stage : s > stage => Untouched(s)

\* The budget is a natural number, and the loop guard keeps within it.
LEMMA BudgetBound == Budget \in Nat /\ \A n \in Int : HasRecoverer /\ n < MaxRetries /\ n >= 0 => n + 1 <= Budget
BY RunnerAssumption DEF Budget

\* Outside the guard the budget is used up exactly.
LEMMA BudgetSpent == \A n \in 0..Budget : ~(HasRecoverer /\ n < MaxRetries) => n = Budget
BY RunnerAssumption DEF Budget

LEMMA InitHolds == Init => IInv
BY RunnerAssumption, BudgetBound
DEF Init, IInv, TypeOK, Current, Passed, Untouched, ErrorIsEarned, CanRecover, Stage

\* The inductive step, one case per action.
LEMMA StepHolds == IInv /\ [Next]_vars => IInv'
<1> SUFFICES ASSUME IInv, [Next]_vars PROVE IInv'
  OBVIOUS
<1> USE RunnerAssumption, BudgetBound DEF Stage
<1>1. CASE StageSucceeds
  <2>1. TypeOK'
    BY <1>1 DEF StageSucceeds, IInv, TypeOK, Current
  <2>2. Current'
    BY <1>1 DEF StageSucceeds, IInv, TypeOK, Current, Passed, Untouched
  <2>3. (\A s \in Stage : s < stage => Passed(s))'
    BY <1>1 DEF StageSucceeds, IInv, TypeOK, Current, Passed
  <2>4. (\A s \in Stage : s > stage => Untouched(s))'
    BY <1>1 DEF StageSucceeds, IInv, TypeOK, Current, Untouched
  <2> QED BY <2>1, <2>2, <2>3, <2>4 DEF IInv
<1>2. CASE StageFails
  <2>1. stage \in Stage /\ attempt \in 0..Budget /\ failSeen[stage] = attempt /\ offered[stage] = attempt
    BY <1>2 DEF StageFails, IInv, TypeOK, Current
  <2>2. CASE CanRecover
    <3>0. attempt + 1 <= Budget
      BY <2>1, <2>2 DEF CanRecover
    <3>1. TypeOK'
      <4>1. failSeen' = [failSeen EXCEPT ![stage] = attempt + 1]
        BY <1>2, <2>1 DEF StageFails
      <4>2. offered' = [offered EXCEPT ![stage] = attempt + 1] /\ phase' = "recover"
        BY <1>2, <2>1, <2>2 DEF StageFails
      <4>3. failSeen' \in [Stage -> 0..(Budget + 1)]
        BY <2>1, <4>1 DEF IInv, TypeOK
      <4>4. offered' \in [Stage -> 0..Budget]
        BY <2>1, <3>0, <4>2 DEF IInv, TypeOK
      <4> QED BY <1>2, <4>2, <4>3, <4>4 DEF StageFails, IInv, TypeOK
    <3>2. Current'
      BY <1>2, <2>1, <2>2 DEF StageFails, IInv, TypeOK, Current, CanRecover
    <3>3. stage' = stage /\ okSeen' = okSeen
          /\ \A s \in Stage \ {stage} : failSeen'[s] = failSeen[s] /\ offered'[s] = offered[s]
      BY <1>2, <2>1 DEF StageFails, IInv, TypeOK
    <3>4. (\A s \in Stage : s < stage => Passed(s))'
      BY <2>1, <3>3 DEF IInv, Passed, Stage
    <3>5. (\A s \in Stage : s > stage => Untouched(s))'
      BY <2>1, <3>3 DEF IInv, Untouched, Stage
    <3> QED BY <3>1, <3>2, <3>4, <3>5 DEF IInv
  <2>3. CASE ~CanRecover
    <3>1. attempt = Budget
      BY <2>1, <2>3, BudgetSpent DEF CanRecover
    <3>2. TypeOK'
      BY <1>2, <2>1, <2>3 DEF StageFails, IInv, TypeOK
    <3>3. Current'
      BY <1>2, <2>1, <2>3, <3>1 DEF StageFails, IInv, TypeOK, Current, ErrorIsEarned
    <3> QED BY <1>2, <2>1, <2>3, <3>2, <3>3 DEF StageFails, IInv, TypeOK, Passed, Untouched
  <2> QED BY <2>2, <2>3
<1>3. CASE RecovererFixes
  BY <1>3 DEF RecovererFixes, IInv, TypeOK, Current, Passed, Untouched, CanRecover
<1>4. CASE RecovererGivesUp
  BY <1>4 DEF RecovererGivesUp, IInv, TypeOK, Current, Passed, Untouched, CanRecover, ErrorIsEarned
<1>5. CASE UNCHANGED vars
  BY <1>5 DEF vars, IInv, TypeOK, Current, Passed, Untouched, CanRecover, ErrorIsEarned
<1> QED BY <1>1, <1>2, <1>3, <1>4, <1>5 DEF Next

THEOREM InductiveInvariant == Spec => []IInv
BY InitHolds, StepHolds, PTL DEF Spec

\* Type correctness: attempts and counters stay within the retry budget.
THEOREM TypeCorrect == Spec => []TypeOK
<1>1. IInv => TypeOK
  BY DEF IInv
<1> QED BY <1>1, InductiveInvariant, PTL

\* The outcome of a run can be read off the stage metrics: see
\* OutcomeMatchesMetrics in Runner.
THEOREM MetricsTellOutcome == Spec => []OutcomeMatchesMetrics
<1>1. IInv => OutcomeMatchesMetrics
  BY RunnerAssumption DEF IInv, TypeOK, Current, Passed, Untouched, OutcomeMatchesMetrics, Stage
<1> QED BY <1>1, InductiveInvariant, PTL

\* Run returns an error only with its budget spent or after a refusal.
THEOREM NoEarlyFailure == Spec => []ErrorIsEarned
<1>1. IInv => ErrorIsEarned
  BY DEF IInv, Current, ErrorIsEarned
<1> QED BY <1>1, InductiveInvariant, PTL

\* A passed stage was offered for recovery exactly as often as it failed.
THEOREM OneRecoveryPerFailure == Spec => []RecoveryPerFailure
<1>1. IInv => RecoveryPerFailure
  BY RunnerAssumption DEF IInv, TypeOK, Current, Passed, Untouched, RecoveryPerFailure, Stage
<1> QED BY <1>1, InductiveInvariant, PTL
=============================================================================
