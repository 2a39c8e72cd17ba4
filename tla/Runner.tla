------------------------------- MODULE Runner -------------------------------
(***************************************************************************)
(* The deterministic runner of internal/pipeline: an ordered sequence of   *)
(* stages, each offered to an optional Recoverer when it fails.            *)
(*                                                                         *)
(* What a stage or a recovery does is left open here: a stage attempt      *)
(* succeeds or fails, a recovery asks for a re-run or gives up.  Conveyor  *)
(* composes the runner with concrete stages and recoveries.                *)
(***************************************************************************)
EXTENDS Integers

CONSTANTS
    NumStages,      \* len(r.Stages)
    HasRecoverer,   \* r.Recoverer # nil
    MaxRetries      \* r.MaxRetries; DEPLOY_MAX_RETRIES may make it negative

ASSUME RunnerAssumption ==
    /\ NumStages \in Nat
    /\ HasRecoverer \in BOOLEAN
    /\ MaxRetries \in Int

VARIABLES
    stage,      \* index of the stage being run
    attempt,    \* the loop counter of runStage
    phase,      \* where Run is; "ok" and "error" are its two ways to return
    okSeen,     \* per stage: attempts the Observer counted as ok
    failSeen,   \* per stage: attempts the Observer counted as failed
    offered     \* per stage: calls of Recoverer.Recover

vars == <<stage, attempt, phase, okSeen, failSeen, offered>>

Stage == 1..NumStages

\* What runStage can spend on recovering one stage.
Budget == IF HasRecoverer /\ MaxRetries > 0 THEN MaxRetries ELSE 0

Init ==
    /\ stage = 1
    /\ attempt = 0
    /\ phase = IF NumStages = 0 THEN "ok" ELSE "run"
    /\ okSeen = [s \in Stage |-> 0]
    /\ failSeen = [s \in Stage |-> 0]
    /\ offered = [s \in Stage |-> 0]

\* s.Run returns nil: the attempt is observed and the next stage starts.
StageSucceeds ==
    /\ phase = "run"
    /\ okSeen' = [okSeen EXCEPT ![stage] = @ + 1]
    /\ IF stage = NumStages
         THEN phase' = "ok" /\ UNCHANGED <<stage, attempt>>
         ELSE stage' = stage + 1 /\ attempt' = 0 /\ UNCHANGED phase
    /\ UNCHANGED <<failSeen, offered>>

\* Mutations: one retry too many, one too few.
CanRecoverOnceMore == HasRecoverer /\ attempt <= MaxRetries
CanRecoverOnceLess == HasRecoverer /\ attempt + 1 < MaxRetries

CanRecover == HasRecoverer /\ attempt < MaxRetries

\* Mutation: the Observer sees only the attempts that end the stage.
StageFailsUnobserved ==
    /\ phase = "run"
    /\ IF CanRecover
         THEN /\ phase' = "recover"
              /\ offered' = [offered EXCEPT ![stage] = @ + 1]
              /\ UNCHANGED failSeen
         ELSE /\ phase' = "error"
              /\ failSeen' = [failSeen EXCEPT ![stage] = @ + 1]
              /\ UNCHANGED offered
    /\ UNCHANGED <<stage, attempt, okSeen>>

\* s.Run returns an error: the attempt is observed, then either Recover is
\* called or Run returns the error.
StageFails ==
    /\ phase = "run"
    /\ failSeen' = [failSeen EXCEPT ![stage] = @ + 1]
    /\ \/ /\ CanRecover
          /\ phase' = "recover"
          /\ offered' = [offered EXCEPT ![stage] = @ + 1]
       \/ /\ ~CanRecover
          /\ phase' = "error"
          /\ UNCHANGED offered
    /\ UNCHANGED <<stage, attempt, okSeen>>

\* Mutation: a recovered stage counts as passed and is not run again.
RecovererFixesNoRerun ==
    /\ phase = "recover"
    /\ IF stage = NumStages
         THEN phase' = "ok" /\ UNCHANGED <<stage, attempt>>
         ELSE phase' = "run" /\ stage' = stage + 1 /\ attempt' = 0
    /\ UNCHANGED <<okSeen, failSeen, offered>>

\* Recover returns nil: the same stage runs again.
RecovererFixes ==
    /\ phase = "recover"
    /\ phase' = "run"
    /\ attempt' = attempt + 1
    /\ UNCHANGED <<stage, okSeen, failSeen, offered>>

\* Recover returns an error: Run returns it and later stages stay unrun.
RecovererGivesUp ==
    /\ phase = "recover"
    /\ phase' = "error"
    /\ UNCHANGED <<stage, attempt, okSeen, failSeen, offered>>

Next == StageSucceeds \/ StageFails \/ RecovererFixes \/ RecovererGivesUp

Spec == Init /\ [][Next]_vars
-----------------------------------------------------------------------------
\* Every variable has its type; the attempts stay within the retry budget.
TypeOK ==
    /\ stage \in 1..NumStages \cup {1}
    /\ attempt \in 0..Budget
    /\ phase \in {"run", "recover", "ok", "error"}
    /\ okSeen \in [Stage -> 0..1]
    /\ failSeen \in [Stage -> 0..(Budget + 1)]
    /\ offered \in [Stage -> 0..Budget]

\* The metrics tell the whole story of a run: Run returns nil only when every
\* stage was counted ok exactly once, and returns an error only when all
\* stages before the failing one were counted ok once, the failing one never
\* and at least once as failed, and no later stage was touched.
OutcomeMatchesMetrics ==
    /\ phase = "ok" => \A s \in Stage : okSeen[s] = 1
    /\ phase = "error" =>
         /\ stage \in Stage
         /\ failSeen[stage] > 0
         /\ \A s \in Stage : okSeen[s] = IF s < stage THEN 1 ELSE 0
         /\ \A s \in Stage : s > stage => failSeen[s] = 0 /\ offered[s] = 0

\* Run never gives up early: it returns an error only if it used up the
\* retries it has (none without a Recoverer or with MaxRetries <= 0), or if
\* the Recoverer refused, in which case the stage was not re-run after it.
ErrorIsEarned ==
    phase = "error" =>
      \/ offered[stage] = Budget /\ failSeen[stage] = Budget + 1
      \/ offered[stage] > 0 /\ failSeen[stage] = offered[stage]

\* Every failed attempt but the last is answered by exactly one recovery: a
\* stage that passed was offered to the Recoverer as often as it failed, so
\* no recovery is spent on a stage that did not fail and none is skipped.
RecoveryPerFailure ==
    \A s \in Stage : okSeen[s] = 1 => offered[s] = failSeen[s]
=============================================================================
