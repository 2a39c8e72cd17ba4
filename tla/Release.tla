------------------------------ MODULE Release ------------------------------
(***************************************************************************)
(* What the last two stages promise about the live environment, each seen  *)
(* as one step: the abstract specification that Deploy implements and that *)
(* Conveyor composes with the runner.                                      *)
(***************************************************************************)
CONSTANTS
    Version,    \* what this pipeline may deploy
    Older,      \* what was deployed before
    None        \* nothing that is a whole version

VARIABLES
    target,     \* DEPLOY_TARGET
    at,         \* the stage that comes next, or how the two have ended
    live,       \* what the environment is told to run
    revisions   \* what a rollback may find in the release's history

vars == <<target, at, live, revisions>>

Init ==
    /\ target \in {"compose", "k8s"}
    /\ at = "deploy"
    /\ live \in Older \cup {None}
    /\ revisions \subseteq Older \cup {None}
    /\ None \in revisions

\* What a rollback leaves: what it finds, where it fails; or else nothing
\* (compose), an earlier revision or what its reference names by now (helm).
RolledBack(named) ==
    {live} \cup (IF target = "k8s" THEN revisions \cup {named} ELSE {None})

\* v is deployed.
Installs(v) ==
    /\ live' = v
    /\ revisions' = revisions \cup {v}

\* The deployment of v is rolled back, as far as that succeeds; the command
\* may have left what ran before.
InstallFails(v, named) ==
    /\ live' \in RolledBack(named) \cup {v}
    /\ revisions' = revisions \cup {v}

\* What was deployed is rolled back, as far as that succeeds.
Withdraws(named) ==
    /\ live' \in RolledBack(named)
    /\ UNCHANGED revisions

DeployPasses == at = "deploy" /\ at' = "health" /\ \E v \in Version : Installs(v)

DeployFails == at = "deploy" /\ at' = "failed" /\ \E v \in Version : InstallFails(v, v)

HealthPasses == at = "health" /\ at' = "ok" /\ UNCHANGED <<live, revisions>>

HealthFails == at = "health" /\ at' = "failed" /\ Withdraws(live)

Next ==
    /\ DeployPasses \/ DeployFails \/ HealthPasses \/ HealthFails
    /\ UNCHANGED target

Spec == Init /\ [][Next]_vars
=============================================================================
