\* Five stages, two retries per stage.
SPECIFICATION Spec
CONSTANTS
    NumStages = 5
    HasRecoverer = TRUE
    MaxRetries = 2
INVARIANTS
    TypeOK
    OutcomeMatchesMetrics
    ErrorIsEarned
    RecoveryPerFailure
CHECK_DEADLOCK FALSE
