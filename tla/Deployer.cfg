\* Three stages, one retry.
SPECIFICATION FairSpec
CONSTANTS
    NumStages = 3
    HasRecoverer = TRUE
    MaxRetries = 1
INVARIANTS
    ExitTellsOutcome
    MetricsComplete
PROPERTIES
    Exits
CHECK_DEADLOCK FALSE
