\* A signal during a failing pipeline: three stages, one retry.
SPECIFICATION Spec
CONSTANTS
    NumStages = 3
    HasRecoverer = TRUE
    MaxRetries = 1
INVARIANT
    ExitCodeReflectsResult
CHECK_DEADLOCK FALSE
