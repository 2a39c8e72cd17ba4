\* Every environment of a few values per variable.
SPECIFICATION Spec
INVARIANTS
    NoSilentFlip
    FixersKeepTheirModel
    DeployWired
CHECK_DEADLOCK FALSE
