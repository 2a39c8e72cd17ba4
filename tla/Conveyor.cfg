\* All seven stages, one retry each, a tree of one source file and a Dockerfile.
SPECIFICATION Spec
CONSTANTS
    File = {src, df}
    Tracked = {src, df}
    Content = {old, new}
    Absent = Absent
    Dockerfile = df
    CheckWorkflow = TRUE
    Targets = {"compose", "k8s"}
    Checked = TRUE
    HasRecoverer = TRUE
    MaxRetries = 1
    MaxStarts = 2
    NoImage = NoImage
INVARIANTS
    TypeOK
    ShippedIsTested
    ShippedOnce
    EarlierRepairsSurvive
CHECK_DEADLOCK FALSE
