\* Two tracked files and an untracked one, two contents, two model calls of up
\* to two tool calls each, with triage.
SPECIFICATION FairSpec
CONSTANTS
    f1 = f1
    f2 = f2
    u = u
    File <- MCFile
    Tracked <- MCTracked
    Content = {old, new}
    Absent = Absent
    Triaged = TRUE
    MaxIterations = 2
    MaxToolCalls = 2
    MaxParts = 4
INVARIANTS
    TypeOK
    FailedRepairRestored
    ModelBudget
    HistoryIsOfVerifiedFixes
    UntrackedSurvive
    ReplyReadAsMeant
PROPERTIES
    CancelEndsRecovery
    RepairImplemented
CHECK_DEADLOCK FALSE
