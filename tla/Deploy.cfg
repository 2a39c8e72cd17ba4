\* Both targets, up to three revisions of two older versions.
SPECIFICATION FairSpec
CONSTANTS
    Targets = {"compose", "k8s"}
    OldVersions = {v1, v2}
    New = v3
    Down = Down
    Broken = Broken
    MaxRevisions = 3
INVARIANTS
    RolledBackIffFailed
    HelmRestoresReplaced
    ComposeOkIsNew
PROPERTIES
    RollbackTakesEffect
    ReleaseImplemented
CHECK_DEADLOCK FALSE
