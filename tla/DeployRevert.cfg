\* A helm release with up to three revisions of two older versions.
SPECIFICATION Spec
CONSTANTS
    Targets = {"k8s"}
    OldVersions = {v1, v2}
    New = v3
    Down = Down
    Broken = Broken
    MaxRevisions = 3
INVARIANT
    RollbackRevertsTheChange
CHECK_DEADLOCK FALSE
