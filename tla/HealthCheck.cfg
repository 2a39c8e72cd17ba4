\* A timeout of five ticks, an interval left unset that defaults to three.
SPECIFICATION FairSpec
CONSTANTS
    Timeout = 5
    RawInterval = 0
    DefaultInterval = 3
INVARIANTS
    BoundedWait
    NoFalseTimeout
    PromptCancel
PROPERTIES
    Terminates
CHECK_DEADLOCK FALSE
