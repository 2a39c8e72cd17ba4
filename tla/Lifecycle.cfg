\* Three services, one closer.
SPECIFICATION FairSpec
CONSTANTS
    NumServices = 3
    NumClosers = 1
INVARIANTS
    NoPanic
    StartErrorsDelivered
    ShutdownHasCause
PROPERTIES
    ShutdownCompletes
CHECK_DEADLOCK FALSE
