\* Three appends of one or two units, lines of two units at most, prompts of
\* one example.
SPECIFICATION FairSpec
CONSTANTS
    MaxAppends = 3
    Sizes = {1, 2}
    MaxLine = 2
    PromptLimit = 1
INVARIANTS
    PageHonest
    LossIsBounded
    PromptIsFresh
    GracefulExit
PROPERTIES
    Exits
CHECK_DEADLOCK FALSE
