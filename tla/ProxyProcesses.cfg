SPECIFICATION FairSpec
CONSTANTS
    ForkMayFail = TRUE
    TermDuringForks = FALSE
    MaxTerm = 2
INVARIANTS
    NoOrphanLeft
    KillsOwnChildren
PROPERTY
    EndTogether
CHECK_DEADLOCK FALSE
