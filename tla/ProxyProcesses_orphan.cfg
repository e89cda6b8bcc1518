SPECIFICATION Spec
CONSTANTS
    ForkMayFail = FALSE
    TermDuringForks = TRUE
    MaxTerm = 2
INVARIANT
    NoOrphanLeft
CHECK_DEADLOCK FALSE
