SPECIFICATION Spec
CONSTANTS
    Workers = {w1, w2}
    Bodies = {b1, b2}
    NoBody = none
    MaxId = 2
INVARIANTS
    FoundIsCurrent
    DeletedIsGone
