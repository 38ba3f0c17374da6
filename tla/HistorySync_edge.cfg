\* Messages cleared up to an id, the dialog opened once.
SPECIFICATION Spec
CONSTANTS
    Stored = 1
    Tails = {1}
    PageSize = 2
    MaxRecursion = 6
    Budgets <- Clearing
INVARIANTS
    ClearedIsGone
CHECK_DEADLOCK FALSE
