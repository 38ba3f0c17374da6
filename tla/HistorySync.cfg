\* Messages missed, deletions, failures and crashes; fair threads and server.
SPECIFICATION FairSpec
CONSTANTS
    Stored = 1
    Tails = {1}
    PageSize = 2
    MaxRecursion = 6
    Budgets <- All
INVARIANTS
    LinksSound
    CompleteWhenOpened
    NothingDeletedShown
PROPERTIES
    EventuallyQuiet
CHECK_DEADLOCK FALSE
