\* Messages in order, edited and deleted, with a crash.
SPECIFICATION Spec
CONSTANTS
    NumMessages = 2
    Budgets <- EditsAndOrder
INVARIANTS
    InsertsAreNew
    CreatedOnceInOrder
    NoMessageLost
    NoEditLost
    NoDeletionLost
    LoopsRunOnce
CHECK_DEADLOCK FALSE
