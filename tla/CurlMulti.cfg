\* One protocol request and two ordinary ones, one handle, one control; fair threads and curl.
SPECIFICATION FairSpec
CONSTANTS
    ProtocolTasks = {p1}
    OrdinaryTasks = {o1, o2}
    Tasks <- MCTasks
    Priority <- MCPriority
    Protocol = 2
    MaxEasy = 1
    MaxControls = 1
    NoTask = NoTask
INVARIANTS
    OnePlaceOneAnswer
    CleanupCompletes
PROPERTIES
    HigherPriorityFirst
    EveryTaskCompleted
    CleanupReturnsOrMissed
CHECK_DEADLOCK FALSE
