SPECIFICATION FairSpec
CONSTANTS
    f1 = f1
    p1 = p1
    a1 = a1
    a2 = a2
    b1 = b1
    fetch = fetch
    protocol = protocol
    top = top
    low = low
    Tasks <- MCTasks
    Loops = {fetch, protocol}
    Pools <- MCPools
    Width <- MCWidth
    Lane <- MCLane
    Follow <- MCFollow
    NoTask = NoTask
INVARIANTS
    InOnePlace
    NothingLeftBehind
PROPERTIES
    EveryRequestCompleted
    CleanupReturnsOrMissed
CHECK_DEADLOCK FALSE
