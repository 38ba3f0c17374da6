\* Two ordinary packets, one asynchronous, one session packet; fair threads.
SPECIFICATION FairSpec
CONSTANTS
    Ordinary = {p1, p2}
    Async = {n1}
    Sessions = {s1}
    Packets <- MCPackets
    RepeatCount = 2
INVARIANTS
    NeverStranded
    OneByOneInOrder
    CanceledWasNeverSent
CHECK_DEADLOCK FALSE
PROPERTIES
    Implements
    EveryPacketAnswered
