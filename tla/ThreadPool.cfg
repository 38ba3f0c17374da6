\* Two workers, three closures, two of them with an id; fair workers.
SPECIFICATION FairSpec
CONSTANTS
    Workers = {w1, w2}
    t1 = t1
    t2 = t2
    t3 = t3
    Tasks = {t1, t2, t3}
    id1 = id1
    NoId = NoId
    NoTask = NoTask
    IdOf <- MCIdOf
INVARIANTS
    ExactlyOnce
    WorkConserving
    DrainedWhenDestroyed

PROPERTIES
    EveryAcceptedTaskRuns
    DestructorReturnsOrMissed
CHECK_DEADLOCK FALSE
