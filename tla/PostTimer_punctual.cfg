\* The core thread handles a timer's function before the next period is over.
SPECIFICATION Spec
CONSTANTS
    NumMessages = 3
    Rate = 3
    MaxTimers = 2
    MaxBacklog = 1
INVARIANTS
    NoTimerLeaks
    PostedOnceAtATime
CHECK_DEADLOCK FALSE
