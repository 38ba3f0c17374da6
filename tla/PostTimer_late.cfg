\* The core thread is late by more than a period.
SPECIFICATION Spec
CONSTANTS
    NumMessages = 1
    Rate = 2
    MaxTimers = 2
    MaxBacklog = 2
INVARIANTS
    TimerIsFree
CHECK_DEADLOCK FALSE
