\* A message deleted at any moment, with a crash; fair threads and network.
SPECIFICATION FairSpec
CONSTANTS
    NumMessages = 1
    Budgets <- Deletion
PROPERTIES
    EveryMessageSent
    StoreDrains
CHECK_DEADLOCK FALSE
