SPECIFICATION Spec
CONSTANTS
    Ids = {1, 2}
    Lengths = {1}
    MaxBlock = 2
    BlockSize = 1
    MaxUpdates = 2
    MaxRewrites = 1
    MaxCrashes = 2
INVARIANTS
    HeadersHaveData
    RepairedWhenLoaded
    SearchFinds
PROPERTIES
    IndexIsAFile
CHECK_DEADLOCK FALSE
