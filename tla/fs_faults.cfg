SPECIFICATION Spec
CONSTANTS
    TotalBlocks = 5
    FatBlocks = 1
    EntriesPerBlock = 5
    Operations = {"allocate", "release"}
    MaxRequest = 3
    Faults = {"read", "write", "crash"}
    Misused <- StaleLocations
INVARIANTS OwnedNotFree IInv
PROPERTIES NoDoubleGrant PoolSpec
