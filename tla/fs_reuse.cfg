SPECIFICATION Spec
CONSTANTS
    TotalBlocks = 6
    FatBlocks = 1
    EntriesPerBlock = 6
    Operations = {"allocate", "release"}
    MaxRequest = 2
    Faults = {}
    Misused = {}
INVARIANTS NoLostBlocks
