SPECIFICATION FairSpec
CONSTANTS
    TotalBlocks = 6
    FatBlocks = 1
    EntriesPerBlock = 6
    Operations = {"allocate", "extend", "release"}
    MaxRequest = 2
    Faults = {"write"}
    Misused = {}
INVARIANTS ChainsComplete
PROPERTIES CallsReturn
