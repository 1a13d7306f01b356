SPECIFICATION HSpec
CONSTANTS
    TotalBlocks = 6
    FatBlocks = 1
    EntriesPerBlock = 6
    Operations = {"allocate", "extend", "release"}
    MaxRequest = 3
    Faults = {}
    Misused <- StaleLocations
INVARIANTS HInv
PROPERTIES CallsAreAtomic
