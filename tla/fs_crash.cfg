SPECIFICATION CSpec
CONSTANTS
    TotalBlocks = 6
    FatBlocks = 1
    EntriesPerBlock = 6
    Operations = {"allocate", "release"}
    MaxRequest = 4
    Faults = {"write", "crash"}
    Misused = {}
INVARIANTS TailUntilTorn ContiguousUntilTorn CInv
