SPECIFICATION FairSpec
CONSTANTS
    TotalBlocks = 7
    FatBlocks = 2
    EntriesPerBlock = 4
    RootBlocks = 3
    Faults = {"table", "write", "crash"}
INVARIANTS RootIntact IInv
PROPERTIES FormatOnce MountEnds
