SPECIFICATION TSpec
CONSTANTS
    TotalBlocks = 10
    FatBlocks = 1
    EntriesPerBlock = 10
    MaxEntries = 4
    RootBlocks = 3
    DirBlocks = 2
    Operations = {"mkdir", "rm", "create", "cd"}
    Paths <- DeepPaths
    Crashes = TRUE
    Misused = {}
INVARIANTS ParentLinks NoSharedBlocks IInv
PROPERTIES NameSpaceSpec
