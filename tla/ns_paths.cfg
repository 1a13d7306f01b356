SPECIFICATION TSpec
CONSTANTS
    TotalBlocks = 9
    FatBlocks = 1
    EntriesPerBlock = 9
    MaxEntries = 4
    RootBlocks = 3
    DirBlocks = 2
    Operations = {"mkdir", "rm", "create", "store", "move", "cd"}
    Paths <- PlainPaths
    Crashes = FALSE
    Misused = {}
INVARIANTS CacheCoherent EntriesHold CwdFaithful SizesKept NoSharedBlocks CopiesFit LongListFaithful TInv
PROPERTIES NameSpaceSpec
