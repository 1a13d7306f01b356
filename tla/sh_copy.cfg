SPECIFICATION Spec
CONSTANTS
    Files = {"a", "x"}
    Below = {"x"}
    BlockBytes = 3
    MaxFcbs = 2
    VolumeBlocks = 3
    Chunk = 2
    Texts <- MCTexts
    Absent = Absent
    Dead = Dead
    Crashes = TRUE
    Misused = {}
INVARIANTS StoreInv NothingLeftOpen
PROPERTIES StoreSpec CommandsReturn
