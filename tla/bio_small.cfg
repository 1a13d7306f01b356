SPECIFICATION Spec
CONSTANTS
    Files = {"a", "b"}
    BlockBytes = 2
    MaxFcbs = 2
    VolumeBlocks = 3
    MaxBytes = 2
    Modes <- SafeModes
    Shared = FALSE
    Seekers <- Readers
    Removals = TRUE
INVARIANTS IInv ContentKept ReadsFaithful PositionKept
