SPECIFICATION Spec
CONSTANTS
    Files = {"a", "b"}
    BlockBytes = 2
    MaxFcbs = 3
    VolumeBlocks = 4
    MaxBytes = 3
    Modes <- WriteOnly
    Shared = FALSE
    Seekers <- NoModes
    Removals = FALSE
INVARIANTS ContentKept
