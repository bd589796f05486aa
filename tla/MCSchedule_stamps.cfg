SPECIFICATION Spec
CONSTANTS
    Period = 240
    Offsets <- SomeOffsets
    Busy = {1, 45}
    Late = {0, 7}
    MaxPolls = 3
INVARIANTS StampsAligned
