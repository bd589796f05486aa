SPECIFICATION Spec
CONSTANTS
    Period = 240
    Offsets <- SomeOffsets
    Busy = {1, 45, 250, 590}
    Late = {0, 7}
    MaxPolls = 5
INVARIANTS TypeOK WindowsSettled CaughtUp
PROPERTIES NoWindowSkipped FailureMadeUpFor
