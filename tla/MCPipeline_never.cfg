SPECIFICATION Spec
CONSTANTS
    NPollers = 1
    Capacity = 1
    MaxResources = 1
    Ids = {0}
    Configs <- TwoConfigs
    EarlyClock = FALSE
    NoBatch = NoBatch
INVARIANTS MergerNeverFinishes
