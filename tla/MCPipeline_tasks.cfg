SPECIFICATION FairSpec
CONSTANTS
    NPollers = 2
    Capacity = 1
    MaxResources = 2
    Ids = {0}
    Configs <- AllConfigs
    EarlyClock = TRUE
    NoBatch = NoBatch
INVARIANTS TypeOK SlotsAccounted NeverSpins
PROPERTIES SendCompletes DeathReported ClosedEndsProcess
