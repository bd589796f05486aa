SPECIFICATION FairLedgerSpec
CONSTANTS
    NPollers = 2
    Capacity = 1
    MaxResources = 2
    MaxPolls = 2
    Ids = {1, 2}
    Configs <- AllConfigs
    EarlyClock = TRUE
    NoBatch = NoBatch
INVARIANTS NothingLost ReceivedInOrder OvertakenOnce
PROPERTIES ImplementsDelivery
