SPECIFICATION FairSpec
CONSTANTS
    PageLimit = 1
    MaxPages = 4
    MaxChain = 3
    MaxFaults = 2
    FirstIndexed = {TRUE}
PROPERTIES EveryTransactionArchived
CHECK_DEADLOCK FALSE
