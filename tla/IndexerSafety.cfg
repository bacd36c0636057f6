SPECIFICATION Spec
CONSTANTS
    PageLimit = 1
    MaxPages = 3
    MaxChain = 4
    MaxFaults = 2
    FirstIndexed = {TRUE, FALSE}
INVARIANTS TypeOK NothingSkipped NoLostWakeUp
PROPERTIES SourceAppendOnly
CHECK_DEADLOCK FALSE
