SPECIFICATION Spec
CONSTANTS
    PageLimit = 2
    MaxPages = 3
    MaxChain = 2
    MaxFaults = 1
    FirstIndexed = {TRUE}
INVARIANTS NotReadyWhileReconnecting
CHECK_DEADLOCK FALSE
