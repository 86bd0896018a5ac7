CONSTANTS
    Pids = {p1, p2, p3}
    NoPid = NoPid
    MaxEnters = 1
SPECIFICATION FairSpec
INVARIANTS ExclusionUnlessRaced OwnerKeepsFile
PROPERTIES EnterReturns DeadHolderFreed ImplementsMutex
CHECK_DEADLOCK FALSE
