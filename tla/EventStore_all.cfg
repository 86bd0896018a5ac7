CONSTANTS
    h1 = h1
    h2 = h2
    h3 = h3
    old = old
    new = new
    NoName = NoName
    Nobody = Nobody
    Procs = {p1, p2}
    Handoffs = {h2}
    Workstreams <- MCWorkstreams
    Proposed <- MCProposed
    HasState <- MCHasState
    FirstPages <- MCFirstPages
    Running = {"handoff", "apply", "dispose", "build", "capture", "count"}
    MaxRuns = 3
    MaxFaults = 2
    MaxKills = 1
    RestoreMayFail = TRUE
SYMMETRY ProcSymmetry
SPECIFICATION Spec
INVARIANTS BlocksRecorded ProjectionFresh
PROPERTY ImplementsLedger
CHECK_DEADLOCK FALSE
