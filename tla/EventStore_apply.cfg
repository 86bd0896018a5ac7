CONSTANTS
    h1 = h1
    h2 = h2
    h3 = h3
    old = old
    new = new
    NoName = NoName
    Nobody = Nobody
    Procs = {p1, p2}
    Handoffs = {h1, h2, h3}
    Workstreams <- MCWorkstreams
    Proposed <- MCProposed
    HasState <- MCHasState
    FirstPages <- MCFirstPages
    Running = {"handoff", "apply", "dispose"}
    MaxRuns = 4
    MaxFaults = 1
    MaxKills = 0
    RestoreMayFail = FALSE
SYMMETRY ProcSymmetry
SPECIFICATION Spec
INVARIANTS AppliesHaveBlocks UnforcedIsFirst AppliesInOrder ReportsAreTrue
CHECK_DEADLOCK FALSE
