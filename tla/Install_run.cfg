CONSTANTS
    Main = Main
    Linked = Linked
    Kits = {1, 2}
    Starts <- MCStarts
    Edits <- MCEdits
    Repoints <- MCRepoints
    Absent = Absent
    Own = Own
    Kit = Kit
    Link = Link
    Broken = Broken
    Odd = Odd
    Stale = Stale
    Foreign = Foreign
    MaxRuns = 3
    MaxMoves = 2
SPECIFICATION Spec
INVARIANTS RunsSound CommitsClean FailsForCause
PROPERTY OwnerKeptButPair
CHECK_DEADLOCK FALSE
