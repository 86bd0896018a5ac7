CONSTANTS
    Sources = {"s1", "s2"}
    Lists <- MCLists
    Contents = {"c1", "c2"}
    Absent = "absent"
    Torn = "torn"
    MaxRuns = 3
    MaxMoves = 2
SPECIFICATION Spec
INVARIANTS CapturesAreEvidence ErrorsHaveCause
CHECK_DEADLOCK FALSE
