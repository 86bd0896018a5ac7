CONSTANTS
    Starts <- MCForeign
    MaxRuns = 1
    MaxMoves = 1
SPECIFICATION Spec
INVARIANT ForeignUntouched
