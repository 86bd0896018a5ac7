CONSTANTS
    Starts <- MCStarts
    MaxRuns = 2
    MaxMoves = 2
SPECIFICATION Spec
INVARIANTS CommitIsOutput EditsKept AbortShows MorningIsHonest LockReleased
PROPERTY OthersCommitsKept
