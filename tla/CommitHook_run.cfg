CONSTANTS
    h1 = h1
    h2 = h2
    a = a
    good = good
    old = old
    Handoffs = {h1, h2}
    Applies = {a}
    Stamp <- MCStamp
    Target <- MCTarget
    Fit = {good}
    Applied = Applied
    Corrupt = Corrupt
    Headless = Headless
    Absent = Absent
    Invalid = Invalid
    Crossed = Crossed
    Failed = Failed
    HandEdited = HandEdited
    Ledgers <- MCLedgers
    Epochs <- MCEpochs
    Texts <- MCTexts
    Heads <- MCHeads
    MaxMoves = 4
    MaxCommits = 2
SPECIFICATION Spec
INVARIANTS StoreSound ProjectionsFit
PROPERTY LogKeepsSessions
CHECK_DEADLOCK FALSE
