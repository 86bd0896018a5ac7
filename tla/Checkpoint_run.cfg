CONSTANTS
    Handoffs = {"h1", "h2"}
    Applies = {"a"}
    Pages = {"page"}
    Generated = {"log"}
    Foreign = {"docs"}
    Contents = {"v1", "v2"}
    Canonical = {"v1"}
    Absent = "absent"
    Tree0 <- MCTree
    Starts <- MCStarts
    MaxMoves = 2
    MaxCommands = 7
SPECIFICATION Spec
INVARIANTS ApprovedIsScoped StagedIsOwned VerifiedIsReviewed
PROPERTY CommitIsApproved
CHECK_DEADLOCK FALSE
