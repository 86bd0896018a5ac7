CONSTANTS
    Runs = {r1, r2, r3}
    NoToken = NoToken
SPECIFICATION FairGardenSpec
INVARIANTS OneGardenUnlessRaced RunKeepsLock
PROPERTY CommandsReturn
CHECK_DEADLOCK FALSE
