CONSTANTS
    c = c
    n1 = n1
    n2 = n2
    w1 = w1
    w2 = w2
    d1 = d1
    d2 = d2
    o1 = o1
    o2 = o2
    Main = Main
    Linked = Linked
    Wikis = {w1, w2}
    Names = {n1, n2}
    Confs <- MCConfs
    Companions = {c}
    Outboxes = {o1, o2}
    Dirs = {d1, d2}
    Kits = {1, 2, 3}
    BrokenKits = {3}
    Asks <- MCAsks
    Edits <- MCEdits
    SkillEdits <- MCSkillEdits
    Starts <- MCStarts
    Absent = Absent
    Gone = Gone
    Foreign = Foreign
    Edited = Edited
    Outside = Outside
    Corrupt = Corrupt
    Malformed = Malformed
    MaxCommands = 3
    MaxMoves = 2
SPECIFICATION Spec
INVARIANTS CommandsSound LocalsHidden WiringAgrees ResolvesDocked
PROPERTY SkillsKept
CHECK_DEADLOCK FALSE
