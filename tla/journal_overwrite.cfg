\* All commands, replacement and forced publication included; one failure.
CONSTANTS
    title = title
    u = u
    v = v
    w = w
    Twin = Twin
    None = None
    Item = {title}
    Val = {u, v, w}
    Commands <- MCAll
    Duplicates = FALSE
    MaxEdits = 2
    MaxGen = 2
    MaxOps = 3
    MaxFails = 1
SPECIFICATION FairSpec
INVARIANT KeptAndHonest
PROPERTY CommittedOnce
PROPERTY CarriedThrough
CHECK_DEADLOCK FALSE
