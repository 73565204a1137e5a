\* Two profiles, one of another device; one failure or crash.
SPECIFICATION FairSpec
CONSTANTS
    i1 = i1
    i2 = i2
    i3 = i3
    p1 = p1
    p2 = p2
    None = None
    Item = {i1, i2, i3}
    Profile = {p1, p2}
    Mine = {i1}
    Theirs = {i2}
    Shared = p1
    MaxEdits = 2
    MaxPeers = 1
    MaxFails = 1
    MaxLinks = 2
INVARIANTS RecordsAreTrue
PROPERTIES NothingVanishes Converges
CHECK_DEADLOCK FALSE
