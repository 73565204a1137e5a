\* Covers move while the user edits; one request fails.
SPECIFICATION FairSpec
CONSTANTS
    u1 = u1
    u2 = u2
    h1 = h1
    h2 = h2
    Uid = {u1, u2}
    Hash = {h1, h2}
    None = None
    Gone = Gone
    MaxEdits = 2
    MaxVersion = 2
    MaxFails = 1
INVARIANTS NamesHaveFiles
PROPERTIES CoversArrive AppliesEnd
CHECK_DEADLOCK FALSE
