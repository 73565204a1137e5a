\* Syncing and answering conflicts, with crashes, live edits and other devices.
CONSTANTS
    title = title
    notes = notes
    u = u
    v = v
    w = w
    Twin = Twin
    None = None
    Item = {title, notes}
    Val = {u, v, w}
    Commands <- MCResolve
    Duplicates = TRUE
    MaxEdits = 2
    MaxGen = 3
    MaxOps = 9
    MaxFails = 2
SPECIFICATION Spec
SYMMETRY MCSymmetry
INVARIANT JournalIsSound
PROPERTY AnswersAreTrue
PROPERTY NothingReverted
CHECK_DEADLOCK FALSE
