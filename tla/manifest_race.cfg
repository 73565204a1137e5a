\* Two devices race for generations 2 and 3; one request may be lost.
CONSTANTS
    Device = {d1, d2}
    Snap <- MCSnap
    FileId <- MCOneFile
    ReadAttempts = 2
    MaxFails = 1
    MaxResets = 0
SPECIFICATION FairSpec
INVARIANT Chain
INVARIANT OutcomesAreTrue
PROPERTY WrittenOnce
PROPERTY ImplementsRegister
PROPERTY EveryAttemptEnds
CHECK_DEADLOCK FALSE
