\* Two launches and their restarts, two saves in flight, two ports.
SPECIFICATION ApiFairSpec
CONSTANTS
    d1 = d1
    d2 = d2
    Unset = Unset
    Process = {d1, d2}
    Port = {1, 2}
    Access = {"local", "lan"}
    MaxStarts = 3
    MaxSaves = 2
    MaxFails = 1
INVARIANT RunsAsChosen
PROPERTY SavesEnd
CHECK_DEADLOCK FALSE
