\* Timelines, charts and lists of small libraries, which change while they are read.
CONSTANTS
    MonthDays = 2
    YearDays = 4
    None = None
    Other = Other
    Highlights = 1
    MaxBuckets = 2
    TopGroups = 1
    QuickLogs = 1
    WeekDays = 2
    Weeks = 2
    Today = 6
    Media <- MCMedia
    Logs <- MCLogs
    Stones <- MCStones
    Trackings = {"Ongoing", "Complete"}
    Years = {1}
    Queries = {5}
    PageSize = 2
    MaxEdits = 1
    MaxAsks = 3
SPECIFICATION Spec
INVARIANT PagesTile
INVARIANT ViewsAgree
PROPERTY PageArrives
CHECK_DEADLOCK FALSE
