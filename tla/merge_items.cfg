\* One item with a field and an activity, beside a setting: every way two
\* devices can edit them; and the queue of twins among three items.
SPECIFICATION MCSpec
CONSTANTS
    Uid = {u1}
    Scalar = {title}
    Optional = {}
    Entry = {}
    Record = {activity}
    Picture = {}
    Setting = {theme}
    Val = {v1, v2, v3}
    Stamp <- MCStamp
    LocalStamp <- MCLocalStamp
    RemoteStamp <- MCRemoteStamp
    Items <- MCItems
    title = title
    status = status
    Name = {x, y, z}
    Taken = {x, y}
    Ours = ours
    Theirs = theirs
    Changed = {2, 3}
    Statuses = {ours, theirs, newer}
    MaxEdits = 1
    Absent = Absent
    Gone = Gone
    DeleteVsUpdate = DeleteVsUpdate
INVARIANT NothingLost
INVARIANT ConflictsAreReal
INVARIANT Symmetric
INVARIANT TombstonesExact
INVARIANT SettledRight
CHECK_DEADLOCK FALSE
