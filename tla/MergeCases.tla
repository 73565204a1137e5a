----------------------------- MODULE MergeCases -----------------------------
(***************************************************************************)
(* Two devices start from one base snapshot and edit their libraries       *)
(* independently; in every state the merge of the one into the other is    *)
(* examined.  The states are the inputs merge_snapshots can meet: the      *)
(* local snapshot is built from the database over the base, the remote one *)
(* ends a chain of snapshots that starts with the base.                    *)
(***************************************************************************)
EXTENDS SyncMerge

CONSTANTS LocalStamp, RemoteStamp   \* when the two devices write settings

ASSUME StampAssumption ==
    /\ LocalStamp \subseteq Stamp /\ RemoteStamp \subseteq Stamp
    /\ LocalStamp \cap RemoteStamp = {}

VARIABLES
    base,       \* the snapshot both devices last agreed on
    local,      \* what the local database holds
    remote      \* the snapshot in force on the remote

vars == <<base, local, remote>>

L == SnapshotOf(local, base)
R == remote
M == Merge(base, L, R)

Init ==
    /\ base \in {S \in Snapshot : Valid(S)}
    /\ local = ContentOf(base)
    /\ remote = base

\* Any change the program makes to a library: an item is created, changed or
\* deleted, the picture is set or removed, a setting is written at some time.
Edited(c, stamps) ==
    {[c EXCEPT !.library[u] = m] : u \in Uid, m \in Media \cup {Gone}}
        \cup {[c EXCEPT !.pictures[p] = v] : p \in Picture, v \in MaybeVal}
        \cup {[c EXCEPT !.settings[k] = [v |-> v, at |-> t]] :
                  k \in Setting, v \in Val, t \in stamps}

EditLocal ==
    /\ local' \in Edited(local, LocalStamp)
    /\ UNCHANGED <<base, remote>>

\* The other devices edit, merge and publish; each snapshot is built over the
\* one before.
EditRemote ==
    /\ \E c \in Edited(ContentOf(remote), RemoteStamp) :
            remote' = SnapshotOf(c, remote)
    /\ UNCHANGED <<base, local>>

Next == EditLocal \/ EditRemote

Spec == Init /\ [][Next]_vars

-----------------------------------------------------------------------------
(* Properties.                                                             *)

\* The inputs are snapshots, and so is every merge of them (no scalar field is
\* left without a value, whatever clashes).
TypeOK ==
    /\ base \in Snapshot
    /\ local \in Content
    /\ remote \in Snapshot
    /\ M \in Snapshot

\* One side's change of a value reaches the merge.
Carried(b, l, r, m) == (l # b => m = l) /\ (r # b => m = r)

\* No silent loss.  Whatever either side changed since the base - a field, an
\* entry, a record, the picture, a whole item created or deleted - is in the
\* merged snapshot, or is reported as a conflict for the user to decide.
ItemsKept ==
    /\ \A u \in Uid : LET b == base.library[u]
                          l == L.library[u]
                          r == R.library[u] IN
        /\ l # Gone /\ r # Gone =>
            \A s \in Slot \ UidConflicts(u, base, L, R) :
                Carried(Was(b, s), l[s], r[s], M.library[u][s])
        /\ (l = Gone \/ r = Gone) /\ UidConflicts(u, base, L, R) = {} =>
                Carried(b, l, r, M.library[u])
    /\ \A p \in Picture \ PictureConflicts(base, L, R) :
            Carried(base.pictures[p], L.pictures[p], R.pictures[p],
                    M.pictures[p])

\* A setting both sides wrote keeps the later write.
LatestSettingStands ==
    \A k \in Setting :
        LET l == L.settings[k]
            r == R.settings[k]
        IN  l # base.settings[k] /\ r # base.settings[k] =>
                M.settings[k].at >= l.at /\ M.settings[k].at >= r.at

\* Nothing a device wrote is lost, unless the user or a later write decides so.
NothingLost == ItemsKept /\ LatestSettingStands

BothChanged(b, l, r) == l # b /\ r # b /\ l # r

\* The user is asked only where both sides changed the same thing, to different
\* ends: a change of one side merges without a question.  (Covers are left
\* out: one that the base did not have is compared between the sides.)
ConflictsAreReal ==
    /\ \A u \in Uid : LET b == base.library[u]
                          l == L.library[u]
                          r == R.library[u] IN
        /\ \A s \in UidConflicts(u, base, L, R) \ (Optional \cup {DeleteVsUpdate}) :
                BothChanged(Was(b, s), l[s], r[s])
        /\ DeleteVsUpdate \in UidConflicts(u, base, L, R) =>
                BothChanged(b, l, r)
    /\ \A p \in PictureConflicts(base, L, R) :
            BothChanged(base.pictures[p], L.pictures[p], R.pictures[p])

\* The two devices reach the same result whichever of them runs the merge: the
\* same conflicts, the same items, pictures and settings where there is none.
Symmetric ==
    LET N == Merge(base, R, L) IN
    /\ \A u \in Uid :
        /\ UidConflicts(u, base, L, R) = UidConflicts(u, base, R, L)
        /\ UidConflicts(u, base, L, R) = {} => M.library[u] = N.library[u]
    /\ PictureConflicts(base, L, R) = PictureConflicts(base, R, L)
    /\ \A p \in Picture \ PictureConflicts(base, L, R) :
            M.pictures[p] = N.pictures[p]
    /\ M.settings = N.settings

\* The merge remembers every uid that either side ever knew, as a live item or
\* as a tombstone and never as both: a deleted item cannot come back as new, and
\* the result passes validate_remote_snapshot_compatibility on other devices.
TombstonesExact ==
    M.tombstones = (Known(base) \cup Known(L) \cup Known(R)) \ Live(M)
=============================================================================
