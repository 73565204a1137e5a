------------------------------ MODULE SyncMerge ------------------------------
(***************************************************************************)
(* The three-way merge of library snapshots (sync_merge.rs).  A media item *)
(* is a function from slots to values; the four kinds of slots are the     *)
(* four merge rules the code has.  Timestamps matter only to settings; a   *)
(* tombstone is abstracted to the uid it marks as deleted, and the         *)
(* metadata columns and the order of records are left out.  The profile    *)
(* merges by the rule of a setting.                                        *)
(***************************************************************************)
EXTENDS Naturals, ThreeWay

CONSTANTS
    Uid,        \* sync uids of media
    Scalar,     \* title, variant, status, ... and extra_data that is not an object
    Optional,   \* cover_blob_sha256
    Entry,      \* keys of extra_data
    Record,     \* uids of activities and milestones
    Picture,    \* the profile picture (a singleton, or empty to leave it out)
    Setting,    \* keys of syncable settings
    Val,        \* values
    Stamp,      \* (updated_at, updated_by_device_id) pairs, as numbers
    Absent,     \* a slot without a value
    Gone,       \* a uid without a media item
    DeleteVsUpdate

Slot == Scalar \cup Optional \cup Entry \cup Record
MaybeVal == Val \cup {Absent}
Media == {m \in [Slot -> MaybeVal] : \A s \in Scalar : m[s] # Absent}
Stamped == [v : Val, at : Stamp]

ASSUME MergeAssumption ==
    /\ Absent \notin Val
    /\ Absent \notin Stamped
    /\ Gone \notin Media
    /\ DeleteVsUpdate \notin Slot
    /\ Stamp \subseteq Nat
    /\ Optional \cap (Scalar \cup Entry \cup Record) = {}
    /\ Record \cap (Scalar \cup Entry) = {}

\* What a device's database holds, and what a snapshot adds to it.
Content == [library : [Uid -> Media \cup {Gone}],
            pictures : [Picture -> MaybeVal],
            settings : [Setting -> Stamped \cup {Absent}]]

Snapshot == [library : [Uid -> Media \cup {Gone}],
             pictures : [Picture -> MaybeVal],
             settings : [Setting -> Stamped \cup {Absent}],
             tombstones : SUBSET Uid]

Live(S) == {u \in Uid : S.library[u] # Gone}
Known(S) == Live(S) \cup S.tombstones

\* validate_remote_snapshot_compatibility: no uid is both live and deleted.
Valid(S) == S.tombstones \cap Live(S) = {}

ContentOf(S) == [library |-> S.library, pictures |-> S.pictures,
                 settings |-> S.settings]

\* derive_local_tombstones: the uids the base knew that are no longer there.
DeletedSince(c, base) ==
    {u \in Uid : /\ c.library[u] = Gone
                 /\ base.library[u] # Gone \/ u \in base.tombstones}

\* build_snapshot over a base.
SnapshotOf(c, base) ==
    [library |-> c.library, pictures |-> c.pictures, settings |-> c.settings,
     tombstones |-> DeletedSince(c, base)]

-----------------------------------------------------------------------------
(* Values; scalars, entries and pictures merge as in ThreeWay.             *)

\* merge_optional_scalar_field: without a base value the local one is kept.
OptionalClash(b, l, r) == IF b = Absent THEN l # r ELSE Clash(b, l, r)
OptionalMerged(b, l, r) == IF b = Absent THEN l ELSE Merged(b, l, r)

\* merge_identified_collections: in a clash a record that is there wins over one
\* that was deleted.
RecordMerged(b, l, r) ==
    IF Clash(b, l, r) /\ l = Absent THEN r ELSE Merged(b, l, r)

SlotClash(s, b, l, r) ==
    IF s \in Optional THEN OptionalClash(b, l, r) ELSE Clash(b, l, r)

SlotMerged(s, b, l, r) ==
    IF s \in Optional THEN OptionalMerged(b, l, r)
    ELSE IF s \in Record THEN RecordMerged(b, l, r)
    ELSE Merged(b, l, r)

Later_Local(l, r) == l

Later(l, r) == IF l.at > r.at THEN l ELSE r

\* choose_lww_setting_value: last writer wins, an update over a deletion.
SettingMerged(b, l, r) ==
    IF l = b THEN r
    ELSE IF r = b THEN l
    ELSE IF l # Absent /\ r # Absent THEN Later(l, r)
    ELSE IF l = Absent THEN r ELSE l

-----------------------------------------------------------------------------
(* Media items and snapshots.                                              *)

\* A slot of an item of the base; without the item it has no value.
Was(b, s) == IF b = Gone THEN Absent ELSE b[s]

\* One side deleted the item u of the base, as its tombstone says.
Deleted(u, B, S) ==
    B.library[u] # Gone /\ S.library[u] = Gone /\ u \in S.tombstones

\* merge_media_three_way and merge_media_created_on_both.
MediaMerged(b, l, r) ==
    [s \in DOMAIN l |-> SlotMerged(s, Was(b, s), l[s], r[s])]

\* merge_media_uid.  A deletion is taken over if the other side left the item
\* alone; otherwise the local side stands until the user decides.
UidMerged(u, B, L, R) ==
    LET b == B.library[u]
        l == L.library[u]
        r == R.library[u]
    IN  IF l # Gone /\ r # Gone THEN MediaMerged(b, l, r)
        ELSE IF l # Gone THEN IF Deleted(u, B, R) /\ l = b THEN Gone ELSE l
        ELSE IF r # Gone THEN IF Deleted(u, B, L) THEN Gone ELSE r
        ELSE Gone

\* The conflicts of item u: clashing slots, or a deletion against an update.
UidConflicts(u, B, L, R) ==
    LET b == B.library[u]
        l == L.library[u]
        r == R.library[u]
    IN  IF l # Gone /\ r # Gone
        THEN {s \in DOMAIN l : SlotClash(s, Was(b, s), l[s], r[s])}
        ELSE IF \/ Deleted(u, B, R) /\ l # Gone /\ l # b
                \/ Deleted(u, B, L) /\ r # Gone /\ r # b
             THEN {DeleteVsUpdate}
             ELSE {}

Tombstones_LocalOnly(lib, L, R) == {u \in L.tombstones : lib[u] = Gone}

\* The tombstones of either side whose item did not survive the merge.
TombstonesMerged(lib, L, R) ==
    {u \in L.tombstones \cup R.tombstones : lib[u] = Gone}

\* merge_snapshots.
Merge(B, L, R) ==
    LET lib == [u \in Uid |-> UidMerged(u, B, L, R)] IN
    [library |-> lib,
     pictures |-> [p \in Picture |->
                      Merged(B.pictures[p], L.pictures[p], R.pictures[p])],
     settings |-> [k \in Setting |->
                      SettingMerged(B.settings[k], L.settings[k], R.settings[k])],
     tombstones |-> TombstonesMerged(lib, L, R)]

PictureConflicts(B, L, R) ==
    {p \in Picture : Clash(B.pictures[p], L.pictures[p], R.pictures[p])}
=============================================================================
