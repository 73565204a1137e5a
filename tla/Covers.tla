------------------------------- MODULE Covers -------------------------------
(***************************************************************************)
(* Cover art: the files beside the database (db.rs), the blobs in the      *)
(* cloud (sync_cover_blobs.rs) and the part of a sync that moves them      *)
(* (sync_orchestrator.rs): covers are downloaded after the snapshot was    *)
(* applied and uploaded before it is published, both without the mutex of  *)
(* the database, while the user edits.                                     *)
(*                                                                         *)
(* A file is never rewritten, so its path says what is in it: uploads have *)
(* a number each, a downloaded blob is named by its hash (number 0).       *)
(***************************************************************************)
EXTENDS Naturals, Sequences

CONSTANTS
    Uid, Hash,
    None,               \* no cover, no path
    Gone,               \* no entry
    MaxEdits,           \* bound: edits by the user
    MaxVersion,         \* bound: publications, of any device
    MaxFails            \* bound: failed requests and removals, crashes

Path == [n : 0 .. MaxEdits, hash : Hash]

ASSUME CoversAssumption ==
    /\ MaxEdits \in Nat /\ MaxVersion \in Nat /\ MaxFails \in Nat
    /\ None \notin Hash \cup Path /\ Gone \notin Hash \cup Path /\ None # Gone

Snapshot == [Uid -> Hash \cup {None, Gone}]

VARIABLES
    cover,      \* the path of each entry; None, or Gone if there is no entry
    disk,       \* the files in the covers directory
    given,      \* the contents the user uploaded so far
    edits,      \* edits so far
    broken,     \* entries a client gave the path of a file that is gone
    blobs,      \* blobs in the cloud, as <<name, content>>
    remote, version,                \* the published snapshot
    phase, target, seen, base,      \* the sync: what it is to reach, the
                                    \* version it read, what the apply left
    cache, todo,                    \* where each hash is, and what is left to do
    synced,     \* the version of the last snapshot merged here
    touched,    \* the entries whose cover the user chose since the apply
    fails

files == <<cover, disk, given, edits, broken>>
cloud == <<blobs, remote, version>>
plan == <<target, seen, base>>
vars == <<cover, disk, given, edits, broken, blobs, remote, version, phase, target, seen, base,
          cache, todo, synced, touched, fails>>

NoSnapshot == [u \in Uid |-> Gone]
NoCache == [h \in Hash |-> None]

\* The hash of what is at a path, if there is a file.
HashAt(path, d) == IF path \in d THEN path.hash ELSE None
\* A snapshot is built only if every path leads to a file.
Intact == \A u \in Uid : cover[u] \notin {None, Gone} => cover[u] \in disk
Local == [u \in Uid |-> IF cover[u] = Gone THEN Gone ELSE HashAt(cover[u], disk)]
Required(s) == {s[u] : u \in Uid} \cap Hash

Init ==
    /\ cover = [u \in Uid |-> None] /\ disk = {} /\ given = <<>> /\ edits = 0 /\ broken = {}
    /\ blobs = {} /\ remote = [u \in Uid |-> None] /\ version = 0
    /\ phase = "idle" /\ target = NoSnapshot /\ seen = 0 /\ base = NoSnapshot
    /\ cache = NoCache /\ todo = {} /\ synced = 0 /\ touched = {} /\ fails = 0

-----------------------------------------------------------------------------
\* The user, and the clients of the HTTP API.
\* An old file goes if no other entry has it; the removal may fail.
Unreferenced_Any(u, old) == TRUE                                \* a mutant
Unreferenced(u, old) == \A v \in Uid \ {u} : cover[v] # old
RemoveOld(d, u) ==
    LET gone == {cover[u]} \cap d
    IN  IF gone # {} /\ Unreferenced(u, cover[u])
        THEN \/ disk' = d \ gone /\ UNCHANGED fails
             \/ fails < MaxFails /\ fails' = fails + 1 /\ disk' = d
        ELSE disk' = d /\ UNCHANGED fails

Applied == phase \in {"applied", "loading", "setting", "ready", "uploading"}
Chose(u) == touched' = IF Applied THEN touched \cup {u} ELSE touched
User == edits' = edits + 1 /\ UNCHANGED <<cloud, phase, plan, cache, todo, synced>>

SaveCover(u, h) ==
    LET new == [n |-> Len(given) + 1, hash |-> h]
    IN  /\ cover[u] # Gone /\ edits < MaxEdits
        /\ cover' = [cover EXCEPT ![u] = new]
        /\ RemoveOld(disk \cup {new}, u)
        /\ given' = Append(given, h) /\ broken' = broken \ {u}
        /\ Chose(u) /\ User

DeleteMedia(u) ==
    /\ cover[u] # Gone /\ edits < MaxEdits
    /\ cover' = [cover EXCEPT ![u] = Gone]
    /\ RemoveOld(disk, u)
    /\ broken' = broken \ {u}
    /\ Chose(u) /\ UNCHANGED given /\ User

\* A client saves a whole record with the path it has of the cover, which
\* may be an old one.  No file is removed.
OldPaths == disk \cup {[n |-> i, hash |-> given[i]] : i \in DOMAIN given}
UpdateMedia(u) ==
    /\ cover[u] # Gone /\ edits < MaxEdits
    /\ \E path \in (OldPaths \cup {None}) \ {cover[u]} :
        /\ cover' = [cover EXCEPT ![u] = path]
        /\ broken' = IF path \in disk \cup {None} THEN broken \ {u} ELSE broken \cup {u}
    /\ Chose(u) /\ UNCHANGED <<disk, given, fails>> /\ User

\* Another device uploads a cover and publishes.
OtherPublishes ==
    /\ version < MaxVersion
    /\ \E u \in Uid, x \in Hash \cup {None, Gone} :
        /\ x # remote[u]
        /\ remote' = [remote EXCEPT ![u] = x]
        /\ blobs' = blobs \cup {<<h, h>> : h \in {x} \cap Hash}
    /\ version' = version + 1
    /\ UNCHANGED <<files, phase, plan, cache, todo, synced, touched, fails>>

-----------------------------------------------------------------------------
\* A sync.  With nothing new in the cloud, the library is published as it is.
Sync == UNCHANGED <<given, edits, broken>>
CaptureLocal ==
    /\ phase = "idle" /\ version = synced /\ version < MaxVersion
    /\ Intact /\ Local # remote
    /\ target' = Local /\ seen' = version /\ phase' = "ready" /\ touched' = {}
    /\ UNCHANGED <<cover, disk, cloud, base, cache, todo, synced, fails>> /\ Sync

\* Otherwise it is merged: every entry as it is here or as it was fetched
\* (SyncMerge says which).
FetchRemote ==
    /\ phase = "idle" /\ version # synced /\ Intact
    /\ target' = remote /\ seen' = version /\ phase' = "fetched"
    /\ UNCHANGED <<cover, disk, cloud, base, cache, todo, synced, touched, fails>> /\ Sync

\* Where each hash is found, by the covers of the entries.
Holders(h) == {cover[u] : u \in {v \in Uid : HashAt(cover[v], disk) = h}}
Caches == {c \in [Hash -> {None} \cup UNION {Holders(h) : h \in Hash}] :
            \A h \in Hash : IF Holders(h) = {} THEN c[h] = None ELSE c[h] \in Holders(h)}

\* The apply inserts every entry anew, with a path for each hash that is
\* found here; the marker in the same transaction says which were.
InstalledHash(x, c) == IF x \in Hash /\ c[x] # None THEN x ELSE None
PathFor(x, c) == IF x = Gone THEN Gone ELSE IF x \in Hash THEN c[x] ELSE None
ApplySnapshot ==
    /\ phase = "fetched" /\ Intact
    /\ \E s \in Snapshot, c \in Caches :
        /\ \A u \in Uid : s[u] \in {Local[u], target[u]}
        /\ target' = s
        /\ cover' = [u \in Uid |-> PathFor(s[u], c)]
        /\ base' = [u \in Uid |-> IF s[u] = Gone THEN Gone ELSE InstalledHash(s[u], c)]
    /\ phase' = "applied" /\ broken' = {} /\ touched' = {}
    /\ UNCHANGED <<disk, given, edits, cloud, seen, cache, todo, synced, fails>>

\* Materialisation: which hashes are to be downloaded.
Wanting == {u \in Uid : target[u] \in Hash}
Pending == {target[u] : u \in {v \in Wanting : cover[v] # Gone /\ HashAt(cover[v], disk) # target[v]}}
Collect ==
    /\ phase = "applied"
    /\ \E c \in Caches :
        /\ cache' = c
        /\ todo' = {h \in Pending : c[h] = None}
    /\ phase' = "loading"
    /\ UNCHANGED <<cover, disk, cloud, plan, synced, touched, fails>> /\ Sync

Names == {b[1] : b \in blobs}
Blob(h) == [n |-> 0, hash |-> h]
Known_Forgotten(h) == cache                                     \* a mutant
Known(h) == [cache EXCEPT ![h] = Blob(h)]
\* An error leaves the journal, and the next sync begins again from there.
GiveUp == phase' = "applied" /\ cache' = NoCache /\ todo' = {}
Download ==
    /\ phase = "loading"
    /\ \E h \in todo :
        IF <<h, h>> \in blobs
        THEN /\ disk' = disk \cup {Blob(h)}
             /\ cache' = Known(h)
             /\ todo' = todo \ {h}
             /\ UNCHANGED phase
        ELSE GiveUp /\ UNCHANGED disk
    /\ UNCHANGED <<cover, cloud, plan, synced, touched, fails>> /\ Sync
AllLoaded ==
    /\ phase = "loading" /\ todo = {}
    /\ phase' = "setting" /\ todo' = Wanting
    /\ UNCHANGED <<cover, disk, cloud, plan, cache, synced, touched, fails>> /\ Sync

\* One entry, under the mutex: it takes the cover unless the user changed
\* it since the apply, and only a file that is what it should be.
Observed_Now(u) == HashAt(cover[u], disk)                       \* a mutant
Observed(u) == base[u]
Usable(path, h) == HashAt(path, disk) = h
SetCover ==
    /\ phase = "setting"
    /\ \E u \in todo :
        LET h == target[u]
            live == HashAt(cover[u], disk)
        IN  IF cache[h] = None
            THEN GiveUp /\ UNCHANGED <<cover, disk, broken, fails>>
            ELSE IF cover[u] = Gone \/ live = h \/ live # Observed(u) \/ cover[u] = cache[h]
            THEN todo' = todo \ {u} /\ UNCHANGED <<cover, disk, broken, phase, cache, fails>>
            ELSE IF Usable(cache[h], h)
            THEN /\ cover' = [cover EXCEPT ![u] = cache[h]]
                 /\ RemoveOld(disk, u)
                 /\ broken' = broken \ {u}
                 /\ todo' = todo \ {u} /\ UNCHANGED <<phase, cache>>
            ELSE GiveUp /\ UNCHANGED <<cover, disk, broken, fails>>
    /\ UNCHANGED <<given, edits, cloud, plan, synced, touched>>
\* The journal is cleared: what was fetched is the base of the next merge.
Materialized ==
    /\ phase = "setting" /\ todo = {}
    /\ phase' = "ready" /\ cache' = NoCache /\ synced' = seen
    /\ UNCHANGED <<cover, disk, cloud, plan, todo, touched, fails>> /\ Sync

-----------------------------------------------------------------------------
\* Publishing.  The paths are those the entries have now.
SyncOver ==
    /\ phase' = "idle" /\ target' = NoSnapshot /\ seen' = 0 /\ base' = NoSnapshot
    /\ cache' = NoCache /\ todo' = {} /\ touched' = {}
HeldBy(h) == {cover[u] : u \in {v \in Uid : target[v] = h}} \ {Gone}
ListBlobs ==
    /\ phase = "ready"
    /\ \E c \in [Hash -> {None} \cup UNION {HeldBy(h) : h \in Hash}] :
        /\ \A h \in Hash : IF HeldBy(h) = {} THEN c[h] = None ELSE c[h] \in HeldBy(h)
        /\ cache' = c
    /\ todo' = Required(target) \ Names
    /\ phase' = "uploading"
    /\ UNCHANGED <<cover, disk, cloud, plan, synced, touched, fails>> /\ Sync

Valid(h, content) == content = h
Upload ==
    /\ phase = "uploading"
    /\ \E h \in todo :
        IF cache[h] \in disk /\ Valid(h, HashAt(cache[h], disk))
        THEN /\ blobs' = blobs \cup {<<h, HashAt(cache[h], disk)>>}
             /\ todo' = todo \ {h}
             /\ UNCHANGED <<phase, plan, cache, touched>>
        ELSE SyncOver /\ UNCHANGED blobs
    /\ UNCHANGED <<cover, disk, remote, version, synced, fails>> /\ Sync

\* The manifest is replaced only if it is the one that was read.
Publish ==
    /\ phase = "uploading" /\ todo = {} /\ SyncOver
    /\ IF version = seen /\ version < MaxVersion
       THEN remote' = target /\ version' = version + 1 /\ synced' = version + 1
       ELSE UNCHANGED <<remote, version, synced>>
    /\ UNCHANGED <<cover, disk, blobs, fails>> /\ Sync

\* A request fails, or the process dies.
Fail ==
    /\ fails < MaxFails /\ phase # "idle" /\ fails' = fails + 1
    /\ IF phase \in {"applied", "loading", "setting"}
       THEN GiveUp /\ UNCHANGED <<plan, touched>>
       ELSE SyncOver
    /\ UNCHANGED <<cover, disk, cloud, synced>> /\ Sync

Edit == \/ \E u \in Uid, h \in Hash : SaveCover(u, h)
        \/ \E u \in Uid : DeleteMedia(u)
        \/ \E u \in Uid : UpdateMedia(u)
Transfer == \/ CaptureLocal \/ FetchRemote \/ ApplySnapshot
            \/ Collect \/ Download \/ AllLoaded \/ SetCover \/ Materialized
            \/ ListBlobs \/ Upload \/ Publish
Next == Edit \/ OtherPublishes \/ Transfer \/ Fail
Spec == Init /\ [][Next]_vars
\* A user keeps syncing, and the requests of a sync get answers.
FairSpec == Spec /\ WF_vars(Transfer)

-----------------------------------------------------------------------------
TypeOK ==
    /\ cover \in [Uid -> Path \cup {None, Gone}] /\ disk \subseteq Path
    /\ edits \in 0 .. MaxEdits /\ given \in Seq(Hash) /\ Len(given) <= edits
    /\ blobs \subseteq Hash \X Hash /\ {remote, target, base} \subseteq Snapshot
    /\ {version, seen, synced} \subseteq 0 .. MaxVersion
    /\ phase \in {"idle", "fetched", "applied", "loading", "setting", "ready", "uploading"}
    /\ cache \in [Hash -> Path \cup {None}]
    /\ todo \subseteq (IF phase = "setting" THEN Uid ELSE Hash)
    /\ broken \cup touched \subseteq Uid /\ fails \in 0 .. MaxFails

\* An entry's file is there, whoever changed, shared or removed what while
\* covers were moved, unless a client saved a path that leads nowhere
\* (remove_cover_file_if_unreferenced and the checks of the materialisation).
RowsHaveFiles == \A u \in Uid \ broken : cover[u] \notin {None, Gone} => cover[u] \in disk

\* The published snapshot names no cover that the cloud does not hold as
\* what it is called (publish_snapshot_with_client uploads first).
CoversPublished == \A h \in Required(remote) : <<h, h>> \in blobs

\* No cover is named that is not there, here or in the cloud.
NamesHaveFiles == RowsHaveFiles /\ CoversPublished

\* A cover the user chose since the apply is not replaced by the downloads
\* (the compare-and-set of the materialisation).
ChoiceKept ==
    phase = "setting" /\ todo' # todo =>
        \A u \in touched : HashAt(cover[u], disk) # base[u] => cover'[u] = cover[u]

\* When the journal of a merge is cleared, every entry the user left alone
\* has the cover of the merged snapshot.
Delivered ==
    phase = "setting" /\ phase' = "ready" =>
        \A u \in Wanting \ touched : HashAt(cover[u], disk) = target[u]

\* A sync brings the covers of the merged snapshot where the user has not chosen, and
\* only there.
CoversArrive == [][ChoiceKept /\ Delivered]_vars

\* An applied snapshot gets its covers, or the user has touched one of them.
AppliesEnd == phase = "applied" ~> (phase \in {"idle", "ready"} \/ touched # {})
=============================================================================
