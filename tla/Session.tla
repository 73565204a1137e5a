------------------------------ MODULE Session ------------------------------
(***************************************************************************)
(* The life of one device with the cloud: signing in, creating a profile   *)
(* or attaching to one, synchronising, signing out, factory reset and the  *)
(* restoration of the backup made before attaching (sync_auth.rs,          *)
(* sync_state.rs, sync_orchestrator.rs, lib.rs, db.rs).  A library is the  *)
(* set of entries it holds; an entry comes once and goes once.  How a      *)
(* merge treats the values of an entry is the matter of SyncMerge, how a   *)
(* journal is carried out that of SyncJournal, and how a manifest is       *)
(* replaced that of DriveManifest: here they are single steps.             *)
(***************************************************************************)
EXTENDS Naturals, Sequences, SequencesExt, ThreeWay

CONSTANTS
    Item,           \* media entries
    Profile,        \* identifiers of cloud profiles
    Mine, Theirs,   \* the entries on this device, and in the cloud, at first
    Shared,         \* the profile another device has created
    None,
    MaxEdits, MaxPeers, MaxFails, MaxLinks

Status == {"clean", "dirty", "syncing", "conflict", "error"}
Snapshot == [items : SUBSET Item, version : Nat]
SyncConfig == [profile : Profile, status : Status]
Pending == [profile : Profile, asks : BOOLEAN, status : Status, baseline : SUBSET Item,
            remote : Snapshot, applied : BOOLEAN, target : SUBSET Item]

ASSUME SessionAssumption ==
    /\ Mine \subseteq Item /\ Theirs \subseteq Item
    /\ Shared \in Profile
    /\ None \notin Profile \cup Snapshot \cup SyncConfig \cup Pending
    /\ None \notin {"library", "config", "base", "journal"}

VARIABLES
    platform,   \* "desktop" keeps its tokens in the keyring, "android" in memory
    tokens,     \* "none", "stale" or "fresh"
    late,       \* sign-ins, restorations and listings that wait for an answer
    out,        \* the user has signed out, and not asked to sign in since
    lib,        \* the entries in the database
    backup,     \* the entries in the safety backup, or None
    disk,       \* the files of the sync directory
    cloud,      \* what Drive holds for each profile
    op,         \* the command that holds the sync lock
    born,       \* the entries there have ever been
    deleted,    \* the entries users deleted, by the profile they were synced with
    torn,       \* a factory reset took some files and left the device configured
    spent       \* what has been used of each bound

auth == <<platform, tokens, late, out>>
data == <<lib, backup, cloud, born, deleted>>
vars == <<platform, tokens, late, out, lib, backup, disk, cloud, op, born,
          deleted, torn, spent>>

-----------------------------------------------------------------------------
(* The sync directory.                                                     *)

\* The runtime files, in the order in which they are removed.
SyncFiles == <<"config", "base", "journal">>
NoFiles == [f \in Range(SyncFiles) |-> None]

\* load_sync_config: the journal is the transaction record, the file a cache.
Config(d) ==
    IF d.journal = None THEN d.config
    ELSE [profile |-> d.journal.profile, status |-> d.journal.status]

Configured == Config(disk) # None

\* update_sync_config: the journal first, then the file.
WithStatus(d, s) ==
    IF Config(d) = None THEN d
    ELSE LET c == [Config(d) EXCEPT !.status = s] IN
         [d EXCEPT !.config = c,
                   !.journal = IF @ = None THEN None ELSE [@ EXCEPT !.status = s]]

\* mark_sync_dirty_if_configured.
Dirtied(d) ==
    IF Configured /\ Config(d).status = "conflict" THEN d
    ELSE WithStatus(d, "dirty")

\* get_sync_status: an unanswered conflict shows, whatever the status says.
Shown ==
    IF ~Configured THEN "disconnected"
    ELSE IF disk.journal # None /\ disk.journal.asks THEN "conflict"
    ELSE Config(disk).status

-----------------------------------------------------------------------------
(* Commands.                                                               *)

Idle == [kind |-> "idle"]

\* acquire_sync_lock: every command below holds it, and a second one is refused.
Unlocked == op = Idle

Command(k, p, s) ==
    [kind |-> k, step |-> s, profile |-> p, snap |-> {}, remote |-> None]

Syncing == op # Idle /\ op.kind \in {"create", "attach", "sync"}
At(s) == Syncing /\ op.step = s

\* Between these steps the database mutex, or the one of the state files, is
\* held: no edit comes in between.
Sealed == op # Idle /\ (op.kind \in {"signout", "reset"} \/ op.step = "config")

Spend(what) == spent' = [spent EXCEPT ![what] = @ + 1]
Within(what, bound) == spent[what] < bound

Init ==
    /\ platform \in {"desktop", "android"}
    /\ tokens = "none" /\ late = {} /\ out = FALSE
    /\ lib = Mine /\ backup = None
    /\ disk = NoFiles
    /\ cloud = [p \in Profile |->
                   IF p = Shared THEN [items |-> Theirs, version |-> 1] ELSE None]
    /\ op = Idle
    /\ born = Mine \cup Theirs
    /\ deleted = [p \in Profile |-> {}]
    /\ torn = FALSE
    /\ spent = [edits |-> 0, peers |-> 0, fails |-> 0, links |-> 0]

-----------------------------------------------------------------------------
(* The Google account.                                                     *)

\* connect_google_drive: the answer may come after the screen has given up.
SignInBegin ==
    /\ Unlocked
    /\ tokens = "none" /\ "signin" \notin late
    /\ late' = late \cup {"signin"}
    /\ out' = FALSE
    /\ UNCHANGED <<platform, tokens, data, disk, op, torn, spent>>

\* persist_google_sign_in.
SignInEnd ==
    /\ "signin" \in late
    /\ late' = late \ {"signin"}
    /\ tokens' = "fresh"
    /\ UNCHANGED <<platform, out, data, disk, op, torn, spent>>

\* The browser never answers, answers with an error, or with another state.
SignInFails ==
    /\ "signin" \in late
    /\ late' = late \ {"signin"}
    /\ UNCHANGED <<platform, tokens, out, data, disk, op, torn, spent>>

RestoreNeeded_TokensOnly == tokens = "none"

RestoreNeeded == Configured /\ tokens = "none"

\* restore_google_drive_auth_if_missing, for a request of the status: it takes
\* no lock, and one restoration waits for another.
RestoreBegin ==
    /\ platform = "android"
    /\ "restore" \notin late
    /\ RestoreNeeded
    /\ late' = late \cup {"restore"}
    /\ UNCHANGED <<platform, tokens, out, data, disk, op, torn, spent>>

\* persist_google_drive_android_access_token, if consent was given before.
RestoreEnd ==
    /\ "restore" \in late
    /\ late' = late \ {"restore"}
    /\ tokens' \in {tokens, "fresh"}
    /\ UNCHANGED <<platform, out, data, disk, op, torn, spent>>

\* access_token_is_still_valid no longer holds.
Expire ==
    /\ tokens = "fresh"
    /\ tokens' = "stale"
    /\ Within("fails", MaxFails) /\ Spend("fails")
    /\ UNCHANGED <<platform, late, out, data, disk, op, torn>>

\* list_remote_sync_profiles takes no lock: the tokens it has read are saved again,
\* refreshed, whatever became of them, or removed if Google refuses them.
ListBegin ==
    /\ platform = "desktop"
    /\ tokens = "stale" /\ "list" \notin late
    /\ late' = late \cup {"list"}
    /\ UNCHANGED <<platform, tokens, out, data, disk, op, torn, spent>>

ListEnd ==
    /\ "list" \in late
    /\ late' = late \ {"list"}
    /\ tokens' \in {"fresh", "none", tokens}
    /\ UNCHANGED <<platform, out, data, disk, op, torn, spent>>

\* get_valid_google_access_token, before a request.
Refresh ==
    /\ Syncing /\ platform = "desktop"
    /\ tokens = "stale"
    /\ tokens' = "fresh"
    /\ UNCHANGED <<platform, late, out, data, disk, op, torn, spent>>

\* A failed command of the user: only a sync that runs says so.
Stopped(d) ==
    IF op.kind = "sync" /\ op.step # "resume" THEN WithStatus(d, "error") ELSE d

\* The refresh token is refused, or Android's access token is too old.
Revoked ==
    /\ Syncing
    /\ tokens = "stale"
    /\ tokens' = IF platform = "desktop" THEN "none" ELSE tokens
    /\ op' = Idle
    /\ disk' = Stopped(disk)
    /\ UNCHANGED <<platform, late, out, data, torn, spent>>

\* with_sync_command: on Android a command first asks for a new access token.
Entitled ==
    /\ Unlocked
    /\ tokens # "none"
    /\ tokens' = IF platform = "android" THEN "fresh" ELSE tokens

-----------------------------------------------------------------------------
(* Entries.                                                                *)

Linked == (IF Configured THEN {Config(disk).profile} ELSE {})
              \cup (IF op # Idle /\ op.profile # None THEN {op.profile} ELSE {})

\* run_dirty_command, with_dirty_conn: mark and edit under the database mutex.
Edit(l) ==
    /\ ~Sealed
    /\ Within("edits", MaxEdits) /\ Spend("edits")
    /\ lib' = l
    /\ disk' = Dirtied(disk)
    /\ UNCHANGED <<auth, backup, cloud, op, torn>>

Add ==
    \E i \in Item \ born :
        /\ Edit(lib \cup {i})
        /\ born' = born \cup {i}
        /\ UNCHANGED deleted

Delete ==
    \E i \in lib :
        /\ Edit(lib \ {i})
        /\ deleted' = [p \in Profile |->
                          IF p \in Linked THEN deleted[p] \cup {i} ELSE deleted[p]]
        /\ UNCHANGED born

\* Another device of the profile publishes.
PeerPublishes ==
    /\ Within("peers", MaxPeers) /\ Spend("peers")
    /\ \E p \in {q \in Profile : cloud[q] # None} :
          LET old == cloud[p].items IN
          \E items \in {old \cup {i} : i \in Item \ born} \cup {old \ {i} : i \in old} :
              /\ cloud' = [cloud EXCEPT ![p] =
                              [items |-> items, version |-> @.version + 1]]
              /\ deleted' = [deleted EXCEPT ![p] = @ \cup (old \ items)]
              /\ born' = born \cup items
    /\ UNCHANGED <<auth, lib, backup, disk, op, torn>>

-----------------------------------------------------------------------------
(* Creating, attaching and synchronising.                                  *)

\* create_remote_sync_profile: a new identifier, and what is in the database now.
CreateBegin ==
    /\ Entitled
    /\ ~Configured
    /\ Within("links", MaxLinks) /\ Spend("links")
    /\ \E p \in {q \in Profile : cloud[q] = None} :
          op' = [Command("create", p, "publish") EXCEPT !.snap = lib]
    /\ UNCHANGED <<platform, late, out, data, disk, torn>>

\* list_remote_sync_profiles.
Attachable == {p \in Profile : cloud[p] # None}

\* attach_remote_sync_profile: a safety backup comes first.
AttachBegin ==
    /\ Entitled
    /\ ~Configured
    /\ Within("links", MaxLinks) /\ Spend("links")
    /\ \E p \in Attachable : op' = Command("attach", p, "read")
    /\ backup' = lib
    /\ UNCHANGED <<platform, late, out, lib, disk, cloud, born, deleted, torn>>

\* run_sync, nothing being left over.
SyncBegin ==
    /\ Entitled
    /\ Configured /\ disk.journal = None
    /\ op' = Command("sync", Config(disk).profile, "read")
    /\ disk' = WithStatus(disk, "syncing")
    /\ UNCHANGED <<platform, late, out, data, torn, spent>>

\* run_sync and resolve_sync_conflict first carry out a queue that was interrupted.
ResumeBegin ==
    /\ Entitled
    /\ disk.journal # None /\ ~disk.journal.applied
    /\ op' = Command("sync", Config(disk).profile, "resume")
    /\ UNCHANGED <<platform, late, out, data, disk, torn, spent>>

\* resolve_sync_conflict: the last answer ends the journal.
Resolve ==
    /\ Entitled
    /\ disk.journal # None /\ disk.journal.applied
    /\ disk' = [config |-> [profile |-> disk.journal.profile, status |-> "dirty"],
                base |-> disk.journal.remote, journal |-> None]
    /\ UNCHANGED <<platform, late, out, data, op, torn, spent>>

Base_Kept == IF disk.base = None THEN {} ELSE disk.base.items

\* What a merge starts from: nothing when attaching, whatever the disk holds.
Base == IF op.kind = "attach" THEN {} ELSE disk.base.items

\* load_remote_manifest and download_remote_snapshot.
ReadRemote ==
    /\ At("read") /\ tokens = "fresh"
    /\ cloud[op.profile] # None
    /\ \/ op.kind = "attach"
       \/ disk.base # None /\ disk.base.version # cloud[op.profile].version
    /\ op' = [op EXCEPT !.step = "queue", !.remote = cloud[op.profile]]
    /\ UNCHANGED <<auth, data, disk, torn, spent>>

\* The remote is what it was: there may be nothing to do, or only to publish.
NothingRemote ==
    /\ At("read") /\ op.kind = "sync" /\ tokens = "fresh"
    /\ disk.base # None /\ disk.base.version = cloud[op.profile].version
    /\ IF lib = disk.base.items
       THEN op' = Idle /\ disk' = WithStatus(disk, "clean")
       ELSE /\ op' = [op EXCEPT !.step = "publish", !.snap = lib,
                                !.remote = cloud[op.profile]]
            /\ UNCHANGED disk
    /\ UNCHANGED <<auth, data, torn, spent>>

\* "Missing local base snapshot."
NoBase ==
    /\ At("read") /\ op.kind = "sync" /\ disk.base = None
    /\ op' = Idle
    /\ disk' = WithStatus(disk, "error")
    /\ UNCHANGED <<auth, data, torn, spent>>

MergedItems(b, l, r) == {i \in Item : Merged(i \in b, i \in l, i \in r)}

\* queue_pending_sync: the journal holds the configuration too.  If both sides
\* have changed, entries of both may clash.
Queue ==
    /\ At("queue")
    /\ \E asks \in {FALSE, lib # Base /\ op.remote.items # Base} :
          disk' = [disk EXCEPT !.journal =
                      [profile |-> op.profile, asks |-> asks,
                       status |-> IF asks THEN "conflict" ELSE "dirty",
                       baseline |-> lib, remote |-> op.remote, applied |-> FALSE,
                       target |-> MergedItems(Base, lib, op.remote.items)]]
    /\ op' = [op EXCEPT !.step = "apply"]
    /\ UNCHANGED <<auth, data, torn, spent>>

AppliedBase_Kept(j) == disk.base

AppliedBase(j) == j.remote

\* recover_pending_snapshot_apply: what the user has done since the snapshot was
\* built is carried over; then the base, the configuration, the journal.
Apply ==
    /\ At("apply") \/ At("resume")
    /\ LET j == disk.journal IN
       /\ lib' = MergedItems(j.baseline, lib, j.target)
       /\ disk' = [config |-> [profile |-> j.profile,
                              status |-> IF At("resume") /\ ~j.asks THEN "syncing"
                                         ELSE j.status],
                   base |-> AppliedBase(j),
                   journal |-> IF j.asks THEN [j EXCEPT !.applied = TRUE] ELSE None]
       /\ op' = IF j.asks THEN Idle
                ELSE IF At("resume") THEN [op EXCEPT !.step = "read"]
                ELSE [op EXCEPT !.step = "publish", !.snap = lib']
    /\ UNCHANGED <<auth, backup, cloud, born, deleted, torn, spent>>

\* upload_snapshot and the manifest: only over the version that was read.
Publish ==
    /\ At("publish") /\ tokens = "fresh"
    /\ LET p == op.profile
           new == [items |-> op.snap,
                   version |-> IF op.remote = None THEN 1 ELSE op.remote.version + 1]
       IN  IF cloud[p] = op.remote
           THEN /\ cloud' = [cloud EXCEPT ![p] = new]
                /\ op' = [op EXCEPT !.step = "base", !.remote = new]
                /\ UNCHANGED disk
           ELSE /\ op' = Idle
                /\ disk' = WithStatus(disk, "dirty")
                /\ UNCHANGED cloud
    /\ UNCHANGED <<auth, lib, backup, born, deleted, torn, spent>>

\* The database mutex is taken; the base is saved.
SaveBase ==
    /\ At("base")
    /\ disk' = [disk EXCEPT !.base = op.remote, !.journal = None]
    /\ op' = [op EXCEPT !.step = "config"]
    /\ UNCHANGED <<auth, data, torn, spent>>

\* Clean if nothing changed while the snapshot went out.
FinalStatus == IF lib = op.snap THEN "clean" ELSE "dirty"

SaveConfig ==
    /\ At("config")
    /\ disk' = [disk EXCEPT !.config = [profile |-> op.profile, status |-> FinalStatus]]
    /\ op' = Idle
    /\ UNCHANGED <<auth, data, torn, spent>>

\* An error, or the timeout of the command, which drops it where it waits.
Fail ==
    /\ Syncing /\ ~Sealed
    /\ Within("fails", MaxFails) /\ Spend("fails")
    /\ op' = Idle
    /\ disk' \in {disk, Stopped(disk)}
    /\ UNCHANGED <<auth, data, torn>>

-----------------------------------------------------------------------------
(* Signing out, factory reset and the safety backup.                       *)

After(f, files) == LET n == CHOOSE k \in DOMAIN files : files[k] = f IN
                   IF n = Len(files) THEN None ELSE files[n + 1]

\* disconnect_google_drive: the tokens go first.
SignOutBegin ==
    /\ Unlocked
    /\ Configured \/ tokens # "none"
    /\ Within("links", MaxLinks) /\ Spend("links")
    /\ tokens' = "none"
    /\ op' = Command("signout", None, Head(SyncFiles))
    /\ UNCHANGED <<platform, late, out, data, disk, torn>>

\* clear_sync_runtime_files, file by file.  What was under way without the lock may
\* still bring tokens.
SignOutStep ==
    /\ op # Idle /\ op.kind = "signout"
    /\ disk' = [disk EXCEPT ![op.step] = None]
    /\ IF After(op.step, SyncFiles) = None
       THEN op' = Idle /\ torn' = FALSE /\ out' = (late = {} /\ tokens = "none")
       ELSE /\ op' = [op EXCEPT !.step = After(op.step, SyncFiles)]
            /\ UNCHANGED <<torn, out>>
    /\ UNCHANGED <<platform, tokens, late, data, spent>>

\* What a factory reset moves aside, in this order.
Targets == <<"library">> \o SyncFiles

\* wipe_everything: the sync lock, the database mutex, the one of the state files.
ResetBegin ==
    /\ Unlocked
    /\ Within("links", MaxLinks) /\ Spend("links")
    /\ op' = [Command("reset", None, Head(Targets)) EXCEPT !.snap = lib, !.remote = disk]
    /\ UNCHANGED <<auth, data, disk, torn>>

Without(files, d) == [f \in Range(SyncFiles) |-> IF f \in files THEN None ELSE d[f]]

\* wipe_everything_with_additional_targets moves the next target away; the
\* library that is then created is empty.
ResetStep ==
    /\ op # Idle /\ op.kind = "reset"
    /\ lib' = {}
    /\ disk' = Without({op.step}, disk)
    /\ IF After(op.step, Targets) = None
       THEN op' = Idle /\ torn' = FALSE
       ELSE op' = [op EXCEPT !.step = After(op.step, Targets)] /\ UNCHANGED torn
    /\ UNCHANGED <<auth, backup, cloud, born, deleted, spent>>

\* A target cannot be moved: the others are moved back, as far as that goes.
ResetFails ==
    /\ op # Idle /\ op.kind = "reset"
    /\ Within("fails", MaxFails) /\ Spend("fails")
    /\ \E k \in DOMAIN Targets :
         /\ Targets[k] = op.step
         /\ \E gone \in SUBSET {Targets[n] : n \in 1 .. k - 1} :
              /\ lib' = IF "library" \in gone THEN {} ELSE op.snap
              /\ disk' = Without(gone, op.remote)
              /\ torn' = (torn \/ (gone # {} /\ Config(disk') # None))
    /\ op' = Idle
    /\ UNCHANGED <<auth, backup, cloud, born, deleted>>

\* The backup made before attaching is restored, without any sync state.
RestoreBackup ==
    /\ Unlocked
    /\ backup # None
    /\ Within("links", MaxLinks) /\ Spend("links")
    /\ lib' = backup
    /\ disk' = NoFiles
    /\ torn' = FALSE
    /\ UNCHANGED <<auth, backup, cloud, op, born, deleted>>

\* The process ends anywhere; Android's tokens were only in its memory.  Nothing
\* puts back what a factory reset had moved aside.
Crash ==
    /\ Within("fails", MaxFails) /\ Spend("fails")
    /\ tokens' = IF platform = "android" THEN "none" ELSE tokens
    /\ late' = {}
    /\ op' = Idle
    /\ torn' = \/ torn
               \/ op # Idle /\ op.kind = "reset" /\ op.step # "library" /\ Configured
    /\ UNCHANGED <<platform, out, data, disk>>

-----------------------------------------------------------------------------
Account == \/ SignInBegin \/ SignInEnd \/ SignInFails \/ RestoreBegin
           \/ RestoreEnd \/ ListBegin \/ ListEnd \/ Expire
Begin == CreateBegin \/ AttachBegin \/ SignOutBegin \/ ResetBegin \/ RestoreBackup
Press == SyncBegin \/ ResumeBegin \/ Resolve
Work == \/ Refresh \/ Revoked \/ ReadRemote \/ NothingRemote \/ NoBase \/ Queue \/ Apply
        \/ Publish \/ SaveBase \/ SaveConfig \/ SignOutStep \/ ResetStep

Next == \/ Account \/ Begin \/ Press \/ Work \/ Add \/ Delete \/ PeerPublishes
        \/ Fail \/ ResetFails \/ Crash

Spec == Init /\ [][Next]_vars

\* A command takes its next step, and the user keeps pressing the button.
FairSpec == Spec /\ WF_vars(Work) /\ WF_vars(Press)

-----------------------------------------------------------------------------
(* Properties.                                                             *)

\* What is on disk; a running command; one that removes the files.
Files == [config : SyncConfig \cup {None}, base : Snapshot \cup {None},
          journal : Pending \cup {None}]
SyncCommand == [kind : {"create", "attach", "sync"},
                step : {"read", "queue", "apply", "resume", "publish", "base", "config"},
                profile : Profile, snap : SUBSET Item, remote : Snapshot \cup {None}]
SignOut == [kind : {"signout"}, step : {"config", "base", "journal"},
            profile : {None}, snap : {{}}, remote : {None}]
Reset == [kind : {"reset"}, step : {"library", "config", "base", "journal"},
          profile : {None}, snap : SUBSET Item, remote : Files]

TypeOK ==
    /\ platform \in {"desktop", "android"} /\ tokens \in {"none", "stale", "fresh"}
    /\ late \subseteq {"signin", "restore", "list"}
    /\ out \in BOOLEAN /\ torn \in BOOLEAN
    /\ lib \subseteq Item /\ born \subseteq Item
    /\ backup # None => backup \subseteq Item
    /\ disk \in Files
    /\ cloud \in [Profile -> Snapshot \cup {None}]
    /\ deleted \in [Profile -> SUBSET Item]
    /\ op = Idle \/ op \in SyncCommand \/ op \in SignOut \/ op \in Reset

\* No entry leaves the cloud, nor the library of a device that synchronises,
\* unless a user of that profile deleted it: not through a base of another
\* profile or an earlier link, a crash between two files, a lost race or a
\* restored backup.  (A factory reset that stopped half way is left out: it
\* may leave the base of the library that is gone.)
NothingVanishes ==
    [][~torn =>
          /\ \A p \in Attachable : cloud[p].items \ cloud'[p].items \subseteq deleted'[p]
          /\ Syncing => lib \ lib' \subseteq deleted'[op.profile]]_vars

\* The base of a device is a version its profile had, the profile of a configured
\* device exists, and a status of clean is true of the library.
BooksAreTrue ==
    LET c == Config(disk) IN
    Configured /\ (Unlocked \/ Syncing) =>
        /\ cloud[c.profile] # None
        /\ disk.journal = None /\ disk.base # None =>
              /\ disk.base.version <= cloud[c.profile].version
              /\ disk.base.version = cloud[c.profile].version =>
                    disk.base.items = cloud[c.profile].items
              /\ Shown = "clean" /\ ~torn => lib = disk.base.items

\* After a sign-out with nothing under way no account comes back by itself: not
\* by a silent restoration, a refresh or a command that still ran.
SignedOut == out => tokens = "none"

\* What the device has on record of its profile and its account is so.
RecordsAreTrue == BooksAreTrue /\ SignedOut

\* While the user keeps pressing the button the device and its profile come to
\* agree, whatever was interrupted before; only lost tokens, a sign-out or a
\* factory reset that stopped half way prevent it.
Converges ==
    Configured ~>
        \/ ~Configured \/ tokens = "none" \/ torn
        \/ Shown = "clean" /\ cloud[Config(disk).profile].items = lib
=============================================================================
