# Kechimochi: a verification project

TLA+ models of [Kechimochi](../src/README.md), a local-first log of immersion media
(a Tauri app: Rust core in `src/src-tauri/src`, TypeScript interface in `src/src`).
TLC checks the models on small instances; TLAPS proves the most important
properties for every value of the constants.

The program's risk lies in these places: **cloud sync** (several installations, a
file store that is not a register, conflicts, crashes at any point), **replacing a
live library** (a full backup, an interactive recovery, a migration of old
schemas, a factory reset), **links without foreign keys** (activities, milestones
and cover files that every operation must keep in step), and **state shared by
processes** (the instance lock, the listener of the local HTTP API, a token record
that outlives a screen). Each of them is modelled.

## 1. Inventory

### Core (Rust)

| Component | State | Operations | What makes it correct |
|---|---|---|---|
| Drive manifest protocol, `sync_drive.rs` | app-data files of one name in Google Drive, with etags | `read_manifest` (list, then a download framed by two etag reads per file), `upsert_manifest_and_confirm` (generation test, If-Match update or creation, confirming read), journaled force publish | no publication overwrites a snapshot its author did not merge; nothing is written twice; the device is told the truth; reads end |
| Snapshot merge, `sync_merge.rs` | none (a function of base, local and remote snapshot) | `merge_snapshots`, per-field rules, tombstones, last-writer-wins settings, `merge_duplicate_media_identity` | nothing lost silently, no needless question, both devices agree, the dead stay dead |
| Sync orchestrator, `sync_orchestrator.rs` | the files below, the database | `run_sync`, `resolve_sync_conflict`, `replace_local_from_remote`, `force_publish_local_as_remote`, attach, create, settling of duplicate identities, transfer of covers, recovery of whatever was interrupted | no edit lost, status honest, choices applied once, the journal is carried through |
| Sync state files, `sync_state.rs` | base snapshot, config and status, pending-sync journal, completed resolution, lock, device id | atomic replacement of one file each; lock; removal of all | every crash point between two replacements is recoverable |
| Snapshots, `sync_snapshot.rs` | commit marker in the database | `build_snapshot`, `apply_snapshot_with_commit_marker` | the apply is one transaction that proves itself |
| Cover blobs, `sync_cover_blobs.rs` | cover files, hashes | upload before publish, download after apply, compare-and-set on the row | a published snapshot never names a missing blob; a live edit wins |
| Authentication, `sync_auth.rs` | token store | sign-in, refresh, silent restoration, disconnect | a refresh does not bring back an account that was removed |
| Full backup, `backup.rs` | swap directories with phase, originals, progress markers; the library's files | import (swap out, swap in, verify, commit), abort, recovery at start, export | all or nothing, nothing destroyed, the app starts again |
| Database recovery, `database_recovery.rs` | recovery session: plan, target | analyse, apply choices, cancel | a stale plan is refused; choices apply wholly or not at all |
| Database, `db.rs`, `models.rs` | two SQLite files, cover files | versioned migrations, operations on entries, activities, milestones and covers, factory reset | every row keeps its entry and its identifier; a migration is whole or nothing |
| CSV, `csv_import.rs` | a review shown to the user | analyse, apply, export | an import does what its review showed; an export can be read back |
| Read models, `dashboard_data.rs`, `timeline_data.rs`, `library_data.rs` | none | timeline pages and buckets, charts, heatmap, lists | the views come to the same totals; pages are one list |
| Commands, `lib.rs`, `instance_lock.rs`, `http_api.rs`, `bin/web_server.rs` | the mutex around the connection, the instance lock and its owner record, the API listener and its config, startup mode | one command per operation; edits mark the sync profile dirty under the mutex; sync commands have a timeout; a save of the API config stops, starts and persists | one owner; its listener is the one that was chosen |

### Interface (TypeScript)

| Component | State | What makes it correct |
|---|---|---|
| Sync screens, `profile/ProfileView.ts`, `sync_modal.ts` | conflicts on display | an answer whose response is lost may be given again |
| Timeline and library, `timeline/`, `media/` | request ids, pages, rows on screen | a late response never replaces a newer one; a row's id is still that row's |
| Shell, `main.ts`, `app_shell.ts`, `back_stack.ts` | back-handler stack | |
| Updates, dashboards, counts, importers | | presentation, parsing of foreign pages |

### How they interact

The interface calls commands (Tauri or HTTP). All of them share one SQLite
connection behind a mutex. A sync command takes the sync lock, so there is one at a
time, but holds the mutex only for single steps: **edits run between any two of
them**. It reads and writes the state files one after the other, and the cloud
through the Drive client. Other installations do the same, at any time. Importing a
backup takes the sync lock and the mutex and replaces files, the sync state files
included. The timeout of a command, an error or the end of the process stops it
between any two steps; the next command, or the next start, finds what is on disk.
Requests that refresh a token run beside all this, some of them without a lock.

### What is hard

* Drive is a set of files with etags: listing, reading and writing are separate
  requests, a write may land after its sender gave up, names are not unique.
* The library changes between the capture, the merge, the journal and the apply, and
  between a screen and the request that is made from it.
* Journal, base, status and receipt are separate files beside a database that
  commits on its own: the marker in the database decides whether a replay is due.
* A response to a choice may be lost, and the queue may have changed since.
* A swap of a dozen files can be interrupted, and its undoing, and the removal of
  what it leaves behind; so can a reset, a sign-out, a migration.
* A second process may take over the directory between any two steps of the first.

`PROJECT.json` lists each hazard at its line with the properties that cover it, or
why none does.

## 2. Modules

| Module | Models | Role |
|---|---|---|
| `RemoteRegister` | what a device may rely on when it publishes | abstract specification |
| `DriveManifest` | `sync_drive.rs`, publish paths of `sync_orchestrator.rs` | implements `RemoteRegister` |
| `ThreeWay` | merge of one value | used by the merge, the journal and the session |
| `SyncMerge` | `sync_merge.rs`, tombstones of `sync_snapshot.rs` | operators |
| `MergeCases` | the inputs a merge can meet | state machine over `SyncMerge` |
| `Twins` | the queue of duplicate identities in `sync_orchestrator.rs` | state machine over `SyncMerge` |
| `SyncJournal` | `sync_orchestrator.rs` over `sync_state.rs`, `sync_snapshot.rs`; edits of `lib.rs`, `http_api.rs` | state machine, with the register for the cloud |
| `Covers` | the transfer of covers in `sync_orchestrator.rs`, `sync_cover_blobs.rs`, cover files in `db.rs` | state machine |
| `Session` | `sync_auth.rs`, creating, attaching, leaving and resetting in `sync_orchestrator.rs`, `sync_state.rs`, `db.rs` | state machine over whole commands |
| `BackupSwap` | installation and recovery in `backup.rs` | state machine |
| `Schema` | the migrations of `db.rs` | operators |
| `Startup` | `lib.rs` `run`, `web_server.rs` `main`, `database_recovery.rs`, `backup.rs` | state machine over `Schema` |
| `Library` | operations of `db.rs`, `csv_import.rs`, the apply of `sync_snapshot.rs` as the rows see it | state machine |
| `Dates`, `Timeline`, `Dashboard` | `timeline_data.rs`, `dashboard_data.rs`, `library_data.rs` | operators |
| `Views` | `timeline/TimelineView.ts` over the read models | state machine |
| `LocalApi` | `instance_lock.rs`, the listener in `lib.rs` | state machine |
| `DriveManifestProofs`, `MergeCasesProofs`, `SyncJournalProofs`, `BackupSwapProofs`, `LibraryProofs`, `ViewsProofs`, `CoversProofs`, `SessionProofs` | | theorems |
| `MC*` | | instances for TLC |

`SyncJournal` composes with `DriveManifest` through the register it assumes;
`Twins` and `MergeCases` run the same merge; `Startup` and `Session` treat as one step
what `BackupSwap`, `DriveManifest` and `SyncJournal` show to be one. A module of proofs
may be about two components, and extends both: `BackupSwapProofs` about `BackupSwap` and
`Startup`, `LibraryProofs` about `Library` and `LocalApi`. For that the second of each
pair has names of its own for what both have (`StartupSpec`, `ApiSpec`).

Definitions named `X_Something` (or, in `Schema` and `Startup`, marked as such) before
a definition `X` are the form a slip in the code would give it. The specifications do
not use them.

### DriveManifest

`files` is the folder (several files may have the manifest's name), `clock` gives
etags, `late` holds writes whose sender gave up. A device is in one of the requests
of `read_manifest` (`list`, `fetch` the etag, `bytes`, `etag` again) for one of the
purposes the code reads for (`goal`), or in a write (`put`, `post`). `staged` is the
force-publish journal, on disk. `Checked` is the generation test, `PutAccepted` and
`PutRefused` the If-Match update, `PostAccepted` the unguarded creation, `Confirmed`
and `Conflicted` the read after it, `Recovered` the replay of a force publish.
`parent` in a manifest is history: the snapshot its author had downloaded. The code
breaks ties between manifests by time stamp and snapshot id; one arbitrary order
stands for both. `Reset` is the user emptying the hidden folder in Drive.

### SyncMerge, MergeCases

A media item is a function from slots; there is a class of slots for each rule of the
code: scalar fields, the optional cover, extra-data entries, identified records
(activities, milestones). `UidMerged` is `merge_media_uid` with its table of created,
changed and deleted; `Merge` is `merge_snapshots`. In `MergeCases` both devices start
from a snapshot and edit; `L` is built over the base (`derive_local_tombstones`), the
remote snapshot ends a chain of snapshots. Record order, metadata columns and text are
left out; a time stamp is a number that only settings look at.

### Twins

Title and variant are one slot. A merge has brought items with the same one, so its
target waits in the journal. `queue` holds the questions (twins, clashing fields,
deletions against changes), `baseline`, `target` and `cloud` the snapshots of the
journal. `Answer` is `resolve_journaled_sync_conflict`: the edits are merged in first
(`Rebased`), settled questions dropped (`Current`), twins found anew (`Refreshed`), and
only then the choice applied, combining (`Combined`) or renaming. `Apply` is
`recover_pending_snapshot_apply`, which merges later edits in again and fails on a
target that holds a record twice (`Fits`). The rest is history: `touched` (items the
user edited), `combined` (items that went into others), `back` (records of such items
that came back) and `owed`, the records that must not be lost: those of the first merge
and those of each edited item (`Due`), less those the user or an answer deleted and those
the cloud had deleted before. Crashes, tokens and receipts are in `SyncJournal`, where
settling twins is one choice. The status slot stands for the fields beside the name; the
others may have changed the items in `Changed`, and deleted their activities.

### SyncJournal

One installation, one action for every step between which an edit, a crash or another
device can come. `live` is the database (values of independent items), `marker` the
commit marker in it, `screen` the queue of conflicts a choice was made from (a choice
whose place in the queue has changed is stale, `ChoiceStale`), then the four files, the cloud's current snapshot, and the memory
of the running command, which `Crash` and `Fail` drop. `Locked` names the steps before
which the mutex stays held. A sync whose merge met conflicts goes on as `"review"`: it
publishes nothing, even if its rebase settles them all (`ContinueSync`). `CaptureMerge` is the merge, the `Queue*` actions
`queue_pending_sync_with_client`, the `Apply*` actions the recovery of an apply
(marker, rebase, transaction, journal, marker removal, covers, base, status, receipt,
journal), `Choose` and `JournalChoice` the resolution, `Replace*` and `Force*` the two
overwriting commands, `Publish*` the register, which may also mistake a device's own
write for another's (`PublishMistaken`): `LostIsSuperseded` says that the generation is
taken, not by whom, and it may be a late write of the device itself. `own` is
history: what the user wrote and neither the cloud nor the base ever took over.

### Covers

`cover` says which path a row names, `disk` which files are there, `blobs` what the
cloud holds under which name. A file is never rewritten, so its path says what is in
it. `plan` is what the running sync is to reach: its target, the hashes still to load
or to upload, what it has seen. `ApplySnapshot` installs the rows with the covers found
on disk (`InstalledHash`), `Collect`, `Download`, `AllLoaded` and `SetCover` are the two
loops of the materialisation with its compare-and-set, `ListBlobs`, `Upload` and
`Publish` the way out. The user saves covers, deletes entries (which removes files,
`RemoveOld`) and saves whole records with the path a client read earlier. What the
merge decides is a choice per entry here. An apply interrupted before its commit starts
over; covers that come in a media CSV are left out.

### Session

Whole commands of one device against cloud profiles: a library is a set of entries,
each of which comes once and goes once. `op` is the command at work, `disk` the config,
base, journal and the backup made before attaching, `late` the token requests that
outlive their screen. `CreateBegin` and `AttachBegin` to `SaveConfig` are the steps of
the two ways to a profile, `SignOutStep` and `ResetStep` remove or move one file each,
`RestoreBackup` is the undo of an attachment. `ReadRemote`, `Queue`, `Apply` and `Publish`
merge by set arithmetic (how values merge is `SyncMerge`'s matter) and publish over the
version that was read. There is
one Google account; replacing and force publishing are left to `SyncJournal`; the
interface never runs two commands at a time; a sign-in may end after its screen gave
up; the preview of an attachment is left out.

### BackupSwap

The library is a list of paths, of which a backup can hold the first ones (the sync
state files are only swapped out). A file is abstracted to the library it belongs to.
`dirs` are the swap directories with phase file, originals and progress markers. One
action for each rename and each replacement of the phase file; `Undo*` and `MoveBack`
are `recover_backup_swap_directory`, `Clean*` is `remove_dir_all`, entry by entry in
any order, a subdirectory emptied before the next entry. `Fail` is an error in any
step (an abort, or the end of a start), `Crash` the end of the process. Files that
SQLite adds or removes while the library is in use are not followed; `Verify` may
create missing ones. Directories are recovered in the order of their random names
(`rank`).

### Schema, Startup

A bundle is two files with versions and the data the migrations rewrite: links, titles,
variants, types, identifiers. Each step of the migration is a function of the bundle
(one transaction over both files): `Shared` (a profile's own entries made shared, refused
by `CanShare`), `Founded` (2), `Typed` (5), `Identified` (6),
`Recorded` (7), with the refusals `CanIdentify`, `CanRecord`. A bundle whose files
differ in version is taken for the latest (`Restamp`) only if its titles are not blank (`Untitled`, else it
`Predates` that one) and its records are named (`Nameless`). `Startup` opens, migrates
step by step, refuses, or offers a recovery whose plan is a session with a token;
answers may be late, partial or for an older plan. The safety backup precedes the one
transaction of a recovery. Backups are imported into a directory of their own, migrated
there, and swapped in as one step. `was`, `gave`, `before` and `chose` are history.

### Library

Entries, activities and milestones with their numbers and identifiers. A screen shows
rows read earlier and sends their numbers (`screen`, `Look`); a sync replaces every row
(`SyncApply`: new numbers, same identifiers). Imports of each kind have an analysis that is
shown (`review`) and an application that checks again. A row of a file may leave the
variant column out. `ExportLogs`, `ExportMedia` and `ExportMilestones` are the files an
export writes, read back through the imports' own operators. `touched` is history: the
row the last request meant, and the rows it hit. There is one slow client; numbers that
were given and never used (SQLite's) only make a wrong hit less likely.

### Dates, Timeline, Dashboard, Views

The calendar is a regular one with short months and years; dates have the precision of
a day, a month or a year, as in the code. `Timeline` gives events, their order, pages,
buckets and summaries, `Dashboard` ranges with series and categories, the heatmap,
weekday statistics, totals with streaks, recent activities and the library list. Each
read is one transaction, so that it is an operator of the library it finds. There are at
most `MaxBuckets` months or years (600 in the code, `MAX_TIMELINE_BUCKETS`): the latest
are listed (`Truncated`), while the summary beside them is of all. `Views` is the client:
it asks for the page after those it shows, and takes an answer unless it asked for
something else since; the library changes in between. The year in `filter` is asked for
at once, and so is the kind of event, which the model leaves out for that reason; a word
typed into the search (`Search`) is the filter at once, makes what is under way unwanted,
and is asked for when a timer ends (`typed`, `SearchTimer`), so that "more" may be asked
for in between. Requests for buckets are not requests of the client model. The invariants
about the read models are evaluated for every initial library.

### LocalApi

Launches of the app share a directory: who has the lock (`lock`), whom the owner record
names (`owner`), which ports are bound by whom and under which configuration. A save is
a job of steps (`SaveBegin`, `Stop`, `Start`, `Write`, `Set`; `Unstart` and `Restore` when
the file cannot be written) beside the task that the start of the app leaves to bring up
the listener (`BootBegin`, `BootEnd`). Host, scope and origins are one value; routes and
the admission of requests are left out. That the operating system releases a lock with
its process is taken as given. After an interactive recovery the configuration is the
default one until the next start, as in the code.

## 3. Runs

Every bound is a constant of the run's cfg or MC module.

| Run | Checks | Bounds, and why they are enough |
|---|---|---|
| `manifest_race` | Chain, OutcomesAreTrue, WrittenOnce, ImplementsRegister, EveryAttemptEnds | 2 devices, 3 snapshots (so generations 1 to 3), 1 failure, 2 read attempts: both race for a generation, and one can fail and retry while the other goes on (185,871 states) |
| `manifest_reset` | FilesRiseByOne | the same with 2 files and one emptying of the folder in mid operation (1,538,766) |
| `merge_items` | NothingLost, ConflictsAreReal, Symmetric, TombstonesExact, SettledRight | devices: one item with a field and an activity beside a setting with two stamps for one device around one of the other; the merge treats items and slots separately, and every combination of the three versions occurs. Twins: 3 items with a record each, 3 names, 3 statuses, 1 edit, 2 items the others may have changed: three items of one name, two pairs at a time, an answer between an edit and its merge, an edit of an item that the cloud changed or deleted (949,413 together) |
| `journal_resolve` | JournalIsSound, AnswersAreTrue, NothingReverted | sync and resolve, 2 items, 3 values (base, mine, theirs), 2 edits, 2 crashes or errors, generations up to 3: enough for a conflict, an edit that rebases it, and a crash in a recovery (4,978,663) |
| `journal_overwrite` | KeptAndHonest, CommittedOnce, CarriedThrough | all four commands, 1 item, 3 values, 2 edits, 1 failure, no duplicate identities: one item is enough, because these commands treat the library as a whole (327,669) |
| `covers` | NamesHaveFiles, CoversArrive, AppliesEnd | 2 entries, 2 covers, 2 edits, 2 publications, 1 failure: two entries share a file, swap covers, and one goes while the other's cover is under way (895,625) |
| `session` | RecordsAreTrue, NothingVanishes, Converges | 3 entries, 2 profiles, 2 edits, 1 publication of another device, 1 failure or crash, 2 links: a link that failed half way is followed by one to another profile (919,850) |
| `backup_swap` | AllOrNothing, NothingDestroyed, RefusalIsHarmless, ComesBack | 2 paths of a backup and one of the sync state, 2 imports, 3 failures: an installation, its rollback and the recovery after it are each cut short |
| `startup` | NothingDropped, RecoveryIsSound, UidsAgree, RecoveryEnds | 11 libraries (each refusal and each repair of the migrations, old and new), 2 backups, 1 crash, 2 imports, 1 answer in flight (206,825) |
| `library` | WellLinked, OnlyWhatWasSeen, ImportedAsReviewed, ExportsReturn | 3 numbers and identifiers per table, 2 titles, 2 variants, files of up to two rows: an entry is renamed, replaced or removed between a screen or a review and the request (1,034,001) |
| `views` | PagesTile, ViewsAgree, PageArrives | months of 2 and years of 4 days, 2 entries, 6 logs of every precision in 2 years, 1 milestone, at most 2 buckets (some libraries have 3 months), pages of 2, 1 year and 1 word to select, 3 requests, 1 edit: every sub-library is read in every way (1,484,044) |
| `local_api` | RunsAsChosen, SavesEnd | 2 launches, 3 starts, 2 ports, 2 saves, 1 failure: a start during a save, a taken port on the way back, a takeover by the second launch (290,261) |

Deadlock is not checked where the bounds let the system stop (operations, snapshots,
edits and failures run out).

Several properties are conjunctions of named parts, which the modules comment one by
one:

| Property | Parts |
|---|---|
| OutcomesAreTrue | WonIsCommitted, LostIsSuperseded |
| EveryAttemptEnds | OperationsEnd, ForceDecided |
| NothingLost | ItemsKept, LatestSettingStands |
| SettledRight | RecordsOnce, RecordsKept, CombinedStays, Answerable |
| JournalIsSound | TypeOK, KeptAndHonest (NoEditLost, CleanIsHonest), ChosenOnce, ConflictsAreOpen |
| CarriedThrough | JournalEnds, EditsReachCloud |
| NamesHaveFiles | RowsHaveFiles, CoversPublished |
| CoversArrive | ChoiceKept, Delivered |
| RecordsAreTrue | BooksAreTrue, SignedOut |
| NothingDropped | RowsKept, RefusedWhole |
| RecoveryIsSound | RecoveredAsChosen, SafetyFirst |
| ExportsReturn | ActivitiesReturn, MediaReturn, MilestonesReturn |
| ViewsAgree | BucketsAddUp, ChartsAddUp, DaysAgree |
| RunsAsChosen | OwnerIsNamed, ServesAsChosen |

The type invariants of `DriveManifest`, `MergeCases`, `BackupSwap`, `Library`,
`LocalApi` (`ApiTypeOK`) and `Covers` are proved (`TypeCorrect`, `ApiTypeCorrect`) rather
than run.

### Conditions under which properties hold

* `AnswersAreTrue` and `NothingReverted` are checked without forced publications.
* `FilesRiseByOne` is what is left once the folder was emptied: creation has no
  precondition, so two devices that both find no manifest can both be told that they
  won generation 1.
* `AllOrNothing`, `NothingDestroyed` and `RefusalIsHarmless` hold while no cleanup of
  an undone installation was cut short and no import began beside an unfinished one
  (`Undisturbed`). `ComesBack` counts a recovery that refuses to guess as an answer.
* `SettledRight` exempts, from "no record twice", the records of an item that was combined
  into another, was edited before that was applied, and came back (`back`); from "a
  question can be answered", pairs of which the user has edited an item since the last
  merge. A record that the cloud had deleted is not owed, unless its item was deleted
  there and edited here.
* `NothingDropped` is checked and proved for libraries in which no entry of the profile's
  own file has a number that another entry has in the shared file (`Untangled`).
* `NamesHaveFiles` exempts an entry for which a client saved a path that leads nowhere
  (`broken`), `AppliesEnd` one whose cover the user touched since the apply.
* `NothingVanishes` and `Converges` exempt a factory reset that stopped half way
  (`torn`); `SignedOut` holds from the moment no request is under way.
* `PagesTile` speaks of pages of one filter with no edit of the library in between. That
  they are of the filter selected is not claimed while a search is about to run (`typed`)
  nor after a first page failed or was zoomed away (`missed`); `PageArrives` speaks of a
  timeline that was not zoomed while it loaded.
* `BucketsAddUp` speaks of months and years as far back as the listed ones reach, with no
  condition where they are fewer than `MaxBuckets`. What is assumed of that limit is that
  there is room for the months of a year (`TimelineAssumption`).

The next section says what the code does in these cases.

### Problems met

Behaviours of the code that the modelling showed, against what it or its documents
say. They are conditions of the properties above, not runs.

1. **A paused merge, then a forced publication.** A merge that waits for the user saves
   the base of a target it has not applied (`sync_orchestrator.rs:2075`; the comment at
   2073 relies on the journal to repair that). A forced publication that loses its race
   deletes the journal (2445-2452, 2476-2481). The base is then ahead of the library,
   and the next sync publishes the old values as the user's changes. `NothingReverted`
   with `Commands` of sync and force is violated that way.
2. **An item combined and edited at once.** An item is combined into another; before
   that is applied (in the same command, or while another pair waits) it is edited. The
   merge of the edit raises deletion against change and puts the item back beside the one
   that has its records. If no pair is left the target is applied, the unique index on
   record identifiers (`db.rs:1179`) refuses it, and so at every later command, since each
   begins with the recovery (1431-1445): the question cannot be answered either, until
   the user deletes one of the two. An HTTP client that moves an activity to another
   entry (`db.rs:2493`) while another device edits it comes to the same.
3. **A deleted entry blocks the covers.** The first loop of the materialisation asks for
   no download for an entry that is gone (`sync_orchestrator.rs:3931`); the second returns
   an error before it looks whether it is still there (4026, 4042), though the comment at
   4045 says that a local deletion wins. Every later sync begins with this apply and
   fails.
4. **A factory reset cut short.** It moves its targets aside one by one; if the process
   dies, or the rollback fails, nothing looks for them at the next start, though
   `CHANGELOG.md:150` promises that a failed reset leaves the data as they were. With the
   base and config still there the next sync publishes the deletion of everything.
5. **A second import beside an unfinished one** (`backup.rs:460`) is undone by the first
   one's recovery; and a removal that is interrupted between markers and phase file
   (852) makes the next start undo what was committed or repeat what was undone, or
   refuse to guess at every start (`docs/database-versioning.md:259`,
   `CHANGELOG.md:106`, the test at `backup.rs:1437`).
6. **A resolution that first meets an interrupted force publish** returns that one's
   result (`sync_orchestrator.rs:1442`); the client takes it for its own.
7. **A whole-record save stores the cover path the client read**, whose file may be gone
   (`db.rs:2255`); no snapshot can be built until it is replaced
   (`sync_snapshot.rs:576`). A cover uploaded after a failed rollback creates the
   directory at which the recovery then refuses (`db.rs:2910`).
8. **Zooming while a page of the timeline loads** leaves the answer unused and not asked
   for again (`TimelineView.ts:1190-1208`); a change of the filter whose first page fails
   is followed by a page of the new filter under the old rows (247-269, 278-293).
9. **Both devices publish after each merge** though the result may equal what is in the
   cloud (`sync_orchestrator.rs:1158`): two devices that take turns without editing
   raise the generation each time. No property forbids it.
10. **A number taken in the shared file.** The legacy upgrade copies the entries of a
   profile with `INSERT OR IGNORE` (`db.rs:1470`) and then looks only whether each number
   is in the shared file (1484-1492). If another entry has the number there (a legacy
   profile beside a shared file that another one founded), the profile's entry is gone
   and its activities are the other entry's. That check means to refuse an entry that
   "could not" be copied. `NothingDropped` with such a library is violated that way.
11. **A pair that cannot be answered.** While a pair waits, the user edits a field of one
   of the two that the cloud has changed as well. Every answer first merges that edit,
   which raises a question about the field; the pair must not be settled before it
   (`sync_orchestrator.rs:3275-3302`), and as this is an error (1634) the rebased journal is
   not saved: the question that has to be answered first is never on the screen. Undoing
   the edit, or forcing, is the way out. `Answerable` without its exemption is violated
   that way.
12. **More asked for before a search runs.** Typing into the search of the timeline changes
   the filter at once and asks 180 ms later (`TimelineView.ts:1128-1142`). "Load more",
   which scrolling does by itself, sends the new filter with the offset of the old rows in
   between (278-293), and its page is put under them. The search replaces both when it
   runs; if its first page fails they stay. The exemption of `PagesTile` while `typed` is
   for that: until the timer ends the pages may be of two filters, not only of the old one.
13. **Months beyond the limit.** Of more than 600 months only the latest are listed
   (`timeline_data.rs:25`, 793), and nothing says so: the summary above them, which is of
   all activities and events, does not come to their sum. Selecting a year shows its months
   whatever their age.
14. **A legacy profile beside a shared file without identifiers.** Its entries are copied
   with an identifier each (`db.rs:1470`), for which that file has no column yet: the
   upgrade ends with an error of the database in place of a refusal of its own. Nothing is
   written. (The library `Late` of the run `startup`.)

### Fairness

* `DriveManifest`: a running operation takes its steps (the async runtime polls it),
  and a device with a force journal is asked to sync again. Failures are bounded.
* `SyncJournal`: a running command takes its steps; the user keeps asking for sync
  (it is only ever started by the user: `profile/ProfileView.ts:2092`, `main.ts:632`)
  and, whenever conflicts keep being on display, answers one (strong fairness: they go
  from the screen during each command).
* `Covers`: a sync that began goes on, and one begins again; requests get an answer.
* `Session`: a command at work takes its steps, the user keeps pressing the sync button.
* `BackupSwap`: a running installation or recovery goes on, and an app that is down is
  started again.
* `Startup`: the system's steps, imports that were asked for, and answers of the user;
  strong fairness says that a user who goes on answering gets a complete answer to the
  present plan through.
* `Views`: requests are answered (or fail), and the timer that runs a search ends.
* `LocalApi`: in each process a save takes its steps, and the task of its start runs.

## 4. Proofs

**`DriveManifestProofs`**, for any set of devices, snapshots and file ids, any number
of failures and read attempts: `TypeCorrect` and `GenerationsRise` (`FilesRiseByOne`)
however often the folder is emptied, and as long as it is not (`MaxResets = 0`)
`NoLostUpdate` (`Chain`), `OutcomesJustified` (`OutcomesAreTrue`), `NeverRewritten`
(`WrittenOnce`) and
`RegisterImplemented` (every step is a step or a stutter of `RemoteRegister`). `Chain` is
not inductive: that a write extends the chain needs that the version it was built on is
the one in force. The invariant `IInv` carries it: a candidate in memory is a version the
one file has had, and its etag is the current one only if its manifest is (`Version`);
the bytes between two etag reads belong to them (`ReadInv`); a manifest being published
was derived from a committed one of the generation before (`Based`), also in the
journal and in late writes. The If-Match update then commits only over what was read.
Once the folder has been emptied, creations can leave several files, and the other four
statements are false of the code's protocol; what is left is said of each file. `AnyInv`
holds then: a version a reader has seen (`Seen`) is what its file holds for as long as the
file has that etag, and every conditional write, in hand or in flight, is of the generation
after the version it depends on. That the newest candidate is one of those read rests on
the finiteness of what was read and the well-founded order of the natural numbers
(`NewestExists`), in place of an induction.

**`MergeCasesProofs`**, for libraries of any size: `TypeCorrect`, `NoSilentLoss`
(`NothingLost`), `NoNeedlessQuestion` (`ConflictsAreReal`), `NoResurrection`
(`TombstonesExact`), `OrderIrrelevant` (`Symmetric`), `LastWriterWins`. The merge is a
function, so the properties follow from what is known of its inputs, and that is the
invariant: snapshots are well formed, live and deleted uids disjoint, no uid the base
knew is forgotten by the remote chain, and the settings a side changed bear its stamps
(without the last, a tie of equal stamps would break the symmetry).

The second half of the module is about `Twins`, for any number of items, names, edits and
answers: `TwinsInvariance` and `TwinsSettle` (`SettledRight`). What the property forbids
happens several merges after its cause, so the invariant `TwinsInv` is about what the
*next* merge reads, `baseline`, `live`, `target` and `queue`:

* `Origins`: what the target lost of the baseline it has as a tombstone; an item or record
  that is in the library and not in the baseline was created since and is known to no
  snapshot; the baseline holds a record once. This is why a merge of edits can bring an
  item back (`Revived`) but mixes up no two.
* `Questions`: a question about a deletion holds the item exactly where neither library
  nor target does. The records kept in such a question are therefore a place of their
  own: `Stands` says that a record is in an item of the target or in the question about it.
* `Places`: two places of a record, or a place in the baseline and another in the target,
  are there only after a combination, and the second only if the item came back.
* `Untouched`: a combined item stays away, with no question about it, while the user leaves
  it alone; `Kept`: every record that is owed stands where the next merge finds it.

A merge of the edits leads from such a state to one in which library and baseline agree
(`Settled`), under which answers and the application are simple. `MergeFacts` says of one
item what the merge makes of it, `Rebasing` of all items and questions, `Answered` of the
three kinds of answers (`Minor`, `Fate`, `Union`). `Anchor` takes the least of a set of
items: that there is one (`MinFacts`) rests on the well-foundedness of strict inclusion on
finite sets, in place of an induction. The constants of the instance are assumed to be
such that no name or status is taken for what is absent (`ItemsAssumption`).

**`SyncJournalProofs`**, for any items and values, any subset of the commands, any number
of edits, publications, errors and crashes: `TypeCorrect`, `EditsAndStatus`
(`KeptAndHonest`), `SoundJournal` (`JournalIsSound`), `OnceCommitted` (`CommittedOnce`),
and, each under a condition on the commands, `TrueAnswers` and `OthersKept`. All rest on
one invariant, `IInv` (`Invariance`). Its parts, and what each is for:

* `SoundInv`: the journal in itself, and the copy a command works on. A token names the
  operation that asked, so operations are numbered (`op`) and no journal has a number
  that was not given.
* `CommandInv`, one part per stretch of a command: what it has in memory against what is
  in the journal. `Committing` says that the transaction starts from the library as it
  is, `Applied` and `Marked` that the marker is removed only when the journal says
  "applied", which is why a crash between the two replays nothing (`CommittedOnce`).
* `KeepInv`: `NoEditLost` speaks of the database, but what endangers an edit is the
  target that will replace it. So: where the library is as the target's baseline, the
  target holds what the user wrote; where it is not, the transaction refuses and the
  recovery rebases. Edits come between any two steps, so a target in memory that is not
  in the journal yet has to keep them too.
* `StatusInv` (which steps exclude "clean") for `CleanIsHonest`, `LandInv` for a forced
  publication found in the cloud after a crash, `FreshInv` (no journaled choice is asked
  for again) for `ChosenOnce`.
* `AnswerInv`: the last journaled choice is in the journal or else in the receipt.
  This holds while only `sync` and `resolve` run, hence the condition of `TrueAnswers`: a
  resolution that finds a forced publication to finish reports that one, and a replacement
  clears the receipt of a choice that was applied.
* `FollowInv`: a snapshot downloaded is the cloud's as long as its generation is, and of
  the items left alone library, base and target hold what some snapshot says. It holds
  unless "force" is a command, and so does `OthersKept`: a forced publication overwrites
  others by intent, and later syncs build on it. `CarriedThrough` stays with TLC.

**`BackupSwapProofs`**, for any number of paths, imports and interruptions:
`TypeCorrect`, `AtomicInstall` (`AllOrNothing`), `OriginalsSurvive`
(`NothingDestroyed`), `HarmlessRefusal`. None of them is inductive: they speak of an
open database or of files somewhere on the disk, and say nothing of a state half way.
The invariant `IInv` does, under the same condition `Undisturbed`: there is at most one
swap directory (`Good`), its recorded phase says for every path whether the file was
kept, moved out or replaced (`PhaseInv`), a marker tells the truth about what there was
to restore (`Looked`), and the step at hand says how far the phase has come (`StepInv`).
A crash loses the step but not the phase, which is why the phase alone must determine
enough for the recovery to go on; that it is recorded before the files of its phase move
is what makes each step keep it.

The second part of the module is about `Startup`, since a start composes what the first
shows: `RecoveriesAreSound` (`RecoveryIsSound`). It holds for any libraries and backups that
the releases can have left (`Released`, which the code justifies: a milestone's number is a
primary key, entries are in the shared file since the first version and have identifiers
since the second, and nobody has recovered them yet), and for any number of imports, answers
and crashes. `RecoveredAsChosen` speaks of the library after all that may follow a recovery:
the rest of the migration, a crash, an import, another recovery. The invariant `BootInv`
therefore says of each directory that it is well formed and that every answer applied to it
still stands (`Sound`), which is more than the property asks: an entry that milestones were
attached to is still there. Each migration step is *followed* (`Through`): it keeps every
milestone's number, the identifier of each entry, the title, and the variant but for its
padding, so what stood stands after it. Applying answers needs that only one is about a
given milestone (`OneAnswer`), which is what a plan with one answer per group, checked
against the groups that are there now, gives. `AnswerInv` says that the groups are still
those while the transaction is prepared and that their rows are in a backup; `SafetyInv`
that this backup is the app's own by the time a staged library takes the place of the active
one (`SafetyFirst`); `PathInv` which directory each step of a start or import is about.

`NothingIsDropped` and `IdentifiersAgree` (`NothingDropped` and `UidsAgree` of `Startup`)
are the other two safety properties of a start. They need more of what the releases left,
stated as assumptions of `Startup` that TLC evaluates on the libraries of its run:
`Untangled` (an activity has the columns of the table, a legacy entry has a number of its
own and no identifier, and no entry of the shared file has that number under another
title, which Problem 10 is about; a backup holds a user database, `backup.rs:417`) and
`Numbered` (numbers are own numbers, and records have no identifiers before version 7).

* What a migration may never lose is the relation `Carries(b, c)` of two bundles. Each
  migration is shown to have it, so has a sequence of them (`CarriedOn`), and so has the
  application of an answer, since what has its entry is in no group. The invariant
  `RowsInv` says of every directory that it is `Intact`: it still `Keeps` what it was at
  first, and the legacy entries it has yet to make shared can be made so. It also says
  that a bundle whose steps have begun has no activity without an entry, which is what
  makes the one check before the first step enough (`RefusedWhole`), and that a library
  without a user database is as the releases left it, for a start creates the database
  beside what is there.
* `NumberInv` says that records have numbers of their own in every directory and no
  identifiers before version 7. An identifier is made of what the record says and of its
  place among those that say the same, counted by number in the migration and by position
  in the loader. That both give the same names is a fact on counting: for a finite set of
  own numbers, "how many are smaller" takes each value below the size of the set once.
  `Ranks` proves it without induction, from the library's theorem that an injection into
  a set of the same size is onto; `NamedAsLoaded` applies it to activities and milestones.

**`LibraryProofs`**, for any titles, variants, files and number of rows: `TypeCorrect`,
`LinksHold` (`WellLinked`), `StaleRequestsMiss` (`OnlyWhatWasSeen`), `ExportsComeBack`
(`ExportsReturn`) and `ImportsKeepTheirWord` (`ImportedAsReviewed`). `WellLinked` is
nearly inductive; what it lacks is that a number or identifier drawn now is on no row,
which `TypeOK` gives (every row's is at most the last given), and that the rows of a file
under review are exact and distinct, as its analysis left them (`ReviewOK`).
`OnlyWhatWasSeen` needs that the rows on an old screen, if their numbers are on a row at
all, are on the row with the same identifier (`ScreenOK`): no operation gives a number
twice. The imports add rows one after another, in an order that the model leaves open; a
lemma for each says that what is added is new to all rows before it.

The last two theorems count. Rows with numbers of their own are finitely many, and a row
is found at its place, the number of rows not above it (`Places`, a bijection); so an
export lists each row once (`Ordered`), and of the rows of a file that say the same
exactly those beyond the ones there are remain when overlaps are skipped (`PlacesAbove`,
`KeptCounted`). That an export comes back to the entries it was made of rests on
`WellLinked`: a title and a variant name one entry (`FindsItsEntry`), which needs that the
absent column is no variant (`LibraryAssumption`). An import adds to the activities of a
content exactly its rows that are kept (`ImportCounts`), and the comparison made when it
is applied says that what the review showed is what there is.

The last part is about `LocalApi`, for any number of processes, ports, saves and failures:
`ApiTypeCorrect` and `OneOwnerAsChosen` (`RunsAsChosen`). The property speaks of a process
with no job under way; the invariant says what each step of a job holds. Whoever is past the
lock holds it (`LockInv`), so at most one process has sockets; a save has every listener
there is, and remembers the configuration that is still on the screen (`SaveAt`); screen and
file differ only between the replacement of the file and the end of the save (`FileAt`); the
task of the start, as long as no save came first, has the configuration on the screen
(`BootAt`). The constants are assumed to differ from `Unset`, and one port and one access to
exist.

**`ViewsProofs`**: `ViewsAgreeHolds` (`ViewsAgree`), for every library, every length of
months and years and every bound of the views, and `TimelineTiles` (`PagesTile`), for
pages of any size and any edits in between.

`ViewsAgree` compares totals that the code computes along different ways: each is a sum
over a set, and a sum is a fold that takes one element after the other in an order nobody
knows. What a fold computes for every input would be an induction; instead `SumIs` shows
that it is a number of units, so many of each element, less a number of debts (`Balance`),
from the recursion of the fold and a minimal counterexample among the finite subsets
(`SetInduction`, which takes a least bad set by the well-foundedness of strict inclusion).
What a total must satisfy is then a fact on cardinalities: it depends on its elements'
worth alone (`SumSame`), and the parts of a set come to the whole (`SumParts`, `RowsAddUp`
for the rows of a query that groups). Each part of the property applies that:

* `BucketsHold`: every activity and every event has one period of each size (`KeyFacts`,
  from facts on the calendar, `AnchorFacts`). Which periods are listed is a matter of
  counting: none later than a listed one is missing, and if there is room for one more all
  are listed (`TruncatedFacts`), so a day is reached by the listed ones exactly if it is in
  one of them (`Reached`, from `PeriodReached`). The rows of the months and those of the
  years then count the activities and events in their reach once (`BucketsTotal`,
  `EventsCounted`), and all if they are fewer than `MaxBuckets` (`BucketsReach`). The months
  of one year always have room (`YearFits`: there is an injection of them into as many
  numbers as the year has months), so a selected year is whole (`BucketsOfYear`) and a year
  holds its months and what is known of it to the year only (`YearsHoldMonths`). The
  summary is of everything (`SummariesAgree`).
* `ChartsHold`: a chart is one sum over the points of two functions of the activities, in
  either order (`PointsAddUp`); folding the groups that are not among the largest into one
  loses nothing, for that one is none of the others (`FoldedAddsUp`, which needs
  `RestIsApart`); and what a range is compared with is one bucket (`SpanFacts`), with the
  total it has in a range of its own (`PreviousIsRight`).
* `DaysHold`: the heatmaps have a row for each day with an activity, whose totals come to
  those of the weekdays (`HeatFacts`, `WeekdaysAddUp`) and of the summary; the streaks are
  among the runs of these days (`StreakFacts`). The lists begin with the last activity and
  the last entry: a finite set under an order has a least element (`LeastExists`), and
  what precedes all others is put first (`SortedFirst`), so the latest activity heads the
  recent ones, and its entry those to log and the library (`LatestOfAll`, `NewestFirst`,
  `ListedFirst`, `QuickFirst`), as the earliest is the first of its entry (`FirstOfAll`);
  and the day that stands out in a range is
  the heaviest of the heatmap (`DayStandsOut`).

Assumed of the constants (`ViewsAssumption`) is what the tables give: rows with own
numbers, activities of entries, dates stored with the first day they may mean, and titles
that are told apart by their order alone; further that `None` and `Other` are no row and
no group, that the windows of the dashboard are not empty (`DashboardAssumption`), and
that the months of a year are no more than the buckets there may be
(`TimelineAssumption`).
`ViewsAgree` is about the library that the history begins with (`AtFirst`), and that is
any library.

`TimelineTiles` first needs that there is *one* order: the events are finitely many
(`EventsFinite`) and no two have the same key (`KeysDiffer`), so the list that the server
sorts anew for each page is the same list (`OneOrder`). The invariant `ViewInv` then says
of the last request still out that it is for what is selected and begins where the screen
ends (`AsksTrue`), of the pages on the screen that they are of that filter unless the user
zoomed meanwhile or a search is about to run (`ShownTrue`), and that those read with no edit in between are a beginning
of the list (`Tiled`); a slice that begins where a beginning ends makes it a longer one
(`NextSlice`).

**`CoversProofs`**, for any entries and covers and any number of edits, publications and
failures: `TypeCorrect`, `NothingDangles` (`NamesHaveFiles`) and `ChosenOrDelivered`
(`CoversArrive`). That every entry's file is there is kept by each step, because an old
file is removed only when no other entry names it (`OldRemoved`); it needs that a new
file's path is on no entry and not on the disk yet (`CountInv`). That the cloud has what
a snapshot names needs that a hash is either uploaded under its own name or still to be
uploaded (`BlobInv`). `CoversArrive` speaks of steps, and rests on what the materialisation
knows in between: the file remembered for a hash has that hash (`CacheInv`), an entry
nobody touched has what the apply left it or already the merged cover (`ApplyInv`), and
the merged one once the loop has passed it (`SettingInv`). `AppliesEnd` stays with TLC.

**`SessionProofs`**, for any entries and profiles and any number of edits, links,
publications, failures and crashes: `TypeCorrect`, `TrueRecords` (`RecordsAreTrue`) and
`OnlyDeletions` (`NothingVanishes`). The last speaks of one step, but why an `Apply` or a
`Publish` takes nothing away lies in what was written long before: the base of a merge,
the snapshot a journal was built from, the manifest that was read. The library and the
profile move on after each of them. `IInv` therefore says of every such thing that what
is missing now was deleted by a user (`Accounted`):

* `FilesInv`: what the files say is of a profile that exists (`Recorded`), and library,
  profile and the target of a journal lack of base, baseline and remote only what was
  deleted (`Kept`). The parts that a set difference compares are kept by an edit because
  it notes its deletion for the profiles the device is linked to (`Linked`), and by
  another device's publication because it notes its own (`MovesOn`, `Loses`).
* `CarryInv`: the same of what a command has in memory, so that the entries of the version
  that was read are in what is published over it.
* `SyncInv`: what makes the two of one profile. While a command that links the device runs
  there is no configuration, no journal but its own, and no base it would read: a merge
  at attaching starts from nothing, and the files are of the profile of the command.
* `RemovalInv`: a sign-out and a reset remove the configuration before the base, so that
  what an interruption leaves is read for no profile; and a reset that fails puts back
  what was as good. When the configuration is put back without the library or the base
  (`torn`), `Kept` is lost until the files are removed; the property excludes that, and
  so do the parts that rest on it. `Recorded` and the types do not.
* `OutInv`, for `SignedOut`: no request is under way and nothing is configured, not even
  in what a reset would put back, so a silent restoration finds no reason.

`Converges` is liveness and stays with TLC.

**Only model-checked**: `EveryAttemptEnds` of `DriveManifest`, `CarriedThrough` of
`SyncJournal`, `Converges` of `Session`, `SavesEnd` of `LocalApi`, `AppliesEnd` of
`Covers`, `ComesBack` of `BackupSwap`, `RecoveryEnds` of `Startup`, `PageArrives` of
`Views`: liveness under fairness is out of the prover's reach. Every safety property of
every run is a theorem.

## 5. Not modelled

The migration of legacy conflict queues and the preview of an attachment
(`sync_orchestrator.rs`), settings and the profile picture beyond their merge, archive
creation, extraction and validation, OAuth itself, SQL, (de)serialisation, HTTP routes
and request admission, the remote fetch of pages and images: they are single steps
without state in between, or pure input and output. Of the interface: rendering,
navigation and dialogs, the update notice, importers of foreign pages, charts. Their
results are data for a screen, and no later step depends on them. `components` in
`PROJECT.json` lists each part with its reason.
