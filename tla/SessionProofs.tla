---------------------------- MODULE SessionProofs ----------------------------
(***************************************************************************)
(* A device loses only what users deleted, and what it has on record of    *)
(* its profile and its account is true: for any entries and profiles, and  *)
(* any number of edits, publications, links, failures and crashes.         *)
(*                                                                         *)
(* Neither property is inductive.  A step takes nothing away because of    *)
(* what the files that were read owe to a library and a profile that have  *)
(* moved on since: IInv says, for every file, every step of a command and  *)
(* what a factory reset has moved aside, which entries may be missing.     *)
(***************************************************************************)
EXTENDS Session, SequenceTheorems, TLAPS

\* A snapshot that the profile had, as far as its version and entries show.
Past(q, r) == /\ cloud[q] # None
              /\ r.version <= cloud[q].version
              /\ r.version = cloud[q].version => r.items = cloud[q].items

\* What is in the first set and not in the second, users of the profile deleted.
Accounted(q, a, b) == a \ b \subseteq deleted[q]

\* The files of a directory name profiles that exist, and snapshots they had: a
\* base beside a journal is of no use, Apply and SaveBase replace it.
Recorded(d) ==
    /\ d.config # None => cloud[d.config.profile] # None
    /\ d.journal # None => /\ Past(d.journal.profile, d.journal.remote)
                           /\ d.journal.status # "clean"
    /\ d.journal = None /\ d.config # None /\ d.base # None =>
            Past(d.config.profile, d.base)

\* What the library l, the profile, or what a journal is about to write lacks of the
\* files was deleted; and clean means that the library is the base.
JournalKept(j, l) ==
    /\ Accounted(j.profile, j.remote.items, cloud[j.profile].items)
    /\ j.applied => Accounted(j.profile, j.remote.items, l)
    /\ ~j.applied => /\ Accounted(j.profile, j.baseline, l)
                     /\ Accounted(j.profile, j.baseline, j.target)
                     /\ Accounted(j.profile, j.remote.items, j.target)
BaseKept(q, b, l) == /\ Accounted(q, b.items, cloud[q].items)
                     /\ Accounted(q, b.items, l)
Kept(d, l) ==
    /\ d.journal # None => JournalKept(d.journal, l)
    /\ d.journal = None /\ d.config # None /\ d.base # None =>
            /\ BaseKept(d.config.profile, d.base, l)
            /\ d.config.status = "clean" => l = d.base.items

\* A factory reset, a sign-out; and a reset that has begun to move files.
Resetting == op # Idle /\ op.kind = "reset"
SigningOut == op # Idle /\ op.kind = "signout"
Half == Resetting /\ op.step # "library"

\* Files that a reset has half moved away wait for it to end, in either way.
FilesInv == /\ Recorded(disk)
            /\ ~torn /\ ~Half => Kept(disk, lib)

\* A device is not configured until the command that links it has something to
\* write, and a command that runs is of the profile of the device; no journal is
\* left but the one it queued or resumes, and its remote is one the profile had.
Alone == op.kind = "create" \/ (op.kind = "attach" /\ op.step \in {"read", "queue"})
SyncInv ==
    Syncing =>
        /\ Alone => ~Configured
        /\ Configured => Config(disk).profile = op.profile /\ Config(disk).status # "clean"
        /\ op.step \in {"apply", "resume"} =>
                /\ disk.journal # None /\ ~disk.journal.applied
                /\ disk.journal.profile = op.profile
                /\ op.step = "apply" => disk.journal.remote = op.remote
        /\ op.step \notin {"apply", "resume"} => disk.journal = None
        /\ op.kind = "create" => op.step \in {"publish", "base", "config"}
        /\ op.kind = "sync" => Configured
        /\ op.step = "resume" => op.kind = "sync"
        /\ op.remote # None => Past(op.profile, op.remote)
        /\ op.step \in {"queue", "apply", "base", "config"} => op.remote # None
        /\ op.step \in {"base", "config"} => op.remote.items = op.snap
        /\ op.step = "config" => disk.base = op.remote
        /\ op.step = "queue" /\ op.kind = "sync" => disk.base # None

\* What a command carries from step to step: its remote owes the profile only
\* deletions, so does its base the remote, the remote what will be published, and
\* that the library.
CarryInv ==
    Syncing /\ ~torn =>
        /\ op.remote # None => Accounted(op.profile, op.remote.items, cloud[op.profile].items)
        /\ op.step = "queue" /\ op.kind = "sync" =>
                Accounted(op.profile, disk.base.items, op.remote.items)
        /\ op.step = "publish" /\ op.remote # None =>
                Accounted(op.profile, op.remote.items, op.snap)
        /\ op.step \in {"publish", "base", "config"} => Accounted(op.profile, op.snap, lib)

\* The configuration goes first, so that no file is read for another profile; and
\* what a reset has moved aside is as good as it was.
RemovalInv ==
    /\ SigningOut /\ op.step # "config" => disk.config = None
    /\ Resetting => /\ Recorded(op.remote)
                    /\ ~torn => Kept(op.remote, op.snap)
                    /\ op.step = "library" => disk = op.remote /\ lib = op.snap
                    /\ op.step \in {"base", "journal"} => disk.config = None

\* Signed out, nothing is left that could bring tokens: no request, no command, no
\* configuration for a silent restoration, not even one a failed reset puts back.
OutInv == out => /\ tokens = "none" /\ late = {} /\ ~Configured /\ ~Syncing
                 /\ Resetting => Config(op.remote) = None

IInv == TypeOK /\ FilesInv /\ SyncInv /\ CarryInv /\ RemovalInv /\ OutInv

USE SessionAssumption

-----------------------------------------------------------------------------
\* The names of the files, and the order in which they go.

\* The names of the files.
LEMMA NamesAre == Range(SyncFiles) = {"config", "base", "journal"}
<1>1. DOMAIN SyncFiles = 1 .. 3
    BY DEF SyncFiles
<1>2. SyncFiles[1] = "config" /\ SyncFiles[2] = "base" /\ SyncFiles[3] = "journal"
    BY DEF SyncFiles
<1> QED BY <1>1, <1>2 DEF Range

\* An empty directory.
LEMMA NothingIs == NoFiles = [config |-> None, base |-> None, journal |-> None]
BY NamesAre DEF NoFiles

\* What a reset moves, in its order.
LEMMA TargetsAre == Targets = <<"library", "config", "base", "journal">>
<1> DEFINE S == {"library", "config", "base", "journal"}
           s == <<"library">>
           t == <<"library", "config", "base", "journal">>
<1>1. s \in Seq(S) /\ SyncFiles \in Seq(S) /\ t \in Seq(S)
    BY DEF SyncFiles
<1>2. Len(s) = 1 /\ Len(SyncFiles) = 3 /\ Len(t) = 4
    BY DEF SyncFiles
<1>3. /\ Targets[1] = "library" /\ Targets[2] = "config"
      /\ Targets[3] = "base" /\ Targets[4] = "journal"
    BY DEF Targets, SyncFiles
<1>4. \A i \in 1 .. 4 : Targets[i] = t[i]
    BY <1>3
<1>5. Targets = s \o SyncFiles
    BY DEF Targets
<1> HIDE DEF S, s
<1>6. s \o SyncFiles \in Seq(S) /\ Len(s \o SyncFiles) = Len(s) + Len(SyncFiles)
    BY <1>1, ConcatProperties
<1> HIDE DEF t
<1>7. Targets \in Seq(S) /\ Len(Targets) = 4
    BY <1>2, <1>5, <1>6
<1>8. Len(t) = 4 /\ t \in Seq(S)
    BY <1>1, <1>2
<1>9. Targets = t
    BY <1>4, <1>7, <1>8, SeqEqual
<1> QED BY <1>9 DEF t

\* The order of clear_sync_runtime_files.
LEMMA SignOutOrder ==
    /\ Head(SyncFiles) = "config"
    /\ After("config", SyncFiles) = "base" /\ After("base", SyncFiles) = "journal"
    /\ After("journal", SyncFiles) = None
BY DEF SyncFiles, After

\* The order of wipe_everything_with_additional_targets.
LEMMA ResetOrder ==
    /\ Head(Targets) = "library"
    /\ After("library", Targets) = "config" /\ After("config", Targets) = "base"
    /\ After("base", Targets) = "journal" /\ After("journal", Targets) = None
BY TargetsAre DEF After

\* What is moved aside before a target.
LEMMA MovedBefore ==
    ASSUME NEW k \in DOMAIN Targets, NEW gone \in SUBSET {Targets[n] : n \in 1 .. k - 1}
    PROVE  gone \subseteq {"library", "config", "base"}
<1>1. DOMAIN Targets = 1 .. 4
    BY TargetsAre
<1>2. \A n \in 1 .. k - 1 : n \in 1 .. 3
    BY <1>1
<1>3. \A n \in 1 .. 3 : Targets[n] \in {"library", "config", "base"}
    BY TargetsAre
<1> QED BY <1>2, <1>3

\* A directory without some of its files.
LEMMA WithoutIs ==
    ASSUME NEW d \in Files, NEW gone
    PROVE  /\ Without(gone, d) \in Files
           /\ Without(gone, d).config = IF "config" \in gone THEN None ELSE d.config
           /\ Without(gone, d).base = IF "base" \in gone THEN None ELSE d.base
           /\ Without(gone, d).journal = IF "journal" \in gone THEN None ELSE d.journal
           /\ gone \cap {"config", "base", "journal"} = {} => Without(gone, d) = d
BY NamesAre DEF Without, Files

-----------------------------------------------------------------------------
\* What is known of the files and of a command.

\* What the files hold, and what load_sync_config makes of them.
LEMMA OnDisk ==
    ASSUME NEW d \in Files
    PROVE  /\ d.config # None =>
                /\ d.config \in SyncConfig /\ d.config.profile \in Profile
                /\ d.config.status \in Status
           /\ d.base # None => d.base \in Snapshot /\ d.base.items \subseteq Item
                               /\ d.base.version \in Nat
           /\ d.journal # None =>
                /\ d.journal \in Pending /\ d.journal.profile \in Profile
                /\ d.journal.asks \in BOOLEAN /\ d.journal.status \in Status
                /\ d.journal.baseline \subseteq Item /\ d.journal.target \subseteq Item
                /\ d.journal.remote \in Snapshot /\ d.journal.remote.items \subseteq Item
                /\ d.journal.remote.version \in Nat /\ d.journal.applied \in BOOLEAN
                /\ Config(d) # None /\ Config(d).profile = d.journal.profile
                /\ Config(d).status = d.journal.status
           /\ d.journal = None => Config(d) = d.config
           /\ Config(d) # None => Config(d) \in SyncConfig
<1>1. /\ d.config \in SyncConfig \cup {None} /\ d.base \in Snapshot \cup {None}
      /\ d.journal \in Pending \cup {None}
    BY DEF Files
<1>2. d.journal # None =>
        /\ d.journal \in Pending /\ d.journal.profile \in Profile
        /\ d.journal.asks \in BOOLEAN /\ d.journal.status \in Status
        /\ d.journal.baseline \subseteq Item /\ d.journal.target \subseteq Item
        /\ d.journal.remote \in Snapshot /\ d.journal.applied \in BOOLEAN
    BY <1>1 DEF Pending
<1>3. \A s \in Snapshot : s.items \subseteq Item /\ s.version \in Nat
    BY DEF Snapshot
<1>4. \A c \in SyncConfig : c.profile \in Profile /\ c.status \in Status
    BY DEF SyncConfig
<1>5. d.journal # None =>
        /\ Config(d) \in SyncConfig /\ Config(d) # None
        /\ Config(d).profile = d.journal.profile /\ Config(d).status = d.journal.status
    BY <1>2 DEF Config, SyncConfig
<1>6. d.journal = None => Config(d) = d.config
    BY DEF Config
<1> QED BY <1>1, <1>2, <1>3, <1>4, <1>5, <1>6

\* What a running command holds.
LEMMA Running ==
    ASSUME TypeOK, Syncing
    PROVE  /\ op \in SyncCommand /\ op # Idle
           /\ op.kind \in {"create", "attach", "sync"}
           /\ op.step \in {"read", "queue", "apply", "resume", "publish", "base", "config"}
           /\ op.profile \in Profile /\ op.profile # None /\ op.snap \subseteq Item
           /\ op.remote \in Snapshot \cup {None}
           /\ op.remote # None => op.remote.items \subseteq Item /\ op.remote.version \in Nat
           /\ ~Resetting /\ ~SigningOut /\ ~Half
<1>1. op \in SyncCommand
    BY DEF TypeOK, Syncing, Idle, SignOut, Reset
<1>2. /\ op.kind \in {"create", "attach", "sync"}
      /\ op.step \in {"read", "queue", "apply", "resume", "publish", "base", "config"}
      /\ op.profile \in Profile /\ op.snap \subseteq Item
      /\ op.remote \in Snapshot \cup {None}
    BY <1>1 DEF SyncCommand
<1>3. \A s \in Snapshot : s.items \subseteq Item /\ s.version \in Nat
    BY DEF Snapshot
<1> QED BY <1>1, <1>2, <1>3 DEF Syncing, Resetting, SigningOut, Half

\* What a command that removes the files holds.
LEMMA Removing ==
    ASSUME TypeOK
    PROVE  /\ Resetting => /\ op \in Reset /\ op.step \in {"library", "config", "base", "journal"}
                           /\ op.profile = None /\ op.snap \subseteq Item /\ op.remote \in Files
                           /\ ~Syncing /\ ~SigningOut
           /\ SigningOut => /\ op \in SignOut /\ op.step \in {"config", "base", "journal"}
                            /\ op.profile = None /\ ~Syncing /\ ~Resetting /\ ~Half
<1>1. Resetting => op \in Reset
    BY DEF TypeOK, Resetting, Idle, SignOut, SyncCommand
<1>2. SigningOut => op \in SignOut
    BY DEF TypeOK, SigningOut, Idle, Reset, SyncCommand
<1> QED BY <1>1, <1>2 DEF Reset, SignOut, Syncing, Resetting, SigningOut, Half

\* What the types say of the parts.
LEMMA Typed ==
    ASSUME TypeOK
    PROVE  /\ disk \in Files /\ lib \subseteq Item
           /\ \A q \in Profile :
                /\ cloud[q] # None => /\ cloud[q] \in Snapshot /\ cloud[q].items \subseteq Item
                                      /\ cloud[q].version \in Nat
                /\ deleted[q] \subseteq Item
BY DEF TypeOK, Snapshot

\* Only the status changes.
Restatus(d, e, s) ==
    /\ e \in Files /\ e.base = d.base
    /\ Config(d) = None => e = d
    /\ Config(d) # None => /\ Config(e) # None /\ Config(e).profile = Config(d).profile
                           /\ Config(e).status = s
                           /\ e.config # None /\ e.config.profile = Config(d).profile
                           /\ e.config.status = s
    /\ d.journal = None => e.journal = None
    /\ d.journal # None =>
        /\ e.journal # None /\ e.journal.profile = d.journal.profile
        /\ e.journal.baseline = d.journal.baseline /\ e.journal.target = d.journal.target
        /\ e.journal.remote = d.journal.remote /\ e.journal.applied = d.journal.applied
        /\ e.journal.asks = d.journal.asks /\ e.journal.status = s

\* update_sync_config changes the status, in the journal and in the file.
LEMMA StatusIs ==
    ASSUME NEW d \in Files, NEW s \in Status
    PROVE  Restatus(d, WithStatus(d, s), s)
<1> DEFINE c == [Config(d) EXCEPT !.status = s]
           j == [d.journal EXCEPT !.status = s]
           e == WithStatus(d, s)
<1>1. CASE Config(d) = None
    BY <1>1, OnDisk DEF Restatus, WithStatus
<1>2. CASE Config(d) # None
  <2>1. c \in SyncConfig /\ c # None /\ c.profile = Config(d).profile /\ c.status = s
    BY <1>2, OnDisk DEF SyncConfig
  <2>2. d.journal # None =>
        /\ j \in Pending /\ j # None /\ j.profile = d.journal.profile
        /\ j.baseline = d.journal.baseline /\ j.target = d.journal.target
        /\ j.remote = d.journal.remote /\ j.applied = d.journal.applied
        /\ j.asks = d.journal.asks /\ j.status = s
    BY OnDisk DEF Pending
  <2>3. e = [d EXCEPT !.config = c, !.journal = IF d.journal = None THEN None ELSE j]
    BY <1>2 DEF WithStatus, Files
  <2> HIDE DEF c, j
  <2>4. /\ e \in Files /\ e.config = c /\ e.base = d.base
        /\ e.journal = IF d.journal = None THEN None ELSE j
    BY <2>1, <2>2, <2>3 DEF Files
  <2> HIDE DEF e
  <2>5. /\ e.journal = None => Config(e) = c
        /\ e.journal # None => Config(e) # None /\ Config(e).profile = e.journal.profile
                               /\ Config(e).status = e.journal.status
    BY <2>4, OnDisk
  <2>6. d.journal # None => Config(d).profile = d.journal.profile
    BY OnDisk
  <2>7. Restatus(d, e, s)
    BY <1>2, <2>1, <2>2, <2>4, <2>5, <2>6 DEF Restatus
  <2> QED BY <2>7 DEF e
<1> QED BY <1>1, <1>2

\* A status other than clean takes nothing from what the files say.
LEMMA RestatusRecords ==
    ASSUME TypeOK, NEW d \in Files, NEW s \in Status \ {"clean"}, NEW e, Restatus(d, e, s)
    PROVE  /\ Recorded(d) => Recorded(e)
           /\ \A l : Kept(d, l) => Kept(e, l)
BY OnDisk DEF Restatus, Recorded, Kept, JournalKept, BaseKept, Past, Accounted

-----------------------------------------------------------------------------
\* The actions, one after the other.

\* What the account does changes no file and no command.
LEMMA Unmoved ==
    ASSUME IInv, UNCHANGED <<lib, disk, cloud, op, deleted, torn>>
    PROVE  (FilesInv /\ SyncInv /\ CarryInv /\ RemovalInv)'
<1> USE DEF IInv
<1>1. FilesInv'
    BY DEF FilesInv, Recorded, Kept, JournalKept, BaseKept, Past, Accounted, Half, Resetting
<1>2. SyncInv'
    BY DEF SyncInv, Syncing, Alone, Configured, Config, Past
<1>3. CarryInv'
    BY DEF CarryInv, Syncing, Accounted
<1>4. RemovalInv'
    BY DEF RemovalInv, Recorded, Kept, JournalKept, BaseKept, Past, Accounted, Resetting,
       SigningOut
<1> QED BY <1>1, <1>2, <1>3, <1>4

\* connect_google_drive, a restoration, a listing or a refresh: tokens come and go.
LEMMA AccountKeeps == ASSUME IInv, Account \/ Refresh PROVE IInv'
<1>1. /\ UNCHANGED <<platform, data, disk, op, torn>>
      /\ tokens' \in {"none", "stale", "fresh"} /\ late' \subseteq {"signin", "restore", "list"}
      /\ out' \in BOOLEAN
    BY DEF Account, Refresh, SignInBegin, SignInEnd, SignInFails, RestoreBegin, RestoreEnd,
       ListBegin, ListEnd, Expire, auth, data, IInv, TypeOK
<1>2. out' => out /\ late' = {} /\ tokens' = "none"
    BY DEF Account, Refresh, SignInBegin, SignInEnd, SignInFails, RestoreBegin, RestoreEnd,
       ListBegin, ListEnd, Expire, RestoreNeeded, auth, data, IInv, OutInv
<1>3. TypeOK'
    BY <1>1 DEF IInv, TypeOK, data
<1>4. OutInv'
    BY <1>1, <1>2 DEF IInv, OutInv, Configured, Config, Syncing, Resetting
<1> QED BY <1>1, <1>3, <1>4, Unmoved DEF IInv, data

\* When no command is left, only the files count.
LEMMA Over ==
    ASSUME TypeOK', op' = Idle, Recorded(disk)', ~torn' => Kept(disk, lib)', OutInv'
    PROVE  IInv'
BY DEF IInv, FilesInv, SyncInv, CarryInv, RemovalInv, Syncing, Resetting, SigningOut, Half

\* The files as they are, at most with another status than clean.
LEMMA Ended ==
    ASSUME IInv, ~Half, op' = Idle, UNCHANGED <<lib, cloud, deleted, torn>>,
           TypeOK', out' => out /\ tokens' = "none" /\ late' = {},
           disk' = disk \/ \E s \in Status \ {"clean"} : disk' = WithStatus(disk, s)
    PROVE  IInv'
<1>1. disk \in Files
    BY Typed DEF IInv
<1>2. disk' = disk \/ \E s \in Status \ {"clean"} : Restatus(disk, disk', s)
    BY <1>1, StatusIs
<1>3. Recorded(disk) /\ (~torn => Kept(disk, lib))
    BY DEF IInv, FilesInv
<1>4. Recorded(disk') /\ (~torn => Kept(disk', lib))
    BY <1>1, <1>2, <1>3, RestatusRecords DEF IInv
<1>5. Recorded(disk)' /\ (~torn' => Kept(disk, lib)')
    BY <1>4 DEF Recorded, Kept, JournalKept, BaseKept, Past, Accounted
<1>6. OutInv'
    BY <1>2 DEF IInv, OutInv, Syncing, Resetting, Restatus, Configured
<1> QED BY <1>5, <1>6, Over

\* What a failed command writes.
LEMMA StoppedIs ==
    ASSUME disk \in Files
    PROVE  /\ Stopped(disk) \in Files
           /\ Stopped(disk) = disk
              \/ \E s \in Status \ {"clean"} : Stopped(disk) = WithStatus(disk, s)
<1>1. "error" \in Status \ {"clean"}
    BY DEF Status
<1>2. WithStatus(disk, "error") \in Files
    BY <1>1, StatusIs DEF Restatus
<1> QED BY <1>1, <1>2 DEF Stopped

\* Google refuses the refresh token: the command ends, the tokens are removed.
LEMMA RevokedKeeps == ASSUME IInv, Revoked PROVE IInv'
<1>1. disk \in Files /\ ~Half
    BY Typed, Running DEF IInv, Revoked
<1>2. /\ UNCHANGED <<lib, backup, cloud, born, deleted, platform, late, out, torn>> /\ op' = Idle
      /\ disk' = Stopped(disk) /\ tokens' \in {tokens, "none"} /\ Syncing
    BY DEF Revoked, data
<1>3. TypeOK'
    BY <1>1, <1>2, StoppedIs DEF IInv, TypeOK
<1>4. ~out'
    BY <1>2 DEF IInv, OutInv
<1> QED BY <1>1, <1>2, <1>3, <1>4, Ended, StoppedIs

\* An error or the timeout of a command: only the status is written.
LEMMA FailKeeps == ASSUME IInv, Fail PROVE IInv'
<1>1. disk \in Files /\ ~Half
    BY Typed, Running DEF IInv, Fail
<1>2. /\ UNCHANGED <<lib, backup, cloud, born, deleted, platform, tokens, late, out, torn>>
      /\ op' = Idle /\ disk' \in {disk, Stopped(disk)} /\ Syncing
    BY DEF Fail, data, auth
<1>3. TypeOK'
    BY <1>1, <1>2, StoppedIs DEF IInv, TypeOK
<1>4. ~out'
    BY <1>2 DEF IInv, OutInv
<1> QED BY <1>1, <1>2, <1>3, <1>4, Ended, StoppedIs

\* run_sync without a base: nothing but the status is written.
LEMMA NoBaseKeeps == ASSUME IInv, NoBase PROVE IInv'
<1>1. disk \in Files /\ ~Half
    BY Typed, Running DEF IInv, NoBase, At
<1>2. /\ UNCHANGED <<lib, backup, cloud, born, deleted, platform, tokens, late, out, torn>>
      /\ op' = Idle /\ disk' = WithStatus(disk, "error") /\ Syncing
    BY DEF NoBase, data, auth, At
<1>3. "error" \in Status \ {"clean"} /\ disk' \in Files
    BY <1>1, <1>2, StatusIs DEF Status, Restatus
<1>4. TypeOK'
    BY <1>2, <1>3 DEF IInv, TypeOK
<1>5. ~out'
    BY <1>2 DEF IInv, OutInv
<1> QED BY <1>1, <1>2, <1>3, <1>4, <1>5, Ended

\* The process ends; a reset half way has left a device it took the files of.
LEMMA CrashKeeps == ASSUME IInv, Crash PROVE IInv'
<1>1. /\ UNCHANGED <<platform, out, lib, backup, disk, cloud, born, deleted>>
      /\ tokens' \in {tokens, "none"} /\ late' = {} /\ op' = Idle
      /\ torn' = (torn \/ (Half /\ Configured))
    BY DEF Crash, data, Half, Resetting
<1>2. TypeOK'
    BY <1>1 DEF IInv, TypeOK, Idle
<1>3. Recorded(disk)'
    BY <1>1 DEF IInv, FilesInv, Recorded, Past
<1>4. ASSUME ~torn' PROVE Kept(disk, lib)'
  <2>1. CASE Half
    <3>1. disk.journal = None /\ disk.config = None
      BY <1>1, <1>4, <2>1, OnDisk, Typed DEF IInv, Configured
    <3> QED BY <1>1, <3>1 DEF Kept
  <2>2. CASE ~Half
    <3>1. Kept(disk, lib)
      BY <1>1, <1>4, <2>2 DEF IInv, FilesInv
    <3> QED BY <1>1, <3>1 DEF Kept, JournalKept, BaseKept, Accounted
  <2> QED BY <2>1, <2>2
<1>5. OutInv'
    BY <1>1 DEF IInv, OutInv, Configured, Config, Syncing, Resetting
<1> QED BY <1>1, <1>2, <1>3, <1>4, <1>5, Over

\* An edit: what it takes from the library is noted for every linked profile.
LEMMA EditKeeps ==
    ASSUME IInv, NEW l \in SUBSET Item, Edit(l), born' \subseteq Item,
           deleted' \in [Profile -> SUBSET Item],
           \A q \in Profile : deleted[q] \subseteq deleted'[q],
           \A q \in Linked : lib \ l \subseteq deleted'[q]
    PROVE  IInv'
<1>1. /\ lib' = l /\ UNCHANGED <<platform, tokens, late, out, backup, cloud, op, torn>>
      /\ disk' = Dirtied(disk) /\ ~Sealed
    BY DEF Edit, auth
<1>2. ~Resetting /\ ~SigningOut /\ ~Half /\ (Syncing => op.step # "config")
    BY <1>1 DEF Sealed, Resetting, SigningOut, Half, Syncing
<1>3. TypeOK /\ disk \in Files /\ "dirty" \in Status \ {"clean"}
    BY Typed DEF IInv, Status
<1>4. /\ \/ disk' = disk /\ (Configured => Config(disk).status = "conflict")
         \/ Restatus(disk, disk', "dirty")
      /\ disk' \in Files
    BY <1>1, <1>3, StatusIs DEF Dirtied, Restatus, Configured
<1>5. /\ Config(disk') # None <=> Configured
      /\ Configured => /\ Config(disk').profile = Config(disk).profile
                       /\ Config(disk').status # "clean"
      /\ disk'.base = disk.base
      /\ disk'.journal = None <=> disk.journal = None
      /\ disk.journal # None => /\ disk'.journal.profile = disk.journal.profile
                                /\ disk'.journal.remote = disk.journal.remote
                                /\ disk'.journal.applied = disk.journal.applied
    BY <1>3, <1>4 DEF Restatus, Configured
<1>6. Recorded(disk') /\ (~torn => Kept(disk', lib))
    BY <1>2, <1>3, <1>4, RestatusRecords DEF IInv, FilesInv
<1>7. TypeOK'
    BY <1>1, <1>3, <1>4 DEF TypeOK
<1>8. Recorded(disk)'
    BY <1>1, <1>6 DEF Recorded, Past
<1>9. /\ Configured => Config(disk).profile \in Linked /\ Config(disk).profile \in Profile
      /\ Syncing => op.profile \in Linked /\ op.profile \in Profile
    BY <1>3, OnDisk, Running DEF Linked, Configured, SyncConfig
<1>10. ASSUME ~torn PROVE Kept(disk, lib)'
  <2>1. CASE disk'.journal # None
    <3>1. disk'.journal.profile = Config(disk).profile /\ Configured
      BY <1>3, <1>5, <2>1, OnDisk DEF Configured
    <3>2. JournalKept(disk'.journal, lib)
      BY <1>6, <1>10, <2>1 DEF Kept
    <3>3. JournalKept(disk.journal, lib)'
      BY <1>1, <1>9, <3>1, <3>2 DEF JournalKept, Accounted
    <3> QED BY <2>1, <3>3 DEF Kept
  <2>2. CASE disk'.journal = None /\ disk'.config # None /\ disk'.base # None
    <3>1. /\ disk'.config.profile = Config(disk).profile /\ Configured
          /\ disk'.config.status # "clean"
      BY <1>4, <1>5, <2>2, OnDisk DEF Configured
    <3>2. BaseKept(disk'.config.profile, disk'.base, lib)
      BY <1>6, <1>10, <2>2 DEF Kept
    <3> QED BY <1>1, <1>9, <2>2, <3>1, <3>2 DEF Kept, BaseKept, Accounted
  <2>3. CASE disk'.journal = None /\ ~(disk'.config # None /\ disk'.base # None)
    BY <2>3 DEF Kept
  <2> QED BY <2>1, <2>2, <2>3
<1>11. SyncInv'
    BY <1>1, <1>2, <1>5 DEF IInv, SyncInv, Syncing, Alone, Configured, Past
<1>12. CarryInv'
    BY <1>1, <1>2, <1>5, <1>9 DEF IInv, CarryInv, Syncing, Accounted
<1>13. RemovalInv'
    BY <1>1, <1>2 DEF RemovalInv, Resetting, SigningOut
<1>14. OutInv'
    BY <1>1, <1>2, <1>5 DEF IInv, OutInv, Configured, Syncing, Resetting
<1> QED BY <1>1, <1>7, <1>8, <1>10, <1>11, <1>12, <1>13, <1>14 DEF IInv, FilesInv

\* A command of the user that adds an entry (run_dirty_command).
LEMMA AddKeeps == ASSUME IInv, Add PROVE IInv'
<1>1. PICK i \in Item \ born : Edit(lib \cup {i}) /\ born' = born \cup {i} /\ UNCHANGED deleted
    BY DEF Add
<1>2. lib \cup {i} \in SUBSET Item /\ born' \subseteq Item /\ deleted' \in [Profile -> SUBSET Item]
    BY <1>1 DEF IInv, TypeOK
<1> QED BY <1>1, <1>2, EditKeeps

\* Linked holds profiles.
LEMMA DeletedIs ==
    ASSUME TypeOK, NEW i \in Item,
           deleted' = [q \in Profile |-> IF q \in Linked THEN deleted[q] \cup {i} ELSE deleted[q]]
    PROVE  /\ deleted' \in [Profile -> SUBSET Item]
           /\ \A q \in Profile : deleted[q] \subseteq deleted'[q]
           /\ Linked \subseteq Profile
           /\ \A q \in Linked : i \in deleted'[q]
<1>1. Linked \subseteq Profile
  <2>1. Configured => Config(disk).profile \in Profile
    BY Typed, OnDisk DEF Configured, SyncConfig
  <2>2. op # Idle => op.profile \in Profile \cup {None}
    BY DEF TypeOK, SyncCommand, SignOut, Reset
  <2> QED BY <2>1, <2>2 DEF Linked
<1> QED BY <1>1 DEF TypeOK

\* A command of the user that deletes an entry (run_dirty_command).
LEMMA DeleteKeeps == ASSUME IInv, Delete PROVE IInv'
<1>1. PICK i \in lib :
        /\ Edit(lib \ {i}) /\ UNCHANGED born
        /\ deleted' = [q \in Profile |->
                          IF q \in Linked THEN deleted[q] \cup {i} ELSE deleted[q]]
    BY DEF Delete
<1>2. TypeOK /\ i \in Item /\ lib \ {i} \in SUBSET Item /\ born' \subseteq Item
    BY <1>1 DEF IInv, TypeOK
<1> QED BY <1>1, <1>2, DeletedIs, EditKeeps

\* A profile moves on: its versions do not come back, and what it loses was deleted.
MovesOn == \A q \in Profile :
    /\ deleted[q] \subseteq deleted'[q]
    /\ cloud[q] # None => /\ cloud'[q] # None
                          /\ cloud'[q] = cloud[q] \/ cloud'[q].version > cloud[q].version
Loses == \A q \in Profile :
            cloud[q] # None => cloud[q].items \ cloud'[q].items \subseteq deleted'[q]

\* What a profile had it has had, whatever is published.
LEMMA PastStays ==
    ASSUME TypeOK, TypeOK', MovesOn, NEW q \in Profile, NEW r \in Snapshot, Past(q, r)
    PROVE  Past(q, r)'
BY Typed DEF MovesOn, Past, Snapshot, TypeOK

\* Files that name what exists still do.
LEMMA RecordedStays ==
    ASSUME TypeOK, TypeOK', MovesOn, NEW d \in Files, Recorded(d)
    PROVE  Recorded(d)'
<1>1. d.config # None => (cloud[d.config.profile] # None)'
    BY OnDisk DEF Recorded, MovesOn
<1>2. d.journal # None => Past(d.journal.profile, d.journal.remote)'
    BY OnDisk, PastStays DEF Recorded
<1>3. d.journal = None /\ d.config # None /\ d.base # None => Past(d.config.profile, d.base)'
    BY OnDisk, PastStays DEF Recorded
<1> QED BY <1>1, <1>2, <1>3 DEF Recorded

\* Files that owe only deletions still do, if the profile loses no more.
LEMMA KeptStays ==
    ASSUME TypeOK, TypeOK', MovesOn, Loses, NEW d \in Files, NEW l, Recorded(d), Kept(d, l)
    PROVE  Kept(d, l)'
<1>1. \A q \in Profile : \A a, b : Accounted(q, a, b) => Accounted(q, a, b)'
    BY DEF MovesOn, Accounted
<1>2. \A q \in Profile : \A a :
        cloud[q] # None /\ Accounted(q, a, cloud[q].items) => Accounted(q, a, cloud[q].items)'
    BY DEF MovesOn, Loses, Accounted
<1>3. CASE d.journal # None
  <2>1. /\ JournalKept(d.journal, l) /\ cloud[d.journal.profile] # None
        /\ d.journal.profile \in Profile
    BY <1>3, OnDisk DEF Kept, Recorded, Past
  <2>2. JournalKept(d.journal, l)'
    BY <1>1, <1>2, <2>1 DEF JournalKept
  <2> QED BY <1>3, <2>2 DEF Kept
<1>4. CASE d.journal = None /\ d.config # None /\ d.base # None
  <2>1. /\ BaseKept(d.config.profile, d.base, l) /\ cloud[d.config.profile] # None
        /\ d.config.profile \in Profile /\ (d.config.status = "clean" => l = d.base.items)
    BY <1>4, OnDisk DEF Kept, Recorded
  <2>2. BaseKept(d.config.profile, d.base, l)'
    BY <1>1, <1>2, <2>1 DEF BaseKept
  <2> QED BY <1>4, <2>1, <2>2 DEF Kept
<1>5. CASE d.journal = None /\ ~(d.config # None /\ d.base # None)
    BY <1>5 DEF Kept
<1> QED BY <1>3, <1>4, <1>5

\* Another device publishes: the version goes up, what is missing was deleted there.
LEMMA PeerMoves == ASSUME IInv, PeerPublishes PROVE TypeOK' /\ MovesOn /\ Loses
<1>1. UNCHANGED <<platform, tokens, late, out, lib, backup, disk, op, torn>>
    BY DEF PeerPublishes, auth
<1>2. PICK q \in Profile, items \in SUBSET Item :
        /\ cloud[q] # None /\ items \ cloud[q].items \subseteq Item
        /\ cloud' = [cloud EXCEPT ![q] = [items |-> items, version |-> @.version + 1]]
        /\ deleted' = [deleted EXCEPT ![q] = @ \cup (cloud[q].items \ items)]
        /\ born' = born \cup items
  <2>1. PICK q \in Profile :
          /\ cloud[q] # None
          /\ \E items \in {cloud[q].items \cup {i} : i \in Item \ born}
                          \cup {cloud[q].items \ {i} : i \in cloud[q].items} :
                /\ cloud' = [cloud EXCEPT ![q] = [items |-> items, version |-> @.version + 1]]
                /\ deleted' = [deleted EXCEPT ![q] = @ \cup (cloud[q].items \ items)]
                /\ born' = born \cup items
    BY DEF PeerPublishes
  <2>2. cloud[q].items \subseteq Item
    BY <2>1, Typed DEF IInv
  <2> QED BY <2>1, <2>2
<1>3. TypeOK /\ TypeOK'
  <2>1. cloud[q].version \in Nat /\ cloud[q].items \subseteq Item
    BY <1>2, Typed DEF IInv
  <2>2. [items |-> items, version |-> cloud[q].version + 1] \in Snapshot
    BY <2>1 DEF Snapshot
  <2> QED BY <1>1, <1>2, <2>1, <2>2 DEF IInv, TypeOK
<1>4. MovesOn /\ Loses
  <2>1. cloud[q].version \in Nat
    BY <1>2, Typed DEF IInv
  <2>2. cloud'[q] = [items |-> items, version |-> cloud[q].version + 1]
    BY <1>2, <1>3 DEF TypeOK
  <2>3. cloud'[q] # None /\ cloud'[q].version = cloud[q].version + 1 /\ cloud'[q].items = items
    BY <1>2, <1>3, <2>1, <2>2 DEF TypeOK, Snapshot
  <2> QED BY <1>2, <1>3, <2>1, <2>3 DEF MovesOn, Loses, TypeOK
<1> QED BY <1>3, <1>4

\* ... between any two steps of this one.
LEMMA PeerPublishesKeeps == ASSUME IInv, PeerPublishes PROVE IInv'
<1>1. UNCHANGED <<platform, tokens, late, out, lib, backup, disk, op, torn>>
    BY DEF PeerPublishes, auth
<1>2. TypeOK /\ TypeOK' /\ MovesOn /\ Loses
    BY PeerMoves DEF IInv
<1>3. FilesInv'
    BY <1>1, <1>2, Typed, RecordedStays, KeptStays DEF IInv, FilesInv, Half, Resetting,
       Recorded, Kept, JournalKept, BaseKept, Past, Accounted
<1>4. RemovalInv'
    BY <1>1, <1>2, Removing, RecordedStays, KeptStays, ZenonT(30) DEF IInv, RemovalInv, Resetting,
       SigningOut, Recorded, Kept, JournalKept, BaseKept, Past, Accounted
<1>5. SyncInv' /\ CarryInv'
  <2>1. ASSUME Syncing, op.remote # None PROVE Past(op.profile, op.remote)'
    BY <1>1, <1>2, <2>1, Running, PastStays DEF IInv, SyncInv, Past
  <2>2. SyncInv'
    BY <1>1, <2>1 DEF IInv, SyncInv, Syncing, Alone, Configured, Config
  <2>3. CarryInv'
    BY <1>1, <1>2, Running DEF IInv, SyncInv, CarryInv, Syncing, Accounted, Past, MovesOn, Loses
  <2> QED BY <2>2, <2>3
<1>6. OutInv'
    BY <1>1 DEF IInv, OutInv, Configured, Config, Syncing, Resetting
<1> QED BY <1>2, <1>3, <1>4, <1>5, <1>6 DEF IInv

\* A command that begins finds the files as the last one left them.
LEMMA Quiet ==
    ASSUME IInv, Unlocked
    PROVE  /\ ~Half /\ Recorded(disk) /\ (~torn => Kept(disk, lib)) /\ disk \in Files
           /\ ~Configured => disk.journal = None /\ disk.config = None
BY Typed, OnDisk DEF IInv, FilesInv, Unlocked, Half, Resetting, Configured

\* with_sync_command runs its closure only with tokens, and never signed out.
LEMMA EntitledIs ==
    ASSUME IInv, Entitled PROVE ~out /\ Unlocked /\ tokens' \in {"none", "stale", "fresh"}
BY DEF IInv, OutInv, TypeOK, Entitled

\* create_remote_sync_profile, an identifier being chosen that no profile has.
LEMMA CreateBeginKeeps == ASSUME IInv, CreateBegin PROVE IInv'
<1>1. PICK q \in Profile : cloud[q] = None
                           /\ op' = [Command("create", q, "publish") EXCEPT !.snap = lib]
    BY DEF CreateBegin
<1>2. /\ UNCHANGED <<platform, late, out, lib, backup, disk, cloud, born, deleted, torn>>
      /\ ~Configured /\ ~out /\ Unlocked /\ tokens' \in {"none", "stale", "fresh"}
    BY EntitledIs DEF CreateBegin, data
<1>3. op' = [kind |-> "create", step |-> "publish", profile |-> q, snap |-> lib, remote |-> None]
    BY <1>1 DEF Command
<1>4. op' \in SyncCommand /\ op' # Idle
    BY <1>3, Typed DEF IInv, SyncCommand, Idle
<1>5. TypeOK'
    BY <1>2, <1>4 DEF IInv, TypeOK
<1>6. FilesInv'
    BY <1>2, Quiet DEF IInv, FilesInv, Recorded, Kept, JournalKept, BaseKept, Past, Accounted
<1>7. SyncInv'
    BY <1>2, <1>3, Quiet DEF SyncInv, Syncing, Alone, Configured, Config
<1>8. CarryInv'
    BY <1>2, <1>3 DEF CarryInv, Accounted
<1>9. RemovalInv' /\ OutInv'
    BY <1>2, <1>3 DEF RemovalInv, Resetting, SigningOut, OutInv
<1> QED BY <1>5, <1>6, <1>7, <1>8, <1>9 DEF IInv

\* attach_remote_sync_profile makes its safety backup before it reads.
LEMMA AttachBeginKeeps == ASSUME IInv, AttachBegin PROVE IInv'
<1>1. PICK q \in Profile : cloud[q] # None /\ op' = Command("attach", q, "read")
    BY DEF AttachBegin, Attachable
<1>2. /\ UNCHANGED <<platform, late, out, lib, disk, cloud, born, deleted, torn>>
      /\ ~Configured /\ ~out /\ Unlocked /\ tokens' \in {"none", "stale", "fresh"}
      /\ backup' = lib
    BY EntitledIs DEF AttachBegin
<1>3. op' = [kind |-> "attach", step |-> "read", profile |-> q, snap |-> {}, remote |-> None]
    BY <1>1 DEF Command
<1>4. op' \in SyncCommand /\ op' # Idle
    BY <1>3, Typed DEF IInv, SyncCommand, Idle
<1>5. TypeOK'
    BY <1>2, <1>4 DEF IInv, TypeOK
<1>6. FilesInv'
    BY <1>2, Quiet DEF IInv, FilesInv, Recorded, Kept, JournalKept, BaseKept, Past, Accounted
<1>7. SyncInv'
    BY <1>2, <1>3, Quiet DEF SyncInv, Syncing, Alone, Configured, Config
<1>8. CarryInv'
    BY <1>2, <1>3 DEF CarryInv, Accounted
<1>9. RemovalInv' /\ OutInv'
    BY <1>2, <1>3 DEF RemovalInv, Resetting, SigningOut, OutInv
<1> QED BY <1>5, <1>6, <1>7, <1>8, <1>9 DEF IInv

\* run_sync, without a journal, says syncing: the base is that of the profile.
LEMMA SyncBeginKeeps == ASSUME IInv, SyncBegin PROVE IInv'
<1> DEFINE q == Config(disk).profile
<1>1. /\ UNCHANGED <<platform, late, out, lib, backup, cloud, born, deleted, torn>>
      /\ Configured /\ disk.journal = None /\ ~out /\ Unlocked
      /\ tokens' \in {"none", "stale", "fresh"}
      /\ disk' = WithStatus(disk, "syncing") /\ op' = Command("sync", q, "read")
    BY EntitledIs DEF SyncBegin, data
<1>2. /\ disk \in Files /\ Recorded(disk) /\ (~torn => Kept(disk, lib)) /\ TypeOK
      /\ q \in Profile
    BY <1>1, Quiet, OnDisk DEF IInv, Configured, SyncConfig
<1>3. "syncing" \in Status \ {"clean"}
    BY DEF Status
<1>4. Restatus(disk, disk', "syncing") /\ disk' \in Files
    BY <1>1, <1>2, <1>3, StatusIs DEF Restatus
<1>5. op' = [kind |-> "sync", step |-> "read", profile |-> q, snap |-> {}, remote |-> None]
    BY <1>1 DEF Command
<1>6. op' \in SyncCommand /\ op' # Idle
    BY <1>2, <1>5 DEF SyncCommand, Idle
<1>7. TypeOK'
    BY <1>1, <1>2, <1>4, <1>6 DEF TypeOK
<1>8. FilesInv'
  <2>1. Recorded(disk') /\ (~torn => Kept(disk', lib))
    BY <1>2, <1>3, <1>4, RestatusRecords
  <2> QED BY <1>1, <2>1 DEF FilesInv, Recorded, Kept, JournalKept, BaseKept, Past, Accounted
<1>9. Config(disk') # None /\ Config(disk').profile = q /\ Config(disk').status = "syncing"
      /\ disk'.journal = None
    BY <1>1, <1>4 DEF Restatus, Configured
<1>10. SyncInv'
    BY <1>5, <1>9 DEF SyncInv, Syncing, Alone, Configured
<1>11. CarryInv'
    BY <1>5 DEF CarryInv
<1>12. RemovalInv' /\ OutInv'
    BY <1>1, <1>5 DEF RemovalInv, Resetting, SigningOut, OutInv
<1> QED BY <1>7, <1>8, <1>10, <1>11, <1>12 DEF IInv

\* run_sync finds a queue that was interrupted, for the profile of its journal.
LEMMA ResumeBeginKeeps == ASSUME IInv, ResumeBegin PROVE IInv'
<1> DEFINE q == Config(disk).profile
<1>1. /\ UNCHANGED <<platform, late, out, lib, backup, disk, cloud, born, deleted, torn>>
      /\ disk.journal # None /\ ~disk.journal.applied /\ ~out /\ Unlocked
      /\ tokens' \in {"none", "stale", "fresh"} /\ op' = Command("sync", q, "resume")
    BY EntitledIs DEF ResumeBegin, data
<1>2. /\ disk \in Files /\ Recorded(disk) /\ (~torn => Kept(disk, lib)) /\ TypeOK
      /\ q \in Profile /\ Configured /\ disk.journal.profile = q
      /\ Config(disk).status = disk.journal.status
    BY <1>1, Quiet, OnDisk DEF IInv, Configured
<1>3. op' = [kind |-> "sync", step |-> "resume", profile |-> q, snap |-> {}, remote |-> None]
    BY <1>1 DEF Command
<1>4. op' \in SyncCommand /\ op' # Idle
    BY <1>2, <1>3 DEF SyncCommand, Idle
<1>5. TypeOK'
    BY <1>1, <1>2, <1>4 DEF TypeOK
<1>6. FilesInv'
    BY <1>1, <1>2 DEF FilesInv, Recorded, Kept, JournalKept, BaseKept, Past, Accounted
<1>7. Config(disk).status # "clean"
    BY <1>1, <1>2 DEF Recorded
<1>8. SyncInv'
    BY <1>1, <1>2, <1>3, <1>7 DEF SyncInv, Syncing, Alone, Configured, Config
<1>9. CarryInv'
    BY <1>3 DEF CarryInv
<1>10. RemovalInv' /\ OutInv'
    BY <1>1, <1>3 DEF RemovalInv, Resetting, SigningOut, OutInv
<1> QED BY <1>5, <1>6, <1>8, <1>9, <1>10 DEF IInv

\* A library and a base of the same profile, in new files.
LEMMA NewFiles ==
    ASSUME NEW d, NEW q \in Profile, NEW s \in Status, NEW r \in Snapshot,
           d = [config |-> [profile |-> q, status |-> s], base |-> r, journal |-> None]
    PROVE  /\ d \in Files /\ d.journal = None /\ d.base = r /\ d.base # None /\ d.config # None
           /\ d.config.profile = q /\ d.config.status = s /\ Config(d) = d.config
<1>1. [profile |-> q, status |-> s] \in SyncConfig
    BY DEF SyncConfig
<1>2. d \in Files
    BY <1>1 DEF Files
<1> QED BY <1>1, <1>2, OnDisk

\* resolve_sync_conflict ends an applied journal: its remote is the base.
LEMMA ResolveKeeps == ASSUME IInv, Resolve PROVE IInv'
<1> DEFINE j == disk.journal
<1>1. /\ UNCHANGED <<platform, late, out, lib, backup, cloud, op, born, deleted, torn>>
      /\ j # None /\ j.applied /\ ~out /\ Unlocked /\ tokens' \in {"none", "stale", "fresh"}
      /\ disk' = [config |-> [profile |-> j.profile, status |-> "dirty"],
                  base |-> j.remote, journal |-> None]
    BY EntitledIs DEF Resolve, data
<1>2. /\ disk \in Files /\ Recorded(disk) /\ (~torn => Kept(disk, lib)) /\ TypeOK
      /\ j.profile \in Profile /\ j.remote \in Snapshot
    BY <1>1, Quiet, OnDisk DEF IInv
<1>3. "dirty" \in Status
    BY DEF Status
<1>4. /\ disk' \in Files /\ disk'.journal = None /\ disk'.base = j.remote
      /\ disk'.config.profile = j.profile /\ disk'.config.status = "dirty"
    BY <1>1, <1>2, <1>3, NewFiles
<1>5. TypeOK'
    BY <1>1, <1>2, <1>4 DEF TypeOK
<1>6. Recorded(disk)'
    BY <1>1, <1>2, <1>4 DEF Recorded, Past
<1>7. ~torn' => Kept(disk, lib)'
    BY <1>1, <1>2, <1>4 DEF Kept, JournalKept, BaseKept, Accounted
<1>8. op' = Idle /\ OutInv'
    BY <1>1 DEF Unlocked, OutInv
<1> QED BY <1>5, <1>6, <1>7, <1>8, Over

\* What a running command may rely on.
LEMMA AtWork ==
    ASSUME IInv, Syncing
    PROVE  /\ ~Half /\ ~Resetting /\ ~SigningOut /\ Recorded(disk) /\ (~torn => Kept(disk, lib))
           /\ disk \in Files /\ ~out /\ TypeOK
           /\ op.profile \in Profile /\ op \in SyncCommand
BY Typed, Running DEF IInv, FilesInv, OutInv

\* A step of a command, the files being left alone.
LEMMA StepOn ==
    ASSUME IInv, Syncing, op' \in SyncCommand, op' # Idle,
           UNCHANGED <<platform, tokens, late, out, lib, backup, disk, cloud, born, deleted, torn>>,
           SyncInv', CarryInv'
    PROVE  IInv'
<1>1. TypeOK'
    BY DEF IInv, TypeOK
<1>2. op'.kind \in {"create", "attach", "sync"}
    BY DEF SyncCommand
<1>3. FilesInv'
    BY AtWork DEF FilesInv, Recorded, Kept, JournalKept, BaseKept, Past, Accounted
<1>4. RemovalInv' /\ OutInv'
    BY <1>2, AtWork DEF RemovalInv, Resetting, SigningOut, OutInv
<1> QED BY <1>1, <1>3, <1>4 DEF IInv

\* load_remote_manifest, download_remote_snapshot: a version newer than the base.
LEMMA ReadRemoteKeeps == ASSUME IInv, ReadRemote PROVE IInv'
<1> DEFINE q == op.profile
<1>1. /\ UNCHANGED <<platform, tokens, late, out, lib, backup, disk, cloud, born, deleted, torn>>
      /\ Syncing /\ op.step = "read" /\ cloud[q] # None
      /\ op.kind = "attach" \/ disk.base # None
      /\ op' = [op EXCEPT !.step = "queue", !.remote = cloud[q]]
    BY DEF ReadRemote, At, data, auth
<1>2. q \in Profile /\ op \in SyncCommand /\ cloud[q] \in Snapshot
    BY <1>1, AtWork, Typed
<1>3. op' \in SyncCommand /\ op' # Idle /\ op'.kind = op.kind /\ op'.step = "queue"
      /\ op'.profile = q /\ op'.remote = cloud[q] /\ Syncing'
    BY <1>1, <1>2 DEF SyncCommand, Idle, Syncing
<1>4. cloud[q].version \in Nat
    BY <1>2 DEF Snapshot
<1>5. SyncInv'
    BY <1>1, <1>3, <1>4 DEF IInv, SyncInv, Alone, Configured, Config, Past
<1>6. CarryInv'
  <2>1. CASE op.kind = "sync" /\ ~torn
    <3>1. disk.journal = None /\ disk.config # None /\ disk.config.profile = q /\ disk.base # None
      BY <1>1, <2>1, AtWork, OnDisk DEF IInv, SyncInv, Configured
    <3>2. Accounted(q, disk.base.items, cloud[q].items)
      BY <1>1, <2>1, <3>1, AtWork DEF Kept, BaseKept
    <3> QED BY <1>1, <1>3, <3>2 DEF CarryInv, Accounted
  <2>2. CASE ~(op.kind = "sync" /\ ~torn)
    BY <1>1, <1>3, <2>2 DEF CarryInv, Accounted
  <2> QED BY <2>1, <2>2
<1> QED BY <1>1, <1>3, <1>5, <1>6, StepOn

\* The remote is the base still: clean, or the library is to be published over it.
LEMMA NothingRemoteKeeps == ASSUME IInv, NothingRemote PROVE IInv'
<1> DEFINE q == op.profile
<1>1. /\ UNCHANGED <<platform, tokens, late, out, lib, backup, cloud, born, deleted, torn>>
      /\ Syncing /\ op.step = "read" /\ op.kind = "sync"
      /\ disk.base # None /\ disk.base.version = cloud[q].version
    BY DEF NothingRemote, At, data, auth
<1>2. /\ disk.journal = None /\ disk.config # None /\ disk.config.profile = q
      /\ disk \in Files /\ q \in Profile /\ op \in SyncCommand
    BY <1>1, AtWork, OnDisk DEF IInv, SyncInv, Configured
<1>3. /\ Past(q, disk.base) /\ disk.base.items = cloud[q].items /\ cloud[q] \in Snapshot
      /\ ~torn => BaseKept(q, disk.base, lib)
    BY <1>1, <1>2, AtWork, Typed DEF Recorded, Kept, Past
<1>4. CASE lib = disk.base.items
  <2>1. op' = Idle /\ disk' = WithStatus(disk, "clean")
    BY <1>4 DEF NothingRemote
  <2>2. Restatus(disk, disk', "clean")
    BY <1>2, <2>1, StatusIs DEF Status
  <2>3. /\ disk' \in Files /\ disk'.journal = None /\ disk'.config # None
        /\ disk'.config.profile = q /\ disk'.base = disk.base
    BY <1>2, <2>2, OnDisk DEF Restatus
  <2>4. TypeOK'
    BY <1>1, <2>1, <2>3 DEF IInv, TypeOK
  <2>5. Recorded(disk)'
    BY <1>1, <1>3, <2>3 DEF Recorded, Past
  <2>6. ~torn' => Kept(disk, lib)'
    BY <1>1, <1>3, <1>4, <2>3 DEF Kept, BaseKept, Accounted
  <2>7. OutInv'
    BY <1>1, AtWork DEF OutInv
  <2> QED BY <2>1, <2>4, <2>5, <2>6, <2>7, Over
<1>5. CASE lib # disk.base.items
  <2>1. /\ op' = [op EXCEPT !.step = "publish", !.snap = lib, !.remote = cloud[q]]
        /\ UNCHANGED disk
    BY <1>5 DEF NothingRemote
  <2>2. /\ op' \in SyncCommand /\ op' # Idle /\ op'.kind = "sync" /\ op'.step = "publish"
        /\ op'.profile = q /\ op'.remote = cloud[q] /\ op'.snap = lib /\ Syncing'
    BY <1>1, <1>2, <1>3, <2>1, Typed DEF IInv, SyncCommand, Idle, Syncing
  <2>3. cloud[q].version \in Nat
    BY <1>3 DEF Snapshot
  <2>4. SyncInv'
    BY <1>1, <1>2, <1>3, <2>1, <2>2, <2>3 DEF IInv, SyncInv, Alone, Configured, Config, Past
  <2>5. CarryInv'
    BY <1>1, <1>3, <2>2 DEF CarryInv, BaseKept, Accounted
  <2> QED BY <1>1, <2>1, <2>2, <2>4, <2>5, StepOn
<1> QED BY <1>4, <1>5

\* A merge takes away only what one of the sides took away.
LEMMA MergedIs ==
    ASSUME NEW b, NEW l \in SUBSET Item, NEW r \in SUBSET Item
    PROVE  /\ MergedItems(b, l, r) \in SUBSET Item
           /\ l \ MergedItems(b, l, r) \subseteq b \ r
           /\ r \ MergedItems(b, l, r) \subseteq b \ l
BY DEF MergedItems, Merged

\* queue_pending_sync: what the merge leaves out, the base had and a side lost.
LEMMA QueueKeeps == ASSUME IInv, Queue PROVE IInv'
<1> DEFINE q == op.profile
           r == op.remote
<1>1. /\ UNCHANGED <<platform, tokens, late, out, lib, backup, cloud, born, deleted, torn>>
      /\ Syncing /\ op.step = "queue" /\ op' = [op EXCEPT !.step = "apply"]
    BY DEF Queue, At, data, auth
<1>2. /\ q \in Profile /\ op \in SyncCommand /\ disk \in Files /\ disk.journal = None
      /\ r # None /\ r \in Snapshot /\ r.items \in SUBSET Item /\ lib \in SUBSET Item /\ Past(q, r)
    BY <1>1, AtWork, Running, Typed DEF IInv, SyncInv
<1>3. PICK asks \in BOOLEAN :
        disk' = [disk EXCEPT !.journal =
                    [profile |-> q, asks |-> asks,
                     status |-> IF asks THEN "conflict" ELSE "dirty",
                     baseline |-> lib, remote |-> r, applied |-> FALSE,
                     target |-> MergedItems(Base, lib, r.items)]]
    BY DEF Queue
<1>4. MergedItems(Base, lib, r.items) \in SUBSET Item
    BY <1>2, MergedIs
<1> DEFINE j == [profile |-> q, asks |-> asks,
                 status |-> IF asks THEN "conflict" ELSE "dirty",
                 baseline |-> lib, remote |-> r, applied |-> FALSE,
                 target |-> MergedItems(Base, lib, r.items)]
<1>5. /\ j \in Pending /\ j # None /\ j.profile = q /\ j.remote = r /\ ~j.applied
      /\ j.baseline = lib /\ j.target = MergedItems(Base, lib, r.items)
      /\ j.status \in {"conflict", "dirty"}
  <2>1. asks = TRUE \/ asks = FALSE
    OBVIOUS
  <2>2. (IF asks THEN "conflict" ELSE "dirty") \in {"conflict", "dirty"}
    BY <2>1
  <2>3. j \in Pending
    BY <1>2, <1>4, <2>2 DEF Pending, Status
  <2>4. j # None
    BY <2>3
  <2> QED BY <2>2, <2>3, <2>4
<1>6. disk' = [disk EXCEPT !.journal = j]
    BY <1>3
<1> HIDE DEF j
<1>7. /\ disk' \in Files /\ disk'.journal = j /\ disk'.config = disk.config
      /\ disk'.base = disk.base
    BY <1>2, <1>5, <1>6 DEF Files
<1>8. /\ op' \in SyncCommand /\ op' # Idle /\ op'.step = "apply" /\ op'.kind = op.kind
      /\ op'.profile = q /\ op'.remote = r /\ op'.snap = op.snap /\ Syncing'
    BY <1>1, <1>2 DEF SyncCommand, Idle, Syncing
<1>9. /\ Config(disk') # None /\ Config(disk').profile = q
      /\ Config(disk').status = j.status
    BY <1>5, <1>7, OnDisk
<1>10. TypeOK'
    BY <1>1, <1>7, <1>8 DEF IInv, TypeOK
<1>11. disk.config # None => cloud[disk.config.profile] # None
    BY <1>1, AtWork DEF Recorded
<1>12. Recorded(disk)'
    BY <1>1, <1>2, <1>5, <1>7, <1>11 DEF Recorded, Past
<1>13. ASSUME ~torn PROVE JournalKept(j, lib)
  <2>1. Accounted(q, r.items, cloud[q].items)
    BY <1>1, <1>2, <1>13 DEF IInv, CarryInv
  <2>2. Accounted(q, Base, r.items) /\ Accounted(q, Base, lib)
    <3>1. CASE op.kind = "attach"
      BY <3>1 DEF Base, Accounted
    <3>2. CASE op.kind = "sync"
      <4>1. disk.config # None /\ disk.config.profile = q /\ disk.base # None
        BY <1>1, <1>2, <3>2, OnDisk DEF IInv, SyncInv, Configured
      <4>2. Accounted(q, disk.base.items, lib)
        BY <1>1, <1>2, <1>13, <4>1, AtWork DEF Kept, BaseKept
      <4>3. Accounted(q, disk.base.items, r.items)
        BY <1>1, <1>13, <3>2 DEF IInv, CarryInv
      <4> QED BY <3>2, <4>2, <4>3 DEF Base
    <3>3. op.kind # "create"
      BY <1>1 DEF IInv, SyncInv
    <3> QED BY <1>1, <3>1, <3>2, <3>3, Running DEF IInv
  <2>3. /\ lib \ j.target \subseteq Base \ r.items
        /\ r.items \ j.target \subseteq Base \ lib
    BY <1>2, <1>5, MergedIs
  <2> HIDE DEF q, r
  <2> QED BY <1>5, <2>1, <2>2, <2>3 DEF JournalKept, Accounted
<1>14. ~torn' => Kept(disk, lib)'
    BY <1>1, <1>5, <1>7, <1>13 DEF Kept, JournalKept, Accounted
<1>15. SyncInv'
    BY <1>1, <1>2, <1>5, <1>7, <1>8, <1>9, AtWork DEF IInv, SyncInv, Alone, Configured, Past
<1>16. CarryInv'
    BY <1>1, <1>2, <1>8 DEF IInv, CarryInv, Accounted
<1>17. RemovalInv' /\ OutInv'
    BY <1>1, <1>8, AtWork, Running DEF IInv, RemovalInv, Resetting, SigningOut, OutInv
<1> QED BY <1>10, <1>12, <1>14, <1>15, <1>16, <1>17 DEF IInv, FilesInv

\* recover_pending_snapshot_apply: what was done since the snapshot is carried over.
LEMMA ApplyKeeps == ASSUME IInv, Apply PROVE IInv'
<1> DEFINE q == op.profile
           j == disk.journal
           s == IF At("resume") /\ ~j.asks THEN "syncing" ELSE j.status
           next == IF j.asks THEN [j EXCEPT !.applied = TRUE] ELSE None
<1>1. /\ UNCHANGED <<platform, tokens, late, out, backup, cloud, born, deleted, torn>>
      /\ Syncing /\ op.step \in {"apply", "resume"}
      /\ lib' = MergedItems(j.baseline, lib, j.target)
      /\ disk' = [config |-> [profile |-> j.profile, status |-> s],
                  base |-> j.remote, journal |-> next]
      /\ op' = IF j.asks THEN Idle
               ELSE IF At("resume") THEN [op EXCEPT !.step = "read"]
               ELSE [op EXCEPT !.step = "publish", !.snap = lib']
    BY DEF Apply, AppliedBase, At, auth
<1>2. /\ q \in Profile /\ op \in SyncCommand /\ disk \in Files /\ lib \in SUBSET Item
      /\ j # None /\ ~j.applied /\ j.profile = q
      /\ op.step = "apply" => j.remote = op.remote
    BY <1>1, AtWork, Typed DEF IInv, SyncInv
<1>3. /\ j \in Pending /\ j.remote \in Snapshot /\ j.status \in Status \ {"clean"}
      /\ j.asks \in BOOLEAN /\ j.target \in SUBSET Item /\ j.remote.items \in SUBSET Item
      /\ Past(q, j.remote) /\ (~torn => JournalKept(j, lib))
    BY <1>1, <1>2, AtWork, OnDisk DEF Recorded, Kept
<1>4. s \in Status \ {"clean"}
    BY <1>3 DEF Status
<1>5. /\ next \in Pending \cup {None} /\ (~j.asks => next = None)
      /\ j.asks => /\ next # None /\ next.profile = q /\ next.remote = j.remote
                   /\ next.applied /\ next.status = j.status
    BY <1>2, <1>3 DEF Pending
<1> HIDE DEF s, next
<1>6. [profile |-> q, status |-> s] \in SyncConfig
    BY <1>2, <1>4 DEF SyncConfig
<1>7. /\ disk' \in Files /\ disk'.journal = next /\ disk'.base = j.remote
      /\ disk'.config # None /\ disk'.config.profile = q /\ disk'.config.status = s
    BY <1>1, <1>2, <1>3, <1>5, <1>6 DEF Files
<1>8. lib' \in SUBSET Item
    BY <1>1, <1>2, <1>3, MergedIs
<1>9. Recorded(disk)'
    BY <1>1, <1>3, <1>5, <1>7 DEF Recorded, Past
<1>10. ASSUME ~torn
       PROVE  Accounted(q, j.remote.items, lib') /\ Accounted(q, j.remote.items, cloud[q].items)
  <2>1. /\ Accounted(q, j.baseline, lib) /\ Accounted(q, j.baseline, j.target)
        /\ Accounted(q, j.remote.items, j.target) /\ Accounted(q, j.remote.items, cloud[q].items)
    BY <1>2, <1>3, <1>10 DEF JournalKept
  <2>2. j.target \ lib' \subseteq j.baseline \ lib
    BY <1>1, <1>2, <1>3, MergedIs
  <2> QED BY <2>1, <2>2 DEF Accounted
<1>11. ~torn' => Kept(disk, lib)'
    BY <1>1, <1>4, <1>5, <1>7, <1>10 DEF Kept, JournalKept, BaseKept, Accounted
<1>12. OutInv'
    BY <1>1, AtWork DEF OutInv
<1>13. CASE j.asks
  <2>1. op' = Idle
    BY <1>1, <1>13
  <2>2. TypeOK'
    BY <1>1, <1>7, <1>8, <2>1 DEF IInv, TypeOK
  <2> QED BY <1>9, <1>11, <1>12, <2>1, <2>2, Over
<1>14. CASE ~j.asks
  <2>1. disk'.journal = None /\ Config(disk') = disk'.config
    BY <1>5, <1>7, <1>14, OnDisk
  <2>2. /\ op' \in SyncCommand /\ op' # Idle /\ op'.kind = op.kind /\ op'.profile = q
        /\ op'.remote = op.remote /\ Syncing'
        /\ \/ op.step = "resume" /\ op'.step = "read"
           \/ op.step = "apply" /\ op'.step = "publish" /\ op'.snap = lib'
    BY <1>1, <1>2, <1>8, <1>14 DEF SyncCommand, Idle, Syncing, At
  <2>3. TypeOK'
    BY <1>1, <1>7, <1>8, <2>2 DEF IInv, TypeOK
  <2>4. SyncInv'
    BY <1>1, <1>2, <1>4, <1>7, <2>1, <2>2 DEF IInv, SyncInv, Alone, Configured, Past
  <2>5. CarryInv'
    BY <1>1, <1>2, <1>10, <2>2 DEF IInv, CarryInv, Accounted
  <2>6. RemovalInv'
    BY <1>1, <2>2, Running DEF IInv, RemovalInv, Resetting, SigningOut
  <2> QED BY <1>9, <1>11, <1>12, <2>3, <2>4, <2>5, <2>6 DEF IInv, FilesInv
<1> QED BY <1>13, <1>14

\* A publication goes over the version that was read, and keeps its entries.
LEMMA PublishMoves ==
    ASSUME IInv, Publish, cloud[op.profile] = op.remote
    PROVE  /\ TypeOK' /\ MovesOn /\ (~torn => Loses) /\ Syncing' /\ UNCHANGED disk
           /\ op' \in SyncCommand /\ op' # Idle /\ op'.kind = op.kind /\ op'.step = "base"
           /\ op'.profile = op.profile /\ op'.snap = op.snap
           /\ cloud'[op.profile] = op'.remote /\ op'.remote \in Snapshot
           /\ op'.remote.items = op.snap
           /\ \A r \in Profile : r # op.profile => cloud'[r] = cloud[r]
<1> DEFINE q == op.profile
           v == IF op.remote = None THEN 1 ELSE op.remote.version + 1
           new == [items |-> op.snap, version |-> v]
<1>1. /\ UNCHANGED <<platform, tokens, late, out, lib, backup, born, deleted, torn>>
      /\ Syncing /\ op.step = "publish"
    BY DEF Publish, At, auth
<1>2. /\ q \in Profile /\ op \in SyncCommand /\ TypeOK
      /\ op.remote # None => op.remote.version \in Nat
    BY <1>1, AtWork, Running
<1>3. /\ cloud' = [cloud EXCEPT ![q] = new]
      /\ op' = [op EXCEPT !.step = "base", !.remote = new] /\ UNCHANGED disk
    BY DEF Publish
<1>4. new \in Snapshot /\ new.items = op.snap /\ new.version = v /\ new # None /\ v \in Nat
    BY <1>1, <1>2, Running DEF Snapshot
<1> HIDE DEF new
<1>5. /\ op' \in SyncCommand /\ op' # Idle /\ op'.kind = op.kind /\ op'.step = "base"
      /\ op'.profile = q /\ op'.remote = new /\ op'.snap = op.snap /\ Syncing'
    BY <1>1, <1>2, <1>3, <1>4 DEF SyncCommand, Idle, Syncing
<1>6. TypeOK'
    BY <1>1, <1>3, <1>4, <1>5 DEF IInv, TypeOK
<1>7. cloud'[q] = new /\ \A r \in Profile : r # q => cloud'[r] = cloud[r]
    BY <1>2, <1>3 DEF TypeOK
<1>8. MovesOn
    BY <1>1, <1>2, <1>4, <1>7 DEF MovesOn
<1>9. ~torn => Loses
    BY <1>1, <1>4, <1>7 DEF IInv, CarryInv, Accounted, Loses
<1> QED BY <1>3, <1>4, <1>5, <1>6, <1>7, <1>8, <1>9

\* upload_snapshot and the manifest: over what was read, or not at all.
LEMMA PublishKeeps == ASSUME IInv, Publish PROVE IInv'
<1> DEFINE q == op.profile
<1>1. /\ UNCHANGED <<platform, tokens, late, out, lib, backup, born, deleted, torn>>
      /\ Syncing /\ op.step = "publish"
    BY DEF Publish, At, auth
<1>2. q \in Profile /\ disk \in Files /\ TypeOK
    BY <1>1, AtWork
<1>3. CASE cloud[q] = op.remote
  <2>1. /\ TypeOK' /\ MovesOn /\ (~torn => Loses) /\ Syncing' /\ UNCHANGED disk
        /\ op' \in SyncCommand /\ op' # Idle /\ op'.kind = op.kind /\ op'.step = "base"
        /\ op'.profile = q /\ op'.snap = op.snap
        /\ cloud'[q] = op'.remote /\ op'.remote \in Snapshot /\ op'.remote.items = op.snap
    BY <1>3, PublishMoves
  <2>2. op'.remote # None /\ op'.remote.version \in Nat
    BY <2>1 DEF Snapshot
  <2>3. FilesInv'
    <3>1. Recorded(disk)'
      BY <1>1, <1>2, <2>1, RecordedStays, AtWork DEF Recorded, Past
    <3>2. ~torn' => Kept(disk, lib)'
      BY <1>1, <1>2, <2>1, KeptStays, AtWork DEF Kept, JournalKept, BaseKept, Accounted
    <3> QED BY <3>1, <3>2 DEF FilesInv
  <2>4. SyncInv'
    BY <1>1, <2>1, <2>2 DEF IInv, SyncInv, Alone, Configured, Config, Past
  <2>5. CarryInv'
    BY <1>1, <2>1 DEF IInv, CarryInv, Accounted
  <2>6. RemovalInv' /\ OutInv'
    BY <1>1, <2>1, AtWork, Running DEF IInv, RemovalInv, Resetting, SigningOut, OutInv
  <2> QED BY <2>1, <2>3, <2>4, <2>5, <2>6 DEF IInv
<1>4. CASE cloud[q] # op.remote
  <2>1. op' = Idle /\ disk' = WithStatus(disk, "dirty") /\ UNCHANGED cloud
    BY <1>4 DEF Publish
  <2>2. "dirty" \in Status \ {"clean"} /\ disk' \in Files
    BY <1>2, <2>1, StatusIs DEF Status, Restatus
  <2>3. TypeOK' /\ ~Half /\ ~out
    BY <1>1, <2>1, <2>2, AtWork DEF IInv, TypeOK
  <2> QED BY <1>1, <2>1, <2>2, <2>3, Ended
<1> QED BY <1>3, <1>4

\* save_base_snapshot: what was published is what later merges start from.
LEMMA SaveBaseKeeps == ASSUME IInv, SaveBase PROVE IInv'
<1> DEFINE q == op.profile
           r == op.remote
<1>1. /\ UNCHANGED <<platform, tokens, late, out, lib, backup, cloud, born, deleted, torn>>
      /\ Syncing /\ op.step = "base" /\ op' = [op EXCEPT !.step = "config"]
      /\ disk' = [disk EXCEPT !.base = r, !.journal = None]
    BY DEF SaveBase, At, data, auth
<1>2. /\ q \in Profile /\ op \in SyncCommand /\ disk \in Files /\ r # None /\ r \in Snapshot
      /\ disk.journal = None /\ r.items = op.snap /\ Past(q, r)
      /\ disk.config # None => disk.config.profile = q /\ disk.config.status # "clean"
    BY <1>1, AtWork, Running, OnDisk DEF IInv, SyncInv, Configured
<1>3. /\ op' \in SyncCommand /\ op' # Idle /\ op'.kind = op.kind /\ op'.step = "config"
      /\ op'.profile = q /\ op'.remote = r /\ op'.snap = op.snap /\ Syncing'
    BY <1>1, <1>2 DEF SyncCommand, Idle, Syncing
<1>4. /\ disk' \in Files /\ disk'.journal = None /\ disk'.config = disk.config /\ disk'.base = r
      /\ Config(disk') = disk.config /\ Config(disk) = disk.config
    BY <1>1, <1>2, OnDisk DEF Files, Config
<1>5. TypeOK'
    BY <1>1, <1>3, <1>4 DEF IInv, TypeOK
<1>6. Recorded(disk)'
    BY <1>1, <1>2, <1>4 DEF Recorded, Past
<1>7. ~torn' => Kept(disk, lib)'
    BY <1>1, <1>2, <1>4 DEF IInv, CarryInv, Kept, BaseKept, Accounted
<1>8. SyncInv'
    BY <1>1, <1>3, <1>4 DEF IInv, SyncInv, Alone, Configured, Past
<1>9. CarryInv'
    BY <1>1, <1>3 DEF IInv, CarryInv, Accounted
<1>10. RemovalInv' /\ OutInv'
    BY <1>1, <1>3, AtWork, Running DEF IInv, RemovalInv, Resetting, SigningOut, OutInv
<1> QED BY <1>5, <1>6, <1>7, <1>8, <1>9, <1>10 DEF IInv, FilesInv

\* save_sync_config says clean only if the library is what was published.
LEMMA SaveConfigKeeps == ASSUME IInv, SaveConfig PROVE IInv'
<1> DEFINE q == op.profile
<1>1. /\ UNCHANGED <<platform, tokens, late, out, lib, backup, cloud, born, deleted, torn>>
      /\ Syncing /\ op.step = "config" /\ op' = Idle
      /\ disk' = [disk EXCEPT !.config = [profile |-> q, status |-> FinalStatus]]
    BY DEF SaveConfig, At, data, auth
<1>2. /\ q \in Profile /\ disk \in Files /\ disk.base = op.remote /\ op.remote # None
      /\ disk.journal = None /\ op.remote.items = op.snap /\ Past(q, op.remote)
    BY <1>1, AtWork DEF IInv, SyncInv
<1>3. [profile |-> q, status |-> FinalStatus] \in SyncConfig
    BY <1>2 DEF SyncConfig, FinalStatus, Status
<1>4. /\ disk' \in Files /\ disk'.journal = None /\ disk'.base = disk.base
      /\ disk'.config.profile = q /\ disk'.config.status = FinalStatus
    BY <1>1, <1>2, <1>3 DEF Files
<1>5. TypeOK'
    BY <1>1, <1>4 DEF IInv, TypeOK
<1>6. Recorded(disk)'
    BY <1>1, <1>2, <1>4 DEF Recorded, Past
<1>7. FinalStatus = "clean" => lib = op.snap
    BY DEF FinalStatus
<1>8. ~torn' => Kept(disk, lib)'
    BY <1>1, <1>2, <1>4, <1>7 DEF IInv, CarryInv, Kept, BaseKept, Accounted
<1>9. OutInv'
    BY <1>1, AtWork DEF OutInv
<1> QED BY <1>1, <1>5, <1>6, <1>8, <1>9, Over

\* Files that go in the order of the sync directory take nothing with them that
\* the others need.
LEMMA RemovedRecords ==
    ASSUME NEW d \in Files, NEW e \in Files, Recorded(d),
           e.config \in {d.config, None}, e.base \in {d.base, None},
           e.journal = d.journal \/ (e.journal = None /\ e.config = None)
    PROVE  Recorded(e)
BY DEF Recorded

\* ... and owes no more than they did.
LEMMA RemovedKeeps ==
    ASSUME NEW d \in Files, NEW e \in Files, NEW l, Kept(d, l),
           e.config \in {d.config, None}, e.base \in {d.base, None},
           e.journal = d.journal \/ (e.journal = None /\ e.config = None)
    PROVE  Kept(e, l)
BY DEF Kept

\* disconnect_google_drive: the tokens go first.
LEMMA SignOutBeginKeeps == ASSUME IInv, SignOutBegin PROVE IInv'
<1>1. /\ UNCHANGED <<platform, late, out, lib, backup, disk, cloud, born, deleted, torn>>
      /\ Unlocked /\ tokens' = "none"
      /\ op' = [kind |-> "signout", step |-> "config", profile |-> None, snap |-> {},
                remote |-> None]
    BY SignOutOrder DEF SignOutBegin, Command, data
<1>2. op' \in SignOut /\ op' # Idle
    BY <1>1 DEF SignOut, Idle
<1>3. TypeOK'
    BY <1>1, <1>2 DEF IInv, TypeOK
<1>4. FilesInv'
    BY <1>1, Quiet DEF FilesInv, Recorded, Kept, JournalKept, BaseKept, Past, Accounted
<1>5. SyncInv' /\ CarryInv' /\ RemovalInv'
    BY <1>1 DEF SyncInv, CarryInv, RemovalInv, Syncing, Resetting, SigningOut
<1>6. OutInv'
    BY <1>1 DEF IInv, OutInv, Syncing, Resetting, Configured, Config
<1> QED BY <1>3, <1>4, <1>5, <1>6 DEF IInv

\* clear_sync_runtime_files, file by file.
LEMMA SignOutStepKeeps == ASSUME IInv, SignOutStep PROVE IInv'
<1>1. /\ UNCHANGED <<platform, tokens, late, lib, backup, cloud, born, deleted>>
      /\ SigningOut /\ disk' = [disk EXCEPT ![op.step] = None]
    BY DEF SignOutStep, SigningOut, data
<1>2. /\ op \in SignOut /\ op.step \in {"config", "base", "journal"} /\ ~Half /\ ~Syncing
      /\ disk \in Files /\ Recorded(disk) /\ (~torn => Kept(disk, lib))
      /\ op.step # "config" => disk.config = None
    BY <1>1, Removing, Typed DEF IInv, FilesInv, RemovalInv
<1>3. /\ disk' \in Files
      /\ disk'.config = IF op.step = "config" THEN None ELSE disk.config
      /\ disk'.base = IF op.step = "base" THEN None ELSE disk.base
      /\ disk'.journal = IF op.step = "journal" THEN None ELSE disk.journal
    BY <1>1, <1>2 DEF Files
<1>4. Recorded(disk')
    BY <1>2, <1>3, RemovedRecords
<1>5. Recorded(disk)'
    BY <1>1, <1>4 DEF Recorded, Past
<1>6. CASE op.step = "journal"
  <2>1. /\ op' = Idle /\ torn' = FALSE /\ out' = (late = {} /\ tokens = "none")
    BY <1>6, SignOutOrder DEF SignOutStep
  <2>2. TypeOK'
    BY <1>1, <1>3, <2>1 DEF IInv, TypeOK
  <2>3. disk'.journal = None /\ disk'.config = None /\ Config(disk') = None
    BY <1>2, <1>3, <1>6, OnDisk
  <2>4. Kept(disk, lib)'
    BY <2>3 DEF Kept
  <2>5. OutInv'
    BY <1>1, <2>1, <2>3 DEF OutInv, Configured, Syncing, Resetting
  <2> QED BY <1>5, <2>1, <2>2, <2>4, <2>5, Over
<1>7. CASE op.step # "journal"
  <2>1. After(op.step, SyncFiles) \in {"base", "journal"}
    BY <1>2, <1>7, SignOutOrder
  <2>2. op' = [op EXCEPT !.step = After(op.step, SyncFiles)] /\ UNCHANGED <<torn, out>>
    BY <2>1 DEF SignOutStep
  <2>3. /\ op' \in SignOut /\ op' # Idle /\ op'.step \in {"base", "journal"}
        /\ op'.kind = "signout"
    BY <1>2, <2>1, <2>2 DEF SignOut, Idle
  <2>4. TypeOK'
    BY <1>1, <1>3, <2>2, <2>3 DEF IInv, TypeOK
  <2>5. ~torn => Kept(disk', lib)
    BY <1>2, <1>3, RemovedKeeps
  <2>6. FilesInv'
    BY <1>1, <1>5, <2>2, <2>5 DEF FilesInv, Kept, JournalKept, BaseKept, Accounted
  <2>7. SyncInv' /\ CarryInv'
    BY <2>3 DEF SyncInv, CarryInv, Syncing
  <2>8. RemovalInv'
    BY <1>2, <1>3, <1>7, <2>3 DEF RemovalInv, Resetting, SigningOut
  <2>9. OutInv'
    BY <1>1, <1>2, <1>3, <1>7, <2>2, <2>3, OnDisk DEF IInv, OutInv, Configured, Syncing, Resetting
  <2> QED BY <2>4, <2>6, <2>7, <2>8, <2>9 DEF IInv
<1> QED BY <1>6, <1>7

\* wipe_everything, with the files and the library set aside.
LEMMA ResetBeginKeeps == ASSUME IInv, ResetBegin PROVE IInv'
<1>1. /\ UNCHANGED <<platform, tokens, late, out, lib, backup, disk, cloud, born, deleted, torn>>
      /\ Unlocked
      /\ op' = [kind |-> "reset", step |-> "library", profile |-> None, snap |-> lib,
                remote |-> disk]
    BY ResetOrder DEF ResetBegin, Command, data, auth
<1>2. op' \in Reset /\ op' # Idle
    BY <1>1, Typed DEF IInv, Reset, Idle
<1>3. TypeOK'
    BY <1>1, <1>2 DEF IInv, TypeOK
<1>4. FilesInv'
    BY <1>1, Quiet DEF FilesInv, Recorded, Kept, JournalKept, BaseKept, Past, Accounted
<1>5. SyncInv' /\ CarryInv'
    BY <1>1 DEF SyncInv, CarryInv, Syncing
<1>6. RemovalInv'
    BY <1>1, Quiet DEF RemovalInv, Resetting, SigningOut, Recorded, Kept, JournalKept, BaseKept,
       Past, Accounted
<1>7. OutInv'
    BY <1>1 DEF IInv, OutInv, Syncing, Resetting, Configured, Config
<1> QED BY <1>3, <1>4, <1>5, <1>6, <1>7 DEF IInv

\* wipe_everything_with_additional_targets moves the next target.
LEMMA ResetStepKeeps == ASSUME IInv, ResetStep PROVE IInv'
<1>1. /\ UNCHANGED <<platform, tokens, late, out, backup, cloud, born, deleted>>
      /\ Resetting /\ lib' = {} /\ disk' = Without({op.step}, disk)
    BY DEF ResetStep, Resetting, auth
<1>2. /\ op \in Reset /\ op.step \in {"library", "config", "base", "journal"} /\ ~Syncing
      /\ disk \in Files /\ Recorded(disk)
      /\ op.step \in {"base", "journal"} => disk.config = None
    BY <1>1, Removing, Typed DEF IInv, FilesInv, RemovalInv
<1>3. /\ disk' \in Files
      /\ disk'.config = IF op.step = "config" THEN None ELSE disk.config
      /\ disk'.base = IF op.step = "base" THEN None ELSE disk.base
      /\ disk'.journal = IF op.step = "journal" THEN None ELSE disk.journal
    BY <1>1, <1>2, WithoutIs
<1>4. Recorded(disk')
    BY <1>2, <1>3, RemovedRecords
<1>5. Recorded(disk)'
    BY <1>1, <1>4 DEF Recorded, Past
<1>6. CASE op.step = "journal"
  <2>1. op' = Idle /\ torn' = FALSE
    BY <1>6, ResetOrder DEF ResetStep
  <2>2. TypeOK'
    BY <1>1, <1>3, <2>1 DEF IInv, TypeOK
  <2>3. disk'.journal = None /\ disk'.config = None /\ Config(disk') = None
    BY <1>2, <1>3, <1>6, OnDisk
  <2>4. Kept(disk, lib)'
    BY <2>3 DEF Kept
  <2>5. OutInv'
    BY <1>1, <2>1, <2>3 DEF IInv, OutInv, Configured, Syncing, Resetting
  <2> QED BY <1>5, <2>1, <2>2, <2>4, <2>5, Over
<1>7. CASE op.step # "journal"
  <2>1. /\ After(op.step, Targets) \in {"config", "base", "journal"}
        /\ op.step = "library" => After(op.step, Targets) = "config"
    BY <1>2, <1>7, ResetOrder
  <2>2. op' = [op EXCEPT !.step = After(op.step, Targets)] /\ UNCHANGED torn
    BY <2>1 DEF ResetStep
  <2>3. /\ op' \in Reset /\ op' # Idle /\ op'.step \in {"config", "base", "journal"}
        /\ op.step = "library" => op'.step = "config"
        /\ op'.kind = "reset" /\ op'.remote = op.remote /\ op'.snap = op.snap
    BY <1>2, <2>1, <2>2 DEF Reset, Idle
  <2>4. TypeOK'
    BY <1>1, <1>3, <2>2, <2>3 DEF IInv, TypeOK
  <2>5. FilesInv'
    BY <1>5, <2>3 DEF FilesInv, Half, Resetting
  <2>6. SyncInv' /\ CarryInv'
    BY <2>3 DEF SyncInv, CarryInv, Syncing
  <2>7. RemovalInv'
    BY <1>1, <1>2, <1>3, <1>7, <2>2, <2>3, SMTT(20) DEF IInv, RemovalInv, Resetting, SigningOut, Recorded,
       Kept, JournalKept, BaseKept, Past, Accounted
  <2>8. OutInv'
    BY <1>1, <1>2, <1>3, <1>7, <2>2, <2>3, OnDisk
       DEF IInv, OutInv, Configured, Syncing, Resetting, Config
  <2> QED BY <2>4, <2>5, <2>6, <2>7, <2>8 DEF IInv
<1> QED BY <1>6, <1>7

\* A target cannot be moved: the others come back, as far as they do.
LEMMA ResetFailsKeeps == ASSUME IInv, ResetFails PROVE IInv'
<1>1. /\ UNCHANGED <<platform, tokens, late, out, backup, cloud, born, deleted>>
      /\ Resetting /\ op' = Idle
    BY DEF ResetFails, Resetting, auth
<1>2. PICK k \in DOMAIN Targets : \E gone \in SUBSET {Targets[n] : n \in 1 .. k - 1} :
        /\ lib' = IF "library" \in gone THEN {} ELSE op.snap
        /\ disk' = Without(gone, op.remote)
        /\ torn' = (torn \/ (gone # {} /\ Config(disk') # None))
    BY DEF ResetFails
<1>3. PICK gone \in SUBSET {"library", "config", "base"} :
        /\ lib' = IF "library" \in gone THEN {} ELSE op.snap
        /\ disk' = Without(gone, op.remote)
        /\ torn' = (torn \/ (gone # {} /\ Config(disk') # None))
    BY <1>2, MovedBefore
<1>4. /\ op \in Reset /\ op.remote \in Files /\ op.snap \subseteq Item /\ Recorded(op.remote)
      /\ ~torn => Kept(op.remote, op.snap)
    BY <1>1, Removing DEF IInv, RemovalInv
<1>5. /\ disk' \in Files
      /\ disk'.config \in {op.remote.config, None} /\ disk'.base \in {op.remote.base, None}
      /\ disk'.journal = op.remote.journal
      /\ gone = {} => disk' = op.remote
    BY <1>3, <1>4, WithoutIs
<1>6. TypeOK'
    BY <1>1, <1>3, <1>4, <1>5 DEF IInv, TypeOK
<1>7. Recorded(disk')
    BY <1>4, <1>5, RemovedRecords
<1>8. Recorded(disk)'
    BY <1>1, <1>7 DEF Recorded, Past
<1>9. ASSUME ~torn' PROVE Kept(disk, lib)'
  <2>1. CASE gone = {}
    <3>1. disk' = op.remote /\ lib' = op.snap /\ Kept(op.remote, op.snap)
      BY <1>3, <1>4, <1>5, <1>9, <2>1
    <3> QED BY <1>1, <3>1 DEF Kept, JournalKept, BaseKept, Accounted
  <2>2. CASE Config(disk') = None
    <3>1. disk'.journal = None /\ disk'.config = None
      BY <1>5, <2>2, OnDisk
    <3> QED BY <3>1 DEF Kept
  <2> QED BY <1>3, <1>9, <2>1, <2>2
<1>10. OutInv'
  <2>1. Config(op.remote) = None => Config(disk') = None
    BY <1>4, <1>5, OnDisk
  <2> QED BY <1>1, <2>1 DEF IInv, OutInv, Configured, Syncing, Resetting
<1> QED BY <1>1, <1>6, <1>8, <1>9, <1>10, Over

\* The safety backup is restored, without sync state.
LEMMA RestoreBackupKeeps == ASSUME IInv, RestoreBackup PROVE IInv'
<1>1. /\ UNCHANGED <<platform, tokens, late, out, backup, cloud, op, born, deleted>>
      /\ Unlocked /\ backup # None /\ lib' = backup /\ disk' = NoFiles /\ torn' = FALSE
    BY DEF RestoreBackup, auth
<1>2. /\ disk' \in Files /\ disk'.config = None /\ disk'.journal = None
    BY <1>1, NothingIs DEF Files
<1>3. Config(disk') = None
    BY <1>2, OnDisk
<1>4. TypeOK'
    BY <1>1, <1>2 DEF IInv, TypeOK
<1>5. Recorded(disk)' /\ Kept(disk, lib)'
    BY <1>2 DEF Recorded, Kept
<1>6. op' = Idle /\ OutInv'
    BY <1>1, <1>3 DEF IInv, OutInv, Unlocked, Configured, Syncing, Resetting
<1> QED BY <1>4, <1>5, <1>6, Over

-----------------------------------------------------------------------------
\* A new installation.
LEMMA Initially == Init => IInv
<1> SUFFICES ASSUME Init PROVE IInv
    OBVIOUS
<1>1. /\ disk \in Files /\ disk.config = None /\ disk.journal = None /\ Config(disk) = None
    BY NothingIs, OnDisk DEF Init, Files
<1>2. cloud \in [Profile -> Snapshot \cup {None}]
    BY DEF Init, Snapshot
<1>3. TypeOK
    BY <1>1, <1>2 DEF Init, TypeOK
<1> QED BY <1>1, <1>3 DEF Init, IInv, FilesInv, SyncInv, CarryInv, RemovalInv, OutInv, Recorded,
       Kept, Syncing, Resetting, SigningOut

\* Nothing happens.
LEMMA StutterKeeps == ASSUME IInv, UNCHANGED vars PROVE IInv'
<1>1. TypeOK'
    BY DEF vars, IInv, TypeOK
<1>2. OutInv'
    BY DEF vars, IInv, OutInv, Configured, Config, Syncing, Resetting
<1> QED BY <1>1, <1>2, Unmoved DEF vars, IInv

\* Every step of the device, its user, other devices and Google.
LEMMA NextKeeps == ASSUME IInv, Next PROVE IInv'
<1>1. CASE Account \/ Refresh
    BY <1>1, AccountKeeps
<1>2. CASE Begin
    BY <1>2, CreateBeginKeeps, AttachBeginKeeps, SignOutBeginKeeps, ResetBeginKeeps,
       RestoreBackupKeeps DEF Begin
<1>3. CASE Press
    BY <1>3, SyncBeginKeeps, ResumeBeginKeeps, ResolveKeeps DEF Press
<1>4. CASE Work /\ ~Refresh
    BY <1>4, RevokedKeeps, ReadRemoteKeeps, NothingRemoteKeeps, NoBaseKeeps, QueueKeeps,
       ApplyKeeps, PublishKeeps, SaveBaseKeeps, SaveConfigKeeps, SignOutStepKeeps,
       ResetStepKeeps DEF Work
<1>5. CASE Add \/ Delete \/ PeerPublishes \/ Fail \/ ResetFails \/ Crash
    BY <1>5, AddKeeps, DeleteKeeps, PeerPublishesKeeps, FailKeeps, ResetFailsKeeps, CrashKeeps
<1> QED BY <1>1, <1>2, <1>3, <1>4, <1>5 DEF Next

\* The inductive invariant holds: after every step of a command, a sign-out, a reset, a
\* failure or a crash, the files owe the library and the profile only what users deleted.
THEOREM Invariance == Spec => []IInv
<1>1. IInv /\ [Next]_vars => IInv'
    BY NextKeeps, StutterKeeps
<1> QED BY Initially, <1>1, PTL DEF Spec

\* The files, the command that holds the sync lock and the profiles have the shape that
\* sync_state.rs gives them.
THEOREM TypeCorrect == Spec => []TypeOK
<1>1. IInv => TypeOK
    BY DEF IInv
<1> QED BY <1>1, Invariance, PTL

\* The parts of IInv that make the records true.
LEMMA BooksHold == IInv => BooksAreTrue
<1> SUFFICES ASSUME IInv, Configured, Unlocked \/ Syncing PROVE BooksAreTrue
    BY DEF BooksAreTrue
<1>1. disk \in Files /\ Recorded(disk) /\ ~Half /\ (~torn => Kept(disk, lib))
    BY Quiet, AtWork
<1>2. CASE disk.journal # None
  <2>1. cloud[Config(disk).profile] # None
    BY <1>1, <1>2, OnDisk DEF Recorded, Past
  <2> QED BY <1>2, <2>1 DEF BooksAreTrue
<1>3. CASE disk.journal = None
  <2>1. Config(disk) = disk.config /\ disk.config # None
    BY <1>1, <1>3, OnDisk DEF Configured
  <2>2. Shown = "clean" => disk.config.status = "clean"
    BY <1>3, <2>1 DEF Shown
  <2> QED BY <1>1, <1>3, <2>1, <2>2 DEF BooksAreTrue, Recorded, Kept, Past
<1> QED BY <1>2, <1>3

\* get_sync_status says clean only of a library that is the base, the base that
\* save_base_snapshot left is a version its profile had, the profile exists; and after
\* disconnect_google_drive with nothing under way no token comes back, not by
\* restore_google_drive_auth_if_missing, a listing or a command.
THEOREM TrueRecords == Spec => []RecordsAreTrue
<1>1. IInv => RecordsAreTrue
    BY BooksHold DEF IInv, OutInv, RecordsAreTrue, SignedOut
<1> QED BY <1>1, Invariance, PTL


\* What a step takes from a profile, or from the library of a device that
\* synchronises, was deleted.
LEMMA StepsLose ==
    ASSUME IInv, Next, ~torn
    PROVE  /\ Loses
           /\ Syncing => lib \ lib' \subseteq deleted'[op.profile]
<1>1. CASE PeerPublishes
  <2>1. Loses /\ lib' = lib
    BY <1>1, PeerMoves DEF PeerPublishes
  <2> QED BY <2>1
<1>2. CASE Publish
  <2>1. lib' = lib /\ (cloud[op.profile] # op.remote => cloud' = cloud)
    BY <1>2 DEF Publish
  <2> QED BY <1>2, <2>1, PublishMoves DEF Loses
<1>3. CASE Apply
  <2> DEFINE j == disk.journal
  <2>1. /\ cloud' = cloud /\ deleted' = deleted /\ Syncing /\ op.step \in {"apply", "resume"}
        /\ lib' = MergedItems(j.baseline, lib, j.target)
    BY <1>3 DEF Apply, At
  <2>2. /\ j # None /\ ~j.applied /\ j.profile = op.profile /\ JournalKept(j, lib)
        /\ lib \in SUBSET Item /\ j.target \in SUBSET Item
    BY <2>1, AtWork, OnDisk, Typed DEF IInv, SyncInv, Kept
  <2>3. lib \ lib' \subseteq j.baseline \ j.target
    BY <2>1, <2>2, MergedIs
  <2> QED BY <2>1, <2>2, <2>3 DEF JournalKept, Accounted, Loses
<1>4. CASE Add
  <2>1. cloud' = cloud /\ lib \subseteq lib'
    BY <1>4 DEF Add, Edit
  <2> QED BY <2>1 DEF Loses
<1>5. CASE Delete
  <2>1. PICK i \in lib :
          /\ cloud' = cloud /\ lib' = lib \ {i}
          /\ deleted' = [p \in Profile |->
                            IF p \in Linked THEN deleted[p] \cup {i} ELSE deleted[p]]
    BY <1>5 DEF Delete, Edit
  <2>2. \A p \in Linked : i \in deleted'[p]
    BY <2>1, DeletedIs DEF IInv, TypeOK
  <2>3. Syncing => op.profile \in Linked
    BY AtWork, Running DEF Linked
  <2> QED BY <2>1, <2>2, <2>3 DEF Loses
<1>6. CASE ~(PeerPublishes \/ Publish \/ Apply \/ Add \/ Delete)
  <2>1. cloud' = cloud /\ (lib' = lib \/ ~Syncing)
    BY <1>6 DEF Next, Account, Begin, Press, Work, SignInBegin, SignInEnd, SignInFails,
       RestoreBegin, RestoreEnd, ListBegin, ListEnd, Expire, CreateBegin, AttachBegin,
       SignOutBegin, ResetBegin, RestoreBackup, SyncBegin, ResumeBegin, Resolve, Refresh,
       Revoked, ReadRemote, NothingRemote, NoBase, Queue, SaveBase, SaveConfig, SignOutStep,
       ResetStep, Fail, ResetFails, Crash, data, Syncing, Unlocked
  <2> QED BY <2>1 DEF Loses
<1> QED BY <1>1, <1>2, <1>3, <1>4, <1>5, <1>6

\* No step of create_remote_sync_profile, attach_remote_sync_profile, run_sync,
\* resolve_sync_conflict, a recovery, or of another device, takes an entry from a profile,
\* or from the library of a device that synchronises, that no user of it deleted.
THEOREM OnlyDeletions == Spec => NothingVanishes
<1> DEFINE A == ~torn =>
          /\ \A p \in Attachable : cloud[p].items \ cloud'[p].items \subseteq deleted'[p]
          /\ Syncing => lib \ lib' \subseteq deleted'[op.profile]
<1>1. IInv /\ [Next]_vars => [A]_vars
    BY StepsLose DEF Loses, Attachable
<1> QED BY <1>1, Invariance, PTL DEF Spec, NothingVanishes
=============================================================================
