---------------------------- MODULE DriveManifest ----------------------------
(***************************************************************************)
(* How devices publish the manifest of one sync profile through the Google *)
(* Drive app-data folder (sync_drive.rs, and the publish and force-publish *)
(* paths of sync_orchestrator.rs).                                         *)
(*                                                                         *)
(* Drive stores files, not a register: several files may carry the same    *)
(* name, a read is a listing followed by one stable download per file, an  *)
(* update is a PUT guarded by If-Match, and a creation is a POST that no   *)
(* precondition guards.  Every request may fail, and a write may take      *)
(* effect although its response never arrives, at once or later.           *)
(*                                                                         *)
(* A manifest is abstracted to its generation, its snapshot id and, as     *)
(* history only, the snapshot its publisher had downloaded (parent).       *)
(***************************************************************************)
EXTENDS Naturals, FiniteSets

CONSTANTS
    Device,         \* installations that share the profile
    Snap,           \* snapshot ids (positive numbers; their order breaks ties)
    FileId,         \* Drive file ids (positive numbers)
    ReadAttempts,   \* MANIFEST_READ_STABILITY_ATTEMPTS
    MaxFails,       \* bound: requests that fail, over the whole run
    MaxResets       \* bound: times the user empties the app-data folder

ASSUME ConstantsAssumption ==
    /\ Snap \subseteq Nat \ {0}
    /\ FileId \subseteq Nat \ {0}
    /\ 1 \in FileId
    /\ ReadAttempts \in Nat \ {0}
    /\ MaxFails \in Nat
    /\ MaxResets \in Nat

Manifest == [gen : Nat \ {0}, snap : Snap, parent : Snap \cup {0}]
NoManifest == [gen |-> 0, snap |-> 0, parent |-> 0]
NoFile == [m |-> NoManifest, etag |-> 0]
Candidate == [file : FileId, m : Manifest, etag : Nat \ {0}]
NewFile == [file |-> 0, m |-> NoManifest, etag |-> 0]   \* target of a creation

Goals == {"none", "load", "recover", "check", "confirm", "conflict"}
Pcs == {"idle", "list", "fetch", "bytes", "etag", "put", "post"}

VARIABLES
    files,      \* the app-data files with the manifest's name, NoFile if absent
    clock,      \* server write counter: every write yields a new etag
    late,       \* writes whose sender gave up but which may still take effect
    log,        \* history: every manifest a write made current in its file
    used,       \* snapshot ids handed out
    fails,      \* failed requests so far
    resets,     \* times the folder was emptied
    pc,         \* where the device is in read_manifest / the write request
    goal,       \* which read_manifest call it is in
    todo,       \* listed files it has not downloaded yet
    cand,       \* candidates downloaded so far
    cur,        \* the file being downloaded, 0 if none
    pre,        \* the etag seen before the download
    buf,        \* the bytes downloaded
    tries,      \* unstable downloads of cur so far
    mine,       \* the manifest the device is publishing
    staged,     \* the ForcePublishingLocal journal, on disk
    outcome     \* what the last operation reported

server == <<files, clock, late, log, resets>>
reading == <<pc, goal, todo, cand, cur, pre, buf, tries>>
vars == <<files, clock, late, log, used, fails, resets, pc, goal, todo, cand,
          cur, pre, buf, tries, mine, staged, outcome>>

-----------------------------------------------------------------------------
Existing == {f \in FileId : files[f] # NoFile}

\* compare_manifest_candidates: generation, then snapshot id, then file id.
\* The code compares updated_at before the snapshot id; both are arbitrary but
\* fixed for a manifest, so one order on snapshots stands for the pair.
NotAbove(a, b) ==
    \/ a.m.gen < b.m.gen
    \/ a.m.gen = b.m.gen /\ a.m.snap < b.m.snap
    \/ a.m.gen = b.m.gen /\ a.m.snap = b.m.snap /\ a.file <= b.file

Newest(C) == CHOOSE b \in C : \A a \in C : NotAbove(a, b)
Best(d) == Newest(cand[d])

\* The manifest in force in the folder, as a reader of all of it would pick it.
Head == Newest({[file |-> f, m |-> files[f].m, etag |-> files[f].etag] :
                    f \in Existing}).m

-----------------------------------------------------------------------------
(* The tests the protocol makes, each after the forms a plausible slip in  *)
(* the code would give it (used by the mutation runs only).                *)

Stable_Unchecked(d) == TRUE

\* download_manifest_by_id keeps the bytes only between two equal etags.
Stable(d) == pre[d] = files[cur[d]].etag

\* The loop of download_manifest_by_id runs MANIFEST_READ_STABILITY_ATTEMPTS times.
MayRetry(d) == tries[d] + 1 < ReadAttempts

Extends_NotOlder(m, b) == m.gen >= b.gen

\* upsert_manifest_and_confirm: the new manifest must extend the one read
\* (next_remote_generation).
Extends(m, b) == m.gen = b.gen + 1

SameManifest_GenerationOnly(m, b) == m.gen = b.gen

\* The manifest read back is the one the device wrote.
SameManifest(m, b) == m.snap = b.snap /\ m.gen = b.gen

IfMatch_Missing(t) == files[t.file] # NoFile

\* If-Match: the server still holds the version the candidate was read at.
IfMatch(t) == files[t.file].etag = t.etag

-----------------------------------------------------------------------------
Init ==
    /\ \E s \in Snap :
        LET first == [gen |-> 1, snap |-> s, parent |-> 0] IN
        /\ files = [f \in FileId |->
                        IF f = 1 THEN [m |-> first, etag |-> 1] ELSE NoFile]
        /\ log = {first}
        /\ used = {s}
    /\ clock = 1
    /\ late = {}
    /\ fails = 0
    /\ resets = 0
    /\ pc = [d \in Device |-> "idle"]
    /\ goal = [d \in Device |-> "none"]
    /\ todo = [d \in Device |-> {}]
    /\ cand = [d \in Device |-> {}]
    /\ cur = [d \in Device |-> 0]
    /\ pre = [d \in Device |-> 0]
    /\ buf = [d \in Device |-> NoManifest]
    /\ tries = [d \in Device |-> 0]
    /\ mine = [d \in Device |-> NoManifest]
    /\ staged = [d \in Device |-> NoManifest]
    /\ outcome = [d \in Device |-> "none"]

\* Enter read_manifest for the purpose g.
Read(d, g) ==
    /\ pc' = [pc EXCEPT ![d] = "list"]
    /\ goal' = [goal EXCEPT ![d] = g]
    /\ cand' = [cand EXCEPT ![d] = {}]
    /\ UNCHANGED <<todo, cur, pre, buf, tries>>

\* Leave the operation; everything in memory is forgotten.
Leave(d) ==
    /\ pc' = [pc EXCEPT ![d] = "idle"]
    /\ goal' = [goal EXCEPT ![d] = "none"]
    /\ todo' = [todo EXCEPT ![d] = {}]
    /\ cand' = [cand EXCEPT ![d] = {}]
    /\ cur' = [cur EXCEPT ![d] = 0]
    /\ pre' = [pre EXCEPT ![d] = 0]
    /\ buf' = [buf EXCEPT ![d] = NoManifest]
    /\ tries' = [tries EXCEPT ![d] = 0]

Report_KeepJournal(d, result) ==
    /\ Leave(d)
    /\ outcome' = [outcome EXCEPT ![d] = result]
    /\ UNCHANGED <<server, used, fails, mine, staged>>

\* The operation ends with a result, after which no force journal is left.
Report(d, result) ==
    /\ Leave(d)
    /\ outcome' = [outcome EXCEPT ![d] = result]
    /\ staged' = [staged EXCEPT ![d] = NoManifest]
    /\ UNCHANGED <<server, used, fails, mine>>

\* The operation returns Err, or the process dies: the journal stays.
Abort(d) ==
    /\ Leave(d)
    /\ outcome' = [outcome EXCEPT ![d] = "error"]
    /\ UNCHANGED <<used, mine, staged>>

\* A new operation first finishes a journaled force publish.
Start(d) ==
    /\ pc[d] = "idle"
    /\ outcome' = [outcome EXCEPT ![d] = "none"]
    /\ \/ /\ staged[d] = NoManifest
          /\ used # Snap
          /\ Read(d, "load")
          /\ mine' = [mine EXCEPT ![d] = NoManifest]
       \/ /\ staged[d] # NoManifest
          /\ Read(d, "recover")
          /\ mine' = [mine EXCEPT ![d] = staged[d]]
    /\ UNCHANGED <<server, used, fails, staged>>

-----------------------------------------------------------------------------
(* read_manifest: list the files, then download each between two etags.    *)

List(d) ==
    /\ pc[d] = "list"
    /\ pc' = [pc EXCEPT ![d] = "fetch"]
    /\ todo' = [todo EXCEPT ![d] = Existing]
    /\ UNCHANGED <<server, used, fails, goal, cand, cur, pre, buf, tries, mine,
                   staged, outcome>>

FetchEtag(d) ==
    /\ pc[d] = "fetch"
    /\ \E f \in todo[d] :
        /\ cur[d] \in {0, f}
        /\ files[f] # NoFile
        /\ cur' = [cur EXCEPT ![d] = f]
        /\ pre' = [pre EXCEPT ![d] = files[f].etag]
    /\ pc' = [pc EXCEPT ![d] = "bytes"]
    /\ UNCHANGED <<server, used, fails, goal, todo, cand, buf, tries, mine,
                   staged, outcome>>

FetchBytes(d) ==
    /\ pc[d] = "bytes"
    /\ files[cur[d]] # NoFile
    /\ buf' = [buf EXCEPT ![d] = files[cur[d]].m]
    /\ pc' = [pc EXCEPT ![d] = "etag"]
    /\ UNCHANGED <<server, used, fails, goal, todo, cand, cur, pre, tries, mine,
                   staged, outcome>>

\* Two equal etags frame the bytes: they are what the file held.
CheckStable(d) ==
    /\ pc[d] = "etag"
    /\ files[cur[d]] # NoFile
    /\ Stable(d)
    /\ pc' = [pc EXCEPT ![d] = "fetch"]
    /\ cand' = [cand EXCEPT ![d] = @ \cup
            {[file |-> cur[d], m |-> buf[d], etag |-> files[cur[d]].etag]}]
    /\ todo' = [todo EXCEPT ![d] = @ \ {cur[d]}]
    /\ cur' = [cur EXCEPT ![d] = 0]
    /\ pre' = [pre EXCEPT ![d] = 0]
    /\ buf' = [buf EXCEPT ![d] = NoManifest]
    /\ tries' = [tries EXCEPT ![d] = 0]
    /\ UNCHANGED <<server, used, fails, goal, mine, staged, outcome>>

\* The file changed under the download: try again, a few times.
CheckUnstable(d) ==
    /\ pc[d] = "etag"
    /\ files[cur[d]] # NoFile
    /\ ~Stable(d)
    /\ \/ /\ MayRetry(d)
          /\ pc' = [pc EXCEPT ![d] = "fetch"]
          /\ tries' = [tries EXCEPT ![d] = @ + 1]
          /\ UNCHANGED <<used, goal, todo, cand, cur, pre, buf, mine, staged,
                         outcome>>
       \/ /\ ~MayRetry(d)
          /\ Abort(d)
    /\ UNCHANGED <<server, fails>>

HasRead(d, g) == pc[d] = "fetch" /\ todo[d] = {} /\ goal[d] = g

-----------------------------------------------------------------------------
(* The operations, one action for each use they make of what was read.     *)

\* The manifest the device will publish over generation g of snapshot s.
Stage(d, g, s) ==
    \E new \in Snap \ used :
        /\ mine' = [mine EXCEPT ![d] =
                        [gen |-> g + 1, snap |-> new, parent |-> s]]
        /\ used' = used \cup {new}

\* run_sync_inner finds the base in force and no local edit: nothing to publish.
UpToDate(d) ==
    /\ HasRead(d, "load")
    /\ cand[d] # {}
    /\ Report(d, "clean")

\* run_sync_inner merged the snapshot in force and publishes the result.
SyncLoaded(d) ==
    /\ HasRead(d, "load")
    /\ cand[d] # {}
    /\ Stage(d, Best(d).m.gen, Best(d).m.snap)
    /\ Read(d, "check")
    /\ UNCHANGED <<server, fails, staged, outcome>>

\* force_publish_local_as_remote_inner journals its target before it writes;
\* a missing manifest counts as generation 0.
ForceLoaded(d) ==
    /\ HasRead(d, "load")
    /\ IF cand[d] = {} THEN Stage(d, 0, 0)
                       ELSE Stage(d, Best(d).m.gen, Best(d).m.snap)
    /\ staged' = [staged EXCEPT ![d] = mine'[d]]
    /\ Read(d, "recover")
    /\ UNCHANGED <<server, fails, outcome>>

\* recover_pending_snapshot_apply, phase ForcePublishingLocal.
Recovered(d) ==
    /\ HasRead(d, "recover")
    /\ \/ /\ cand[d] # {} /\ SameManifest(mine[d], Best(d).m)
          /\ Report(d, "won")
       \/ /\ cand[d] # {} /\ ~SameManifest(mine[d], Best(d).m)
          /\ Best(d).m.gen >= mine[d].gen
          /\ Report(d, "lost")
       \/ /\ cand[d] # {} => Best(d).m.gen < mine[d].gen
          /\ Read(d, "check")
          /\ UNCHANGED <<server, used, fails, mine, staged, outcome>>

\* The manifest in force is not the one the new manifest follows: race lost.
OutOfTurn(d) == Report(d, "lost")

\* upsert_manifest_and_confirm, before the write.
Checked(d) ==
    /\ HasRead(d, "check")
    /\ \/ /\ cand[d] # {} /\ ~Extends(mine[d], Best(d).m)
          /\ OutOfTurn(d)
       \/ /\ cand[d] # {} /\ Extends(mine[d], Best(d).m)
          /\ pc' = [pc EXCEPT ![d] = "put"]
          /\ UNCHANGED <<server, used, fails, goal, todo, cand, cur, pre, buf,
                         tries, mine, staged, outcome>>
       \/ /\ cand[d] = {} /\ mine[d].gen = 1
          /\ pc' = [pc EXCEPT ![d] = "post"]
          /\ UNCHANGED <<server, used, fails, goal, todo, cand, cur, pre, buf,
                         tries, mine, staged, outcome>>
       \/ /\ cand[d] = {} /\ mine[d].gen # 1
          /\ Abort(d)
          /\ UNCHANGED <<server, fails>>

\* upsert_manifest_and_confirm, the read after an accepted write.
Confirmed(d) ==
    /\ HasRead(d, "confirm")
    /\ cand[d] # {}
    /\ Report(d, IF SameManifest(mine[d], Best(d).m) THEN "won" ELSE "lost")

\* upsert_manifest_and_confirm, the read after 412 Precondition Failed.
Conflicted(d) ==
    /\ HasRead(d, "conflict")
    /\ cand[d] # {}
    /\ Report(d, "lost")

\* A file or the whole manifest the operation needs is gone: Err.
Vanished(d) ==
    /\ \/ pc[d] \in {"bytes", "etag"} /\ files[cur[d]] = NoFile
       \/ pc[d] = "fetch" /\ \E f \in todo[d] : files[f] = NoFile
       \/ pc[d] = "put" /\ files[Best(d).file] = NoFile
       \/ /\ cand[d] = {}
          /\ \E g \in {"load", "confirm", "conflict"} : HasRead(d, g)
    /\ Abort(d)
    /\ UNCHANGED <<server, fails>>

-----------------------------------------------------------------------------
(* Writes.                                                                 *)

\* The server stores m in file f under a fresh etag.
Store(f, m) ==
    /\ clock' = clock + 1
    /\ files' = [files EXCEPT ![f] = [m |-> m, etag |-> clock + 1]]
    /\ log' = log \cup {m}
    /\ UNCHANGED resets

\* conditionally_update_manifest, accepted.
PutAccepted(d) ==
    /\ pc[d] = "put"
    /\ IfMatch(Best(d))
    /\ Store(Best(d).file, mine[d])
    /\ Read(d, "confirm")
    /\ UNCHANGED <<late, used, fails, mine, staged, outcome>>

\* conditionally_update_manifest, 412 Precondition Failed.
PutRefused(d) ==
    /\ pc[d] = "put"
    /\ files[Best(d).file] # NoFile
    /\ ~IfMatch(Best(d))
    /\ Read(d, "conflict")
    /\ UNCHANGED <<server, used, fails, mine, staged, outcome>>

\* upload_app_data_file without an existing id: a new file, unconditionally.
PostAccepted(d) ==
    /\ pc[d] = "post"
    /\ \E f \in FileId \ Existing : Store(f, mine[d])
    /\ Read(d, "confirm")
    /\ UNCHANGED <<late, used, fails, mine, staged, outcome>>

\* The writer gets no answer and gives up; the request is still on its way.
WriteAbandoned(d) ==
    /\ pc[d] \in {"put", "post"}
    /\ fails < MaxFails
    /\ fails' = fails + 1
    /\ late' = late \cup
        {[m |-> mine[d],
          at |-> IF pc[d] = "put" THEN Best(d) ELSE NewFile]}
    /\ Abort(d)
    /\ UNCHANGED <<files, clock, log, resets>>

\* Any other request fails, or the process dies anywhere in the operation.
Fail(d) ==
    /\ pc[d] # "idle"
    /\ fails < MaxFails
    /\ fails' = fails + 1
    /\ Abort(d)
    /\ UNCHANGED server

-----------------------------------------------------------------------------
(* The server's own steps.                                                 *)

\* A write whose sender has given up reaches the server after all.
LateWrite(r) ==
    /\ r \in late
    /\ late' = late \ {r}
    /\ \/ r.at = NewFile /\ \E f \in FileId \ Existing : Store(f, r.m)
       \/ r.at # NewFile /\ IfMatch(r.at) /\ Store(r.at.file, r.m)
       \/ r.at # NewFile /\ ~IfMatch(r.at) /\ UNCHANGED <<files, clock, log, resets>>
    /\ UNCHANGED <<used, fails, reading, mine, staged, outcome>>

\* The user deletes the app's hidden data in Google Drive.
Reset ==
    /\ resets < MaxResets
    /\ resets' = resets + 1
    /\ files' = [f \in FileId |-> NoFile]
    /\ UNCHANGED <<clock, late, log, used, fails, reading, mine, staged, outcome>>

\* The steps of an operation under way.
Step(d) ==
    \/ List(d) \/ FetchEtag(d) \/ FetchBytes(d) \/ CheckStable(d)
    \/ CheckUnstable(d) \/ UpToDate(d) \/ SyncLoaded(d) \/ ForceLoaded(d) \/ Recovered(d)
    \/ Checked(d) \/ Confirmed(d) \/ Conflicted(d) \/ Vanished(d)
    \/ PutAccepted(d) \/ PutRefused(d) \/ PostAccepted(d)

Next ==
    \/ \E d \in Device :
        \/ Start(d)
        \/ Step(d)
        \/ WriteAbandoned(d)
        \/ Fail(d)
    \/ \E r \in late : LateWrite(r)
    \/ Reset

Spec == Init /\ [][Next]_vars

\* A running operation makes progress (the async runtime polls it), and a
\* device with a journal is asked to sync again.  Failures are never forced.
Fairness ==
    \A d \in Device :
        /\ WF_vars(Step(d))
        /\ WF_vars(staged[d] # NoManifest /\ Start(d))

FairSpec == Spec /\ Fairness

-----------------------------------------------------------------------------
(* Properties.                                                             *)

Late == [m : Manifest, at : Candidate \cup {NewFile}]

\* Every variable has its type; the model's only statement about types.
TypeOK ==
    /\ files \in [FileId -> [m : Manifest, etag : Nat \ {0}] \cup {NoFile}]
    /\ clock \in Nat
    /\ late \subseteq Late
    /\ log \subseteq Manifest
    /\ used \subseteq Snap
    /\ fails \in 0..MaxFails
    /\ resets \in 0..MaxResets
    /\ pc \in [Device -> Pcs]
    /\ goal \in [Device -> Goals]
    /\ todo \in [Device -> SUBSET FileId]
    /\ cand \in [Device -> SUBSET Candidate]
    /\ cur \in [Device -> FileId \cup {0}]
    /\ pre \in [Device -> Nat]
    /\ buf \in [Device -> Manifest \cup {NoManifest}]
    /\ tries \in [Device -> 0 .. ReadAttempts - 1]
    /\ mine \in [Device -> Manifest \cup {NoManifest}]
    /\ staged \in [Device -> Manifest \cup {NoManifest}]
    /\ outcome \in [Device -> {"none", "clean", "won", "lost", "error"}]

\* No lost update.  As long as the folder is not emptied, the manifests ever
\* committed form one chain: no generation is committed twice, and each one was
\* derived from the snapshot of the generation before it, so no publisher
\* overwrites a snapshot it has not downloaded.  (The generation test, the
\* If-Match update and the stable read of sync_drive.rs, together.)
Chain ==
    /\ \A m, n \in log : m.gen = n.gen => m = n
    /\ \A m \in log : m.gen > 1 =>
            \E p \in log : p.gen = m.gen - 1 /\ p.snap = m.parent

\* A publish is reported as won only if its manifest was committed: the base
\* snapshot that finalize_published_snapshot stores is one the cloud has held.
WonIsCommitted ==
    \A d \in Device : outcome[d] = "won" => mine[d] \in log

\* A publish is reported as lost only if its generation is taken; a device is
\* never told to sync again because of a manifest older than its own.
LostIsSuperseded ==
    \A d \in Device : outcome[d] = "lost" => \E n \in log : n.gen = mine[d].gen

\* Both reports are true: finalize_published_snapshot makes the base of a won
\* publication, and the user is asked to sync again after a lost one.
OutcomesAreTrue == WonIsCommitted /\ LostIsSuperseded

\* A manifest is written at most once: a force publish replayed from its journal
\* never commits a second time what an earlier try committed.
WrittenOnce ==
    [][\A f \in FileId :
        files'[f].etag > files[f].etag => files'[f].m \notin log]_vars

\* The folder behaves as the register of RemoteRegister.
Register == INSTANCE RemoteRegister WITH head <- Head
ImplementsRegister == Register!Spec

\* Every operation ends, however often the manifest changes under its reads.
OperationsEnd == \A d \in Device : pc[d] # "idle" ~> pc[d] = "idle"

\* A journaled force publish is eventually decided, won or lost.
ForceDecided ==
    \A d \in Device : staged[d] # NoManifest ~> staged[d] = NoManifest

\* The protocol comes to an end for every device, and so does its journal.
EveryAttemptEnds == OperationsEnd /\ ForceDecided

\* Whatever happens to the folder, a file's generations rise by one: no write
\* replaces a version its sender had not read, not even after a reset.
FilesRiseByOne ==
    [][\A f \in FileId :
        files[f] # NoFile /\ files'[f] # NoFile /\ files'[f] # files[f]
            => files'[f].m.gen = files[f].m.gen + 1]_vars
=============================================================================
