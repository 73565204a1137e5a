----------------------------- MODULE SyncJournal -----------------------------
(***************************************************************************)
(* One installation syncing its library with the cloud, and what survives  *)
(* when it stops half way (sync_orchestrator.rs over sync_state.rs and     *)
(* sync_snapshot.rs).                                                      *)
(*                                                                         *)
(* The library is the SQLite database behind one mutex; the user (or a     *)
(* client of the HTTP API) edits it whenever the mutex is free.  A sync    *)
(* command keeps its state in files beside the database: the base          *)
(* snapshot, the configuration with its status, the journal of what is     *)
(* pending and the receipt of the last conflict choice.  Each is replaced  *)
(* atomically, one at a time, and the process may die between any two      *)
(* writes.  The cloud is the register that DriveManifest implements; other *)
(* devices publish to it at any time.                                      *)
(*                                                                         *)
(* A library is abstracted to the values of some items (fields of media);  *)
(* media that two devices created twice under one title, which pause a     *)
(* sync before the database changes, to one conflict on the item Twin.     *)
(***************************************************************************)
EXTENDS Naturals, FiniteSets, ThreeWay

CONSTANTS
    Item,           \* slots of the library that merge on their own
    Val,            \* their values
    Twin,           \* the item a duplicate-identity conflict is about
    None,           \* no journal, no snapshot, no token
    Commands,       \* the sync commands the user gives
    Duplicates,     \* whether merges may meet a duplicate identity
    MaxEdits,       \* bound: local edits
    MaxGen,         \* bound: generations others publish, or the user forces
    MaxOps,         \* bound: operations after which no replacement starts
    MaxFails        \* bound: errors and crashes

Content == [Item -> Val]

\* A published snapshot; generation and publisher identify it.
Snapshot == [gen : Nat, by : {"me", "other"}, c : Content]

\* A conflict, with the cloud's value; item and batch make its token.
Conflict == [item : Item \cup {Twin}, theirs : Val \cup {None}, batch : Nat]
TokenOf(k) == <<k.item, k.batch>>
Token == (Item \cup {Twin}) \X Nat

\* What the user picks for a conflict.
Side == {"local", "theirs"}
Choice == [token : Token, side : Side]

\* PendingSyncState.  op is the operation id, choice the one being applied.
Pending == [phase : {"await", "apply", "replace", "force"},
            baseline : Content, merged : Content, remote : Snapshot,
            conflicts : SUBSET Conflict, op : Nat, applied : BOOLEAN,
            choice : Choice \cup {None}]

ASSUME ConstantsAssumption ==
    /\ Commands \subseteq {"sync", "resolve", "replace", "force"}
    /\ Duplicates \in BOOLEAN
    /\ {MaxEdits, MaxGen, MaxOps, MaxFails} \subseteq Nat
    /\ Twin \notin Item
    /\ None \notin Pending \cup Content \cup Snapshot \cup Choice \cup Val

VARIABLES
    live,       \* the database
    marker,     \* the commit marker in the database: an operation id, or 0
    base,       \* the base snapshot file
    status,     \* last_sync_status in the configuration file
    journal,    \* the pending-sync journal file, or None
    receipt,    \* the completed-resolution file: a choice, or None
    cloud,      \* the snapshot the manifest names
    pc,         \* where the running command is
    call,       \* which command it is
    p,          \* its copy of the journal
    seen,       \* the cloud snapshot it works from
    out,        \* the content it is about to publish
    asked,      \* the user's last choice, or None
    answer,     \* what the user was told about it
    screen,     \* the queue it was made from: its place in it comes with the choice
    minted,     \* operation ids handed out (a batch of tokens each)
    own,        \* history: what the user wrote that the cloud never had
    edited,     \* history: items the user ever wrote
    chosen,     \* history: choices journaled since the last queue
    edits, fails

disk == <<marker, base, status, journal, receipt>>
memory == <<pc, call, p, seen, out>>
client == <<asked, answer, screen>>
history == <<own, edited, chosen>>
bounds == <<minted, edits, fails>>
vars == <<live, disk, cloud, memory, client, history, bounds>>

\* The database mutex stays held before these steps: no edit gets in.
Locked == {"commit", "applied", "unmark", "pauseReceipt", "pauseJournal",
           "pauseStatus", "replaceStatus", "finalizeStatus"}

\* The commands whose error handler notes the failure in the status; recovering
\* and resolving ones do not.
Inner == {"sync", "review", "replace", "force"}

-----------------------------------------------------------------------------
(* Tests and conversions, after the forms a slip in the code would give    *)
(* them (used by the mutation runs only).                                  *)

Proven_Never(q) == FALSE

\* The marker proves that the database transaction of the operation committed.
Proven(q) == marker = q.op

\* What a merge with the journaled target makes of the database as it is now.
Folded(q) == [i \in Item |-> Merged(q.baseline[i], live[i], q.merged[i])]

\* The conflicts of a rebase: new clashes join those there are.
Rejoined(q) ==
    LET clashing == {i \in Item : Clash(q.baseline[i], live[i], q.merged[i])}
    IN  q.conflicts \cup
            {[item |-> i, theirs |-> q.merged[i], batch |-> q.op] :
                i \in {j \in clashing : \A k \in q.conflicts : k.item # j}}

\* The rebase of recover_pending_snapshot_apply and of a resolution: the edits
\* since the journal was written are folded into its target, and the conflicts
\* that they settled leave (refresh_rebased_conflicts).
Rebased(q) ==
    [q EXCEPT !.baseline = live, !.merged = Folded(q),
              !.conflicts = {k \in Rejoined(q) :
                    k.item = Twin \/ Folded(q)[k.item] # k.theirs}]

Paused(q) == \E k \in q.conflicts : k.item = Twin

\* AwaitingResolution has nothing of an operation left.
Waiting(q) == [q EXCEPT !.phase = "await", !.applied = FALSE, !.choice = None]

Settled_KeepEmpty(q) == [Waiting(q) EXCEPT !.baseline = q.merged]

\* What is left of a journal whose target is applied.
Settled(q) == IF q.conflicts = {} THEN None
              ELSE [Waiting(q) EXCEPT !.baseline = q.merged]

FinalStatus_Trusting(c) == "clean"

\* Clean only if the database still holds what was published or downloaded.
FinalStatus(c) == IF live = c THEN "clean" ELSE "dirty"

\* mark_sync_dirty_if_configured.
MarkedDirty == IF status = "conflict" THEN status ELSE "dirty"

NewPending(phase, target, remote, conflicts) ==
    [phase |-> phase, baseline |-> live, merged |-> target, remote |-> remote,
     conflicts |-> conflicts, op |-> minted + 1, applied |-> FALSE,
     choice |-> None]

NewReceipt_OnlyLast(q) ==
    IF q.choice = None \/ q.conflicts # {} THEN receipt ELSE q.choice

\* The receipt of the choice that the journal applies, if it applies one.
NewReceipt(q) == IF q.choice = None THEN receipt ELSE q.choice

\* History: a written value is accounted for once the cloud has it, or a merge
\* finds it in the base (which the cloud had).
Track(o) ==
    own' = [i \in Item |->
                IF o[i] \in {base'.c[i], cloud'.c[i]} THEN None ELSE o[i]]

-----------------------------------------------------------------------------
Init ==
    /\ \E v \in Val :
        base = [gen |-> 1, by |-> "other", c |-> [i \in Item |-> v]]
    /\ cloud = base
    /\ live = base.c
    /\ marker = 0 /\ status = "clean" /\ journal = None /\ receipt = None
    /\ pc = "idle" /\ call = "none" /\ p = None /\ seen = None /\ out = None
    /\ asked = None /\ answer = "none" /\ screen = {}
    /\ own = [i \in Item |-> None]
    /\ edited = {} /\ chosen = {}
    /\ minted = 0 /\ edits = 0 /\ fails = 0

\* The command ends, or goes on to its next step.
Return == /\ pc' = "idle" /\ call' = "none"
          /\ p' = None /\ seen' = None /\ out' = None

Go(from, to) == /\ pc = from /\ pc' = to
                /\ UNCHANGED <<call, p, seen, out>>

-----------------------------------------------------------------------------
(* The environment.                                                        *)

\* What the next merge should take for the database before the user's edits.
Expected == IF journal = None \/ journal.phase \in {"replace", "force"} THEN base.c
            ELSE IF journal.applied \/ marker = journal.op THEN journal.merged
            ELSE journal.baseline

\* run_dirty_command, with_dirty_conn: mark Dirty and write, under the mutex.
Edit(i, v) ==
    /\ pc \notin Locked
    /\ edits < MaxEdits
    /\ v # live[i]
    /\ live' = [live EXCEPT ![i] = v]
    /\ status' = MarkedDirty
    /\ own' = [own EXCEPT ![i] =
                   IF v \in {Expected[i], cloud.c[i]} THEN None ELSE v]
    /\ edited' = edited \cup {i}
    /\ edits' = edits + 1
    /\ UNCHANGED <<marker, base, journal, receipt, cloud, memory, client,
                   chosen, minted, fails>>

\* Another device publishes: it builds on the snapshot in force.
OtherPublishes(i, v) ==
    /\ cloud.gen < MaxGen
    /\ v # cloud.c[i]
    /\ cloud' = [gen |-> cloud.gen + 1, by |-> "other",
                 c |-> [cloud.c EXCEPT ![i] = v]]
    /\ UNCHANGED <<live, disk, memory, client, edited, chosen, bounds>>
    /\ Track(own)

\* The process dies, or the command's timeout drops it: its memory is gone.
Crash ==
    /\ pc # "idle"
    /\ fails < MaxFails /\ fails' = fails + 1
    /\ Return
    /\ UNCHANGED <<live, disk, cloud, client, history, minted, edits>>

\* A step returns Err.
Fail ==
    /\ pc # "idle" /\ call \in Inner
    /\ fails < MaxFails /\ fails' = fails + 1
    /\ Return
    /\ status' = "error"
    /\ UNCHANGED <<live, marker, base, journal, receipt, cloud, client,
                   history, minted, edits>>

-----------------------------------------------------------------------------
(* Commands.                                                               *)

\* recover_pending_snapshot_apply enters the phase of the journal.
Recover(asCall) ==
    /\ pc' = journal.phase /\ call' = asCall /\ p' = journal
    /\ UNCHANGED <<seen, out>>

Enter(to, asCall) ==
    /\ pc' = to /\ call' = asCall
    /\ UNCHANGED <<p, seen, out>>

\* run_sync_with_client: recover first, stop at pending conflicts.
RunSync ==
    /\ pc = "idle" /\ "sync" \in Commands
    /\ \/ /\ journal = None
          /\ status' = "syncing"
          /\ Enter("load", "sync")
       \/ /\ journal # None /\ journal.phase = "await"
          /\ status' = "conflict"
          /\ UNCHANGED memory
       \/ /\ journal # None /\ journal.phase # "await"
          /\ Recover("start")
          /\ UNCHANGED status
    /\ UNCHANGED <<live, marker, base, journal, receipt, cloud, client,
                   history, bounds>>

\* The user answers a conflict on display, or answers again one that got no
\* response; resolve_sync_conflict_with_client recovers before it looks.
Resolve(choice) ==
    /\ pc = "idle" /\ "resolve" \in Commands
    /\ asked' = choice /\ answer' = "none"
    /\ IF journal # None /\ journal.phase # "await"
       THEN Recover("resume")
       ELSE Enter("choose", "resolve")
    /\ UNCHANGED <<live, disk, cloud, history, bounds>>

\* replace_local_from_remote_with_client: the download, after a backup of the
\* database; an interrupted replacement goes on.
ReplaceLocal ==
    /\ pc = "idle" /\ "replace" \in Commands
    /\ minted < MaxOps
    /\ IF journal # None /\ journal.phase = "replace"
       THEN Recover("again") /\ UNCHANGED status
       ELSE /\ Enter("replaceLoad", "replace")
            /\ status' = "syncing"
    /\ UNCHANGED <<live, marker, base, journal, receipt, cloud, client, own,
                   edited, chosen, bounds>>

\* force_publish_local_as_remote_with_client.
ForcePublish ==
    /\ pc = "idle" /\ "force" \in Commands
    /\ cloud.gen < MaxGen
    /\ IF journal # None /\ journal.phase = "force"
       THEN Recover("again") /\ UNCHANGED status
       ELSE /\ Enter("forceLoad", "force")
            /\ status' = "syncing"
    /\ UNCHANGED <<live, marker, base, journal, receipt, cloud, client, own,
                   edited, chosen, bounds>>

-----------------------------------------------------------------------------
(* run_sync_inner.                                                         *)

LoadRemote ==
    /\ pc = "load"
    /\ pc' = "capture" /\ seen' = cloud
    /\ UNCHANGED <<call, p, out, live, disk, cloud, client, history, bounds>>

RemoteIsBase == seen.gen = base.gen /\ seen.by = base.by

\* The manifest still names the base: nothing to do, or only to publish.
CaptureLocal ==
    /\ pc = "capture" /\ RemoteIsBase
    /\ pc' = IF live = base.c THEN "clean" ELSE "publish"
    /\ out' = live
    /\ UNCHANGED <<call, p, seen, live, disk, cloud, client, history, bounds>>

\* finalize_clean_if_local_still_matches_base: looks again, under the mutex.
StayClean ==
    /\ pc = "clean"
    /\ \/ /\ live = base.c
          /\ journal' = None /\ status' = "clean"
          /\ Return
       \/ /\ live # base.c
          /\ pc' = "publish" /\ out' = live
          /\ UNCHANGED <<call, p, seen, journal, status>>
    /\ UNCHANGED <<live, marker, base, receipt, cloud, client, history, bounds>>

\* The merge of the database with the downloaded snapshot.  If it met conflicts
\* the command will leave them for review, whatever becomes of them.
CaptureMerge ==
    /\ pc = "capture" /\ ~RemoteIsBase
    /\ LET clashes == {i \in Item : Clash(base.c[i], live[i], seen.c[i])}
           conflicts == {[item |-> i, theirs |-> seen.c[i], batch |-> minted + 1] :
                            i \in clashes}
           twin == [item |-> Twin, theirs |-> None, batch |-> minted + 1]
           target == [i \in Item |-> Merged(base.c[i], live[i], seen.c[i])]
       IN  \/ p' = NewPending("apply", target, seen, conflicts)
           \/ /\ Duplicates
              /\ p' = NewPending("await", target, seen, conflicts \cup {twin})
    /\ minted' = minted + 1
    /\ pc' = "queue" /\ call' = IF p'.conflicts = {} THEN "sync" ELSE "review"
    /\ UNCHANGED <<seen, out, live, disk, cloud, client, edited, chosen, edits, fails>>
    /\ Track(own)

-----------------------------------------------------------------------------
(* queue_pending_sync_with_client; replace and force queue the same way.   *)

QueueReceipt ==
    /\ Go("queue", "queueJournal")
    /\ receipt' = None
    /\ chosen' = {}
    /\ UNCHANGED <<live, marker, base, status, journal, cloud, client, own,
                   edited, bounds>>

QueueJournal ==
    /\ Go("queueJournal", IF p.phase = "await" THEN "queueBase" ELSE p.phase)
    /\ journal' = p
    /\ UNCHANGED <<live, marker, base, status, receipt, cloud, client, history,
                   bounds>>

\* A queue that has to wait: its caches are written, the database is not.
QueueBase ==
    /\ Go("queueBase", "queueStatus")
    /\ base' = p.remote
    /\ UNCHANGED <<live, marker, status, journal, receipt, cloud, client,
                   edited, chosen, bounds>>
    /\ Track(own)

QueueStatus ==
    /\ pc = "queueStatus"
    /\ status' = "conflict"
    /\ Return
    /\ UNCHANGED <<live, marker, base, journal, receipt, cloud, client, history,
                   bounds>>

-----------------------------------------------------------------------------
(* recover_pending_snapshot_apply, phase ApplyingSnapshot.  From the look  *)
(* at the marker to its removal the mutex is held.                         *)

\* The database transaction committed before: it is not run again.
ApplyProven ==
    /\ pc = "apply" /\ ~p.applied /\ Proven(p)
    /\ pc' = "applied"
    /\ p' = [p EXCEPT !.baseline = p.merged]
    /\ UNCHANGED <<call, seen, out, live, disk, cloud, client, history, bounds>>

\* The journal said so already.
ApplyKnown ==
    /\ p # None /\ p.applied
    /\ \E phase \in {"apply", "replace"} : Go(phase, "applied")
    /\ UNCHANGED <<live, disk, cloud, client, history, bounds>>

\* Rebase the target, and journal it before the database changes.
ApplyRebase ==
    /\ pc = "apply" /\ ~p.applied /\ ~Proven(p)
    /\ p' = Rebased(p)
    /\ IF Paused(p')
       THEN pc' = "pauseReceipt" /\ UNCHANGED journal
       ELSE pc' = "commit" /\ journal' = p'
    /\ UNCHANGED <<call, seen, out, live, marker, base, status, receipt, cloud,
                   client, history, bounds>>

\* apply_snapshot_with_commit_marker: one SQLite transaction.
ApplyCommit ==
    /\ pc = "commit"
    /\ pc' = "applied"
    /\ live' = p.merged /\ marker' = p.op
    /\ p' = [p EXCEPT !.baseline = p.merged]
    /\ UNCHANGED <<call, seen, out, base, status, journal, receipt, cloud,
                   client, history, bounds>>

JournalApplied ==
    /\ pc = "applied"
    /\ pc' = "unmark"
    /\ p' = [p EXCEPT !.applied = TRUE]
    /\ journal' = p'
    /\ UNCHANGED <<call, seen, out, live, marker, base, status, receipt, cloud,
                   client, history, bounds>>

Unmark ==
    /\ Go("unmark", "covers")
    /\ marker' = 0
    /\ UNCHANGED <<live, base, status, journal, receipt, cloud, client, history,
                   bounds>>

\* materialize_snapshot_cover_blobs_with_client: the covers are downloaded.
Covers ==
    /\ Go("covers", IF p.phase = "apply" THEN "applyBase" ELSE "replaceBase")
    /\ UNCHANGED <<live, disk, cloud, client, history, bounds>>

ApplyBase ==
    /\ Go("applyBase", "applyStatus")
    /\ base' = p.remote
    /\ UNCHANGED <<live, marker, status, journal, receipt, cloud, client,
                   edited, chosen, bounds>>
    /\ Track(own)

ApplyStatus ==
    /\ Go("applyStatus", "applyReceipt")
    /\ status' = IF p.conflicts = {} THEN "dirty" ELSE "conflict"
    /\ UNCHANGED <<live, marker, base, journal, receipt, cloud, client, history,
                   bounds>>

ApplyReceipt ==
    /\ Go("applyReceipt", "applyClear")
    /\ receipt' = NewReceipt(p)
    /\ UNCHANGED <<live, marker, base, status, journal, cloud, client, history,
                   bounds>>

\* The journal goes last, or stays for the conflicts that are left.
ApplyClear ==
    /\ Go("applyClear", "recovered")
    /\ journal' = Settled(p)
    /\ UNCHANGED <<live, marker, base, status, receipt, cloud, client, history,
                   bounds>>

\* A duplicate identity keeps the target out of the database: receipt, journal,
\* status.
PauseReceipt ==
    /\ Go("pauseReceipt", "pauseJournal")
    /\ receipt' = NewReceipt(p)
    /\ UNCHANGED <<live, marker, base, status, journal, cloud, client, history,
                   bounds>>

PauseJournal ==
    /\ Go("pauseJournal", "pauseStatus")
    /\ journal' = Waiting(p)
    /\ UNCHANGED <<live, marker, base, status, receipt, cloud, client, history,
                   bounds>>

PauseStatus ==
    /\ Go("pauseStatus", "recovered")
    /\ status' = "conflict"
    /\ UNCHANGED <<live, marker, base, journal, receipt, cloud, client, history,
                   bounds>>

-----------------------------------------------------------------------------
(* What a command does after the journal has been dealt with.              *)

ContinueSync ==
    /\ pc = "recovered" /\ call \in {"sync", "review"}
    /\ IF call = "sync" /\ p.conflicts = {}
       THEN pc' = "publish" /\ out' = p.merged /\ UNCHANGED <<call, p, seen>>
       ELSE Return
    /\ UNCHANGED <<live, disk, cloud, client, history, bounds>>

StartSync ==
    /\ pc = "recovered" /\ call = "start"
    /\ IF journal = None
       THEN /\ status' = "syncing"
            /\ pc' = "load" /\ call' = "sync" /\ p' = None
            /\ UNCHANGED <<seen, out>>
       ELSE status' = "conflict" /\ Return
    /\ UNCHANGED <<live, marker, base, journal, receipt, cloud, client, history,
                   bounds>>

ResumeResolve ==
    /\ pc = "recovered" /\ call = "resume"
    /\ pc' = "choose" /\ call' = "resolve" /\ p' = None
    /\ UNCHANGED <<seen, out, live, disk, cloud, client, history, bounds>>

\* The choice is applied: the user is told, if the process still runs.
Finished ==
    /\ pc = "recovered" /\ call \in {"resolve", "replace", "again"}
    /\ Return
    /\ answer' = IF call = "resolve" THEN "ok" ELSE answer
    /\ UNCHANGED <<live, disk, cloud, asked, screen, history, bounds>>

-----------------------------------------------------------------------------
(* resolve_sync_conflict_with_client, resolve_journaled_sync_conflict.     *)

Offered == IF journal = None THEN {} ELSE {TokenOf(k) : k \in journal.conflicts}

\* The receipt says that this choice was made before: its response got lost.
ChoiceKnown ==
    /\ pc = "choose" /\ receipt = asked
    /\ Return /\ answer' = "ok"
    /\ UNCHANGED <<live, disk, cloud, asked, screen, history, bounds>>

\* What is offered is not what the user answered; or it is, at another place of
\* a queue that has changed since.
ChoiceStale ==
    /\ pc = "choose" /\ receipt # asked
    /\ asked.token \notin Offered \/ Offered # screen
    /\ Return /\ answer' = "refused"
    /\ UNCHANGED <<live, disk, cloud, asked, screen, history, bounds>>

Chosen_KeepConflict(q, side) ==
    [q EXCEPT !.merged = [i \in Item |->
        IF side = "theirs" /\ \E k \in q.conflicts :
                TokenOf(k) = asked.token /\ k.item = i
        THEN (CHOOSE k \in q.conflicts : TokenOf(k) = asked.token).theirs
        ELSE q.merged[i]]]

\* apply_conflict_resolution_to_snapshot on the rebased target; "local" keeps
\* what is there, and a conflict that the rebase settled needs no choice.
Chosen(q, side) ==
    LET answered == {k \in q.conflicts : TokenOf(k) = asked.token}
    IN  [q EXCEPT
            !.merged = [i \in Item |->
                IF side = "theirs" /\ \E k \in answered : k.item = i
                THEN (CHOOSE k \in answered : TRUE).theirs ELSE q.merged[i]],
            !.conflicts = @ \ answered]

Choose ==
    /\ pc = "choose" /\ receipt # asked /\ asked.token \in Offered
    /\ LET rebased == Rebased([journal EXCEPT !.op = minted + 1]) IN
       p' = [Chosen(rebased, asked.side) EXCEPT
                !.phase = "apply", !.applied = FALSE, !.choice = asked]
    /\ minted' = minted + 1
    /\ pc' = "chosen"
    /\ UNCHANGED <<call, seen, out, live, disk, cloud, client, history, edits,
                   fails>>

\* The choice and its target are journaled before the database is touched.
JournalChoice ==
    /\ Go("chosen", "apply")
    /\ journal' = p
    /\ chosen' = chosen \cup {p.choice}
    /\ own' = [i \in Item |->      \* the user gave the value up for theirs
                  IF /\ i = p.choice.token[1] /\ p.merged[i] # p.baseline[i]
                     /\ live[i] = p.baseline[i]
                  THEN None ELSE own[i]]
    /\ UNCHANGED <<live, marker, base, status, receipt, cloud, client, edited, bounds>>

-----------------------------------------------------------------------------
(* replace_local_from_remote_inner, recover_replace_local_from_remote.     *)

ReplaceLoad ==
    /\ pc = "replaceLoad"
    /\ pc' = "queue"
    /\ p' = NewPending("replace", cloud.c, cloud, {})
    /\ minted' = minted + 1
    /\ UNCHANGED <<call, seen, out, live, disk, cloud, client, history, edits,
                   fails>>

ReplaceProven ==
    /\ pc = "replace" /\ ~p.applied /\ Proven(p)
    /\ pc' = "applied"
    /\ p' = [p EXCEPT !.baseline = p.merged]
    /\ UNCHANGED <<call, seen, out, live, disk, cloud, client, history, bounds>>

\* The database becomes the downloaded snapshot, whatever it was.
ReplaceCommit ==
    /\ pc = "replace" /\ ~p.applied /\ ~Proven(p)
    /\ pc' = "applied"
    /\ live' = p.merged /\ marker' = p.op
    /\ p' = [p EXCEPT !.baseline = p.merged]
    /\ own' = [i \in Item |-> None]
    /\ UNCHANGED <<call, seen, out, base, status, journal, receipt, cloud,
                   client, edited, chosen, bounds>>

\* From here to the status the mutex is held.
ReplaceBase ==
    /\ Go("replaceBase", "replaceStatus")
    /\ base' = p.remote
    /\ UNCHANGED <<live, marker, status, journal, receipt, cloud, client,
                   edited, chosen, bounds>>
    /\ Track(own)

ReplaceStatus ==
    /\ Go("replaceStatus", "replaceClear")
    /\ status' = FinalStatus(p.merged)
    /\ UNCHANGED <<live, marker, base, journal, receipt, cloud, client, history,
                   bounds>>

ReplaceClear ==
    /\ Go("replaceClear", "recovered")
    /\ journal' = None
    /\ UNCHANGED <<live, marker, base, status, receipt, cloud, client, history,
                   bounds>>

-----------------------------------------------------------------------------
(* force_publish_local_as_remote_inner, and phase ForcePublishingLocal.    *)

ForceLoad ==
    /\ pc = "forceLoad"
    /\ pc' = "forceCapture" /\ seen' = cloud
    /\ UNCHANGED <<call, p, out, live, disk, cloud, client, history, bounds>>

ForceCapture ==
    /\ pc = "forceCapture"
    /\ pc' = "queue"
    /\ p' = NewPending("force", live, seen, {})
    /\ minted' = minted + 1
    /\ UNCHANGED <<call, seen, out, live, disk, cloud, client, history, edits,
                   fails>>

Landed(q) == cloud.gen = q.remote.gen + 1 /\ cloud.by = "me"

\* An earlier try committed the manifest: only the local side is left to do.
ForceLanded ==
    /\ pc = "force" /\ Landed(p)
    /\ pc' = "finalize" /\ seen' = cloud
    /\ UNCHANGED <<call, p, out, live, disk, cloud, client, history, bounds>>

\* Another device took the generation: the attempt is over.
ForceSuperseded ==
    /\ pc = "force" /\ ~Landed(p) /\ cloud.gen > p.remote.gen
    /\ pc' = "forget"
    /\ status' = "dirty"
    /\ UNCHANGED <<call, p, seen, out, live, marker, base, journal, receipt,
                   cloud, client, history, bounds>>

ForceRetry ==
    /\ pc = "force" /\ cloud.gen = p.remote.gen
    /\ pc' = "publish" /\ seen' = p.remote /\ out' = p.merged
    /\ UNCHANGED <<call, p, live, disk, cloud, client, history, bounds>>

\* A resolution that found a forced publication to finish reports that.
Reported == /\ answer' = IF call = "resume" THEN "ok" ELSE answer
            /\ UNCHANGED <<asked, screen>>

Forget ==
    /\ pc = "forget"
    /\ journal' = None
    /\ Return /\ Reported
    /\ UNCHANGED <<live, marker, base, status, receipt, cloud, edited, chosen, bounds>>
    /\ Track(own)

-----------------------------------------------------------------------------
(* publish_snapshot_with_client, finalize_published_snapshot.              *)

Published == [gen |-> seen.gen + 1, by |-> "me", c |-> out]

\* A race reported lost: Dirty, and a forced publication is over.
GiveUp ==
    /\ status' = "dirty"
    /\ IF p # None /\ p.phase = "force"
       THEN pc' = "forget" /\ UNCHANGED <<call, p, seen, out>>
       ELSE Return
    /\ UNCHANGED client

\* The manifest register accepts the next generation.
PublishWon ==
    /\ pc = "publish" /\ cloud.gen = seen.gen
    /\ cloud' = Published
    /\ seen' = cloud'
    /\ pc' = "finalize"
    /\ UNCHANGED <<call, p, out, live, disk, client, edited, chosen,
                   bounds>>
    /\ Track(own)

PublishLost ==
    /\ pc = "publish" /\ cloud.gen # seen.gen
    /\ GiveUp
    /\ UNCHANGED <<live, marker, base, journal, receipt, cloud, history, bounds>>

\* DriveManifest may also take a write of its own for another device's.
PublishMistaken ==
    /\ pc = "publish" /\ cloud.gen = seen.gen
    /\ fails < MaxFails /\ fails' = fails + 1
    /\ cloud' = Published
    /\ GiveUp
    /\ UNCHANGED <<live, marker, base, journal, receipt, edited, chosen,
                   minted, edits>>
    /\ Track(own)

\* The mutex is held from here to the status.
FinalizeBase ==
    /\ Go("finalize", "finalizeStatus")
    /\ base' = seen
    /\ UNCHANGED <<live, marker, status, journal, receipt, cloud, client,
                   edited, chosen, bounds>>
    /\ Track(own)

FinalizeStatus ==
    /\ Go("finalizeStatus", "finalizeClear")
    /\ status' = FinalStatus(seen.c)
    /\ UNCHANGED <<live, marker, base, journal, receipt, cloud, client, history,
                   bounds>>

FinalizeClear ==
    /\ pc = "finalizeClear"
    /\ journal' = None
    /\ Return /\ Reported
    /\ UNCHANGED <<live, marker, base, status, receipt, cloud, history, bounds>>

-----------------------------------------------------------------------------
\* The steps of a running command.
Step ==
    \/ LoadRemote \/ CaptureLocal \/ StayClean \/ CaptureMerge
    \/ QueueReceipt \/ QueueJournal \/ QueueBase \/ QueueStatus
    \/ ApplyProven \/ ApplyKnown \/ ApplyRebase \/ ApplyCommit
    \/ JournalApplied \/ Unmark \/ Covers
    \/ ApplyBase \/ ApplyStatus \/ ApplyReceipt \/ ApplyClear
    \/ PauseReceipt \/ PauseJournal \/ PauseStatus
    \/ ContinueSync \/ StartSync \/ ResumeResolve \/ Finished
    \/ ChoiceKnown \/ ChoiceStale \/ Choose \/ JournalChoice
    \/ ReplaceLoad \/ ReplaceProven \/ ReplaceCommit
    \/ ReplaceBase \/ ReplaceStatus \/ ReplaceClear
    \/ ForceLoad \/ ForceCapture \/ ForceLanded \/ ForceSuperseded
    \/ ForceRetry \/ Forget
    \/ PublishWon \/ PublishLost \/ PublishMistaken
    \/ FinalizeBase \/ FinalizeStatus \/ FinalizeClear

Answer == /\ \E t \in Offered, s \in Side : Resolve([token |-> t, side |-> s])
          /\ screen' = Offered

\* No response came: the same conflict is answered once more.
AnswerAgain == /\ asked # None /\ answer = "none"
               /\ \E s \in Side : Resolve([asked EXCEPT !.side = s])
               /\ UNCHANGED screen

Next ==
    \/ \E i \in Item, v \in Val : Edit(i, v) \/ OtherPublishes(i, v)
    \/ Crash \/ Fail
    \/ RunSync \/ Answer \/ AnswerAgain
    \/ ReplaceLocal \/ ForcePublish
    \/ Step

Spec == Init /\ [][Next]_vars

\* The runtime polls a command until it ends; the user, or the app on its
\* behalf, keeps syncing and answers the conflicts.
Fairness == WF_vars(Step) /\ WF_vars(RunSync) /\ SF_vars(Answer)

FairSpec == Spec /\ Fairness

-----------------------------------------------------------------------------
(* Properties.                                                             *)

\* The types, and what the journal's fields say of one another.
TypeOK ==
    /\ {live} \cup {s.c : s \in {base, cloud}} \subseteq Content
    /\ base \in Snapshot /\ cloud \in Snapshot
    /\ seen \in Snapshot \cup {None} /\ out \in Content \cup {None}
    /\ status \in {"clean", "dirty", "syncing", "conflict", "error"}
    /\ journal \in Pending \cup {None} /\ p \in Pending \cup {None}
    /\ {receipt, asked} \subseteq Choice \cup {None} /\ chosen \subseteq Choice
    /\ answer \in {"none", "ok", "refused"} /\ screen \subseteq Token
    /\ own \in [Item -> Val \cup {None}] /\ edited \subseteq Item
    /\ {marker, minted, edits, fails} \subseteq Nat
    \* the marker is the journal's (a forced publication may replace a journal whose
    \* marker it leaves), and its phases agree
    /\ "force" \notin Commands /\ marker # 0 => journal # None
    /\ journal # None =>
        /\ journal.applied => journal.phase \in {"apply", "replace"}
        /\ journal.phase \in {"replace", "force"} => journal.conflicts = {}

\* A value that the user wrote, and that neither the cloud nor the base ever
\* took over, is still in the database: no merge, rebase, replay or recovery
\* undoes it behind the user's back, whenever it was written.
NoEditLost == \A i \in Item : own[i] # None => live[i] = own[i]

\* "Clean" is only ever shown when the database is what the base says, and
\* nothing in the journal would change it.
CleanIsHonest ==
    status = "clean" => /\ live = base.c
                        /\ journal # None => journal.merged = live

\* A transaction that committed is never run again: whatever was written since
\* would be gone.
CommittedOnce ==
    [][pc' = "applied" /\ marker = p.op => live' = live]_vars

\* A conflict is settled once: a token never takes a second choice, however
\* often the first one's response was lost.
ChosenOnce ==
    \A a, b \in chosen : a.token = b.token => a = b

\* What the user is told of a choice is so: "ok" only once it is journaled,
\* "refused" never when it is (until a new queue replaces the receipt).
AnswersAreTrue ==
    [][answer' # answer => /\ answer' = "ok" => asked \in chosen
                           /\ answer' = "refused" => asked \notin chosen]_vars

\* A conflict that waits for the user is still one: the target holds the
\* value of this side, which the other side's value differs from.
ConflictsAreOpen ==
    journal # None => \A k \in journal.conflicts :
        k.item # Twin => journal.merged[k.item] # k.theirs

\* A sync publishes no value for an item the user left alone other than the
\* one the cloud has: it never takes another device's change back.
NothingReverted ==
    [][cloud' # cloud /\ cloud'.by = "me" /\ ~(p # None /\ p.phase = "force") =>
            \A i \in Item \ edited : cloud'.c[i] = cloud.c[i]]_vars

\* With all commands, too, the library keeps what the user wrote, and the
\* status does not hide it.
KeptAndHonest == NoEditLost /\ CleanIsHonest

\* The journal is well formed, the queue of conflicts asks what is open and
\* asks it once, and neither costs an edit.
JournalIsSound == TypeOK /\ ChosenOnce /\ ConflictsAreOpen /\ KeptAndHonest

\* An interrupted operation is carried through, and a queue that the user
\* answers comes to its end.
JournalEnds == journal # None ~> journal = None

\* What the user wrote reaches the cloud, or is given up for the cloud's
\* value in a choice of the user.
EditsReachCloud == \A i \in Item : own[i] # None ~> own[i] = None

\* Nothing is left half done: no journal, no edit, waits for ever.
CarriedThrough == JournalEnds /\ EditsReachCloud
=============================================================================
