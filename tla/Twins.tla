-------------------------------- MODULE Twins --------------------------------
(***************************************************************************)
(* Two media with one title and variant: the database refuses them, so a   *)
(* merge that brings such twins is not applied but waits in the journal    *)
(* until the user combines them or renames one (sync_orchestrator.rs).     *)
(* Meanwhile the user goes on editing, and every answer first merges these *)
(* edits into the waiting target.                                          *)
(*                                                                         *)
(* Title and variant are one slot, its values the identities.  Crashes     *)
(* within an answer, tokens and receipts are in SyncJournal: here an       *)
(* answer and the application that follows it are one step each.           *)
(***************************************************************************)
EXTENDS SyncMerge, FiniteSetsExt

\* In the instances Uid and Record are one set of numbers, each item begins with the
\* record of its number, and title and status are the scalar slots.

CONSTANTS
    title,          \* the scalar slot that names an item
    status,         \* another scalar slot
    Name,           \* identities
    Taken,          \* those the libraries use before the merge, in Name
    Ours, Theirs,   \* the statuses of this device and of the others
    Changed,        \* items the others may have changed
    Statuses,       \* those the user may give meanwhile
    MaxEdits        \* bound: edits while the queue waits

VARIABLES
    live,       \* what the database holds
    baseline,   \* pending.local_baseline: what it held when the target was merged
    target,     \* pending.merged_snapshot
    cloud,      \* pending.remote_base_snapshot
    queue,      \* pending.conflicts
    phase,      \* "await" and "apply" as in the journal, "done" once it is cleared
    edits,      \* edits so far
    touched,    \* history: items the user edited since the queue began
    combined,   \* history: items a combination removed
    back,       \* history: records of such items that came back
    owed        \* history: records nobody has deleted

vars == <<live, baseline, target, cloud, queue, phase, edits, touched, combined,
          back, owed>>

-----------------------------------------------------------------------------
(* Items, twins and conflicts.                                             *)

Named(S, u, t) == S.library[u] # Gone /\ S.library[u][title] = t
Bearers(S, t) == {u \in Uid : Named(S, u, t)}
Distinct(S) == \A t \in Name : \A u, w \in Bearers(S, t) : u = w

RecordsOf(m) == IF m = Gone THEN {} ELSE {r \in Record : m[r] # Absent}
Holders(S, r) == {u \in Uid : r \in RecordsOf(S.library[u])}
Recorded(S) == UNION {RecordsOf(S.library[u]) : u \in Uid}

TwinOf(l, r) == [kind |-> "twin", ours |-> l, other |-> r]
FieldOf(u, s, v) == [kind |-> "field", uid |-> u, slot |-> s, theirs |-> v]
DeletionOf(u, side, m) == [kind |-> "deletion", uid |-> u, side |-> side, kept |-> m]

\* The records of the items that are kept for a decision about their deletion.
KeptBy(K) == UNION {RecordsOf(k.kept) : k \in {k \in K : k.kind = "deletion"}}

IsTwin(k) == k.kind = "twin"
Pair(k) == {k.ours, k.other}

\* same_conflict_slot.
SameSlot(j, k) ==
    /\ j.kind = k.kind
    /\ IF IsTwin(j) THEN Pair(j) = Pair(k) ELSE j.uid = k.uid
    /\ j.kind = "field" => j.slot = k.slot

Unasked(new, K) == {k \in new : \A j \in K : ~SameSlot(j, k)}

\* The conflicts a merge reports.
ConflictsOf(B, L, R) ==
    UNION {LET C == UidConflicts(u, B, L, R)
               l == L.library[u]
               r == R.library[u]
           IN  {FieldOf(u, s, r[s]) : s \in C \ {DeleteVsUpdate}}
                 \cup {DeletionOf(u, IF l = Gone THEN "ours" ELSE "theirs",
                                  IF l = Gone THEN r ELSE l) :
                         s \in C \cap {DeleteVsUpdate}} : u \in Uid}

Anchor(S, L, t) ==
    LET both == {u \in Bearers(S, t) : Named(L, u, t)}
    IN  Min(IF both = {} THEN Bearers(S, t) ELSE both)

\* duplicate_media_identity_conflicts: the twins of a fresh merge.
Detected(L, R, S) ==
    UNION {LET a == Anchor(S, L, t)
           IN  {IF Named(R, a, t) /\ Named(L, d, t) THEN TwinOf(d, a) ELSE TwinOf(a, d) :
                    d \in Bearers(S, t) \ {a}} :
               t \in {t \in Name : Cardinality(Bearers(S, t)) > 1}}

\* refresh_duplicate_identity_conflicts_with_origins: the twins of the target as it
\* is now.  A pair already asked about keeps its sides.
Refreshed(K, S, L, R) ==
    LET Sided(a, d, t) ==
            LET old == {k \in K : IsTwin(k) /\ Pair(k) = {a, d}}
            IN  IF old # {} THEN CHOOSE k \in old : TRUE
                ELSE IF /\ Named(L, d, t) /\ Named(R, a, t)
                        /\ ~(Named(L, a, t) /\ Named(R, d, t))
                THEN TwinOf(d, a) ELSE TwinOf(a, d)
    IN  {k \in K : ~IsTwin(k)} \cup
        UNION {{Sided(Anchor(S, L, t), d, t) : d \in Bearers(S, t) \ {Anchor(S, L, t)}} :
                   t \in {t \in Name : Cardinality(Bearers(S, t)) > 1}}

\* refresh_rebased_conflicts: what the merged edits have settled is not asked.
Current(K, S) ==
    LET Stays(k) ==
            CASE k.kind = "twin" -> TRUE
              [] k.kind = "field" ->
                    S.library[k.uid] # Gone /\ S.library[k.uid][k.slot] # k.theirs
              [] k.kind = "deletion" -> S.library[k.uid] # Gone \/ k.side = "ours"
        Now(k) == IF k.kind = "deletion" /\ S.library[k.uid] # Gone
                  THEN [k EXCEPT !.kept = S.library[k.uid]] ELSE k
    IN  {Now(k) : k \in {k \in K : Stays(k)}}

\* The conflicts new join the queue K: in an answer unless one on their slot is still
\* asked, in the application unless one was.
Joined(K, new, S, answering) ==
    IF answering THEN Current(K, S) \cup Unasked(Current(new, S), Current(K, S))
    ELSE Current(K \cup Unasked(new, K), S)

-----------------------------------------------------------------------------
Item(u, t, st) == [s \in {title, status} \cup Record |->
                     CASE s = title -> t [] s = status -> st [] s = u -> Ours
                       [] OTHER -> Absent]

Libraries(st) ==
    {[u \in Uid |-> IF n[u] = Gone THEN Gone
                    ELSE Item(u, n[u], st[u])] :
        n \in {n \in [Uid -> Taken \cup {Gone}] :
                  \A u, w \in Uid : n[u] = n[w] /\ n[u] # Gone => u = w}}

\* Their records may be deleted.
Without(lib, lost) ==
    [u \in Uid |-> IF lib[u] # Gone /\ u \in lost THEN [lib[u] EXCEPT ![u] = Absent]
                   ELSE lib[u]]

Of(lib) == [library |-> lib, pictures |-> [p \in Picture |-> Absent],
            settings |-> [k \in Setting |-> Absent], tombstones |-> {}]

\* run_sync_inner has merged a cloud snapshot and found twins in the result.
Init ==
    \E b \in Libraries([u \in Uid |-> Ours]), l \in Libraries([u \in Uid |-> Ours]) :
    \E r \in Libraries([u \in Uid |-> IF u \in Changed THEN Theirs ELSE Ours]),
       lost \in SUBSET Changed :
        LET B == Of(b)
            L == SnapshotOf(Of(l), B)
            R == SnapshotOf(Of(Without(r, lost)), B)
        IN  /\ live = ContentOf(L)
            /\ baseline = L
            /\ cloud = R
            /\ target = Merge(B, L, R)
            /\ queue = ConflictsOf(B, L, R) \cup Detected(L, R, target)
            /\ \E k \in queue : IsTwin(k)
            /\ phase = "await"
            /\ edits = 0 /\ touched = {} /\ combined = {} /\ back = {}
            /\ owed = Recorded(target) \cup KeptBy(queue)

\* No queue at all.
Idle ==
    /\ baseline = Of([u \in Uid |-> Gone])
    /\ live = ContentOf(baseline)
    /\ target = baseline /\ cloud = baseline
    /\ queue = {} /\ phase = "done" /\ edits = 0
    /\ touched = {} /\ combined = {} /\ back = {} /\ owed = {}

-----------------------------------------------------------------------------
(* The user edits the library.                                             *)

\* Of the records of an item those are due that no other device has deleted; all of them
\* if the item was deleted there and edited here.
Due(u, m) ==
    IF target.library[u] = Gone /\ m # baseline.library[u] THEN RecordsOf(m)
    ELSE {r \in RecordsOf(m) : r \in Recorded(target) \/ r \notin RecordsOf(baseline.library[u])}

Edit(u, m) ==
    /\ phase # "done"
    /\ edits < MaxEdits
    /\ edits' = edits + 1
    /\ live' = [live EXCEPT !.library[u] = m]
    /\ touched' = touched \cup {u}
    /\ owed' = (owed \ RecordsOf(live.library[u])) \cup Due(u, m)
    /\ UNCHANGED <<baseline, target, cloud, queue, phase, combined, back>>

Held(u) == live.library[u] # Gone

Rename(u, t) ==
    /\ Held(u)
    /\ Bearers(live, t) = {}
    /\ Edit(u, [live.library[u] EXCEPT ![title] = t])

Change(u, v) ==
    /\ Held(u)
    /\ live.library[u][status] # v
    /\ Edit(u, [live.library[u] EXCEPT ![status] = v])

Forget(u, r) ==
    /\ Held(u)
    /\ r \in RecordsOf(live.library[u])
    /\ Edit(u, [live.library[u] EXCEPT ![r] = Absent])

Remove(u) == Held(u) /\ Edit(u, Gone)

\* A new item has a uid of its own, and so has its record.
Create(u, t) ==
    /\ \A S \in {baseline, target, cloud} : u \notin Known(S) /\ u \notin Recorded(S)
    /\ Held(u) = FALSE
    /\ Bearers(live, t) = {}
    /\ Edit(u, Item(u, t, Ours))

-----------------------------------------------------------------------------
(* An answer.                                                              *)

Local == SnapshotOf(live, baseline)

\* The target with the edits L merged in, and what is to be asked of it.  (A set of
\* one, so that a step computes it once.)
Rebased(L, answering) ==
    {[target |-> S,
      queue |-> Refreshed(Joined(queue, ConflictsOf(baseline, L, target), S, answering),
                          S, L, cloud)] :
        S \in {Merge(baseline, L, target)}}

\* The records of items that were combined into others and are there all the same.
Returned(S, dropped) == UNION {RecordsOf(S.library[u]) : u \in dropped}

\* ensure_duplicate_identity_is_ready_to_resolve: nothing else is asked of the two.
Ready(k, K) == \A j \in K : IsTwin(j) \/ j.uid \notin Pair(k)

Combined_NoTombstone(S, k) ==
    [S EXCEPT !.library[k.ours] = MediaMerged(Gone, @, S.library[k.other]),
              !.library[k.other] = Gone]

\* merge_duplicate_media_identity: as if both devices had created the item.
Combined(S, k) ==
    [S EXCEPT !.library[k.ours] = MediaMerged(Gone, @, S.library[k.other]),
              !.library[k.other] = Gone,
              !.tombstones = (@ \ {k.ours}) \cup {k.other}]

Undecided(S, k) ==
    LET other == S.library[k.other]
    IN  {FieldOf(k.ours, s, other[s]) :
            s \in {s \in DOMAIN other :
                     SlotClash(s, Absent, S.library[k.ours][s], other[s])}}

Result(S, new, drops) == [target |-> S, new |-> new, drops |-> drops]

\* What each answer to k makes of the target S: resolve_duplicate_media_identity
\* and apply_conflict_resolution_to_snapshot.
Combinations(S, k, K) ==
    {Result(Combined(S, k), Undecided(S, k), {k.other}) : x \in {y \in {k} : Ready(y, K)}}

Titled(S, u, t) == [S EXCEPT !.library[u][title] = t]

Renamings(S, k, K) ==
    {Result(Titled(S, u, t), {}, {}) :
        u \in {u \in Pair(k) : Ready(k, K)}, t \in {t \in Name : Bearers(S, t) = {}}}

Sides(S, k) ==
    {Result(S, {}, {}), Result([S EXCEPT !.library[k.uid][k.slot] = k.theirs], {}, {})}

Fates(S, k) ==
    {Result([S EXCEPT !.library[k.uid] = Gone, !.tombstones = @ \cup {k.uid}], {}, {}),
     Result([S EXCEPT !.library[k.uid] = k.kept, !.tombstones = @ \ {k.uid}], {}, {})}

Results(S, k, K) ==
    CASE k.kind = "twin" -> Combinations(S, k, K) \cup Renamings(S, k, K)
      [] k.kind = "field" -> Sides(S, k)
      [] k.kind = "deletion" -> Fates(S, k)

\* resolve_journaled_sync_conflict.  A conflict the edits have settled is not
\* decided; the answer is journaled all the same.
Answer(k) ==
    /\ phase = "await" /\ phase' = "apply"
    /\ baseline' = Local
    /\ UNCHANGED <<live, cloud, edits, touched>>
    /\ \E L \in {Local} : \E N \in Rebased(L, TRUE) :
       \E now \in {{j \in N.queue : SameSlot(j, k)}} :
          \E r \in IF now = {} THEN {Result(N.target, {}, {})}
                  ELSE UNION {Results(N.target, j, N.queue) : j \in now} :
             /\ target' = r.target
             /\ queue' = Refreshed((N.queue \ now) \cup r.new, r.target, L, cloud)
             /\ (\E j \in queue' : IsTwin(j)) \/ Distinct(r.target)
             /\ combined' = combined \cup r.drops
             /\ back' = back \cup Returned(r.target, combined')
             /\ owed' = IF IsTwin(k) THEN owed
                        ELSE owed \ ((Recorded(N.target) \cup KeptBy(now))
                                        \ Recorded(r.target))

\* apply_snapshot_inner stores every record under its uid, once.
Fits(S) ==
    /\ \A r \in Record : \A u, w \in Holders(S, r) : u = w
    /\ Distinct(S)

\* recover_pending_snapshot_apply, at the end of the answer or of a later command.
\* Edits made since are merged in first; a target with twins goes back to the user,
\* one that the database refuses stays to be tried again.
Apply ==
    /\ phase = "apply"
    /\ \E L \in {Local} :
       \E N \in IF live = ContentOf(baseline) THEN {[target |-> target, queue |-> queue]}
               ELSE Rebased(L, FALSE) :
        /\ target' = N.target
        /\ queue' = N.queue
        /\ back' = back \cup Returned(N.target, combined)
        /\ \/ /\ \E k \in N.queue : IsTwin(k)
              /\ phase' = "await"
              /\ baseline' = IF live = ContentOf(baseline) THEN baseline ELSE L
              /\ UNCHANGED live
           \/ /\ \A k \in N.queue : ~IsTwin(k)
              /\ Fits(N.target)
              /\ phase' = IF N.queue = {} THEN "done" ELSE "await"
              /\ baseline' = N.target
              /\ live' = ContentOf(N.target)
           \/ /\ \A k \in N.queue : ~IsTwin(k)
              /\ ~Fits(N.target)
              /\ phase' = "apply"
              /\ baseline' = IF live = ContentOf(baseline) THEN baseline ELSE L
              /\ UNCHANGED live
    /\ UNCHANGED <<cloud, edits, touched, combined, owed>>

EditLive ==
    \E u \in Uid :
        \/ \E t \in Name : Rename(u, t) \/ Create(u, t)
        \/ \E v \in Statuses : Change(u, v)
        \/ \E r \in Record : Forget(u, r)
        \/ Remove(u)

Next == EditLive \/ (\E k \in queue : Answer(k)) \/ Apply

Spec == Init /\ [][Next]_vars

-----------------------------------------------------------------------------
(* Properties.                                                             *)

\* Records that the target holds in two items: apply_snapshot_inner fails on them.
Twice == {r \in Record : \E u, w \in Holders(target, r) : u # w}

\* A record stands in one item, whatever is combined, renamed and edited.  (Except
\* where the user edits an item after an answer has combined it into another and
\* before that answer is applied: the item comes back, its records are in both.)
RecordsOnce == Twice \subseteq back

Coming == CHOOSE N \in Rebased(Local, TRUE) : TRUE

\* A record that the user has not deleted, with its item or by an answer, stays in
\* what the next merge of the edits yields, or in an item the user is asked about.
RecordsKept ==
    owed \subseteq IF phase = "done" THEN Recorded(live)
                   ELSE Recorded(Coming.target) \cup KeptBy(Coming.queue)

\* A combination is final: no merge brings the other item back, unless the user has
\* edited it meanwhile.
CombinedStays ==
    \A u \in combined : target.library[u] # Gone => u \in touched

\* Of the questions on screen one at least can be answered, now that the edits are
\* merged in: twins do not wait for each other.  (Except where the user has edited one
\* of the twins: the edit may raise another question about it, which must be answered
\* first but is not on screen.)
Edited == {u \in Uid : live.library[u] # baseline.library[u]}
Answerable ==
    phase = "await" =>
        \E k \in queue :
            \/ IsTwin(k) /\ Pair(k) \cap Edited # {}
            \/ LET now == {j \in Coming.queue : SameSlot(j, k)}
               IN  \A j \in now : Results(Coming.target, j, Coming.queue) # {}

\* Settling twins, in any order and among edits, neither loses a record nor doubles
\* one nor comes to a halt, and what was combined stays so.
SettledRight == RecordsOnce /\ RecordsKept /\ CombinedStays /\ Answerable
=============================================================================
