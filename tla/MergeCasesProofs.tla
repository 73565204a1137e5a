-------------------------- MODULE MergeCasesProofs --------------------------
(***************************************************************************)
(* Theorems about the three-way merge, for libraries of any size and every *)
(* set of values, and about the questions that wait after a merge has      *)
(* brought twins, for any number of items, names, edits and answers.       *)
(***************************************************************************)
EXTENDS MCMergeCases, FiniteSetTheorems, WellFoundedInduction, TLAPS

-----------------------------------------------------------------------------
(* The inductive invariant: the inputs are well formed, no uid the base    *)
(* knew is forgotten by the remote chain, and the settings a side changed  *)
(* bear that side's stamps.                                                *)

StampedBy(S, stamps) ==
    \A k \in Setting : S.settings[k] # base.settings[k] =>
        S.settings[k] # Absent /\ S.settings[k].at \in stamps

IInv ==
    /\ base \in Snapshot
    /\ local \in Content
    /\ remote \in Snapshot
    /\ Valid(base)
    /\ Valid(remote)
    /\ Known(base) \subseteq Known(remote)
    /\ StampedBy(local, LocalStamp)
    /\ StampedBy(remote, RemoteStamp)

-----------------------------------------------------------------------------
(* Snapshots.                                                              *)

\* build_snapshot over any base yields a snapshot with disjoint live and deleted
\* uids that forgets no uid the base knew.
LEMMA SnapshotOfType ==
    ASSUME NEW c \in Content, NEW b \in Snapshot
    PROVE  /\ SnapshotOf(c, b) \in Snapshot
           /\ Valid(SnapshotOf(c, b))
           /\ Known(b) \subseteq Known(SnapshotOf(c, b))
           /\ SnapshotOf(c, b).library = c.library
           /\ SnapshotOf(c, b).pictures = c.pictures
           /\ SnapshotOf(c, b).settings = c.settings
<1> DEFINE S == SnapshotOf(c, b)
<1>1. S \in Snapshot
  BY DEF SnapshotOf, Snapshot, Content, DeletedSince
<1>2. Valid(S)
  BY DEF SnapshotOf, Valid, Live, DeletedSince
<1>3. Known(b) \subseteq Known(S)
  BY DEF SnapshotOf, Known, Live, DeletedSince, Snapshot
<1> QED
  BY <1>1, <1>2, <1>3 DEF SnapshotOf

\* What a snapshot holds beside its tombstones is the content of a library.
LEMMA ContentOfType ==
    ASSUME NEW S \in Snapshot
    PROVE  ContentOf(S) \in Content
BY DEF Snapshot, Content, ContentOf

\* An edit keeps the type of a library and stamps the settings it writes.
LEMMA EditedType ==
    ASSUME NEW c \in Content, NEW stamps \in SUBSET Stamp,
           NEW d \in Edited(c, stamps)
    PROVE  /\ d \in Content
           /\ \A k \in Setting : d.settings[k] # c.settings[k] =>
                  d.settings[k] # Absent /\ d.settings[k].at \in stamps
<1>1. CASE \E u \in Uid, m \in Media \cup {Gone} :
                d = [c EXCEPT !.library[u] = m]
  BY <1>1 DEF Content
<1>2. CASE \E p \in Picture, v \in MaybeVal :
                d = [c EXCEPT !.pictures[p] = v]
  BY <1>2 DEF Content
<1>3. CASE \E k \in Setting, v \in Val, t \in stamps :
                d = [c EXCEPT !.settings[k] = [v |-> v, at |-> t]]
  <2>1. PICK k \in Setting, v \in Val, t \in stamps :
                d = [c EXCEPT !.settings[k] = [v |-> v, at |-> t]]
    BY <1>3
  <2>2. [v |-> v, at |-> t] \in Stamped
    BY DEF Stamped
  <2>3. d \in Content
    BY <2>1, <2>2 DEF Content
  <2>4. [v |-> v, at |-> t] # Absent
    BY <2>2, MergeAssumption
  <2> QED
    BY <2>1, <2>3, <2>4 DEF Content
<1> QED
  BY <1>1, <1>2, <1>3 DEF Edited

-----------------------------------------------------------------------------
(* Merged values.                                                          *)

\* A slot merges to one of its three values, and a scalar slot to a present one.
LEMMA MediaMergedType ==
    ASSUME NEW b \in Media \cup {Gone}, NEW l \in Media, NEW r \in Media
    PROVE  MediaMerged(b, l, r) \in Media
<1>1. \A s \in Slot : Was(b, s) \in MaybeVal
  BY DEF Was, Media, MaybeVal
<1>2. \A s \in Slot : SlotMerged(s, Was(b, s), l[s], r[s]) \in {l[s], r[s]}
  BY DEF SlotMerged, OptionalMerged, RecordMerged, Merged
<1>3. \A s \in Scalar : l[s] # Absent /\ r[s] # Absent
  BY DEF Media
<1>4. DOMAIN l = Slot
  BY DEF Media
<1>5. MediaMerged(b, l, r) \in [Slot -> MaybeVal]
  BY <1>2, <1>4 DEF MediaMerged, Media
<1>6. \A s \in Scalar : MediaMerged(b, l, r)[s] # Absent
  BY <1>2, <1>3, <1>4 DEF MediaMerged, Slot
<1> QED
  BY <1>5, <1>6 DEF Media

\* The merge of an item is an item, or none.
LEMMA UidMergedType ==
    ASSUME NEW B \in Snapshot, NEW X \in Snapshot, NEW Y \in Snapshot,
           NEW u \in Uid
    PROVE  UidMerged(u, B, X, Y) \in Media \cup {Gone}
<1>1. /\ B.library[u] \in Media \cup {Gone}
      /\ X.library[u] \in Media \cup {Gone}
      /\ Y.library[u] \in Media \cup {Gone}
  BY DEF Snapshot
<1>2. X.library[u] # Gone /\ Y.library[u] # Gone =>
        MediaMerged(B.library[u], X.library[u], Y.library[u]) \in Media
  BY <1>1, MediaMergedType
<1> QED
  BY <1>1, <1>2 DEF UidMerged

\* The merge of snapshots is a snapshot.
LEMMA MergeType ==
    ASSUME NEW B \in Snapshot, NEW X \in Snapshot, NEW Y \in Snapshot
    PROVE  Merge(B, X, Y) \in Snapshot
<1> DEFINE lib == [u \in Uid |-> UidMerged(u, B, X, Y)]
<1>1. lib \in [Uid -> Media \cup {Gone}]
  BY UidMergedType
<1>2. \A p \in Picture :
        Merged(B.pictures[p], X.pictures[p], Y.pictures[p]) \in MaybeVal
  BY DEF Merged, Snapshot
<1>3. \A k \in Setting :
        SettingMerged(B.settings[k], X.settings[k], Y.settings[k])
            \in Stamped \cup {Absent}
  BY DEF SettingMerged, Later, Snapshot
<1>4. TombstonesMerged(lib, X, Y) \in SUBSET Uid
  BY DEF TombstonesMerged, Snapshot
<1> QED
  BY <1>1, <1>2, <1>3, <1>4 DEF Merge, Snapshot

-----------------------------------------------------------------------------
(* The invariant is inductive.                                             *)

LEMMA InitIInv == Init => IInv
BY ContentOfType DEF Init, IInv, StampedBy, ContentOf, Known

LEMMA NextIInv == IInv /\ [Next]_vars => IInv'
<1> SUFFICES ASSUME IInv, [Next]_vars PROVE IInv'
  OBVIOUS
<1>1. CASE EditLocal
  <2>1. local' \in Content
        /\ \A k \in Setting : local'.settings[k] # local.settings[k] =>
              local'.settings[k] # Absent /\ local'.settings[k].at \in LocalStamp
    BY <1>1, EditedType, StampAssumption DEF EditLocal, IInv
  <2>2. StampedBy(local, LocalStamp)'
    BY <1>1, <2>1 DEF EditLocal, IInv, StampedBy
  <2>3. UNCHANGED <<base, remote>>
    BY <1>1 DEF EditLocal
  <2> QED
    BY <2>1, <2>2, <2>3 DEF IInv, StampedBy, Valid, Known, Live
<1>2. CASE EditRemote
  <2>1. PICK c \in Edited(ContentOf(remote), RemoteStamp) :
            remote' = SnapshotOf(c, remote)
    BY <1>2 DEF EditRemote
  <2>2. ContentOf(remote) \in Content
    BY ContentOfType DEF IInv
  <2>3. /\ c \in Content
        /\ \A k \in Setting : c.settings[k] # ContentOf(remote).settings[k] =>
              c.settings[k] # Absent /\ c.settings[k].at \in RemoteStamp
    BY <2>2, EditedType, StampAssumption
  <2>4. /\ remote' \in Snapshot
        /\ Valid(remote')
        /\ Known(remote) \subseteq Known(remote')
        /\ remote'.settings = c.settings
    BY <2>1, <2>3, SnapshotOfType DEF IInv
  <2>5. UNCHANGED <<base, local>>
    BY <1>2 DEF EditRemote
  <2>6. StampedBy(remote, RemoteStamp)'
    BY <2>3, <2>4, <2>5 DEF IInv, StampedBy, ContentOf
  <2>7. Valid(remote)' /\ (Known(base) \subseteq Known(remote))'
    BY <2>4, <2>5 DEF IInv, Valid, Known, Live
  <2> QED
    BY <2>4, <2>5, <2>6, <2>7 DEF IInv, StampedBy, Valid, Known, Live
<1>3. CASE UNCHANGED vars
  BY <1>3 DEF vars, IInv, StampedBy, Valid, Known, Live
<1> QED
  BY <1>1, <1>2, <1>3 DEF Next

\* The invariant holds in every reachable state.
THEOREM Invariance == Spec => []IInv
BY InitIInv, NextIInv, PTL DEF Spec

-----------------------------------------------------------------------------
(* What the invariant gives.                                               *)

LEMMA Inputs ==
    ASSUME IInv
    PROVE  /\ L \in Snapshot
           /\ R \in Snapshot
           /\ Valid(L) /\ Valid(R)
           /\ Known(base) \subseteq Known(L)
           /\ Known(base) \subseteq Known(R)
           /\ L.settings = local.settings
BY SnapshotOfType DEF IInv, L, R

\* An item of the base that one side no longer has is deleted there.
LEMMA GoneIsDeleted ==
    ASSUME IInv, NEW u \in Uid, base.library[u] # Gone
    PROVE  /\ L.library[u] = Gone => Deleted(u, base, L)
           /\ R.library[u] = Gone => Deleted(u, base, R)
BY Inputs DEF Deleted, Known, Live

\* The slots of an item.
LEMMA SlotsOf ==
    ASSUME IInv, NEW u \in Uid
    PROVE  /\ L.library[u] # Gone => DOMAIN L.library[u] = Slot
           /\ R.library[u] # Gone => DOMAIN R.library[u] = Slot
BY Inputs DEF Snapshot, Media

LEMMA AlwaysTypeOK == IInv => TypeOK
BY Inputs, MergeType DEF IInv, TypeOK, M

LEMMA AlwaysItemsKept == IInv => ItemsKept
<1> SUFFICES ASSUME IInv PROVE ItemsKept
  OBVIOUS
<1>1. ASSUME NEW u \in Uid, L.library[u] # Gone, R.library[u] # Gone,
             NEW s \in Slot \ UidConflicts(u, base, L, R)
      PROVE  Carried(Was(base.library[u], s), L.library[u][s],
                     R.library[u][s], M.library[u][s])
  <2>1. M.library[u][s] = SlotMerged(s, Was(base.library[u], s),
                                     L.library[u][s], R.library[u][s])
    BY <1>1, SlotsOf DEF M, Merge, UidMerged, MediaMerged
  <2>2. ~SlotClash(s, Was(base.library[u], s), L.library[u][s],
                   R.library[u][s])
    BY <1>1, SlotsOf DEF UidConflicts
  <2> QED
    BY <2>1, <2>2 DEF SlotMerged, SlotClash, OptionalClash, OptionalMerged,
                      RecordMerged, Merged, Clash, Carried
<1>2. ASSUME NEW u \in Uid, L.library[u] = Gone \/ R.library[u] = Gone,
             UidConflicts(u, base, L, R) = {}
      PROVE  Carried(base.library[u], L.library[u], R.library[u], M.library[u])
  <2>1. M.library[u] = UidMerged(u, base, L, R)
    BY DEF M, Merge
  <2>2. ~ \/ Deleted(u, base, R) /\ L.library[u] # Gone
                /\ L.library[u] # base.library[u]
          \/ Deleted(u, base, L) /\ R.library[u] # Gone
                /\ R.library[u] # base.library[u]
    BY <1>2 DEF UidConflicts
  <2> QED
    BY <1>2, <2>1, <2>2, GoneIsDeleted DEF UidMerged, Carried, Deleted
<1>3. ASSUME NEW p \in Picture \ PictureConflicts(base, L, R)
      PROVE  Carried(base.pictures[p], L.pictures[p], R.pictures[p],
                     M.pictures[p])
  BY DEF M, Merge, PictureConflicts, Clash, Merged, Carried
<1> QED
  BY <1>1, <1>2, <1>3 DEF ItemsKept

LEMMA AlwaysConflictsAreReal == IInv => ConflictsAreReal
<1> SUFFICES ASSUME IInv PROVE ConflictsAreReal
  OBVIOUS
<1>1. ASSUME NEW u \in Uid,
             NEW s \in UidConflicts(u, base, L, R)
                            \ (Optional \cup {DeleteVsUpdate})
      PROVE  BothChanged(Was(base.library[u], s), L.library[u][s],
                         R.library[u][s])
  BY SlotsOf DEF UidConflicts, SlotClash, Clash, BothChanged
<1>2. ASSUME NEW u \in Uid, DeleteVsUpdate \in UidConflicts(u, base, L, R)
      PROVE  BothChanged(base.library[u], L.library[u], R.library[u])
  BY <1>2, SlotsOf, MergeAssumption DEF UidConflicts, Deleted, BothChanged
<1>3. \A p \in PictureConflicts(base, L, R) :
        BothChanged(base.pictures[p], L.pictures[p], R.pictures[p])
  BY DEF PictureConflicts, Clash, BothChanged
<1> QED
  BY <1>1, <1>2, <1>3 DEF ConflictsAreReal

LEMMA AlwaysTombstonesExact == IInv => TombstonesExact
<1> SUFFICES ASSUME IInv PROVE TombstonesExact
  OBVIOUS
<1> DEFINE lib == [u \in Uid |-> UidMerged(u, base, L, R)]
<1>1. M.library = lib /\ M.tombstones = TombstonesMerged(lib, L, R)
  BY DEF M, Merge
<1>2. M.tombstones = (L.tombstones \cup R.tombstones) \ Live(M)
  BY <1>1, Inputs DEF TombstonesMerged, Live, Snapshot
<1>3. ASSUME NEW u \in Uid, u \in Known(base) \cup Known(L) \cup Known(R),
             u \notin L.tombstones, u \notin R.tombstones
      PROVE  u \in Live(M)
  <2>1. u \in Live(L) \/ u \in Live(R)
    BY <1>3, Inputs DEF Known
  <2>2. ~Deleted(u, base, L) /\ ~Deleted(u, base, R)
    BY <1>3 DEF Deleted
  <2>3. MediaMerged(base.library[u], L.library[u], R.library[u]) # Gone
            \/ L.library[u] = Gone \/ R.library[u] = Gone
    BY Inputs, MediaMergedType, MergeAssumption DEF IInv, Snapshot
  <2>4. UidMerged(u, base, L, R) # Gone
    BY <2>1, <2>2, <2>3 DEF UidMerged, Live
  <2> QED
    BY <1>1, <2>4 DEF Live
<1>4. Known(base) \cup Known(L) \cup Known(R) \subseteq Uid
  BY Inputs DEF IInv, Known, Live, Snapshot
<1> QED
  BY <1>2, <1>3, <1>4 DEF TombstonesExact, Known

\* A setting that both sides wrote has two different stamps.
LEMMA StampsDiffer ==
    ASSUME IInv, NEW k \in Setting,
           L.settings[k] # base.settings[k], R.settings[k] # base.settings[k]
    PROVE  /\ L.settings[k] # Absent /\ R.settings[k] # Absent
           /\ L.settings[k].at \in Nat /\ R.settings[k].at \in Nat
           /\ L.settings[k].at # R.settings[k].at
BY Inputs, StampAssumption, MergeAssumption DEF IInv, StampedBy, R

LEMMA AlwaysLatestSettingStands == IInv => LatestSettingStands
<1> SUFFICES ASSUME IInv, NEW k \in Setting,
                    L.settings[k] # base.settings[k],
                    R.settings[k] # base.settings[k]
             PROVE  /\ M.settings[k].at >= L.settings[k].at
                    /\ M.settings[k].at >= R.settings[k].at
  BY DEF LatestSettingStands
<1>1. M.settings[k] = Later(L.settings[k], R.settings[k])
  BY StampsDiffer DEF M, Merge, SettingMerged
<1> QED
  BY <1>1, StampsDiffer DEF Later

LEMMA AlwaysSymmetric == IInv => Symmetric
<1> SUFFICES ASSUME IInv PROVE Symmetric
  OBVIOUS
<1> DEFINE N == Merge(base, R, L)
<1>1. ASSUME NEW u \in Uid
      PROVE  UidConflicts(u, base, L, R) = UidConflicts(u, base, R, L)
  BY SlotsOf DEF UidConflicts, SlotClash, OptionalClash, Clash, Deleted
<1>2. ASSUME NEW u \in Uid, UidConflicts(u, base, L, R) = {}
      PROVE  M.library[u] = N.library[u]
  <2>1. M.library[u] = UidMerged(u, base, L, R)
        /\ N.library[u] = UidMerged(u, base, R, L)
    BY DEF M, Merge
  <2>2. CASE L.library[u] # Gone /\ R.library[u] # Gone
    <3>1. \A s \in Slot : ~SlotClash(s, Was(base.library[u], s),
                                     L.library[u][s], R.library[u][s])
      BY <1>2, <2>2, SlotsOf DEF UidConflicts
    <3>2. \A s \in Slot :
            SlotMerged(s, Was(base.library[u], s), L.library[u][s],
                       R.library[u][s])
            = SlotMerged(s, Was(base.library[u], s), R.library[u][s],
                         L.library[u][s])
      BY <3>1 DEF SlotClash, OptionalClash, Clash, SlotMerged, OptionalMerged,
                  RecordMerged, Merged
    <3>3. MediaMerged(base.library[u], L.library[u], R.library[u])
          = MediaMerged(base.library[u], R.library[u], L.library[u])
      BY <2>2, <3>2, SlotsOf DEF MediaMerged
    <3>4. /\ UidMerged(u, base, L, R)
             = MediaMerged(base.library[u], L.library[u], R.library[u])
          /\ UidMerged(u, base, R, L)
             = MediaMerged(base.library[u], R.library[u], L.library[u])
      BY <2>2 DEF UidMerged
    <3> QED
      BY <2>1, <3>3, <3>4
  <2>3. CASE L.library[u] = Gone \/ R.library[u] = Gone
    <3>1. ~ \/ Deleted(u, base, R) /\ L.library[u] # Gone
                  /\ L.library[u] # base.library[u]
            \/ Deleted(u, base, L) /\ R.library[u] # Gone
                  /\ R.library[u] # base.library[u]
      BY <1>2, <2>3 DEF UidConflicts
    <3> QED
      BY <2>1, <2>3, <3>1 DEF UidMerged, Deleted
  <2> QED
    BY <2>2, <2>3
<1>3. PictureConflicts(base, L, R) = PictureConflicts(base, R, L)
  BY DEF PictureConflicts, Clash
<1>4. ASSUME NEW p \in Picture \ PictureConflicts(base, L, R)
      PROVE  M.pictures[p] = N.pictures[p]
  BY DEF M, Merge, PictureConflicts, Clash, Merged
<1>5. ASSUME NEW k \in Setting
      PROVE  SettingMerged(base.settings[k], L.settings[k], R.settings[k])
             = SettingMerged(base.settings[k], R.settings[k], L.settings[k])
  <2>1. CASE L.settings[k] = base.settings[k] \/ R.settings[k] = base.settings[k]
    BY <2>1 DEF SettingMerged
  <2>2. CASE L.settings[k] # base.settings[k] /\ R.settings[k] # base.settings[k]
    <3>1. Later(L.settings[k], R.settings[k]) = Later(R.settings[k], L.settings[k])
      BY <2>2, StampsDiffer DEF Later
    <3> QED
      BY <2>2, <3>1, StampsDiffer DEF SettingMerged
  <2> QED
    BY <2>1, <2>2
<1>6. M.settings = N.settings
  BY <1>5 DEF M, Merge
<1> QED
  BY <1>1, <1>2, <1>3, <1>4, <1>6 DEF Symmetric

-----------------------------------------------------------------------------
(* The theorems.                                                           *)

\* Every merge of snapshots is a snapshot.
THEOREM TypeCorrect == Spec => []TypeOK
BY Invariance, AlwaysTypeOK, PTL

\* Whatever a device changed is in the merge or in a conflict.
THEOREM NoSilentLoss == Spec => []NothingLost
<1>1. IInv => NothingLost
  BY AlwaysItemsKept, AlwaysLatestSettingStands DEF NothingLost
<1> QED
  BY <1>1, Invariance, PTL

\* Outside covers, the user is asked only about changes of both sides.
THEOREM NoNeedlessQuestion == Spec => []ConflictsAreReal
BY Invariance, AlwaysConflictsAreReal, PTL

\* A deleted item stays known as deleted, and only it does.
THEOREM NoResurrection == Spec => []TombstonesExact
BY Invariance, AlwaysTombstonesExact, PTL

\* It does not matter which of two devices merges.
THEOREM OrderIrrelevant == Spec => []Symmetric
BY Invariance, AlwaysSymmetric, PTL

\* The last writer of a setting wins.
THEOREM LastWriterWins == Spec => []LatestSettingStands
BY Invariance, AlwaysLatestSettingStands, PTL

-----------------------------------------------------------------------------
(* Twins (the instance Queue): items, snapshots and questions.             *)

Value == Name \cup Statuses \cup {Ours, Theirs}
Medium == {m \in [{title, status} \cup Items -> Value \cup {Absent}] :
             /\ m[title] # Absent /\ m[status] # Absent
             /\ \A r \in Items : m[r] \in {Absent, Ours}}
Shelf == [Items -> Medium \cup {Gone}]
None == [{} -> {}]
Database == [library : Shelf, pictures : None, settings : None]
Version == [library : Shelf, pictures : None, settings : None,
            tombstones : SUBSET Items]

Question(k) ==
    /\ k.kind \in {"twin", "field", "deletion"}
    /\ k.kind = "field" => k \in [kind : {"field"}, uid : Items,
                                  slot : {title, status}, theirs : Value]
    /\ k.kind = "deletion" => k \in [kind : {"deletion"}, uid : Items,
                                     side : {"ours", "theirs"}, kept : Medium]

\* An item is never taken for a missing one, nor a slot of one kind for one of another.
LEMMA MediumFacts ==
    /\ \A m \in Medium : /\ DOMAIN m = {title, status} \cup Items
                         /\ m # Gone
                         /\ m[title] \in Value /\ m[status] \in Value
                         /\ \A r \in Items : m[r] \in {Absent, Ours}
    /\ Ours # Absent
    /\ Queue!Slot = {title, status} \cup Items
    /\ title \notin Items /\ status \notin Items /\ title # status
BY ItemsAssumption DEF Medium, Value, ItemsAssumption, Queue!Slot

\* Items merge slot by slot; records never clash.
LEMMA MediaMergedFacts ==
    ASSUME NEW b \in Medium \cup {Gone}, NEW l \in Medium, NEW r \in Medium
    PROVE  /\ Queue!MediaMerged(b, l, r) \in Medium
           /\ \A x \in Items : Queue!MediaMerged(b, l, r)[x] =
                                  IF l[x] = Queue!Was(b, x) THEN r[x] ELSE l[x]
           /\ l = b => Queue!MediaMerged(b, l, r) = r
<1> DEFINE m == Queue!MediaMerged(b, l, r)
<1> USE MediumFacts
<1>1. DOMAIN m = {title, status} \cup Items
  BY DEF Queue!MediaMerged
<1>2. \A x \in Items : m[x] = IF l[x] = Queue!Was(b, x) THEN r[x] ELSE l[x]
  <2> SUFFICES ASSUME NEW x \in Items
               PROVE  m[x] = IF l[x] = Queue!Was(b, x) THEN r[x] ELSE l[x]
    OBVIOUS
  <2>1. Queue!Was(b, x) \in {Absent, Ours}
    BY DEF Queue!Was
  <2>2. m[x] = Queue!RecordMerged(Queue!Was(b, x), l[x], r[x])
    BY DEF Queue!MediaMerged, Queue!SlotMerged
  <2> QED
    BY <2>1, <2>2 DEF Queue!RecordMerged, Queue!Clash, Queue!Merged
<1>3. \A s \in {title, status} :
         m[s] = IF l[s] = Queue!Was(b, s) THEN r[s] ELSE l[s]
  BY DEF Queue!MediaMerged, Queue!SlotMerged, Queue!Merged
<1>4. m \in [{title, status} \cup Items -> Value \cup {Absent}]
  <2>1. \A s \in {title, status} \cup Items : m[s] \in Value \cup {Absent}
    BY <1>2, <1>3 DEF Value
  <2> QED
    BY <1>1, <2>1 DEF Queue!MediaMerged
<1>5. m \in Medium
  BY <1>2, <1>3, <1>4 DEF Medium, Value
<1>6. ASSUME l = b PROVE m = r
  <2>1. \A s \in {title, status} \cup Items : m[s] = r[s]
    BY <1>2, <1>3, <1>6 DEF Queue!Was
  <2> QED
    BY <1>4, <2>1 DEF Medium
<1> QED
  BY <1>2, <1>5, <1>6

-----------------------------------------------------------------------------
(* Merging the user's edits into the target.                               *)

Holds(S, u, r) == S.library[u] # Gone /\ S.library[u][r] # Absent

\* Where the items of a library, its baseline and its target come from: the target knows
\* what it has lost of the baseline; an item or record the baseline has not was created
\* since and is in no other; the baseline holds a record once, and the target knew it.
Origins(B, c, T) ==
    /\ \A u \in Items : B.library[u] # Gone /\ T.library[u] = Gone => u \in T.tombstones
    /\ \A u \in Items : c.library[u] # Gone /\ B.library[u] = Gone => u \notin Queue!Known(T)
    /\ \A u, r \in Items : Holds(c, u, r) /\ ~Holds(B, u, r) => r = u /\ r \notin Queue!Known(T)
    /\ \A u, w, r \in Items : Holds(B, u, r) /\ Holds(B, w, r) => u = w
    /\ \A u, r \in Items : Holds(B, u, r) => r \in Queue!Known(T)

\* The snapshot of a library over a baseline.
LEMMA SnapshotFacts ==
    ASSUME NEW B \in Version, NEW c \in Database
    PROVE  /\ Queue!SnapshotOf(c, B) \in Version
           /\ Queue!SnapshotOf(c, B).library = c.library
           /\ Queue!SnapshotOf(c, B).tombstones =
                {u \in Items : /\ c.library[u] = Gone
                               /\ B.library[u] # Gone \/ u \in B.tombstones}
           /\ Queue!ContentOf(Queue!SnapshotOf(c, B)) = c
BY DEF Version, Database, Queue!SnapshotOf, Queue!DeletedSince, Queue!ContentOf

\* What merge_media_uid makes of each item, and of each record in it: the target T changes
\* only where the library differs from its baseline.
LEMMA MergeFacts ==
    ASSUME NEW B \in Version, NEW T \in Version, NEW c \in Database,
           NEW E, E = Queue!SnapshotOf(c, B),
           \A u \in Items : B.library[u] # Gone /\ T.library[u] = Gone => u \in T.tombstones,
           NEW S, S = Queue!Merge(B, E, T)
    PROVE  /\ S \in Version
           /\ \A u \in Items :
                /\ c.library[u] = B.library[u] => S.library[u] = T.library[u]
                /\ c.library[u] # Gone /\ T.library[u] # Gone =>
                      /\ S.library[u] # Gone
                      /\ \A r \in Items : Holds(S, u, r) <=>
                            IF Holds(c, u, r) <=> Holds(B, u, r) THEN Holds(T, u, r)
                                                                 ELSE Holds(c, u, r)
                /\ c.library[u] # Gone /\ T.library[u] = Gone /\ c.library[u] # B.library[u] =>
                      S.library[u] = c.library[u]
                /\ c.library[u] = Gone /\ (B.library[u] # Gone \/ T.library[u] = Gone) =>
                      S.library[u] = Gone
                /\ c.library[u] = Gone /\ B.library[u] = Gone => S.library[u] = T.library[u]
                /\ S.library[u] = Gone => /\ c.library[u] # Gone => u \in S.tombstones
                                          /\ T.library[u] # Gone => u \in S.tombstones
           /\ Queue!Known(T) \subseteq Queue!Known(S)
<1> USE MediumFacts, SnapshotFacts
<1>1. \A u \in Items : /\ B.library[u] \in Medium \cup {Gone}
                       /\ E.library[u] \in Medium \cup {Gone}
                       /\ T.library[u] \in Medium \cup {Gone}
                       /\ c.library[u] \in Medium \cup {Gone}
                       /\ E.library[u] = c.library[u]
  BY DEF Version, Database, Shelf
<1>2. \A u \in Items : S.library[u] = Queue!UidMerged(u, B, E, T)
  BY DEF Queue!Merge
<1>3. \A u \in Items : E.library[u] # Gone /\ T.library[u] # Gone =>
          Queue!MediaMerged(B.library[u], E.library[u], T.library[u]) \in Medium
  BY <1>1, MediaMergedFacts
<1>4. S.library \in Shelf
  <2>1. \A u \in Items : Queue!UidMerged(u, B, E, T) \in Medium \cup {Gone}
    BY <1>1, <1>3 DEF Queue!UidMerged
  <2> QED
    BY <2>1 DEF Queue!Merge, Shelf
<1>5. S.tombstones = {u \in E.tombstones \cup T.tombstones : S.library[u] = Gone}
  BY DEF Queue!Merge, Queue!TombstonesMerged
<1>6. S \in Version
  <2>1. S.pictures \in None /\ S.settings \in None
    BY DEF Queue!Merge, None
  <2>2. S.tombstones \in SUBSET Items
    BY <1>5 DEF Version
  <2> QED
    BY <1>4, <2>1, <2>2 DEF Version, Queue!Merge
<1>7. ASSUME NEW u \in Items
      PROVE  /\ c.library[u] = B.library[u] => S.library[u] = T.library[u]
             /\ c.library[u] # Gone /\ T.library[u] # Gone =>
                      /\ S.library[u] # Gone
                      /\ \A r \in Items : Holds(S, u, r) <=>
                            IF Holds(c, u, r) <=> Holds(B, u, r) THEN Holds(T, u, r)
                                                                 ELSE Holds(c, u, r)
             /\ c.library[u] # Gone /\ T.library[u] = Gone /\ c.library[u] # B.library[u] =>
                      S.library[u] = c.library[u]
             /\ c.library[u] = Gone /\ (B.library[u] # Gone \/ T.library[u] = Gone) =>
                      S.library[u] = Gone
             /\ c.library[u] = Gone /\ B.library[u] = Gone => S.library[u] = T.library[u]
             /\ S.library[u] = Gone => /\ c.library[u] # Gone => u \in S.tombstones
                                       /\ T.library[u] # Gone => u \in S.tombstones
  <2>1. CASE c.library[u] # Gone /\ T.library[u] # Gone
    <3>1. S.library[u] = Queue!MediaMerged(B.library[u], c.library[u], T.library[u])
      BY <1>1, <1>2, <2>1 DEF Queue!UidMerged
    <3>2. S.library[u] \in Medium
      BY <3>1, <1>1, <1>3, <2>1
    <3>3. c.library[u] = B.library[u] => S.library[u] = T.library[u]
      BY <3>1, <1>1, <2>1, MediaMergedFacts
    <3>4. \A r \in Items : S.library[u][r] = IF c.library[u][r] = Queue!Was(B.library[u], r)
                                             THEN T.library[u][r] ELSE c.library[u][r]
      <4>1. B.library[u] \in Medium \cup {Gone} /\ c.library[u] \in Medium
            /\ T.library[u] \in Medium
        BY <1>1, <2>1
      <4>2. \A x \in Items : Queue!MediaMerged(B.library[u], c.library[u], T.library[u])[x] =
              IF c.library[u][x] = Queue!Was(B.library[u], x) THEN T.library[u][x]
                                                              ELSE c.library[u][x]
        BY ONLY <4>1, MediaMergedFacts
      <4> QED
        BY ONLY <3>1, <4>2
    <3>5. \A r \in Items : Holds(S, u, r) <=>
                            IF Holds(c, u, r) <=> Holds(B, u, r) THEN Holds(T, u, r)
                                                                 ELSE Holds(c, u, r)
      BY <3>2, <3>4, <1>1, <2>1 DEF Holds, Queue!Was
    <3> QED
      BY <2>1, <3>2, <3>3, <3>5
  <2>2. CASE c.library[u] # Gone /\ T.library[u] = Gone
    BY <1>1, <1>2, <1>5, <2>2 DEF Queue!UidMerged, Queue!Deleted
  <2>3. CASE c.library[u] = Gone
    BY <1>1, <1>2, <1>5, <2>3 DEF Queue!UidMerged, Queue!Deleted
  <2> QED
    BY <2>1, <2>2, <2>3
<1>8. Queue!Known(T) \subseteq Queue!Known(S)
  BY <1>5, <1>7 DEF Queue!Known, Queue!Live, Version
<1> QED
  BY <1>6, <1>7, <1>8

\* An item of the library that the merge brings back to the target: deleted there and
\* edited here.
Revived(B, c, T, S, u) ==
    /\ T.library[u] = Gone /\ c.library[u] # Gone
    /\ c.library[u] # B.library[u] /\ S.library[u] = c.library[u]

\* A merge of edits leaves the library, as the new baseline, in the same relation to the
\* new target; what it adds to a target comes from revived items only.
LEMMA MergedOrigins ==
    ASSUME NEW B \in Version, NEW T \in Version, NEW c \in Database,
           NEW E, E = Queue!SnapshotOf(c, B), Origins(B, c, T),
           NEW S, S = Queue!Merge(B, E, T)
    PROVE  /\ Origins(E, c, S)
           /\ \A u, r \in Items : Holds(S, u, r) =>
                 \/ Holds(T, u, r)
                 \/ Revived(B, c, T, S, u) /\ Holds(c, u, r)
           /\ \A u \in Items : T.library[u] = Gone /\ S.library[u] # Gone =>
                 Revived(B, c, T, S, u)
           /\ \A u \in Items : Revived(B, c, T, S, u) /\ u \in Queue!Known(T) =>
                 B.library[u] # Gone /\ u \in T.tombstones
<1>1. E.library = c.library
  BY SnapshotFacts
<1>2. \A u \in Items : B.library[u] # Gone /\ T.library[u] = Gone => u \in T.tombstones
  BY DEF Origins
<1>3. S \in Version
  BY <1>2, MergeFacts
<1>4. \A u \in Items :
        /\ c.library[u] = B.library[u] => S.library[u] = T.library[u]
        /\ c.library[u] # Gone /\ T.library[u] # Gone =>
              \A r \in Items : Holds(S, u, r) <=>
                    IF Holds(c, u, r) <=> Holds(B, u, r) THEN Holds(T, u, r)
                                                         ELSE Holds(c, u, r)
        /\ c.library[u] # Gone /\ T.library[u] = Gone /\ c.library[u] # B.library[u] =>
              S.library[u] = c.library[u]
        /\ c.library[u] = Gone /\ (B.library[u] # Gone \/ T.library[u] = Gone) =>
              S.library[u] = Gone
        /\ S.library[u] = Gone /\ c.library[u] # Gone => u \in S.tombstones
  BY <1>2, MergeFacts
<1>5. Queue!Known(T) \subseteq Queue!Known(S)
  BY <1>2, MergeFacts
<1>6. \A u \in Items : T.library[u] = Gone /\ S.library[u] # Gone => Revived(B, c, T, S, u)
  BY <1>4 DEF Revived
<1>7. \A u, r \in Items : Holds(S, u, r) =>
          Holds(T, u, r) \/ (Revived(B, c, T, S, u) /\ Holds(c, u, r))
  <2> SUFFICES ASSUME NEW u \in Items, NEW r \in Items, Holds(S, u, r), ~Holds(T, u, r)
               PROVE  Revived(B, c, T, S, u) /\ Holds(c, u, r)
    OBVIOUS
  <2>1. CASE T.library[u] = Gone
    <3>1. Revived(B, c, T, S, u)
      BY <1>6, <2>1 DEF Holds
    <3>2. S.library[u] = c.library[u]
      BY <3>1 DEF Revived
    <3>3. Holds(c, u, r)
      BY <3>2 DEF Holds
    <3> QED
      BY <3>1, <3>3
  <2>2. CASE T.library[u] # Gone
    <3>1. u \in Queue!Known(T)
      BY <2>2 DEF Queue!Known, Queue!Live
    <3>2. c.library[u] # Gone
      BY <1>4, <2>2 DEF Holds
    <3>3. Holds(c, u, r) /\ ~Holds(B, u, r)
      BY <1>4, <2>2, <3>2
    <3> QED
      BY <3>1, <3>3 DEF Origins
  <2> QED
    BY <2>1, <2>2
<1>8. \A u, w, r \in Items : Holds(c, u, r) /\ Holds(c, w, r) => u = w
  BY DEF Origins
<1>9. \A u, r \in Items : Holds(c, u, r) => r \in Queue!Known(S)
  <2> SUFFICES ASSUME NEW u \in Items, NEW r \in Items, Holds(c, u, r)
               PROVE  r \in Queue!Known(S)
    OBVIOUS
  <2>1. CASE Holds(B, u, r)
    BY <1>5, <2>1 DEF Origins
  <2>2. CASE ~Holds(B, u, r)
    <3>1. r = u /\ r \notin Queue!Known(T)
      BY <2>2 DEF Origins
    <3>2. T.library[u] = Gone /\ u \notin T.tombstones
      BY <3>1 DEF Queue!Known, Queue!Live
    <3>3. B.library[u] = Gone /\ c.library[u] # Gone
      BY <1>2, <3>2 DEF Holds
    <3>4. S.library[u] # Gone
      BY <1>4, <3>2, <3>3
    <3> QED
      BY <3>1, <3>4 DEF Queue!Known, Queue!Live
  <2> QED
    BY <2>1, <2>2
<1>10. Origins(E, c, S)
  BY <1>1, <1>4, <1>8, <1>9 DEF Origins, Holds
<1>11. \A u \in Items : Revived(B, c, T, S, u) /\ u \in Queue!Known(T) =>
          B.library[u] # Gone /\ u \in T.tombstones
  BY DEF Revived, Origins, Queue!Known, Queue!Live
<1> QED
  BY <1>6, <1>7, <1>10, <1>11

-----------------------------------------------------------------------------
(* The questions of a merge.                                               *)

Decides(k, u) == k.kind = "deletion" /\ k.uid = u

Stands(S, K, u, r) ==
    Holds(S, u, r) \/ \E k \in K : Decides(k, u) /\ k.kept[r] # Absent

\* The conflicts of a merge are fields that both sides changed, and items that one side
\* deleted and the other changed.
LEMMA ConflictFacts ==
    ASSUME NEW B \in Version, NEW T \in Version, NEW c \in Database,
           NEW E, E = Queue!SnapshotOf(c, B)
    PROVE  /\ \A k \in Queue!ConflictsOf(B, E, T) :
                /\ Question(k) /\ k.kind # "twin" 
                /\ c.library[k.uid] # B.library[k.uid]
                /\ k.kind = "deletion" =>
                     \/ /\ c.library[k.uid] = Gone /\ B.library[k.uid] # Gone
                        /\ T.library[k.uid] # Gone /\ T.library[k.uid] # B.library[k.uid]
                        /\ k.side = "ours" /\ k.kept = T.library[k.uid]
                     \/ /\ c.library[k.uid] # Gone /\ B.library[k.uid] # Gone
                        /\ T.library[k.uid] = Gone /\ k.uid \in T.tombstones
                        /\ k.side = "theirs" /\ k.kept = c.library[k.uid]
           /\ \A u \in Items :
                /\ c.library[u] = Gone /\ B.library[u] # Gone
                /\ T.library[u] # Gone /\ T.library[u] # B.library[u]
                => Queue!DeletionOf(u, "ours", T.library[u]) \in Queue!ConflictsOf(B, E, T)
           /\ \A u \in Items :
                /\ c.library[u] # Gone /\ B.library[u] # Gone /\ c.library[u] # B.library[u]
                /\ T.library[u] = Gone /\ u \in T.tombstones
                => Queue!DeletionOf(u, "theirs", c.library[u]) \in Queue!ConflictsOf(B, E, T)
<1> DEFINE C(u) == Queue!UidConflicts(u, B, E, T)
           Fields(u) == {Queue!FieldOf(u, s, T.library[u][s]) :
                            s \in C(u) \ {DeleteVsUpdate}}
           Deletion(u) == {Queue!DeletionOf(u, IF c.library[u] = Gone THEN "ours" ELSE "theirs",
                                    IF c.library[u] = Gone THEN T.library[u] ELSE c.library[u]) :
                              s \in C(u) \cap {DeleteVsUpdate}}
<1>1. Queue!ConflictsOf(B, E, T) = UNION {Fields(u) \cup Deletion(u) : u \in Items}
  BY SnapshotFacts DEF Queue!ConflictsOf
<1>2. \A u \in Items : /\ B.library[u] \in Medium \cup {Gone}
                       /\ T.library[u] \in Medium \cup {Gone}
                       /\ c.library[u] \in Medium \cup {Gone}
                       /\ E.library[u] = c.library[u]
                       /\ u \in E.tombstones <=> /\ c.library[u] = Gone
                                                 /\ B.library[u] # Gone \/ u \in B.tombstones
  BY SnapshotFacts DEF Version, Database, Shelf
<1>3. ASSUME NEW u \in Items, c.library[u] # Gone, T.library[u] # Gone
      PROVE  /\ C(u) \subseteq {title, status}
             /\ C(u) # {} => c.library[u] # B.library[u]
  <2>1. C(u) = {s \in {title, status} \cup Items :
                   Queue!SlotClash(s, Queue!Was(B.library[u], s), c.library[u][s], T.library[u][s])}
    BY <1>2, <1>3, MediumFacts DEF Queue!UidConflicts
  <2>2. \A s \in Items : Queue!Was(B.library[u], s) \in {Absent, Ours}
                         /\ c.library[u][s] \in {Absent, Ours} /\ T.library[u][s] \in {Absent, Ours}
    BY <1>2, <1>3, MediumFacts DEF Queue!Was
  <2>3. C(u) \subseteq {title, status}
    BY <2>1, <2>2 DEF Queue!SlotClash, Queue!Clash
  <2>4. ASSUME c.library[u] = B.library[u] PROVE C(u) = {}
    BY <2>1, <2>4, <1>3 DEF Queue!SlotClash, Queue!Clash, Queue!Was
  <2> QED
    BY <2>3, <2>4
<1>4. ASSUME NEW u \in Items, c.library[u] = Gone \/ T.library[u] = Gone
      PROVE  /\ C(u) \subseteq {DeleteVsUpdate}
             /\ DeleteVsUpdate \in C(u) <=>
                  \/ /\ B.library[u] # Gone /\ T.library[u] = Gone /\ u \in T.tombstones
                     /\ c.library[u] # Gone /\ c.library[u] # B.library[u]
                  \/ /\ B.library[u] # Gone /\ c.library[u] = Gone
                     /\ T.library[u] # Gone /\ T.library[u] # B.library[u]
  BY <1>2, <1>4 DEF Queue!UidConflicts, Queue!Deleted
<1>5. DeleteVsUpdate \notin {title, status}
  BY ItemsAssumption DEF ItemsAssumption
<1>6. ASSUME NEW u \in Items, NEW k \in Fields(u)
      PROVE  /\ Question(k) /\ k.kind = "field" /\ k.uid = u
             /\ c.library[u] # B.library[u]
  <2>1. PICK s \in C(u) : s # DeleteVsUpdate /\ k = Queue!FieldOf(u, s, T.library[u][s])
    BY <1>6
  <2>2. c.library[u] # Gone /\ T.library[u] # Gone
    BY <1>4, <2>1
  <2>3. s \in {title, status} /\ c.library[u] # B.library[u]
    BY <1>3, <2>1, <2>2
  <2>4. T.library[u][s] \in Value
    BY <1>2, <2>2, <2>3, MediumFacts
  <2> QED
    BY <2>1, <2>3, <2>4 DEF Queue!FieldOf, Question
<1>7. ASSUME NEW u \in Items, NEW k \in Deletion(u)
      PROVE  /\ Question(k) /\ k.kind = "deletion" /\ k.uid = u
             /\ c.library[u] # B.library[u]
             /\ \/ /\ c.library[u] = Gone /\ B.library[u] # Gone
                   /\ T.library[u] # Gone /\ T.library[u] # B.library[u]
                   /\ k.side = "ours" /\ k.kept = T.library[u]
                \/ /\ c.library[u] # Gone /\ B.library[u] # Gone
                   /\ T.library[u] = Gone /\ u \in T.tombstones
                   /\ k.side = "theirs" /\ k.kept = c.library[u]
  <2>1. /\ DeleteVsUpdate \in C(u)
        /\ k = Queue!DeletionOf(u, IF c.library[u] = Gone THEN "ours" ELSE "theirs",
                                IF c.library[u] = Gone THEN T.library[u] ELSE c.library[u])
    BY <1>7
  <2>2. c.library[u] = Gone \/ T.library[u] = Gone
    BY <1>3, <1>5, <2>1
  <2>3. /\ k = [kind |-> "deletion", uid |-> u, side |-> k.side, kept |-> k.kept]
        /\ k.kind = "deletion" /\ k.uid = u
        /\ k.side = IF c.library[u] = Gone THEN "ours" ELSE "theirs"
        /\ k.kept = IF c.library[u] = Gone THEN T.library[u] ELSE c.library[u]
    BY <2>1 DEF Queue!DeletionOf
  <2>4. k.kept \in Medium
    BY <1>2, <1>4, <2>1, <2>2, <2>3
  <2>5. Question(k)
    BY <2>3, <2>4 DEF Question
  <2> QED
    BY <1>4, <2>1, <2>2, <2>3, <2>5
<1>8. \A k \in Queue!ConflictsOf(B, E, T) : \E u \in Items : k \in Fields(u) \/ k \in Deletion(u)
  BY <1>1
<1>9. \A u \in Items : Deletion(u) \subseteq Queue!ConflictsOf(B, E, T)
  BY <1>1
<1>10. ASSUME NEW u \in Items, DeleteVsUpdate \in C(u)
       PROVE  Queue!DeletionOf(u, IF c.library[u] = Gone THEN "ours" ELSE "theirs",
                               IF c.library[u] = Gone THEN T.library[u] ELSE c.library[u])
                 \in Queue!ConflictsOf(B, E, T)
  BY <1>9, <1>10
<1> HIDE DEF C, Fields, Deletion
<1>11. \A u \in Items :
         /\ c.library[u] = Gone /\ B.library[u] # Gone
         /\ T.library[u] # Gone /\ T.library[u] # B.library[u]
         => Queue!DeletionOf(u, "ours", T.library[u]) \in Queue!ConflictsOf(B, E, T)
  BY <1>4, <1>10
<1>12. \A u \in Items :
         /\ c.library[u] # Gone /\ B.library[u] # Gone /\ c.library[u] # B.library[u]
         /\ T.library[u] = Gone /\ u \in T.tombstones
         => Queue!DeletionOf(u, "theirs", c.library[u]) \in Queue!ConflictsOf(B, E, T)
  BY <1>4, <1>10
<1>13. ASSUME NEW k \in Queue!ConflictsOf(B, E, T)
       PROVE  /\ Question(k) /\ k.kind # "twin"
              /\ c.library[k.uid] # B.library[k.uid]
              /\ k.kind = "deletion" =>
                     \/ /\ c.library[k.uid] = Gone /\ B.library[k.uid] # Gone
                        /\ T.library[k.uid] # Gone /\ T.library[k.uid] # B.library[k.uid]
                        /\ k.side = "ours" /\ k.kept = T.library[k.uid]
                     \/ /\ c.library[k.uid] # Gone /\ B.library[k.uid] # Gone
                        /\ T.library[k.uid] = Gone /\ k.uid \in T.tombstones
                        /\ k.side = "theirs" /\ k.kept = c.library[k.uid]
  <2>1. PICK u \in Items : k \in Fields(u) \/ k \in Deletion(u)
    BY <1>8
  <2>2. CASE k \in Fields(u)
    BY <1>6, <2>2
  <2>3. CASE k \in Deletion(u)
    BY <1>7, <2>3
  <2> QED
    BY <2>1, <2>2, <2>3
<1> QED
  BY <1>11, <1>12, <1>13

\* What refresh_rebased_conflicts leaves of the questions K about the items of S.
LEMMA CurrentFacts ==
    ASSUME NEW S \in Version, NEW K, \A k \in K : Question(k)
    PROVE  /\ \A j \in Queue!Current(K, S) :
                /\ Question(j)
                /\ j.kind = "twin" => j \in K
                /\ j.kind = "field" => j \in K /\ S.library[j.uid] # Gone
                /\ j.kind = "deletion" =>
                     /\ S.library[j.uid] # Gone => j.kept = S.library[j.uid]
                     /\ S.library[j.uid] = Gone => j \in K /\ j.side = "ours"
                     /\ \E k \in K : Decides(k, j.uid) /\ k.side = j.side
           /\ \A k \in K : k.kind = "deletion" =>
                IF S.library[k.uid] # Gone
                THEN \E j \in Queue!Current(K, S) : Decides(j, k.uid)
                ELSE k.side = "ours" => k \in Queue!Current(K, S)
<1> DEFINE Stays(k) == CASE k.kind = "twin" -> TRUE
                         [] k.kind = "field" ->
                              S.library[k.uid] # Gone /\ S.library[k.uid][k.slot] # k.theirs
                         [] k.kind = "deletion" -> S.library[k.uid] # Gone \/ k.side = "ours"
           Now(k) == IF k.kind = "deletion" /\ S.library[k.uid] # Gone
                     THEN [k EXCEPT !.kept = S.library[k.uid]] ELSE k
<1>1. Queue!Current(K, S) = {Now(k) : k \in {k \in K : Stays(k)}}
  BY DEF Queue!Current
<1>2. \A k \in K : /\ k.kind = "field" => k.uid \in Items
                   /\ k.kind = "deletion" =>
                         k \in [kind : {"deletion"}, uid : Items,
                                side : {"ours", "theirs"}, kept : Medium]
  BY DEF Question
<1>3. \A u \in Items : S.library[u] \in Medium \cup {Gone}
  BY DEF Version, Shelf
<1>4. ASSUME NEW k \in K, k.kind = "deletion", S.library[k.uid] # Gone
      PROVE  /\ Now(k) = [kind |-> "deletion", uid |-> k.uid, side |-> k.side,
                          kept |-> S.library[k.uid]]
             /\ Question(Now(k)) /\ Decides(Now(k), k.uid)
             /\ Now(k).side = k.side /\ Now(k).kept = S.library[k.uid]
             /\ Stays(k)
  <2>1. Now(k) = [k EXCEPT !.kept = S.library[k.uid]]
    BY <1>4
  <2>2. Now(k) = [kind |-> "deletion", uid |-> k.uid, side |-> k.side,
                  kept |-> S.library[k.uid]]
    BY <1>2, <1>4, <2>1
  <2>3. k.uid \in Items /\ k.side \in {"ours", "theirs"}
    BY <1>2, <1>4
  <2>4. Question(Now(k)) /\ Decides(Now(k), k.uid)
    BY <1>3, <1>4, <2>2, <2>3 DEF Question, Decides
  <2>5. Stays(k)
    BY <1>4
  <2>6. Now(k).side = k.side /\ Now(k).kept = S.library[k.uid]
    BY <2>2
  <2> QED
    BY <2>2, <2>4, <2>5, <2>6
<1>5. ASSUME NEW k \in K, Stays(k), k.kind # "deletion" \/ S.library[k.uid] = Gone
      PROVE  /\ Now(k) = k
             /\ k.kind = "field" => S.library[k.uid] # Gone
             /\ k.kind = "deletion" => k.side = "ours"
  BY <1>5
<1>6. ASSUME NEW j \in Queue!Current(K, S)
      PROVE  /\ Question(j)
             /\ j.kind = "twin" => j \in K
             /\ j.kind = "field" => j \in K /\ S.library[j.uid] # Gone
             /\ j.kind = "deletion" =>
                  /\ S.library[j.uid] # Gone => j.kept = S.library[j.uid]
                  /\ S.library[j.uid] = Gone => j \in K /\ j.side = "ours"
                  /\ \E k \in K : Decides(k, j.uid) /\ k.side = j.side
  <2>1. PICK k \in K : Stays(k) /\ j = Now(k)
    BY <1>1
  <2>2. CASE k.kind = "deletion" /\ S.library[k.uid] # Gone
    <3>1. /\ Question(j) /\ j.kind = "deletion" /\ j.uid = k.uid /\ j.side = k.side
          /\ j.kept = S.library[j.uid]
      BY <1>4, <2>1, <2>2 DEF Decides
    <3> QED
      BY <2>2, <3>1 DEF Decides
  <2>3. CASE k.kind # "deletion" \/ S.library[k.uid] = Gone
    <3>1. j = k
      BY <1>5, <2>1, <2>3
    <3> QED
      BY <1>5, <2>1, <2>3, <3>1 DEF Decides
  <2> QED
    BY <2>2, <2>3
<1>7. ASSUME NEW k \in K, k.kind = "deletion"
      PROVE  IF S.library[k.uid] # Gone
             THEN \E j \in Queue!Current(K, S) : Decides(j, k.uid)
             ELSE k.side = "ours" => k \in Queue!Current(K, S)
  <2>1. CASE S.library[k.uid] # Gone
    <3>1. Now(k) \in Queue!Current(K, S)
      BY <1>1, <1>4, <1>7, <2>1
    <3> QED
      BY <1>4, <1>7, <2>1, <3>1
  <2>2. ASSUME S.library[k.uid] = Gone, k.side = "ours" PROVE k \in Queue!Current(K, S)
    <3>1. Stays(k) /\ Now(k) = k
      BY <1>7, <2>2
    <3> QED
      BY <1>1, <3>1
  <2> QED
    BY <2>1, <2>2
<1> QED
  BY <1>6, <1>7

\* The questions after a merge of edits are what is current of the old and of the new.
LEMMA JoinedFacts ==
    ASSUME NEW S \in Version, NEW K, \A k \in K : Question(k),
           NEW new, \A k \in new : Question(k),
           NEW J, J = Queue!Joined(K, new, S, TRUE) \/ J = Queue!Joined(K, new, S, FALSE)
    PROVE  /\ J \subseteq Queue!Current(K \cup new, S)
           /\ Queue!Current(K, S) \subseteq J
           /\ \A k \in new : k.kind = "deletion" =>
                IF S.library[k.uid] # Gone
                THEN \E j \in J : Decides(j, k.uid)
                ELSE k.side = "ours" => k \in J \/ \E j \in K : Decides(j, k.uid)
<1>1. /\ Queue!Current(K \cup new, S) = Queue!Current(K, S) \cup Queue!Current(new, S)
      /\ \A X \in SUBSET new :
            Queue!Current(K \cup X, S) = Queue!Current(K, S) \cup Queue!Current(X, S)
  BY DEF Queue!Current
<1>2. \A X \in SUBSET new : Queue!Current(X, S) \subseteq Queue!Current(new, S)
  BY DEF Queue!Current
<1>3. \A X, Y : Queue!Unasked(X, Y) \subseteq X
  BY DEF Queue!Unasked
<1> DEFINE answering == J = Queue!Current(K, S)
                            \cup Queue!Unasked(Queue!Current(new, S), Queue!Current(K, S))
<1>4. answering \/ J = Queue!Current(K \cup Queue!Unasked(new, K), S)
  BY DEF Queue!Joined
<1>5. J \subseteq Queue!Current(K \cup new, S) /\ Queue!Current(K, S) \subseteq J
  <2>1. CASE answering
    BY <1>1, <1>3, <1>4, <2>1
  <2>2. CASE ~answering
    BY <1>1, <1>2, <1>3, <1>4, <2>2
  <2> QED
    BY <2>1, <2>2
<1>6. \A j, k : Queue!SameSlot(j, k) /\ j.kind = "deletion" => Decides(k, j.uid)
  BY DEF Queue!SameSlot, Queue!IsTwin, Decides
<1>7. \A X, Y : \A k \in X : k.kind = "deletion" =>
          k \in Queue!Unasked(X, Y) \/ \E j \in Y : Decides(j, k.uid)
  <2>1. \A j, k : Queue!SameSlot(j, k) /\ k.kind = "deletion" => Decides(j, k.uid)
    BY DEF Queue!SameSlot, Queue!IsTwin, Decides
  <2> QED
    BY <2>1 DEF Queue!Unasked
<1>8. ASSUME NEW k \in new, k.kind = "deletion", S.library[k.uid] # Gone
      PROVE  \E j \in J : Decides(j, k.uid)
  <2>1. CASE answering
    <3>1. PICK i \in Queue!Current(new, S) : Decides(i, k.uid)
      BY <1>8, CurrentFacts
    <3>2. \/ i \in Queue!Unasked(Queue!Current(new, S), Queue!Current(K, S))
          \/ \E j \in Queue!Current(K, S) : Decides(j, i.uid)
      BY <1>7, <3>1 DEF Decides
    <3> QED
      BY <1>4, <2>1, <3>1, <3>2 DEF Decides
  <2>2. CASE ~answering
    <3>1. PICK i \in K \cup Queue!Unasked(new, K) : Decides(i, k.uid)
      BY <1>7, <1>8 DEF Decides
    <3>2. \A q \in K \cup Queue!Unasked(new, K) : Question(q)
      BY <1>3
    <3> QED
      BY <1>4, <1>8, <2>2, <3>1, <3>2, CurrentFacts DEF Decides
  <2> QED
    BY <2>1, <2>2
<1>9. ASSUME NEW k \in new, k.kind = "deletion", S.library[k.uid] = Gone, k.side = "ours"
      PROVE  k \in J \/ \E j \in K : Decides(j, k.uid)
  <2>1. CASE answering
    <3>1. k \in Queue!Current(new, S)
      BY <1>9, CurrentFacts
    <3>2. k \in J \/ \E j \in Queue!Current(K, S) : Decides(j, k.uid)
      BY <1>4, <1>7, <1>9, <2>1, <3>1
    <3>3. \A j \in Queue!Current(K, S) : Decides(j, k.uid) => \E q \in K : Decides(q, k.uid)
      BY CurrentFacts DEF Decides
    <3> QED
      BY <3>2, <3>3
  <2>2. CASE ~answering
    <3>1. k \in Queue!Unasked(new, K) \/ \E j \in K : Decides(j, k.uid)
      BY <1>7, <1>9
    <3>2. \A q \in K \cup Queue!Unasked(new, K) : Question(q)
      BY <1>3
    <3>3. k \in Queue!Unasked(new, K) => k \in J
      BY <1>4, <1>9, <2>2, <3>2, CurrentFacts
    <3> QED
      BY <3>1, <3>3
  <2> QED
    BY <2>1, <2>2
<1> QED
  BY <1>5, <1>8, <1>9

\* A set of numbers has a least one: the intervals up to its members are finite sets, and
\* strict inclusion is well-founded on these.
LEMMA MinFacts ==
    ASSUME NEW X \in SUBSET Nat, X # {}
    PROVE  Queue!Min(X) \in X
<1> DEFINE T == {0..k : k \in X}
<1>1. T \subseteq FiniteSubsetsOf(Nat) /\ T # {}
  <2> SUFFICES ASSUME NEW k \in X PROVE 0..k \in FiniteSubsetsOf(Nat)
    OBVIOUS
  <2>1. IsFiniteSet(0..k)
    BY FS_Interval
  <2> QED
    BY <2>1 DEF FiniteSubsetsOf
<1>2. PICK Y \in T : \A Z \in T : <<Z, Y>> \notin StrictSubsetOrdering(Nat)
  <2> HIDE DEF T
  <2> QED
    BY <1>1, FS_StrictSubsetOrderingWellFounded, WFMin
<1>3. PICK x \in X : Y = 0..x
  OBVIOUS
<1>4. \A y \in X : x <= y
  <2> SUFFICES ASSUME NEW y \in X, y < x PROVE FALSE
    OBVIOUS
  <2>1. 0..y \subseteq 0..x /\ x \in 0..x /\ x \notin 0..y /\ 0..y \subseteq Nat
        /\ 0..x \subseteq Nat
    OBVIOUS
  <2>2. <<0..y, 0..x>> \in StrictSubsetOrdering(Nat)
    BY <2>1 DEF StrictSubsetOrdering
  <2>3. 0..y \in T
    OBVIOUS
  <2> QED
    BY <1>2, <1>3, <2>2, <2>3
<1> QED
  BY <1>4 DEF Queue!Min

\* The twins asked about are two items of the target; the other questions stay.
LEMMA RefreshedFacts ==
    ASSUME NEW S \in Version, NEW K, NEW A, NEW V
    PROVE  /\ \A k \in K : k.kind # "twin" => k \in Queue!Refreshed(K, S, A, V)
           /\ \A k \in Queue!Refreshed(K, S, A, V) :
                IF k.kind = "twin"
                THEN /\ k.ours \in Items /\ k.other \in Items /\ k.ours # k.other
                     /\ S.library[k.ours] # Gone /\ S.library[k.other] # Gone
                ELSE k \in K
<1> DEFINE Sided(a, d, t) ==
             LET old == {k \in K : Queue!IsTwin(k) /\ Queue!Pair(k) = {a, d}}
             IN  IF old # {} THEN CHOOSE k \in old : TRUE
                 ELSE IF /\ Queue!Named(A, d, t) /\ Queue!Named(V, a, t)
                         /\ ~(Queue!Named(A, a, t) /\ Queue!Named(V, d, t))
                 THEN Queue!TwinOf(d, a) ELSE Queue!TwinOf(a, d)
           Twice == {t \in Name : Queue!Cardinality(Queue!Bearers(S, t)) > 1}
           Anch(t) == Queue!Anchor(S, A, t)
<1>1. Queue!Refreshed(K, S, A, V) =
         {k \in K : ~Queue!IsTwin(k)} \cup
         UNION {{Sided(Anch(t), d, t) : d \in Queue!Bearers(S, t) \ {Anch(t)}} : t \in Twice}
  BY DEF Queue!Refreshed
<1>2. ASSUME NEW t \in Name, NEW d \in Queue!Bearers(S, t)
      PROVE  Anch(t) \in Queue!Bearers(S, t)
  <2> DEFINE both == {u \in Queue!Bearers(S, t) : Queue!Named(A, u, t)}
  <2>1. Queue!Bearers(S, t) \subseteq Nat
    BY ItemsAssumption DEF ItemsAssumption, Queue!Bearers
  <2>2. Anch(t) = Queue!Min(IF both = {} THEN Queue!Bearers(S, t) ELSE both)
    BY DEF Queue!Anchor
  <2>3. Queue!Bearers(S, t) # {} /\ both \subseteq Queue!Bearers(S, t)
    BY <1>2
  <2> HIDE DEF both, Anch
  <2>4. CASE both = {}
    BY <2>1, <2>2, <2>3, <2>4, MinFacts
  <2>5. CASE both # {}
    <3>1. Queue!Min(both) \in both
      BY <2>1, <2>3, <2>5, MinFacts
    <3> QED
      BY <2>2, <2>3, <2>5, <3>1
  <2> QED
    BY <2>4, <2>5
<1>3. ASSUME NEW t, NEW a \in Queue!Bearers(S, t), NEW d \in Queue!Bearers(S, t) \ {a},
             NEW k, k = Sided(a, d, t)
      PROVE  /\ k.kind = "twin" /\ k.ours # k.other
             /\ k.ours \in {a, d} /\ k.other \in {a, d}
  <2> DEFINE old == {q \in K : Queue!IsTwin(q) /\ Queue!Pair(q) = {a, d}}
  <2>1. CASE old # {}
    <3>1. k \in old
      BY <1>3, <2>1
    <3> QED
      BY <3>1 DEF Queue!IsTwin, Queue!Pair
  <2>2. CASE old = {}
    <3>1. k = Queue!TwinOf(d, a) \/ k = Queue!TwinOf(a, d)
      BY <1>3, <2>2
    <3> QED
      BY <3>1 DEF Queue!TwinOf
  <2> QED
    BY <2>1, <2>2
<1>4. \A t : \A u \in Queue!Bearers(S, t) : u \in Items /\ S.library[u] # Gone
  BY DEF Queue!Bearers, Queue!Named
<1> HIDE DEF Sided, Anch, Twice
<1>5. ASSUME NEW k \in Queue!Refreshed(K, S, A, V)
      PROVE  IF k.kind = "twin"
             THEN /\ k.ours \in Items /\ k.other \in Items /\ k.ours # k.other
                  /\ S.library[k.ours] # Gone /\ S.library[k.other] # Gone
             ELSE k \in K
  <2>1. CASE k \in K /\ ~Queue!IsTwin(k)
    BY <2>1 DEF Queue!IsTwin
  <2>2. CASE \E t \in Twice : \E d \in Queue!Bearers(S, t) \ {Anch(t)} : k = Sided(Anch(t), d, t)
    <3>1. PICK t \in Twice : \E d \in Queue!Bearers(S, t) \ {Anch(t)} : k = Sided(Anch(t), d, t)
      BY <2>2
    <3>2. PICK d \in Queue!Bearers(S, t) \ {Anch(t)} : k = Sided(Anch(t), d, t)
      BY <3>1
    <3>3. Anch(t) \in Queue!Bearers(S, t)
      BY <1>2, <3>2 DEF Twice
    <3> QED
      BY <1>3, <1>4, <3>2, <3>3
  <2> QED
    BY <1>1, <2>1, <2>2
<1> QED
  BY <1>1, <1>5 DEF Queue!IsTwin

\* A question about a deletion: either the target has lost the item, as the library has,
\* and the question holds it; or the library has it, and the question holds it as it is.
Questions(B, c, T, K) ==
    /\ \A u, r \in Items : Stands(T, K, u, r) => r \in Queue!Known(T)
    /\ \A k \in K : k.kind = "deletion" =>
          IF T.library[k.uid] = Gone
          THEN /\ k.side = "ours" /\ c.library[k.uid] = Gone /\ B.library[k.uid] = Gone
               /\ k.uid \in Queue!Known(T)
          ELSE /\ k.side = "theirs"
               /\ \A r \in Items : k.kept[r] # Absent => Holds(T, k.uid, r)
               /\ \A r \in Items : Holds(T, k.uid, r) =>
                                      k.kept[r] # Absent /\ Holds(B, k.uid, r)

\* The next merge keeps the record r.
Kept(B, c, T, K, r) ==
    \/ \E u \in Items : Stands(T, K, u, r) /\ (Holds(B, u, r) => Holds(c, u, r))
    \/ \E u \in Items : /\ c.library[u] # B.library[u] /\ T.library[u] = Gone
                        /\ Holds(c, u, r)

\* The target S and the questions Q after the edits c to B have been merged into the target
\* T with the questions K; E is the library then.
Rebasing(B, T, c, K, E, S, Q) ==
    /\ \A k \in Q : Question(k)
    /\ \A k \in Q : k.kind = "field" => S.library[k.uid] # Gone
    /\ \A k \in Q : k.kind = "twin" =>
         /\ k.ours \in Items /\ k.other \in Items /\ k.ours # k.other
         /\ S.library[k.ours] # Gone /\ S.library[k.other] # Gone
    /\ Questions(E, c, S, Q)
    /\ \A u, r \in Items : Stands(S, Q, u, r) =>
         Stands(T, K, u, r) \/ (Revived(B, c, T, S, u) /\ Holds(c, u, r))
    /\ \A r \in Items : Kept(B, c, T, K, r) => \E u \in Items : Stands(S, Q, u, r)
    /\ \A u \in Items : Revived(B, c, T, S, u) /\ u \in Queue!Known(T) =>
         \E k \in Q : Decides(k, u)
    /\ \A k \in Q : k.kind # "twin" =>
         (\E j \in K : j.kind # "twin") \/ c.library[k.uid] # B.library[k.uid]
    /\ \A u \in Items : c.library[u] = B.library[u] /\ (\A k \in K : ~Decides(k, u)) =>
         \A k \in Q : ~Decides(k, u)

\* The questions Q after the edits c have been merged into the target T.
LEMMA RebaseFacts ==
    ASSUME NEW B \in Version, NEW T \in Version, NEW c \in Database, NEW K, NEW V,
           \A k \in K : Question(k), Origins(B, c, T), Questions(B, c, T, K),
           NEW E, E = Queue!SnapshotOf(c, B), NEW S, S = Queue!Merge(B, E, T),
           NEW J, \/ J = Queue!Joined(K, Queue!ConflictsOf(B, E, T), S, TRUE)
                  \/ J = Queue!Joined(K, Queue!ConflictsOf(B, E, T), S, FALSE),
           NEW Q, Q = Queue!Refreshed(J, S, E, V)
    PROVE  Rebasing(B, T, c, K, E, S, Q)
<1> DEFINE C == Queue!ConflictsOf(B, E, T)
<1>1. /\ \A u \in Items : B.library[u] # Gone /\ T.library[u] = Gone => u \in T.tombstones
      /\ \A u \in Items : /\ B.library[u] \in Medium \cup {Gone}
                          /\ T.library[u] \in Medium \cup {Gone}
                          /\ c.library[u] \in Medium \cup {Gone}
      /\ E.library = c.library
  BY SnapshotFacts DEF Origins, Version, Database, Shelf
<1>2. /\ S \in Version
      /\ \A u \in Items :
           /\ c.library[u] = B.library[u] => S.library[u] = T.library[u]
           /\ c.library[u] # Gone /\ T.library[u] # Gone =>
                 /\ S.library[u] # Gone
                 /\ \A r \in Items : Holds(S, u, r) <=>
                       IF Holds(c, u, r) <=> Holds(B, u, r) THEN Holds(T, u, r)
                                                            ELSE Holds(c, u, r)
           /\ c.library[u] # Gone /\ T.library[u] = Gone /\ c.library[u] # B.library[u] =>
                 S.library[u] = c.library[u]
           /\ c.library[u] = Gone /\ (B.library[u] # Gone \/ T.library[u] = Gone) =>
                 S.library[u] = Gone
           /\ c.library[u] = Gone /\ B.library[u] = Gone => S.library[u] = T.library[u]
           /\ S.library[u] = Gone => /\ c.library[u] # Gone => u \in S.tombstones
                                     /\ T.library[u] # Gone => u \in S.tombstones
      /\ Queue!Known(T) \subseteq Queue!Known(S)
  BY <1>1, MergeFacts
<1>3. /\ Origins(E, c, S)
      /\ \A u, r \in Items : Holds(S, u, r) =>
            \/ Holds(T, u, r)
            \/ Revived(B, c, T, S, u) /\ Holds(c, u, r)
      /\ \A u \in Items : Revived(B, c, T, S, u) /\ u \in Queue!Known(T) =>
            B.library[u] # Gone /\ u \in T.tombstones
  BY MergedOrigins
<1>4. \A k \in C :
        /\ Question(k) /\ k.kind # "twin"
        /\ c.library[k.uid] # B.library[k.uid]
        /\ k.kind = "deletion" =>
             \/ /\ c.library[k.uid] = Gone /\ B.library[k.uid] # Gone
                /\ T.library[k.uid] # Gone /\ T.library[k.uid] # B.library[k.uid]
                /\ k.side = "ours" /\ k.kept = T.library[k.uid]
             \/ /\ c.library[k.uid] # Gone /\ B.library[k.uid] # Gone
                /\ T.library[k.uid] = Gone /\ k.uid \in T.tombstones
                /\ k.side = "theirs" /\ k.kept = c.library[k.uid]
  BY ConflictFacts
<1>5. \A k \in K \cup C : Question(k)
  BY <1>4
<1>6. /\ J \subseteq Queue!Current(K \cup C, S)
      /\ Queue!Current(K, S) \subseteq J
      /\ \A k \in C : k.kind = "deletion" =>
           IF S.library[k.uid] # Gone
           THEN \E j \in J : Decides(j, k.uid)
           ELSE k.side = "ours" => k \in J \/ \E j \in K : Decides(j, k.uid)
  <2>1. (\A k \in K : Question(k)) /\ (\A k \in C : Question(k))
    BY <1>5
  <2>2. S \in Version /\ (J = Queue!Joined(K, C, S, TRUE) \/ J = Queue!Joined(K, C, S, FALSE))
    BY <1>2
  <2> HIDE DEF C
  <2> QED
    BY ONLY <2>1, <2>2, JoinedFacts
<1>7. \A j \in J :
        /\ Question(j)
        /\ j.kind = "twin" => j \in K
        /\ j.kind = "field" => j \in K \cup C /\ S.library[j.uid] # Gone
        /\ j.kind = "deletion" =>
             /\ S.library[j.uid] # Gone => j.kept = S.library[j.uid]
             /\ S.library[j.uid] = Gone => j \in K \cup C /\ j.side = "ours"
             /\ \E k \in K \cup C : Decides(k, j.uid) /\ k.side = j.side
  BY <1>2, <1>4, <1>5, <1>6, CurrentFacts
<1>8. /\ \A k \in J : k.kind # "twin" => k \in Q
      /\ \A k \in Q : IF k.kind = "twin"
                      THEN /\ k.ours \in Items /\ k.other \in Items /\ k.ours # k.other
                           /\ S.library[k.ours] # Gone /\ S.library[k.other] # Gone
                      ELSE k \in J
  BY <1>2, RefreshedFacts
<1> HIDE DEF C
<1>9. /\ \A k \in Q : Question(k)
      /\ \A k \in Q : k.kind = "field" => S.library[k.uid] # Gone
      /\ \A k \in Q : k.kind = "twin" =>
           /\ k.ours \in Items /\ k.other \in Items /\ k.ours # k.other
           /\ S.library[k.ours] # Gone /\ S.library[k.other] # Gone
  BY <1>7, <1>8 DEF Question
<1>10. \A k \in Q : k.kind = "deletion" => k.uid \in Items /\ k.kept \in Medium
  BY <1>9 DEF Question
<1>11. ASSUME NEW j \in Q, j.kind = "deletion"
       PROVE  /\ S.library[j.uid] # Gone => j.kept = S.library[j.uid]
              /\ S.library[j.uid] = Gone => j \in K \cup C /\ j.side = "ours"
              /\ \E k \in K \cup C : Decides(k, j.uid) /\ k.side = j.side
  BY <1>7, <1>8, <1>11
<1>12. ASSUME NEW u \in Items, NEW r \in Items, Stands(S, Q, u, r)
       PROVE  Stands(T, K, u, r) \/ (Revived(B, c, T, S, u) /\ Holds(c, u, r))
  <2>1. CASE Holds(S, u, r)
    BY <1>3, <2>1 DEF Stands
  <2>2. CASE ~Holds(S, u, r)
    <3>1. PICK j \in Q : Decides(j, u) /\ j.kept[r] # Absent
      BY <1>12, <2>2 DEF Stands
    <3>2. S.library[u] = Gone /\ j \in K \cup C /\ j.side = "ours"
      BY <1>11, <2>2, <3>1 DEF Decides, Holds
    <3>3. CASE j \in K
      BY <3>1, <3>3 DEF Stands
    <3>4. CASE j \in C
      <4>1. T.library[u] # Gone /\ j.kept = T.library[u]
        BY <1>4, <3>1, <3>2, <3>4 DEF Decides
      <4> QED
        BY <3>1, <4>1 DEF Stands, Holds
    <3> QED
      BY <3>2, <3>3, <3>4
  <2> QED
    BY <2>1, <2>2
<1>13. \A u, r \in Items : Stands(S, Q, u, r) => r \in Queue!Known(S)
  <2>1. \A u, r \in Items : Holds(c, u, r) => r \in Queue!Known(S)
    BY <1>1, <1>3 DEF Origins, Holds
  <2>2. \A u, r \in Items : Stands(T, K, u, r) => r \in Queue!Known(T)
    BY DEF Questions
  <2> QED
    BY <1>2, <1>12, <2>1, <2>2
<1>14. ASSUME NEW j \in Q, j.kind = "deletion"
       PROVE  IF S.library[j.uid] = Gone
              THEN /\ j.side = "ours" /\ c.library[j.uid] = Gone /\ E.library[j.uid] = Gone
                   /\ j.uid \in Queue!Known(S)
              ELSE /\ j.side = "theirs"
                   /\ \A r \in Items : j.kept[r] # Absent => Holds(S, j.uid, r)
                   /\ \A r \in Items : Holds(S, j.uid, r) =>
                                          j.kept[r] # Absent /\ Holds(E, j.uid, r)
  <2> DEFINE w == j.uid
  <2>1. w \in Items
    BY <1>10, <1>14
  <2>2. CASE S.library[w] = Gone
    <3>1. j.side = "ours" /\ j \in K \cup C
      BY <1>11, <1>14, <2>2
    <3>2. CASE j \in K
      <4>1. T.library[w] = Gone /\ c.library[w] = Gone /\ w \in Queue!Known(T)
        BY <1>14, <3>1, <3>2 DEF Questions
      <4> QED
        BY <1>1, <1>2, <2>2, <3>1, <4>1
    <3>3. CASE j \in C
      <4>1. c.library[w] = Gone /\ T.library[w] # Gone
        BY <1>4, <1>14, <3>1, <3>3
      <4>2. w \in S.tombstones
        BY <1>2, <2>1, <2>2, <4>1
      <4> QED
        BY <1>1, <2>2, <3>1, <4>1, <4>2 DEF Queue!Known
    <3> QED
      BY <3>1, <3>2, <3>3
  <2>3. CASE S.library[w] # Gone
    <3>1. PICK k \in K \cup C : Decides(k, w) /\ k.side = j.side
      BY <1>11, <1>14
    <3>2. j.kept = S.library[w]
      BY <1>11, <1>14, <2>3
    <3>3. j.side = "theirs" /\ \A r \in Items : Holds(S, w, r) => Holds(c, w, r)
      <4>1. CASE k \in C
        <5>1. c.library[w] # Gone /\ T.library[w] = Gone /\ k.side = "theirs"
              /\ c.library[w] # B.library[w]
          BY <1>2, <1>4, <2>1, <2>3, <3>1, <4>1 DEF Decides
        <5>2. S.library[w] = c.library[w]
          BY <1>2, <2>1, <5>1
        <5> QED
          BY <3>1, <5>1, <5>2 DEF Holds
      <4>2. CASE k \in K
        <5>1. T.library[w] # Gone
          <6> SUFFICES ASSUME T.library[w] = Gone PROVE FALSE
            OBVIOUS
          <6>1. c.library[w] = Gone /\ B.library[w] = Gone
            BY <3>1, <4>2 DEF Questions, Decides
          <6> QED
            BY <1>2, <2>1, <2>3, <6>1
        <5>2. k.side = "theirs" /\ \A r \in Items : Holds(T, w, r) => Holds(B, w, r)
          BY <3>1, <4>2, <5>1 DEF Questions, Decides
        <5>3. CASE c.library[w] = Gone
          <6>1. B.library[w] = Gone /\ S.library[w] = T.library[w]
            BY <1>2, <2>1, <2>3, <5>3
          <6> QED
            BY <3>1, <5>2, <6>1 DEF Holds
        <5>4. CASE c.library[w] # Gone
          BY <1>2, <2>1, <3>1, <5>1, <5>2, <5>4
        <5> QED
          BY <5>3, <5>4
      <4> QED
        BY <4>1, <4>2
    <3> QED
      BY <1>1, <2>3, <3>2, <3>3 DEF Holds
  <2> QED
    BY <2>2, <2>3
<1>15. Questions(E, c, S, Q)
  BY <1>13, <1>14 DEF Questions
<1>16. ASSUME NEW r \in Items, Kept(B, c, T, K, r)
       PROVE  \E u \in Items : Stands(S, Q, u, r)
  <2>1. ASSUME NEW u \in Items, c.library[u] # B.library[u], T.library[u] = Gone, Holds(c, u, r)
        PROVE  Stands(S, Q, u, r)
    BY <1>2, <2>1 DEF Stands, Holds
  <2>2. ASSUME NEW u \in Items, Stands(T, K, u, r), Holds(B, u, r) => Holds(c, u, r)
        PROVE  Stands(S, Q, u, r)
    <3>1. CASE T.library[u] = Gone
      <4>1. PICK k \in K : Decides(k, u) /\ k.kept[r] # Absent
        BY <2>2, <3>1 DEF Stands, Holds
      <4>2. k.side = "ours" /\ c.library[u] = Gone /\ B.library[u] = Gone
        BY <3>1, <4>1 DEF Questions, Decides
      <4>3. S.library[u] = Gone
        BY <1>2, <3>1, <4>2
      <4>4. k \in Queue!Current(K, S)
        BY <1>2, <4>1, <4>2, <4>3, CurrentFacts DEF Decides
      <4>5. k \in Q
        BY <1>6, <1>8, <4>1, <4>4 DEF Decides
      <4> QED
        BY <4>1, <4>5 DEF Stands
    <3>2. CASE T.library[u] # Gone
      <4>1. Holds(T, u, r)
        BY <2>2, <3>2 DEF Questions, Stands, Decides
      <4>2. CASE c.library[u] # Gone
        <5>1. Holds(S, u, r)
          BY <1>2, <2>2, <3>2, <4>1, <4>2
        <5> QED
          BY <5>1 DEF Stands
      <4>3. CASE c.library[u] = Gone /\ B.library[u] = Gone
        <5>1. S.library[u] = T.library[u]
          BY <1>2, <4>3
        <5> QED
          BY <4>1, <5>1 DEF Stands, Holds
      <4>4. CASE c.library[u] = Gone /\ B.library[u] # Gone
        <5>1. ~Holds(B, u, r)
          BY <2>2, <4>4 DEF Holds
        <5>2. T.library[u] # B.library[u]
          BY <4>1, <5>1 DEF Holds
        <5> DEFINE k == Queue!DeletionOf(u, "ours", T.library[u])
        <5>3. k \in C
          BY <3>2, <4>4, <5>2, ConflictFacts DEF C
        <5>4. k.kind = "deletion" /\ k.uid = u /\ k.side = "ours" /\ k.kept = T.library[u]
          BY DEF Queue!DeletionOf
        <5>5. \A j \in K : ~Decides(j, u)
          BY <3>2, <4>1, <5>1 DEF Questions, Decides
        <5>6. S.library[u] = Gone
          BY <1>2, <4>4
        <5> HIDE DEF k
        <5>7. k \in J
          BY <1>6, <5>3, <5>4, <5>5, <5>6
        <5>8. k \in Q
          BY <1>8, <5>4, <5>7
        <5> QED
          BY <4>1, <5>4, <5>8 DEF Stands, Decides, Holds
      <4> QED
        BY <4>2, <4>3, <4>4
    <3> QED
      BY <3>1, <3>2
  <2> QED
    BY <1>16, <2>1, <2>2 DEF Kept
<1>17. ASSUME NEW u \in Items, Revived(B, c, T, S, u), u \in Queue!Known(T)
       PROVE  \E k \in Q : Decides(k, u)
  <2>1. /\ T.library[u] = Gone /\ c.library[u] # Gone /\ c.library[u] # B.library[u]
        /\ S.library[u] # Gone
    BY <1>17 DEF Revived
  <2>2. B.library[u] # Gone /\ u \in T.tombstones
    BY <1>3, <1>17
  <2> DEFINE k == Queue!DeletionOf(u, "theirs", c.library[u])
  <2>3. k \in C
    BY <2>1, <2>2, ConflictFacts DEF C
  <2>4. k.kind = "deletion" /\ k.uid = u
    BY DEF Queue!DeletionOf
  <2> HIDE DEF k
  <2>5. PICK j \in J : Decides(j, u)
    BY <1>6, <2>1, <2>3, <2>4
  <2> QED
    BY <1>8, <2>5 DEF Decides
<1>18. ASSUME NEW j \in Q, j.kind # "twin"
       PROVE  (\E k \in K : k.kind # "twin") \/ c.library[j.uid] # B.library[j.uid]
  <2>1. j.kind = "field" \/ j.kind = "deletion"
    BY <1>9, <1>18 DEF Question
  <2>2. \E k \in K \cup C : k.kind # "twin" /\ k.uid = j.uid
    BY <1>7, <1>8, <1>18, <2>1 DEF Decides
  <2> QED
    BY <1>4, <2>2
<1>19. ASSUME NEW u \in Items, c.library[u] = B.library[u], \A k \in K : ~Decides(k, u),
              NEW j \in Q
       PROVE  ~Decides(j, u)
  <2> SUFFICES ASSUME Decides(j, u) PROVE FALSE
    OBVIOUS
  <2>1. PICK k \in K \cup C : Decides(k, u)
    BY <1>11 DEF Decides
  <2> QED
    BY <1>4, <1>19, <2>1 DEF Decides
<1> QED
  BY <1>9, <1>12, <1>15, <1>16, <1>17, <1>18, <1>19 DEF Rebasing

-----------------------------------------------------------------------------
(* Answers.                                                                *)

\* The questions Q asked of S are about its items.
Asked(S, Q) ==
    /\ \A k \in Q : Question(k)
    /\ \A k \in Q : k.kind = "field" => S.library[k.uid] # Gone
    /\ \A k \in Q : k.kind = "twin" =>
         /\ k.ours \in Items /\ k.other \in Items /\ k.ours # k.other
         /\ S.library[k.ours] # Gone /\ S.library[k.other] # Gone

\* An answer that touches no record: a name, a side of a field, or nothing.
Minor(S, T, res, now) ==
    /\ T.tombstones = S.tombstones
    /\ \A u \in Items : T.library[u] = Gone <=> S.library[u] = Gone
    /\ \A u, r \in Items : Holds(T, u, r) <=> Holds(S, u, r)
    /\ res.new = {} /\ res.drops = {}
    /\ \A q \in now : q.kind # "deletion"

\* The end of the item w, or its return.
Fate(S, T, res, Q, now, w) ==
    /\ \A q \in now : Decides(q, w)
    /\ \A q \in Q : Decides(q, w) => q \in now
    /\ \A u \in Items \ {w} : T.library[u] = S.library[u]
    /\ \/ T.library[w] = Gone /\ T.tombstones = S.tombstones \cup {w}
       \/ /\ \E j \in now : T.library[w] = j.kept /\ j.kept \in Medium
          /\ T.tombstones = S.tombstones \ {w}
    /\ res.new = {} /\ res.drops = {}

\* The item o goes into l.
Union(S, T, res, Q, now, l, o) ==
    /\ l # o /\ S.library[l] # Gone /\ S.library[o] # Gone
    /\ \A q \in Q : q.kind # "twin" => q.uid # l /\ q.uid # o
    /\ \A u \in Items \ {l, o} : T.library[u] = S.library[u]
    /\ T.library[l] # Gone /\ T.library[o] = Gone
    /\ \A r \in Items : Holds(T, l, r) <=> Holds(S, l, r) \/ Holds(S, o, r)
    /\ T.tombstones = (S.tombstones \ {l}) \cup {o}
    /\ res.drops = {o}
    /\ \A q \in res.new : Question(q) /\ q.kind = "field"
    /\ \A q \in now : q.kind = "twin"

\* One question q of the kind of k is answered.
LEMMA OneResult ==
    ASSUME NEW S \in Version, NEW Q, Asked(S, Q), NEW k,
           NEW now, now = {j \in Q : Queue!SameSlot(j, k)},
           NEW q \in now, NEW res \in Queue!Results(S, q, Q),
           NEW T, T = res.target
    PROVE  /\ T \in Version
           /\ \/ Minor(S, T, res, now)
              \/ k.kind = "deletion" /\ k.uid \in Items /\ Fate(S, T, res, Q, now, k.uid)
              \/ k.kind = "twin" /\ \E l, o \in Items : Union(S, T, res, Q, now, l, o)
<1>1. /\ \A j \in now : j.kind = k.kind
      /\ q \in Q /\ q.kind = k.kind
      /\ k.kind # "twin" => \A j \in now : j.uid = k.uid
  BY DEF Queue!SameSlot, Queue!IsTwin
<1>2. k.kind \in {"twin", "field", "deletion"}
  BY <1>1 DEF Asked, Question
<1>3. \A u \in Items : S.library[u] \in Medium \cup {Gone}
  BY DEF Version, Shelf
<1>4. S = [library |-> S.library, pictures |-> S.pictures, settings |-> S.settings,
           tombstones |-> S.tombstones]
      /\ S.library \in [Items -> Medium \cup {Gone}]
  BY DEF Version, Shelf
<1>5. ASSUME NEW u \in Items, NEW s \in {title, status}, NEW v \in Value, S.library[u] # Gone,
             T = [S EXCEPT !.library[u][s] = v], res.new = {}, res.drops = {},
             k.kind # "deletion"
      PROVE  T \in Version /\ Minor(S, T, res, now)
  <2> DEFINE m == [S.library[u] EXCEPT ![s] = v]
  <2>1. S.library[u] \in Medium
    BY <1>3, <1>5
  <2>2. m \in Medium /\ \A r \in Items : m[r] = S.library[u][r]
    BY <2>1, MediumFacts, ItemsAssumption DEF Medium, Value, ItemsAssumption
  <2>3. T = [S EXCEPT !.library = [S.library EXCEPT ![u] = m]]
    BY <1>4, <1>5
  <2> HIDE DEF m
  <2>4. /\ T \in Version /\ T.tombstones = S.tombstones
        /\ \A w \in Items : T.library[w] = IF w = u THEN m ELSE S.library[w]
    BY <1>4, <2>2, <2>3 DEF Version, Shelf
  <2>5. m # Gone
    BY <2>2, MediumFacts
  <2> QED
    BY <1>1, <1>5, <2>2, <2>4, <2>5 DEF Minor, Holds
<1>6. ASSUME T = S, res.new = {}, res.drops = {}, k.kind # "deletion"
      PROVE  T \in Version /\ Minor(S, T, res, now)
  BY <1>1, <1>6 DEF Minor
<1>7. CASE k.kind = "field"
  <2>1. q \in [kind : {"field"}, uid : Items, slot : {title, status}, theirs : Value]
        /\ S.library[q.uid] # Gone
    BY <1>1, <1>7 DEF Asked, Question
  <2>2. res \in Queue!Sides(S, q)
    BY <1>1, <1>7 DEF Queue!Results
  <2>3. res.new = {} /\ res.drops = {}
        /\ (T = S \/ T = [S EXCEPT !.library[q.uid][q.slot] = q.theirs])
    BY <2>2 DEF Queue!Sides, Queue!Result
  <2> QED
    BY <1>5, <1>6, <1>7, <2>1, <2>3
<1>8. CASE k.kind = "deletion"
  <2>1. q \in [kind : {"deletion"}, uid : Items, side : {"ours", "theirs"}, kept : Medium]
        /\ q.uid = k.uid
    BY <1>1, <1>8 DEF Asked, Question
  <2>2. res \in Queue!Fates(S, q)
    BY <1>1, <1>8 DEF Queue!Results
  <2>3. /\ res.new = {} /\ res.drops = {}
        /\ \/ T = [S EXCEPT !.library[q.uid] = Gone, !.tombstones = @ \cup {q.uid}]
           \/ T = [S EXCEPT !.library[q.uid] = q.kept, !.tombstones = @ \ {q.uid}]
    BY <2>2 DEF Queue!Fates, Queue!Result
  <2>4. /\ T \in Version
        /\ \A u \in Items \ {k.uid} : T.library[u] = S.library[u]
        /\ \/ T.library[k.uid] = Gone /\ T.tombstones = S.tombstones \cup {k.uid}
           \/ T.library[k.uid] = q.kept /\ T.tombstones = S.tombstones \ {k.uid}
    <3>1. ASSUME NEW x \in Medium \cup {Gone}, NEW X \in SUBSET Items,
                 T = [S EXCEPT !.library = [S.library EXCEPT ![k.uid] = x], !.tombstones = X]
          PROVE  /\ T \in Version /\ T.tombstones = X
                 /\ T.library = [S.library EXCEPT ![k.uid] = x]
      <4> DEFINE lib == [S.library EXCEPT ![k.uid] = x]
      <4>1. lib \in Shelf
        BY <1>4, <2>1 DEF Shelf
      <4>2. T = [S EXCEPT !.library = lib, !.tombstones = X]
        BY <3>1
      <4>3. T \in Version /\ T.library = lib /\ T.tombstones = X
        <5> HIDE DEF lib
        <5> QED
          BY ONLY <4>1, <4>2, S \in Version, X \in SUBSET Items DEF Version
      <4> QED
        BY <4>3
    <3>2. S.tombstones \cup {k.uid} \in SUBSET Items /\ S.tombstones \ {k.uid} \in SUBSET Items
          /\ q.kept \in Medium
      BY <2>1 DEF Version
    <3>3. CASE T = [S EXCEPT !.library[q.uid] = Gone, !.tombstones = @ \cup {q.uid}]
      <4>1. T = [S EXCEPT !.library = [S.library EXCEPT ![k.uid] = Gone],
                          !.tombstones = S.tombstones \cup {k.uid}]
        BY <1>4, <2>1, <3>3
      <4>2. /\ T \in Version /\ T.tombstones = S.tombstones \cup {k.uid}
            /\ T.library = [S.library EXCEPT ![k.uid] = Gone]
        BY <3>1, <3>2, <4>1
      <4> QED
        BY <1>4, <2>1, <4>2
    <3>4. CASE T = [S EXCEPT !.library[q.uid] = q.kept, !.tombstones = @ \ {q.uid}]
      <4>1. T = [S EXCEPT !.library = [S.library EXCEPT ![k.uid] = q.kept],
                          !.tombstones = S.tombstones \ {k.uid}]
        BY <1>4, <2>1, <3>4
      <4>2. /\ T \in Version /\ T.tombstones = S.tombstones \ {k.uid}
            /\ T.library = [S.library EXCEPT ![k.uid] = q.kept]
        BY <3>1, <3>2, <4>1
      <4> QED
        BY <1>4, <2>1, <4>2
    <3> QED
      BY <2>3, <3>3, <3>4
  <2>5. \A j \in now : Decides(j, k.uid)
    BY <1>1, <1>8 DEF Decides
  <2>6. \A j \in Q : Decides(j, k.uid) => j \in now
    BY <1>8 DEF Decides, Queue!SameSlot, Queue!IsTwin
  <2>7. Fate(S, T, res, Q, now, k.uid)
    BY <2>1, <2>3, <2>4, <2>5, <2>6 DEF Fate
  <2> QED
    BY <1>8, <2>1, <2>4, <2>7
<1>9. CASE k.kind = "twin"
  <2> DEFINE l == q.ours
             o == q.other
  <2>1. /\ l \in Items /\ o \in Items /\ l # o
        /\ S.library[l] \in Medium /\ S.library[o] \in Medium
    BY <1>1, <1>3, <1>9 DEF Asked
  <2>2. res \in Queue!Combinations(S, q, Q) \cup Queue!Renamings(S, q, Q)
    BY <1>1, <1>9 DEF Queue!Results
  <2>3. ASSUME res \in Queue!Renamings(S, q, Q)
        PROVE  T \in Version /\ Minor(S, T, res, now)
    <3>1. PICK u \in {l, o}, t \in Name :
             res = Queue!Result(Queue!Titled(S, u, t), {}, {})
      BY <2>3 DEF Queue!Renamings, Queue!Pair
    <3>2. /\ T = [S EXCEPT !.library[u][title] = t]
          /\ res.new = {} /\ res.drops = {}
      BY <3>1 DEF Queue!Result, Queue!Titled
    <3>3. u \in Items /\ S.library[u] # Gone /\ t \in Value
      BY <2>1, MediumFacts DEF Value
    <3> QED
      BY <1>5, <1>9, <3>2, <3>3
  <2>4. ASSUME res \in Queue!Combinations(S, q, Q)
        PROVE  T \in Version /\ Union(S, T, res, Q, now, l, o)
    <3>1. /\ Queue!Ready(q, Q)
          /\ res = Queue!Result(Queue!Combined(S, q), Queue!Undecided(S, q), {q.other})
      BY <2>4 DEF Queue!Combinations
    <3> DEFINE m == Queue!MediaMerged(Gone, S.library[l], S.library[o])
               lib == [S.library EXCEPT ![l] = m, ![o] = Gone]
               gone == (S.tombstones \ {l}) \cup {o}
    <3>2. /\ T = [S EXCEPT !.library = lib, !.tombstones = gone]
          /\ res.new = Queue!Undecided(S, q) /\ res.drops = {o}
      <4>1. T = Queue!Combined(S, q) /\ res.new = Queue!Undecided(S, q) /\ res.drops = {o}
        BY <3>1 DEF Queue!Result
      <4>2. Queue!Combined(S, q) = [S EXCEPT !.library = lib, !.tombstones = gone]
        BY <1>4, <2>1 DEF Queue!Combined
      <4> QED
        BY <4>1, <4>2
    <3>3. /\ m \in Medium
          /\ \A r \in Items : m[r] = IF S.library[l][r] = Absent THEN S.library[o][r]
                                                                 ELSE S.library[l][r]
      <4>1. /\ m \in Medium
            /\ \A r \in Items : m[r] = IF S.library[l][r] = Queue!Was(Gone, r)
                                       THEN S.library[o][r] ELSE S.library[l][r]
        BY <2>1, MediaMergedFacts
      <4> QED
        BY <4>1 DEF Queue!Was
    <3> HIDE DEF m
    <3>4. /\ T \in Version
          /\ \A u \in Items \ {l, o} : T.library[u] = S.library[u]
          /\ T.library[l] = m /\ T.library[o] = Gone
          /\ T.tombstones = (S.tombstones \ {l}) \cup {o}
      <4>1. lib \in Shelf
        BY <1>4, <2>1, <3>3 DEF Shelf
      <4>2. gone \in SUBSET Items
        BY <2>1 DEF Version
      <4>3. /\ \A u \in Items \ {l, o} : lib[u] = S.library[u]
            /\ lib[l] = m /\ lib[o] = Gone
        BY <1>4, <2>1
      <4> HIDE DEF lib, gone
      <4>4. T \in Version /\ T.library = lib /\ T.tombstones = gone
        BY ONLY <3>2, <4>1, <4>2, S \in Version DEF Version
      <4> QED
        BY <4>3, <4>4 DEF gone
    <3>5. \A r \in Items : Holds(T, l, r) <=> Holds(S, l, r) \/ Holds(S, o, r)
      BY <2>1, <3>3, <3>4, MediumFacts DEF Holds
    <3>6. \A j \in Q : j.kind # "twin" => j.uid # l /\ j.uid # o
      BY <3>1 DEF Queue!Ready, Queue!IsTwin, Queue!Pair
    <3>7. \A j \in res.new : Question(j) /\ j.kind = "field"
      <4> SUFFICES ASSUME NEW j \in Queue!Undecided(S, q)
                   PROVE  Question(j) /\ j.kind = "field"
        BY <3>2
      <4>1. PICK s \in DOMAIN S.library[o] :
               /\ Queue!SlotClash(s, Absent, S.library[l][s], S.library[o][s])
               /\ j = Queue!FieldOf(l, s, S.library[o][s])
        BY DEF Queue!Undecided
      <4>2. s \in {title, status} \cup Items
        BY <2>1, <4>1, MediumFacts
      <4>3. s \in {title, status}
        BY <2>1, <4>1, <4>2, MediumFacts DEF Queue!SlotClash, Queue!Clash
      <4>4. S.library[o][s] \in Value
        BY <2>1, <4>3, MediumFacts
      <4> QED
        BY <2>1, <4>1, <4>3, <4>4 DEF Queue!FieldOf, Question
    <3>8. T.library[l] # Gone /\ S.library[l] # Gone /\ S.library[o] # Gone
      BY <2>1, <3>3, <3>4, MediumFacts
    <3>9. \A j \in now : j.kind = "twin"
      BY <1>1, <1>9
    <3> QED
      BY <2>1, <3>2, <3>4, <3>5, <3>6, <3>7, <3>8, <3>9 DEF Union
  <2> QED
    BY <1>9, <2>1, <2>2, <2>3, <2>4
<1> QED
  BY <1>2, <1>7, <1>8, <1>9

\* Recorded and KeptBy as predicates.
LEMMA RecordedFacts ==
    /\ \A S \in Version, r \in Items :
         r \in Queue!Recorded(S) <=> \E u \in Items : Holds(S, u, r)
    /\ \A K : (\A k \in K : Question(k)) =>
         \A r \in Items :
           r \in Queue!KeptBy(K) <=> \E k \in K : k.kind = "deletion" /\ k.kept[r] # Absent
<1>1. \A S \in Version, r \in Items :
         r \in Queue!Recorded(S) <=> \E u \in Items : Holds(S, u, r)
  BY DEF Queue!Recorded, Queue!RecordsOf, Holds
<1>2. ASSUME NEW K, \A k \in K : Question(k), NEW r \in Items
      PROVE  r \in Queue!KeptBy(K) <=> \E k \in K : k.kind = "deletion" /\ k.kept[r] # Absent
  <2>1. \A k \in K : k.kind = "deletion" => k.kept # Gone
    BY <1>2, MediumFacts DEF Question
  <2> QED
    BY <2>1 DEF Queue!KeptBy, Queue!RecordsOf
<1> QED
  BY <1>1, <1>2

\* The answer res to k, given on the questions Q about S, has made T and P of them: it
\* moves the records of a combined item, and drops only those it decides.
Answered(E, S, T, c, Q, P, k, now, res) ==
    /\ \A q \in P : Question(q)
    /\ Origins(E, c, T)
    /\ Questions(E, c, T, P)
    /\ res.drops \subseteq Items
    /\ Queue!Known(S) \cup res.drops \subseteq Queue!Known(T)
    /\ \A u, r \in Items : Stands(T, P, u, r) =>
         Stands(S, Q, u, r) \/ \E o \in res.drops : o # u /\ Stands(S, Q, o, r)
    /\ \A u, w, r \in Items :
         /\ Stands(T, P, u, r) /\ ~Stands(S, Q, u, r)
         /\ Stands(T, P, w, r) /\ ~Stands(S, Q, w, r)
         => u = w
    /\ \A u, r \in Items : Stands(T, P, u, r) /\ Holds(S, u, r) => Holds(T, u, r)
    /\ \A o \in res.drops : \A q \in Q : ~Decides(q, o)
    /\ \A u \in Items :
         /\ S.library[u] = Gone \/ u \in res.drops
         /\ \A q \in Q : ~Decides(q, u)
         => T.library[u] = Gone /\ \A q \in P : ~Decides(q, u)
    /\ \A u, r \in Items : Stands(S, Q, u, r) =>
         \/ \E w \in Items : Stands(T, P, w, r)
         \/ /\ k.kind # "twin"
            /\ r \in (Queue!Recorded(S) \cup Queue!KeptBy(now)) \ Queue!Recorded(T)

\* resolve_duplicate_media_identity and apply_conflict_resolution_to_snapshot.
LEMMA AnswerFacts ==
    ASSUME NEW E \in Version, NEW S \in Version, NEW T \in Version, NEW c \in Database,
           c.library = E.library, NEW Q, Asked(S, Q), Origins(E, c, S), Questions(E, c, S, Q),
           NEW k, NEW now \in SUBSET Q, NEW res,
           \/ Minor(S, T, res, now)
           \/ k.kind = "deletion" /\ k.uid \in Items /\ Fate(S, T, res, Q, now, k.uid)
           \/ k.kind = "twin" /\ \E l, o \in Items : Union(S, T, res, Q, now, l, o),
           NEW V, NEW P, P = Queue!Refreshed((Q \ now) \cup res.new, T, E, V)
    PROVE  Answered(E, S, T, c, Q, P, k, now, res)
<1>1. /\ \A q \in (Q \ now) \cup res.new : q.kind # "twin" => q \in P
      /\ \A q \in P : q.kind # "twin" => q \in (Q \ now) \cup res.new
  BY RefreshedFacts
<1>2. \A q \in Q : Question(q)
  BY DEF Asked
<1>3. \A q \in Q : q.kind = "deletion" => q.uid \in Items /\ q.kept \in Medium
  BY <1>2 DEF Question
<1>4. \A q \in res.new : Question(q) /\ q.kind = "field"
  BY DEF Minor, Fate, Union
<1>5. /\ \A q \in P : Question(q)
      /\ \A q \in P : q.kind = "deletion" => q \in Q /\ q \notin now
      /\ \A q \in Q : q.kind = "deletion" /\ q \notin now => q \in P
  BY <1>1, <1>2, <1>4 DEF Question
<1>6. \A u \in Items : E.library[u] # Gone /\ S.library[u] = Gone => u \in S.tombstones
  BY DEF Origins
<1>7. \A u, r \in Items : Stands(S, Q, u, r) => r \in Queue!Known(S)
  BY DEF Questions
<1>8. /\ \A u, w, r \in Items : Holds(E, u, r) /\ Holds(E, w, r) => u = w
      /\ \A u, r \in Items : Holds(E, u, r) => r \in Queue!Known(S)
  BY DEF Origins
<1>9. ASSUME /\ res.drops \subseteq Items
             /\ Queue!Known(S) \cup res.drops \subseteq Queue!Known(T)
             /\ \A u \in Items : T.library[u] = Gone => S.library[u] = Gone \/ u \in T.tombstones
             /\ S.tombstones \subseteq T.tombstones \cup Queue!Live(T)
      PROVE  Origins(E, c, T)
  <2>1. \A u \in Items : E.library[u] # Gone /\ T.library[u] = Gone => u \in T.tombstones
    BY <1>6, <1>9 DEF Queue!Live
  <2>2. \A u, r \in Items : Holds(c, u, r) <=> Holds(E, u, r)
    BY DEF Holds
  <2>3. \A u, r \in Items : Holds(E, u, r) => r \in Queue!Known(T)
    BY <1>8, <1>9
  <2> QED
    BY <1>8, <2>1, <2>2, <2>3 DEF Origins
<1>10. ASSUME Queue!Known(S) \subseteq Queue!Known(T),
              \A u, r \in Items : Stands(T, P, u, r) =>
                Stands(S, Q, u, r) \/ \E o \in res.drops : o # u /\ Stands(S, Q, o, r),
              res.drops \subseteq Items,
              \A q \in P : q.kind = "deletion" => T.library[q.uid] = S.library[q.uid]
       PROVE  Questions(E, c, T, P)
  <2>1. \A u, r \in Items : Stands(T, P, u, r) => r \in Queue!Known(T)
    BY <1>7, <1>10
  <2>2. ASSUME NEW q \in P, q.kind = "deletion"
        PROVE  IF T.library[q.uid] = Gone
               THEN /\ q.side = "ours" /\ c.library[q.uid] = Gone /\ E.library[q.uid] = Gone
                    /\ q.uid \in Queue!Known(T)
               ELSE /\ q.side = "theirs"
                    /\ \A r \in Items : q.kept[r] # Absent => Holds(T, q.uid, r)
                    /\ \A r \in Items : Holds(T, q.uid, r) =>
                                           q.kept[r] # Absent /\ Holds(E, q.uid, r)
    <3>1. q \in Q /\ T.library[q.uid] = S.library[q.uid]
      BY <1>5, <1>10, <2>2
    <3> QED
      BY <1>10, <2>2, <3>1 DEF Questions, Holds
  <2> QED
    BY <2>1, <2>2 DEF Questions
<1>11. CASE Minor(S, T, res, now)
  <2>1. /\ T.tombstones = S.tombstones
        /\ \A u \in Items : T.library[u] = Gone <=> S.library[u] = Gone
        /\ \A u, r \in Items : Holds(T, u, r) <=> Holds(S, u, r)
        /\ res.new = {} /\ res.drops = {}
        /\ \A q \in now : q.kind # "deletion"
    BY <1>11 DEF Minor
  <2>2. \A q : q.kind = "deletion" => (q \in P <=> q \in Q)
    BY <1>5, <2>1
  <2>3. Queue!Known(T) = Queue!Known(S)
    BY <2>1 DEF Queue!Known, Queue!Live
  <2>4. \A u, r \in Items : Stands(T, P, u, r) <=> Stands(S, Q, u, r)
    BY <2>1, <2>2 DEF Stands, Decides
  <2>5. Origins(E, c, T)
    BY <1>9, <2>1, <2>3 DEF Queue!Live
  <2>6. Questions(E, c, T, P)
    <3>1. \A q \in P : q.kind = "deletion" =>
            IF T.library[q.uid] = Gone
            THEN /\ q.side = "ours" /\ c.library[q.uid] = Gone /\ E.library[q.uid] = Gone
                 /\ q.uid \in Queue!Known(T)
            ELSE /\ q.side = "theirs"
                 /\ \A r \in Items : q.kept[r] # Absent => Holds(T, q.uid, r)
                 /\ \A r \in Items : Holds(T, q.uid, r) =>
                                        q.kept[r] # Absent /\ Holds(E, q.uid, r)
      BY <1>3, <2>1, <2>2, <2>3 DEF Questions
    <3> QED
      BY <1>7, <2>3, <2>4, <3>1 DEF Questions
  <2>7. \A u \in Items : S.library[u] = Gone /\ (\A q \in Q : ~Decides(q, u)) =>
           T.library[u] = Gone /\ \A q \in P : ~Decides(q, u)
    BY <2>1, <2>2 DEF Decides
  <2> QED
    BY <1>5, <2>1, <2>3, <2>4, <2>5, <2>6, <2>7 DEF Answered
<1>12. CASE k.kind = "deletion" /\ k.uid \in Items /\ Fate(S, T, res, Q, now, k.uid)
  <2> DEFINE w == k.uid
  <2>1. /\ w \in Items
        /\ \A q \in now : Decides(q, w)
        /\ \A q \in Q : Decides(q, w) => q \in now
        /\ \A u \in Items \ {w} : T.library[u] = S.library[u]
        /\ \/ T.library[w] = Gone /\ T.tombstones = S.tombstones \cup {w}
           \/ /\ \E j \in now : T.library[w] = j.kept /\ j.kept \in Medium
              /\ T.tombstones = S.tombstones \ {w}
        /\ res.new = {} /\ res.drops = {}
    BY <1>12 DEF Fate
  <2> HIDE DEF w
  <2>2. \A q \in P : ~Decides(q, w)
    BY <1>5, <2>1 DEF Decides
  <2>3. \A q \in Q : q.kind = "deletion" /\ q.uid # w => q \in P
    BY <1>5, <2>1 DEF Decides
  <2>4. T.library[w] = Gone \/ (T.library[w] # Gone /\ \E j \in now : T.library[w] = j.kept)
    BY <2>1, MediumFacts
  <2>5. Queue!Known(S) \subseteq Queue!Known(T)
    <3>1. T.library[w] = Gone => w \in T.tombstones
      BY <2>1, MediumFacts
    <3> QED
      BY <2>1, <3>1 DEF Queue!Known, Queue!Live, Version
  <2>6. \A u, r \in Items : Stands(T, P, u, r) => Stands(S, Q, u, r)
    <3> SUFFICES ASSUME NEW u \in Items, NEW r \in Items, Stands(T, P, u, r)
                 PROVE  Stands(S, Q, u, r)
      OBVIOUS
    <3>1. CASE u = w
      <4>1. Holds(T, w, r)
        BY <2>2, <3>1 DEF Stands
      <4>2. PICK j \in now : T.library[w] = j.kept
        BY <2>4, <4>1 DEF Holds
      <4> QED
        BY <2>1, <3>1, <4>1, <4>2 DEF Stands, Holds
    <3>2. CASE u # w
      BY <1>5, <2>1, <3>2 DEF Stands, Holds, Decides
    <3> QED
      BY <3>1, <3>2
  <2>7. \A u, r \in Items : Stands(T, P, u, r) /\ Holds(S, u, r) => Holds(T, u, r)
    <3> SUFFICES ASSUME NEW u \in Items, NEW r \in Items, Stands(T, P, u, r), Holds(S, u, r)
                 PROVE  Holds(T, u, r)
      OBVIOUS
    <3>1. CASE u = w
      BY <2>2, <3>1 DEF Stands
    <3>2. CASE u # w
      BY <2>1, <3>2 DEF Holds
    <3> QED
      BY <3>1, <3>2
  <2>8. Origins(E, c, T)
    <3>1. \A u \in Items : T.library[u] = Gone => S.library[u] = Gone \/ u \in T.tombstones
      BY <2>1, MediumFacts
    <3>2. S.tombstones \subseteq T.tombstones \cup Queue!Live(T)
      BY <2>1, MediumFacts DEF Queue!Live
    <3> QED
      BY <1>9, <2>1, <2>5, <3>1, <3>2
  <2>9. Questions(E, c, T, P)
    <3>1. \A q \in P : q.kind = "deletion" => T.library[q.uid] = S.library[q.uid]
      BY <1>3, <1>5, <2>1, <2>2 DEF Decides
    <3> QED
      BY <1>10, <2>1, <2>5, <2>6, <3>1
  <2>10. \A u \in Items : S.library[u] = Gone /\ (\A q \in Q : ~Decides(q, u)) =>
            T.library[u] = Gone /\ \A q \in P : ~Decides(q, u)
    <3> SUFFICES ASSUME NEW u \in Items, S.library[u] = Gone, \A q \in Q : ~Decides(q, u)
                 PROVE  T.library[u] = Gone /\ \A q \in P : ~Decides(q, u)
      OBVIOUS
    <3>1. \A q \in P : ~Decides(q, u)
      BY <1>5 DEF Decides
    <3>2. CASE u = w
      BY <2>1, <2>4, <3>1, <3>2
    <3>3. CASE u # w
      BY <2>1, <3>1, <3>3
    <3> QED
      BY <3>2, <3>3
  <2>11. ASSUME NEW u \in Items, NEW r \in Items, Stands(S, Q, u, r)
         PROVE  \/ \E x \in Items : Stands(T, P, x, r)
                \/ r \in (Queue!Recorded(S) \cup Queue!KeptBy(now)) \ Queue!Recorded(T)
    <3>1. CASE r \in Queue!Recorded(T)
      BY <3>1, RecordedFacts DEF Stands
    <3>2. CASE r \notin Queue!Recorded(T) /\ Holds(S, u, r)
      BY <3>2, RecordedFacts
    <3>3. CASE r \notin Queue!Recorded(T) /\ ~Holds(S, u, r)
      <4>1. PICK q \in Q : Decides(q, u) /\ q.kept[r] # Absent
        BY <2>11, <3>3 DEF Stands
      <4>2. CASE q \in now
        <5>1. \A j \in now : Question(j)
          BY <1>2
        <5>2. r \in Queue!KeptBy(now)
          BY <4>1, <4>2, <5>1, RecordedFacts DEF Decides
        <5> QED
          BY <3>3, <5>2
      <4>3. CASE q \notin now
        <5>1. q \in P
          BY <1>5, <4>1, <4>3 DEF Decides
        <5> QED
          BY <4>1, <5>1 DEF Stands
      <4> QED
        BY <4>2, <4>3
    <3> QED
      BY <3>1, <3>2, <3>3
  <2>12. k.kind # "twin"
    BY <1>12
  <2> QED
    BY <1>5, <2>1, <2>5, <2>6, <2>7, <2>8, <2>9, <2>10, <2>11, <2>12 DEF Answered
<1>13. ASSUME NEW l \in Items, NEW o \in Items, Union(S, T, res, Q, now, l, o)
       PROVE  /\ Origins(E, c, T)
              /\ Questions(E, c, T, P)
              /\ res.drops \subseteq Items
              /\ Queue!Known(S) \cup res.drops \subseteq Queue!Known(T)
              /\ \A u, r \in Items : Stands(T, P, u, r) =>
                   Stands(S, Q, u, r) \/ \E i \in res.drops : i # u /\ Stands(S, Q, i, r)
              /\ \A u, w, r \in Items :
                   /\ Stands(T, P, u, r) /\ ~Stands(S, Q, u, r)
                   /\ Stands(T, P, w, r) /\ ~Stands(S, Q, w, r)
                   => u = w
              /\ \A u, r \in Items : Stands(T, P, u, r) /\ Holds(S, u, r) => Holds(T, u, r)
              /\ \A i \in res.drops : \A q \in Q : ~Decides(q, i)
              /\ \A u \in Items :
                   /\ S.library[u] = Gone \/ u \in res.drops
                   /\ \A q \in Q : ~Decides(q, u)
                   => T.library[u] = Gone /\ \A q \in P : ~Decides(q, u)
              /\ \A u, r \in Items : Stands(S, Q, u, r) => \E w \in Items : Stands(T, P, w, r)
  <2>1. /\ l # o /\ S.library[l] # Gone /\ S.library[o] # Gone
        /\ \A q \in Q : q.kind # "twin" => q.uid # l /\ q.uid # o
        /\ \A u \in Items \ {l, o} : T.library[u] = S.library[u]
        /\ T.library[l] # Gone /\ T.library[o] = Gone
        /\ \A r \in Items : Holds(T, l, r) <=> Holds(S, l, r) \/ Holds(S, o, r)
        /\ T.tombstones = (S.tombstones \ {l}) \cup {o}
        /\ res.drops = {o}
        /\ \A q \in now : q.kind = "twin"
    BY <1>13 DEF Union
  <2>2. \A q : q.kind = "deletion" => (q \in P <=> q \in Q)
    BY <1>5, <2>1
  <2>3. /\ \A q \in Q : ~Decides(q, l) /\ ~Decides(q, o)
        /\ \A q \in P : ~Decides(q, l) /\ ~Decides(q, o)
    BY <2>1, <2>2 DEF Decides
  <2>4. Queue!Known(S) \cup {o} \subseteq Queue!Known(T)
    BY <2>1 DEF Queue!Known, Queue!Live
  <2>5. \A u, r \in Items : u # l /\ u # o => (Stands(T, P, u, r) <=> Stands(S, Q, u, r))
    BY <2>1, <2>2 DEF Stands, Holds, Decides
  <2>6. \A r \in Items : /\ ~Stands(T, P, o, r)
                         /\ Stands(T, P, l, r) <=> Holds(T, l, r)
                         /\ Stands(S, Q, l, r) <=> Holds(S, l, r)
                         /\ Stands(S, Q, o, r) <=> Holds(S, o, r)
    BY <2>1, <2>3 DEF Stands, Holds
  <2>7. \A u, r \in Items : Stands(T, P, u, r) =>
           Stands(S, Q, u, r) \/ (u # o /\ Stands(S, Q, o, r))
    BY <2>1, <2>5, <2>6
  <2>8. \A u, r \in Items : Stands(T, P, u, r) /\ Holds(S, u, r) => Holds(T, u, r)
    <3>1. \A u, r \in Items : u # l /\ u # o => (Holds(T, u, r) <=> Holds(S, u, r))
      BY <2>1 DEF Holds
    <3> QED
      BY <2>1, <2>6, <3>1
  <2>9. Origins(E, c, T)
    <3>1. \A u \in Items : T.library[u] = Gone => S.library[u] = Gone \/ u \in T.tombstones
      BY <2>1
    <3>2. S.tombstones \subseteq T.tombstones \cup Queue!Live(T)
      BY <2>1 DEF Queue!Live
    <3> QED
      BY <1>9, <2>1, <2>4, <3>1, <3>2
  <2>10. Questions(E, c, T, P)
    <3>1. \A q \in P : q.kind = "deletion" => T.library[q.uid] = S.library[q.uid]
      BY <1>3, <2>1, <2>2, <2>3 DEF Decides
    <3> QED
      BY <1>10, <2>1, <2>4, <2>7, <3>1
  <2>11. \A u \in Items : (S.library[u] = Gone \/ u = o) /\ (\A q \in Q : ~Decides(q, u)) =>
            T.library[u] = Gone /\ \A q \in P : ~Decides(q, u)
    BY <2>1, <2>2 DEF Decides
  <2>12. \A u, r \in Items : Stands(S, Q, u, r) => \E w \in Items : Stands(T, P, w, r)
    BY <2>1, <2>5, <2>6
  <2>13. \A u, r \in Items : Stands(T, P, u, r) /\ ~Stands(S, Q, u, r) => u = l
    BY <2>5, <2>6
  <2>14. \A u, w, r \in Items :
           /\ Stands(T, P, u, r) /\ ~Stands(S, Q, u, r)
           /\ Stands(T, P, w, r) /\ ~Stands(S, Q, w, r)
           => u = w
    BY <2>13
  <2>15. /\ res.drops \subseteq Items
         /\ Queue!Known(S) \cup res.drops \subseteq Queue!Known(T)
         /\ \A i \in res.drops : \A q \in Q : ~Decides(q, i)
    BY <2>1, <2>3, <2>4
  <2>16. \A u, r \in Items : Stands(T, P, u, r) =>
           Stands(S, Q, u, r) \/ \E i \in res.drops : i # u /\ Stands(S, Q, i, r)
    BY <2>1, <2>7
  <2>17. \A u \in Items :
           /\ S.library[u] = Gone \/ u \in res.drops
           /\ \A q \in Q : ~Decides(q, u)
           => T.library[u] = Gone /\ \A q \in P : ~Decides(q, u)
    BY <2>1, <2>11
  <2> QED
    BY <2>8, <2>9, <2>10, <2>12, <2>14, <2>15, <2>16, <2>17
<1>14. CASE \E l, o \in Items : Union(S, T, res, Q, now, l, o)
  BY <1>5, <1>13, <1>14 DEF Answered
<1> QED
  BY <1>11, <1>12, <1>14

-----------------------------------------------------------------------------
(* The inductive invariant of the queue.                                   *)

TwinTypes ==
    /\ live \in Database /\ baseline \in Version /\ target \in Version
    /\ \A k \in queue : Question(k)
    /\ phase \in {"await", "apply", "done"}
    /\ touched \subseteq Items /\ combined \subseteq Items
    /\ back \subseteq Items /\ owed \subseteq Items

\* A record stands in one place, but for those that came back with a combined item.
Places(B, T, K, comb, bk) ==
    /\ \A u, w, r \in Items : Holds(B, u, r) /\ Stands(T, K, w, r) /\ u # w =>
          u \in comb \/ r \in bk
    /\ \A u, w, r \in Items : Stands(T, K, u, r) /\ Stands(T, K, w, r) /\ u # w => r \in bk

\* What the user has not touched is as it was, and what was combined then stays away.
Untouched(B, c, T, K, comb, tch) ==
    /\ comb \subseteq Queue!Known(T)
    /\ \A u \in Items \ tch : c.library[u] = B.library[u]
    /\ \A u \in comb \ tch : T.library[u] = Gone /\ \A k \in K : ~Decides(k, u)

TwinsInv ==
    /\ TwinTypes
    /\ Origins(baseline, live, target)
    /\ Questions(baseline, live, target, queue)
    /\ Places(baseline, target, queue, combined, back)
    /\ Queue!Returned(target, combined) \subseteq back
    /\ Untouched(baseline, live, target, queue, combined, touched)
    /\ phase = "await" => queue # {}
    /\ phase # "done" => \A r \in owed : Kept(baseline, live, target, queue, r)
    /\ phase = "done" => owed \subseteq Queue!Recorded(live)

\* The target S and its questions Q, once all edits up to E are merged in.
Settled(E, S, Q) ==
    /\ E \in Version /\ S \in Version
    /\ E.library = live.library
    /\ \A k \in Q : Question(k)
    /\ Origins(E, live, S)
    /\ Questions(E, live, S, Q)
    /\ \A u, w, r \in Items : Holds(E, u, r) /\ Stands(S, Q, w, r) /\ u # w =>
          u \in combined \/ r \in back
    /\ \A u, w, r \in Items : Stands(S, Q, u, r) /\ Stands(S, Q, w, r) /\ u # w =>
          r \in back \/ \E x \in {u, w} \cap combined :
                           Holds(S, x, r) /\ \E k \in Q : Decides(k, x)
    /\ combined \subseteq Queue!Known(S)
    /\ \A u \in combined \ touched : S.library[u] = Gone /\ \A k \in Q : ~Decides(k, u)
    /\ phase # "done" => \A r \in owed : \E u \in Items : Stands(S, Q, u, r)

\* What a merge of the edits consists of, in an answer and in an application.
LEMMA RebasedForm ==
    ASSUME NEW E, NEW N, N \in Queue!Rebased(E, TRUE) \/ N \in Queue!Rebased(E, FALSE)
    PROVE  /\ N.target = Queue!Merge(baseline, E, target)
           /\ \E J : /\ \/ J = Queue!Joined(queue, Queue!ConflictsOf(baseline, E, target),
                                            N.target, TRUE)
                        \/ J = Queue!Joined(queue, Queue!ConflictsOf(baseline, E, target),
                                            N.target, FALSE)
                     /\ N.queue = Queue!Refreshed(J, N.target, E, cloud)
<1> DEFINE S == Queue!Merge(baseline, E, target)
           C == Queue!ConflictsOf(baseline, E, target)
           Yes == Queue!Refreshed(Queue!Joined(queue, C, S, TRUE), S, E, cloud)
           No == Queue!Refreshed(Queue!Joined(queue, C, S, FALSE), S, E, cloud)
<1>1. N = [target |-> S, queue |-> Yes] \/ N = [target |-> S, queue |-> No]
  BY DEF Queue!Rebased
<1>2. N.target = S /\ (N.queue = Yes \/ N.queue = No)
  <2> HIDE DEF S, Yes, No
  <2> QED
    BY <1>1
<1> QED
  BY <1>2

\* Merging the edits in keeps every place and every question there is.
LEMMA RebaseSettles ==
    ASSUME TwinsInv, NEW E, E = Queue!Local,
           NEW N, N \in Queue!Rebased(E, TRUE) \/ N \in Queue!Rebased(E, FALSE)
    PROVE  /\ Settled(E, N.target, N.queue)
           /\ Asked(N.target, N.queue)
           /\ \A k \in N.queue : k.kind # "twin" =>
                (\E j \in queue : j.kind # "twin") \/ live.library[k.uid] # baseline.library[k.uid]
<1> DEFINE S == N.target
           Q == N.queue
<1>1. /\ live \in Database /\ baseline \in Version /\ target \in Version
      /\ \A k \in queue : Question(k)
      /\ Origins(baseline, live, target) /\ Questions(baseline, live, target, queue)
  BY DEF TwinsInv, TwinTypes
<1>2. E = Queue!SnapshotOf(live, baseline)
  BY DEF Queue!Local
<1>3. S = Queue!Merge(baseline, E, target)
  BY RebasedForm
<1>4. PICK J : /\ \/ J = Queue!Joined(queue, Queue!ConflictsOf(baseline, E, target), S, TRUE)
                  \/ J = Queue!Joined(queue, Queue!ConflictsOf(baseline, E, target), S, FALSE)
               /\ Q = Queue!Refreshed(J, S, E, cloud)
  BY RebasedForm
<1> HIDE DEF S, Q
<1>5. E \in Version /\ E.library = live.library
  BY <1>1, <1>2, SnapshotFacts
<1>6. /\ S \in Version
      /\ \A u \in Items : live.library[u] = baseline.library[u] => S.library[u] = target.library[u]
      /\ Queue!Known(target) \subseteq Queue!Known(S)
  BY <1>1, <1>2, <1>3, MergeFacts DEF Origins
<1>7. Origins(E, live, S)
  BY <1>1, <1>2, <1>3, MergedOrigins
<1>8. /\ \A k \in Q : Question(k)
      /\ \A k \in Q : k.kind = "field" => S.library[k.uid] # Gone
      /\ \A k \in Q : k.kind = "twin" =>
           /\ k.ours \in Items /\ k.other \in Items /\ k.ours # k.other
           /\ S.library[k.ours] # Gone /\ S.library[k.other] # Gone
      /\ Questions(E, live, S, Q)
      /\ \A u, r \in Items : Stands(S, Q, u, r) =>
           \/ Stands(target, queue, u, r)
           \/ Revived(baseline, live, target, S, u) /\ Holds(live, u, r)
      /\ \A r \in Items : Kept(baseline, live, target, queue, r) =>
           \E u \in Items : Stands(S, Q, u, r)
      /\ \A u \in Items : Revived(baseline, live, target, S, u) /\ u \in Queue!Known(target) =>
           \E k \in Q : Decides(k, u)
      /\ \A k \in Q : k.kind # "twin" =>
           (\E j \in queue : j.kind # "twin") \/ live.library[k.uid] # baseline.library[k.uid]
      /\ \A u \in Items : /\ live.library[u] = baseline.library[u]
                          /\ \A k \in queue : ~Decides(k, u)
                          => \A k \in Q : ~Decides(k, u)
  <2>1. Rebasing(baseline, target, live, queue, E, S, Q)
    BY ONLY <1>1, <1>2, <1>3, <1>4, RebaseFacts
  <2> QED
    BY <2>1 DEF Rebasing
<1>9. Asked(S, Q)
  BY <1>8 DEF Asked
<1>10. \A u, r \in Items : Stands(target, queue, u, r) => r \in Queue!Known(target)
  BY <1>1 DEF Questions
<1>11. \A u, r \in Items : Holds(live, u, r) /\ ~Holds(baseline, u, r) =>
          r \notin Queue!Known(target)
  BY <1>1 DEF Origins
<1>12. \A u, w, r \in Items : Holds(live, u, r) /\ Holds(live, w, r) => u = w
  BY <1>5, <1>7 DEF Origins, Holds
<1>13. ASSUME NEW u \in Items, NEW w \in Items, NEW r \in Items, u # w,
              Holds(live, u, r), Stands(target, queue, w, r)
       PROVE  u \in combined \/ r \in back
  BY <1>10, <1>11, <1>13 DEF TwinsInv, Places
<1>14. ASSUME NEW u \in Items, NEW w \in Items, NEW r \in Items, u # w,
              Holds(E, u, r), Stands(S, Q, w, r)
       PROVE  u \in combined \/ r \in back
  <2>1. Holds(live, u, r)
    BY <1>5, <1>14 DEF Holds
  <2> QED
    BY <1>8, <1>12, <1>13, <1>14, <2>1
<1>15. combined \subseteq Queue!Known(target) /\ combined \subseteq Items
  BY DEF TwinsInv, Untouched, TwinTypes
<1>16. ASSUME NEW u \in Items, NEW w \in Items, NEW r \in Items, u # w,
              Revived(baseline, live, target, S, u), Holds(live, u, r), Stands(target, queue, w, r)
       PROVE  r \in back \/ (u \in combined /\ Holds(S, u, r) /\ \E k \in Q : Decides(k, u))
  <2>1. u \in combined \/ r \in back
    BY <1>13, <1>16
  <2>2. Holds(S, u, r)
    BY <1>16 DEF Revived, Holds
  <2> QED
    BY <1>8, <1>15, <1>16, <2>1, <2>2
<1>17. ASSUME NEW u \in Items, NEW w \in Items, NEW r \in Items, u # w,
              Stands(S, Q, u, r), Stands(S, Q, w, r)
       PROVE  r \in back \/ \E x \in {u, w} \cap combined :
                               Holds(S, x, r) /\ \E k \in Q : Decides(k, x)
  <2>1. CASE Stands(target, queue, u, r) /\ Stands(target, queue, w, r)
    BY <1>17, <2>1 DEF TwinsInv, Places
  <2>2. CASE ~Stands(target, queue, u, r) /\ Stands(target, queue, w, r)
    BY <1>8, <1>16, <1>17, <2>2
  <2>3. CASE Stands(target, queue, u, r) /\ ~Stands(target, queue, w, r)
    BY <1>8, <1>16, <1>17, <2>3
  <2>4. CASE ~Stands(target, queue, u, r) /\ ~Stands(target, queue, w, r)
    BY <1>8, <1>12, <1>17, <2>4
  <2> QED
    BY <2>1, <2>2, <2>3, <2>4
<1>18. \A u \in combined \ touched : S.library[u] = Gone /\ \A k \in Q : ~Decides(k, u)
  <2>1. \A u \in Items \ touched : live.library[u] = baseline.library[u]
    BY DEF TwinsInv, Untouched
  <2>2. \A u \in combined \ touched : target.library[u] = Gone /\ \A k \in queue : ~Decides(k, u)
    BY DEF TwinsInv, Untouched
  <2> QED
    BY <1>6, <1>8, <1>15, <2>1, <2>2
<1>19. phase # "done" => \A r \in owed : \E u \in Items : Stands(S, Q, u, r)
  BY <1>8 DEF TwinsInv, TwinTypes
<1>20. combined \subseteq Queue!Known(S)
  BY <1>6, <1>15
<1>21. Settled(E, S, Q)
  BY <1>5, <1>6, <1>7, <1>8, <1>14, <1>17, <1>18, <1>19, <1>20 DEF Settled
<1> QED
  BY <1>8, <1>9, <1>21 DEF S, Q

-----------------------------------------------------------------------------
(* The initial states.                                                     *)

\* A new item is well formed and has its own record only.
LEMMA ItemFacts ==
    ASSUME NEW u \in Items, NEW t \in Value, NEW st \in Value
    PROVE  /\ Queue!Item(u, t, st) \in Medium
           /\ \A r \in Items : Queue!Item(u, t, st)[r] # Absent => r = u
<1>1. /\ DOMAIN Queue!Item(u, t, st) = {title, status} \cup Items
      /\ Queue!Item(u, t, st)[title] = t
      /\ Queue!Item(u, t, st)[status] = st
      /\ \A r \in Items : Queue!Item(u, t, st)[r] = IF r = u THEN Ours ELSE Absent
  BY MediumFacts DEF Queue!Item
<1>2. \A s \in {title, status} \cup Items : Queue!Item(u, t, st)[s] \in Value \cup {Absent}
  BY <1>1 DEF Value
<1>3. Queue!Item(u, t, st) \in [{title, status} \cup Items -> Value \cup {Absent}]
  BY <1>1, <1>2 DEF Queue!Item
<1>4. Absent \notin Value
  BY ItemsAssumption DEF ItemsAssumption, Value
<1> QED
  BY <1>1, <1>3, <1>4 DEF Medium

\* In the libraries that start each item has the record of its number.
LEMMA LibrariesFacts ==
    ASSUME NEW st, \A u \in Items : st[u] \in Value,
           NEW b \in Queue!Libraries(st)
    PROVE  /\ b \in Shelf
           /\ \A u, r \in Items : b[u] # Gone /\ b[u][r] # Absent => r = u
<1>1. PICK n \in [Items -> Taken \cup {Gone}] :
        b = [u \in Items |-> IF n[u] = Gone THEN Gone ELSE Queue!Item(u, n[u], st[u])]
  BY DEF Queue!Libraries
<1>2. ASSUME NEW u \in Items, n[u] # Gone
      PROVE  /\ Queue!Item(u, n[u], st[u]) \in Medium
             /\ \A r \in Items : Queue!Item(u, n[u], st[u])[r] # Absent => r = u
  <2>1. n[u] \in Value /\ st[u] \in Value
    BY <1>2, ItemsAssumption DEF ItemsAssumption, Value
  <2> QED
    BY <2>1, ItemFacts
<1> QED
  BY <1>1, <1>2 DEF Shelf

\* The target S and its questions K, once the others' R is merged into the library E.
Started(c, E, S, K) ==
    /\ S \in Version /\ E \in Version /\ E.library = c.library
    /\ \A k \in K : Question(k)
    /\ Origins(E, c, S)
    /\ Questions(E, c, S, K)
    /\ \A u, r \in Items : Stands(S, K, u, r) => r = u

\* A first merge mixes nothing up: a record stands in the item where it stood.
LEMMA FirstMerge ==
    ASSUME NEW B \in Version, NEW V \in Version, NEW c \in Database,
           NEW E, E = Queue!SnapshotOf(c, B), NEW S, S = Queue!Merge(B, E, V),
           \A u \in Items : B.library[u] # Gone /\ V.library[u] = Gone => u \in V.tombstones,
           \A u, r \in Items : Holds(c, u, r) => r = u,
           \A u, r \in Items : Holds(V, u, r) => r = u,
           NEW K, \A k \in K : k \in Queue!ConflictsOf(B, E, V) \/ k.kind = "twin"
    PROVE  Started(c, E, S, K)
<1>1. E \in Version /\ E.library = c.library
  BY SnapshotFacts
<1>2. /\ S \in Version
      /\ \A u \in Items :
           /\ c.library[u] = B.library[u] => S.library[u] = V.library[u]
           /\ c.library[u] # Gone /\ V.library[u] # Gone =>
                 /\ S.library[u] # Gone
                 /\ \A r \in Items : Holds(S, u, r) <=>
                       IF Holds(c, u, r) <=> Holds(B, u, r) THEN Holds(V, u, r)
                                                            ELSE Holds(c, u, r)
           /\ c.library[u] # Gone /\ V.library[u] = Gone /\ c.library[u] # B.library[u] =>
                 S.library[u] = c.library[u]
           /\ c.library[u] = Gone /\ (B.library[u] # Gone \/ V.library[u] = Gone) =>
                 S.library[u] = Gone
           /\ c.library[u] = Gone /\ B.library[u] = Gone => S.library[u] = V.library[u]
           /\ S.library[u] = Gone => /\ c.library[u] # Gone => u \in S.tombstones
                                     /\ V.library[u] # Gone => u \in S.tombstones
  BY MergeFacts
<1>3. \A k \in K : k.kind # "twin" =>
        /\ Question(k)
        /\ k.kind = "deletion" =>
             \/ /\ c.library[k.uid] = Gone /\ B.library[k.uid] # Gone
                /\ V.library[k.uid] # Gone
                /\ k.side = "ours" /\ k.kept = V.library[k.uid]
             \/ /\ c.library[k.uid] # Gone /\ c.library[k.uid] # B.library[k.uid]
                /\ V.library[k.uid] = Gone
                /\ k.side = "theirs" /\ k.kept = c.library[k.uid]
  BY ConflictFacts
<1>4. \A k \in K : Question(k)
  BY <1>3 DEF Question
<1>5. \A k \in K : k.kind = "deletion" => k.uid \in Items
  BY <1>4 DEF Question
<1>6. ASSUME NEW u \in Items, NEW r \in Items, Holds(S, u, r)
      PROVE  r = u
  <2>1. CASE c.library[u] # Gone /\ V.library[u] # Gone
    BY <1>2, <1>6, <2>1
  <2>2. CASE c.library[u] # Gone /\ V.library[u] = Gone
    <3>1. S.library[u] = c.library[u]
      BY <1>2, <1>6, <2>2 DEF Holds
    <3> QED
      BY <1>6, <3>1 DEF Holds
  <2>3. CASE c.library[u] = Gone
    <3>1. S.library[u] = V.library[u]
      BY <1>2, <1>6, <2>3 DEF Holds
    <3> QED
      BY <1>6, <3>1 DEF Holds
  <2> QED
    BY <2>1, <2>2, <2>3
<1>7. \A u, r \in Items : Stands(S, K, u, r) => r = u /\ u \in Queue!Known(S)
  <2> SUFFICES ASSUME NEW u \in Items, NEW r \in Items, Stands(S, K, u, r)
               PROVE  r = u /\ u \in Queue!Known(S)
    OBVIOUS
  <2>1. CASE Holds(S, u, r)
    BY <1>6, <2>1 DEF Holds, Queue!Known, Queue!Live
  <2>2. CASE ~Holds(S, u, r)
    <3>1. PICK k \in K : Decides(k, u) /\ k.kept[r] # Absent
      BY <2>2 DEF Stands
    <3>2. Holds(c, u, r) \/ Holds(V, u, r)
      BY <1>3, <3>1 DEF Decides, Holds
    <3> QED
      BY <1>2, <3>2 DEF Holds, Queue!Known, Queue!Live
  <2> QED
    BY <2>1, <2>2
<1>8. Origins(E, c, S)
  BY <1>1, <1>2 DEF Origins, Holds, Queue!Known, Queue!Live
<1>9. ASSUME NEW k \in K, k.kind = "deletion"
      PROVE  IF S.library[k.uid] = Gone
             THEN /\ k.side = "ours" /\ c.library[k.uid] = Gone /\ E.library[k.uid] = Gone
                  /\ k.uid \in Queue!Known(S)
             ELSE /\ k.side = "theirs"
                  /\ \A r \in Items : k.kept[r] # Absent => Holds(S, k.uid, r)
                  /\ \A r \in Items : Holds(S, k.uid, r) =>
                                         k.kept[r] # Absent /\ Holds(E, k.uid, r)
  <2>1. k.uid \in Items
    BY <1>5, <1>9
  <2>2. CASE c.library[k.uid] = Gone
    <3>1. S.library[k.uid] = Gone /\ k.side = "ours" /\ V.library[k.uid] # Gone
      BY <1>2, <1>3, <1>9, <2>1, <2>2
    <3> QED
      BY <1>1, <1>2, <2>1, <2>2, <3>1 DEF Queue!Known
  <2>3. CASE c.library[k.uid] # Gone
    <3>1. S.library[k.uid] = c.library[k.uid] /\ k.side = "theirs"
          /\ k.kept = c.library[k.uid]
      BY <1>2, <1>3, <1>9, <2>1, <2>3
    <3> QED
      BY <1>1, <2>3, <3>1 DEF Holds
  <2> QED
    BY <2>2, <2>3
<1>10. Questions(E, c, S, K)
  BY <1>7, <1>9 DEF Questions
<1> QED
  BY <1>1, <1>2, <1>4, <1>7, <1>8, <1>10 DEF Started

\* A library with nothing else is a snapshot.
LEMMA OfFacts ==
    ASSUME NEW b \in Shelf
    PROVE  /\ Queue!Of(b) \in Version
           /\ Queue!ContentOf(Queue!Of(b)) \in Database
           /\ Queue!ContentOf(Queue!Of(b)).library = b
           /\ Queue!Of(b).library = b
           /\ \A B : Queue!SnapshotOf(Queue!Of(b), B) =
                     Queue!SnapshotOf(Queue!ContentOf(Queue!Of(b)), B)
BY DEF Version, Database, None, Queue!Of, Queue!ContentOf, Queue!SnapshotOf,
       Queue!DeletedSince

\* The first merge establishes the invariant.
LEMMA TwinsInit ==
    ASSUME Queue!Init
    PROVE  TwinsInv
<1> DEFINE st == [u \in Items |-> IF u \in Changed THEN Theirs ELSE Ours]
<1>1. PICK b \in Queue!Libraries([u \in Items |-> Ours]),
           l \in Queue!Libraries([u \in Items |-> Ours]) :
        \E r \in Queue!Libraries(st), lost \in SUBSET Changed :
          LET B == Queue!Of(b)
              L_ == Queue!SnapshotOf(Queue!Of(l), B)
              R_ == Queue!SnapshotOf(Queue!Of(Queue!Without(r, lost)), B)
          IN  /\ live = Queue!ContentOf(L_)
              /\ baseline = L_
              /\ cloud = R_
              /\ target = Queue!Merge(B, L_, R_)
              /\ queue = Queue!ConflictsOf(B, L_, R_) \cup Queue!Detected(L_, R_, target)
              /\ \E k \in queue : Queue!IsTwin(k)
              /\ phase = "await"
              /\ edits = 0 /\ touched = {} /\ combined = {} /\ back = {}
              /\ owed = Queue!Recorded(target) \cup Queue!KeptBy(queue)
  BY DEF Queue!Init
<1>2. PICK r \in Queue!Libraries(st), lost \in SUBSET Changed :
          LET B == Queue!Of(b)
              L_ == Queue!SnapshotOf(Queue!Of(l), B)
              R_ == Queue!SnapshotOf(Queue!Of(Queue!Without(r, lost)), B)
          IN  /\ live = Queue!ContentOf(L_)
              /\ baseline = L_
              /\ cloud = R_
              /\ target = Queue!Merge(B, L_, R_)
              /\ queue = Queue!ConflictsOf(B, L_, R_) \cup Queue!Detected(L_, R_, target)
              /\ \E k \in queue : Queue!IsTwin(k)
              /\ phase = "await"
              /\ edits = 0 /\ touched = {} /\ combined = {} /\ back = {}
              /\ owed = Queue!Recorded(target) \cup Queue!KeptBy(queue)
  BY <1>1
<1> DEFINE B == Queue!Of(b)
           c == Queue!ContentOf(Queue!Of(l))
           E == Queue!SnapshotOf(c, B)
           d == Queue!ContentOf(Queue!Of(Queue!Without(r, lost)))
           V == Queue!SnapshotOf(d, B)
<1>3. /\ b \in Shelf /\ \A u, x \in Items : b[u] # Gone /\ b[u][x] # Absent => x = u
      /\ l \in Shelf /\ \A u, x \in Items : l[u] # Gone /\ l[u][x] # Absent => x = u
      /\ r \in Shelf /\ \A u, x \in Items : r[u] # Gone /\ r[u][x] # Absent => x = u
  <2>1. \A u \in Items : [w \in Items |-> Ours][u] \in Value /\ st[u] \in Value
    BY DEF Value
  <2> HIDE DEF st
  <2> QED
    BY <2>1, LibrariesFacts
<1>4. /\ Queue!Without(r, lost) \in Shelf
      /\ \A u, x \in Items :
           Queue!Without(r, lost)[u] # Gone /\ Queue!Without(r, lost)[u][x] # Absent => x = u
  <2> DEFINE w == Queue!Without(r, lost)
  <2>1. ASSUME NEW u \in Items
        PROVE  /\ w[u] \in Medium \cup {Gone}
               /\ \A x \in Items : w[u] # Gone /\ w[u][x] # Absent => x = u
    <3>1. CASE w[u] = r[u]
      BY <1>3, <3>1 DEF Shelf
    <3>2. CASE r[u] # Gone /\ w[u] = [r[u] EXCEPT ![u] = Absent]
      <4>1. r[u] \in Medium
        BY <1>3, <3>2 DEF Shelf
      <4>2. w[u] \in Medium /\ \A x \in Items : w[u][x] # Absent => r[u][x] # Absent
        BY <3>2, <4>1, MediumFacts DEF Medium
      <4> QED
        BY <1>3, <3>2, <4>2
    <3> QED
      BY <3>1, <3>2 DEF Queue!Without
  <2>2. w \in [Items -> Medium \cup {Gone}]
    BY <2>1 DEF Queue!Without
  <2>3. w \in Shelf
    BY <2>2 DEF Shelf
  <2>4. \A u, x \in Items : w[u] # Gone /\ w[u][x] # Absent => x = u
    BY <2>1
  <2> QED
    BY <2>3, <2>4
<1>5. /\ B \in Version /\ c \in Database /\ d \in Database
      /\ c.library = l /\ d.library = Queue!Without(r, lost) /\ B.library = b
      /\ E = Queue!SnapshotOf(Queue!Of(l), B)
      /\ V = Queue!SnapshotOf(Queue!Of(Queue!Without(r, lost)), B)
  BY <1>3, <1>4, OfFacts
<1>6. /\ live = Queue!ContentOf(E) /\ baseline = E /\ target = Queue!Merge(B, E, V)
      /\ queue = Queue!ConflictsOf(B, E, V) \cup Queue!Detected(E, V, target)
      /\ \E k \in queue : Queue!IsTwin(k)
      /\ phase = "await" /\ touched = {} /\ combined = {} /\ back = {}
      /\ owed = Queue!Recorded(target) \cup Queue!KeptBy(queue)
  <2> HIDE DEF c, d
  <2> QED
    BY <1>2, <1>5
<1> HIDE DEF B, c, d
<1>7. live = c
  BY <1>5, <1>6, SnapshotFacts
<1>8. /\ V \in Version
      /\ \A u \in Items : B.library[u] # Gone /\ V.library[u] = Gone => u \in V.tombstones
      /\ V.library = d.library
  BY <1>5, SnapshotFacts
<1>9. /\ \A u, x \in Items : Holds(c, u, x) => x = u
      /\ \A u, x \in Items : Holds(V, u, x) => x = u
  BY <1>3, <1>4, <1>5, <1>8 DEF Holds
<1>10. \A k \in Queue!Detected(E, V, target) : k.kind = "twin"
  BY DEF Queue!Detected, Queue!TwinOf
<1> HIDE DEF V
<1>11. /\ target \in Version /\ E \in Version /\ E.library = c.library
       /\ \A k \in queue : Question(k)
       /\ Origins(E, c, target)
       /\ Questions(E, c, target, queue)
       /\ \A u, x \in Items : Stands(target, queue, u, x) => x = u
  <2>1. \A k \in queue : k \in Queue!ConflictsOf(B, E, V) \/ k.kind = "twin"
    BY <1>6, <1>10
  <2> HIDE DEF E
  <2>2. E = Queue!SnapshotOf(c, B) /\ target = Queue!Merge(B, E, V)
    BY <1>6 DEF E
  <2>3. Started(c, E, target, queue)
    BY ONLY <1>5, <1>8, <1>9, <2>1, <2>2, FirstMerge
  <2> QED
    BY <2>3 DEF Started
<1> HIDE DEF E
<1>12. owed \subseteq Items
  BY <1>6 DEF Queue!Recorded, Queue!KeptBy, Queue!RecordsOf
<1>13. TwinTypes
  BY <1>5, <1>6, <1>7, <1>11, <1>12 DEF TwinTypes
<1>14. \A u, x \in Items : Holds(E, u, x) => x = u
  BY <1>9, <1>11 DEF Holds
<1>15. Places(baseline, target, queue, combined, back)
  BY <1>6, <1>11, <1>14 DEF Places
<1>16. Queue!Returned(target, combined) \subseteq back
  BY <1>6 DEF Queue!Returned
<1>17. Untouched(baseline, live, target, queue, combined, touched)
  BY <1>6, <1>7, <1>11 DEF Untouched
<1>18. \A x \in owed : Kept(baseline, live, target, queue, x)
  <2> SUFFICES ASSUME NEW x \in owed PROVE Kept(baseline, live, target, queue, x)
    OBVIOUS
  <2>1. x \in Items
    BY <1>12
  <2>2. x \in Queue!Recorded(target) \/ x \in Queue!KeptBy(queue)
    BY <1>6
  <2>3. \E u \in Items : Stands(target, queue, u, x)
    <3>1. CASE x \in Queue!Recorded(target)
      BY <1>11, <2>1, <3>1, RecordedFacts DEF Stands
    <3>2. CASE x \in Queue!KeptBy(queue)
      <4>1. PICK k \in queue : k.kind = "deletion" /\ k.kept[x] # Absent
        BY <1>11, <2>1, <3>2, RecordedFacts
      <4>2. k.uid \in Items
        BY <1>11, <4>1 DEF Question
      <4> QED
        BY <4>1, <4>2 DEF Stands, Decides
    <3> QED
      BY <2>2, <3>1, <3>2
  <2> QED
    BY <1>6, <1>7, <1>11, <2>3 DEF Kept, Holds
<1> QED
  BY <1>6, <1>7, <1>11, <1>13, <1>15, <1>16, <1>17, <1>18 DEF TwinsInv

\* So does an empty queue.
LEMMA TwinsIdle ==
    ASSUME Queue!Idle
    PROVE  TwinsInv
<1> DEFINE b == [u \in Items |-> Gone]
<1>1. /\ baseline = Queue!Of(b) /\ live = Queue!ContentOf(baseline) /\ target = baseline
      /\ queue = {} /\ phase = "done" /\ touched = {} /\ combined = {} /\ back = {}
      /\ owed = {}
  BY DEF Queue!Idle
<1>2. b \in Shelf /\ \A u \in Items : b[u] = Gone
  BY DEF Shelf
<1> HIDE DEF b
<1>3. /\ baseline \in Version /\ live \in Database
      /\ baseline.library = b /\ live.library = b /\ target.library = b
  BY <1>1, <1>2, OfFacts
<1>4. TwinTypes
  BY <1>1, <1>3 DEF TwinTypes
<1>5. Origins(baseline, live, target)
  BY <1>2, <1>3 DEF Origins, Holds
<1>6. Questions(baseline, live, target, queue) /\ Places(baseline, target, queue, combined, back)
  BY <1>1, <1>2, <1>3 DEF Questions, Places, Stands, Holds
<1>7. Untouched(baseline, live, target, queue, combined, touched)
  BY <1>1, <1>3 DEF Untouched
<1>8. Queue!Returned(target, combined) \subseteq back
  BY <1>1 DEF Queue!Returned
<1> QED
  BY <1>1, <1>4, <1>5, <1>6, <1>7, <1>8 DEF TwinsInv

-----------------------------------------------------------------------------
(* Edits.                                                                  *)

\* An edit that invents nothing: it changes an item, shrinks it, removes it, or creates
\* one with numbers nobody knows.
LEMMA EditKeeps ==
    ASSUME TwinsInv, NEW u \in Items, NEW m \in Medium \cup {Gone}, Queue!Edit(u, m),
           \/ /\ live.library[u] # Gone
              /\ \A r \in Items : m # Gone /\ m[r] # Absent => Holds(live, u, r)
           \/ /\ live.library[u] = Gone /\ u \notin Queue!Known(target)
              /\ \A r \in Items : m # Gone /\ m[r] # Absent => r = u
    PROVE  TwinsInv'
<1>1. /\ phase # "done" /\ phase' = phase
      /\ live' = [live EXCEPT !.library[u] = m]
      /\ touched' = touched \cup {u}
      /\ owed' = (owed \ Queue!RecordsOf(live.library[u])) \cup Queue!Due(u, m)
      /\ UNCHANGED <<baseline, target, cloud, queue, combined, back>>
  BY DEF Queue!Edit
<1>2. /\ live \in Database /\ baseline \in Version /\ target \in Version
      /\ \A k \in queue : Question(k)
      /\ Origins(baseline, live, target) /\ Questions(baseline, live, target, queue)
      /\ owed \subseteq Items
  BY DEF TwinsInv, TwinTypes
<1>3. /\ live' \in Database
      /\ live'.library[u] = m
      /\ \A w \in Items : w # u => live'.library[w] = live.library[w]
  <2> DEFINE lib == [live.library EXCEPT ![u] = m]
  <2>1. live = [library |-> live.library, pictures |-> live.pictures, settings |-> live.settings]
        /\ live.library \in [Items -> Medium \cup {Gone}]
        /\ live.pictures \in None /\ live.settings \in None
    BY <1>2 DEF Database, Shelf
  <2>2. lib \in Shelf /\ lib[u] = m /\ \A w \in Items : w # u => lib[w] = live.library[w]
    BY <2>1 DEF Shelf
  <2>3. live' = [library |-> lib, pictures |-> live.pictures, settings |-> live.settings]
    BY <1>1, <2>1
  <2> HIDE DEF lib
  <2>4. live' \in Database /\ live'.library = lib
    BY <2>1, <2>2, <2>3 DEF Database
  <2> QED
    BY <2>2, <2>4
<1>4. \A w, r \in Items : w # u => (Holds(live', w, r) <=> Holds(live, w, r))
  BY <1>3 DEF Holds
<1>5. \A r \in Items : Holds(live', u, r) <=> m # Gone /\ m[r] # Absent
  BY <1>3 DEF Holds
<1>6. Origins(baseline, live', target)
  <2>1. /\ \A w \in Items : baseline.library[w] # Gone /\ target.library[w] = Gone =>
              w \in target.tombstones
        /\ \A w, x, r \in Items : Holds(baseline, w, r) /\ Holds(baseline, x, r) => w = x
        /\ \A w, r \in Items : Holds(baseline, w, r) => r \in Queue!Known(target)
    BY <1>2 DEF Origins
  <2>2. \A w \in Items : live'.library[w] # Gone /\ baseline.library[w] = Gone =>
           w \notin Queue!Known(target)
    BY <1>2, <1>3 DEF Origins
  <2>3. \A w, r \in Items : Holds(live', w, r) /\ ~Holds(baseline, w, r) =>
           r = w /\ r \notin Queue!Known(target)
    BY <1>2, <1>4, <1>5 DEF Origins
  <2> QED
    BY <2>1, <2>2, <2>3 DEF Origins
<1>7. Questions(baseline, live', target, queue)
  <2>1. ASSUME NEW k \in queue, k.kind = "deletion", target.library[k.uid] = Gone
        PROVE  live'.library[k.uid] = Gone
    <3>1. live.library[k.uid] = Gone /\ k.uid \in Queue!Known(target)
      BY <1>2, <2>1 DEF Questions
    <3>2. k.uid # u /\ k.uid \in Items
      BY <1>2, <2>1, <3>1 DEF Question
    <3> QED
      BY <1>3, <3>1, <3>2
  <2> QED
    BY <1>2, <2>1 DEF Questions
<1>8. TwinTypes'
  <2>1. owed' \subseteq Items
    BY <1>1, <1>2 DEF Queue!Due, Queue!RecordsOf
  <2> QED
    BY <1>1, <1>2, <1>3, <2>1 DEF TwinsInv, TwinTypes
<1>9. Untouched(baseline, live', target, queue, combined, touched')
  BY <1>1, <1>3 DEF TwinsInv, Untouched
<1>10. ASSUME NEW r \in owed'
       PROVE  Kept(baseline, live', target, queue, r)
  <2>1. r \in Items
    BY <1>8 DEF TwinTypes
  <2>2. CASE r \in owed \ Queue!RecordsOf(live.library[u])
    <3>1. Kept(baseline, live, target, queue, r)
      BY <1>1, <2>2 DEF TwinsInv
    <3>2. ~Holds(live, u, r)
      BY <2>1, <2>2 DEF Queue!RecordsOf, Holds
    <3>3. ASSUME NEW w \in Items, Stands(target, queue, w, r),
                 Holds(baseline, w, r) => Holds(live, w, r)
          PROVE  Kept(baseline, live', target, queue, r)
      <4>1. Holds(baseline, w, r) => Holds(live', w, r)
        BY <1>4, <2>1, <3>2, <3>3
      <4> QED
        BY <3>3, <4>1 DEF Kept
    <3>4. ASSUME NEW w \in Items, live.library[w] # baseline.library[w],
                 target.library[w] = Gone, Holds(live, w, r)
          PROVE  Kept(baseline, live', target, queue, r)
      <4>1. w # u
        BY <3>2, <3>4
      <4>2. live'.library[w] = live.library[w] /\ Holds(live', w, r)
        BY <1>3, <1>4, <2>1, <3>4, <4>1
      <4> QED
        BY <3>4, <4>2 DEF Kept
    <3> QED
      BY <3>1, <3>3, <3>4 DEF Kept
  <2>3. CASE r \in Queue!Due(u, m)
    <3>1. Holds(live', u, r)
      BY <1>5, <2>1, <2>3 DEF Queue!Due, Queue!RecordsOf
    <3>2. CASE target.library[u] = Gone /\ m # baseline.library[u]
      BY <1>3, <3>1, <3>2 DEF Kept
    <3>3. CASE ~Holds(baseline, u, r)
      <4>1. r = u /\ u \notin Queue!Known(target)
        BY <1>6, <2>1, <3>1, <3>3 DEF Origins
      <4>2. target.library[u] = Gone
        BY <4>1 DEF Queue!Known, Queue!Live
      <4>3. live'.library[u] # baseline.library[u]
        BY <3>1, <3>3 DEF Holds
      <4> QED
        BY <3>1, <4>2, <4>3 DEF Kept
    <3>4. CASE r \in Queue!Recorded(target)
      <4>1. PICK w \in Items : Holds(target, w, r)
        BY <1>2, <2>1, <3>4, RecordedFacts
      <4>2. Holds(baseline, w, r) => Holds(live', w, r)
        <5> SUFFICES ASSUME Holds(baseline, w, r), w # u PROVE FALSE
          BY <3>1
        <5>1. ~Holds(baseline, u, r)
          BY <1>6, <2>1 DEF Origins
        <5>2. r \notin Queue!Known(target)
          BY <1>6, <2>1, <3>1, <5>1 DEF Origins
        <5> QED
          BY <1>6, <2>1, <5>2 DEF Origins
      <4> QED
        BY <4>1, <4>2 DEF Kept, Stands
    <3>5. r \in Queue!Recorded(target) \/ r \notin Queue!RecordsOf(baseline.library[u])
          \/ (target.library[u] = Gone /\ m # baseline.library[u])
      BY <2>3 DEF Queue!Due
    <3>6. r \notin Queue!RecordsOf(baseline.library[u]) => ~Holds(baseline, u, r)
      BY <2>1 DEF Queue!RecordsOf, Holds
    <3> QED
      BY <3>2, <3>3, <3>4, <3>5, <3>6
  <2> QED
    BY <1>1, <1>10, <2>2, <2>3
<1>11. /\ Places(baseline, target, queue, combined, back)
       /\ Queue!Returned(target, combined) \subseteq back
       /\ phase = "await" => queue # {}
  BY DEF TwinsInv
<1>12. (Queue!Returned(target, combined) \subseteq back)'
  BY <1>1, <1>11 DEF Queue!Returned
<1>13. (\A r \in owed : Kept(baseline, live, target, queue, r))'
  BY <1>1, <1>10 DEF Kept, Stands, Holds
<1>14. /\ Origins(baseline, live, target)' /\ Questions(baseline, live, target, queue)'
       /\ Places(baseline, target, queue, combined, back)'
       /\ Untouched(baseline, live, target, queue, combined, touched)'
  BY <1>1, <1>6, <1>7, <1>9, <1>11
<1>15. phase' # "done" /\ (phase' = "await" => queue' # {})
  BY <1>1, <1>11
<1> QED
  BY <1>8, <1>12, <1>13, <1>14, <1>15 DEF TwinsInv

\* Every edit of the user keeps the invariant.
LEMMA EditStep ==
    ASSUME TwinsInv, Queue!EditLive
    PROVE  TwinsInv'
<1> USE MediumFacts
<1>1. PICK u \in Items :
        \/ \E t \in Name : Queue!Rename(u, t) \/ Queue!Create(u, t)
        \/ \E v \in Statuses : Queue!Change(u, v)
        \/ \E r \in Items : Queue!Forget(u, r)
        \/ Queue!Remove(u)
  BY DEF Queue!EditLive
<1>2. live.library[u] \in Medium \cup {Gone}
  BY DEF TwinsInv, TwinTypes, Database, Shelf
<1> DEFINE m == live.library[u]
<1>3. ASSUME NEW t \in Name, Queue!Rename(u, t)
      PROVE  TwinsInv'
  <2> DEFINE n == [m EXCEPT ![title] = t]
  <2>1. m # Gone /\ Queue!Edit(u, n)
    BY <1>3 DEF Queue!Rename, Queue!Held
  <2>2. n \in Medium /\ \A r \in Items : n[r] = m[r]
    BY <1>2, <2>1, ItemsAssumption DEF Medium, Value, ItemsAssumption
  <2> HIDE DEF n
  <2>3. \A r \in Items : n # Gone /\ n[r] # Absent => Holds(live, u, r)
    BY <2>1, <2>2 DEF Holds
  <2> QED
    BY <2>1, <2>2, <2>3, EditKeeps
<1>4. ASSUME NEW v \in Statuses, Queue!Change(u, v)
      PROVE  TwinsInv'
  <2> DEFINE n == [m EXCEPT ![status] = v]
  <2>1. m # Gone /\ Queue!Edit(u, n)
    BY <1>4 DEF Queue!Change, Queue!Held
  <2>2. n \in Medium /\ \A r \in Items : n[r] = m[r]
    BY <1>2, <2>1, ItemsAssumption DEF Medium, Value, ItemsAssumption
  <2> HIDE DEF n
  <2>3. \A r \in Items : n # Gone /\ n[r] # Absent => Holds(live, u, r)
    BY <2>1, <2>2 DEF Holds
  <2> QED
    BY <2>1, <2>2, <2>3, EditKeeps
<1>5. ASSUME NEW x \in Items, Queue!Forget(u, x)
      PROVE  TwinsInv'
  <2> DEFINE n == [m EXCEPT ![x] = Absent]
  <2>1. m # Gone /\ Queue!Edit(u, n)
    BY <1>5 DEF Queue!Forget, Queue!Held
  <2>2. n \in Medium /\ \A r \in Items : n[r] # Absent => m[r] # Absent
    BY <1>2, <2>1 DEF Medium
  <2> HIDE DEF n
  <2>3. \A r \in Items : n # Gone /\ n[r] # Absent => Holds(live, u, r)
    BY <2>1, <2>2 DEF Holds
  <2> QED
    BY <2>1, <2>2, <2>3, EditKeeps
<1>6. ASSUME Queue!Remove(u)
      PROVE  TwinsInv'
  <2>1. m # Gone /\ Queue!Edit(u, Gone)
    BY <1>6 DEF Queue!Remove, Queue!Held
  <2> QED
    BY <2>1, EditKeeps
<1>7. ASSUME NEW t \in Name, Queue!Create(u, t)
      PROVE  TwinsInv'
  <2> DEFINE n == Queue!Item(u, t, Ours)
  <2>1. /\ m = Gone /\ u \notin Queue!Known(target)
        /\ Queue!Edit(u, n)
    BY <1>7 DEF Queue!Create, Queue!Held
  <2>2. n \in Medium /\ \A r \in Items : n[r] # Absent => r = u
    BY ItemFacts, ItemsAssumption DEF ItemsAssumption, Value
  <2> HIDE DEF n
  <2> QED
    BY <2>1, <2>2, EditKeeps
<1> QED
  BY <1>1, <1>3, <1>4, <1>5, <1>6, <1>7

-----------------------------------------------------------------------------
(* Answers and their application.                                          *)

\* resolve_journaled_sync_conflict keeps the invariant: the edits are merged in, then one
\* question is decided.
LEMMA AnswerStep ==
    ASSUME TwinsInv, NEW k \in queue, Queue!Answer(k)
    PROVE  TwinsInv'
<1> DEFINE E == Queue!Local
<1>1. /\ phase = "await" /\ phase' = "apply" /\ baseline' = E
      /\ UNCHANGED <<live, cloud, edits, touched>>
      /\ \E N \in Queue!Rebased(E, TRUE) :
           \E now \in {{j \in N.queue : Queue!SameSlot(j, k)}} :
             \E res \in IF now = {} THEN {Queue!Result(N.target, {}, {})}
                      ELSE UNION {Queue!Results(N.target, j, N.queue) : j \in now} :
               /\ target' = res.target
               /\ queue' = Queue!Refreshed((N.queue \ now) \cup res.new, res.target, E, cloud)
               /\ combined' = combined \cup res.drops
               /\ back' = back \cup Queue!Returned(res.target, combined')
               /\ owed' = IF Queue!IsTwin(k) THEN owed
                          ELSE owed \ ((Queue!Recorded(N.target) \cup Queue!KeptBy(now))
                                          \ Queue!Recorded(res.target))
  BY DEF Queue!Answer
<1>2. PICK N \in Queue!Rebased(E, TRUE) :
        LET now == {j \in N.queue : Queue!SameSlot(j, k)}
        IN  \E res \in IF now = {} THEN {Queue!Result(N.target, {}, {})}
                      ELSE UNION {Queue!Results(N.target, j, N.queue) : j \in now} :
               /\ target' = res.target
               /\ queue' = Queue!Refreshed((N.queue \ now) \cup res.new, res.target, E, cloud)
               /\ combined' = combined \cup res.drops
               /\ back' = back \cup Queue!Returned(res.target, combined')
               /\ owed' = IF Queue!IsTwin(k) THEN owed
                          ELSE owed \ ((Queue!Recorded(N.target) \cup Queue!KeptBy(now))
                                          \ Queue!Recorded(res.target))
  BY <1>1
<1> DEFINE S == N.target
           Q == N.queue
           now == {j \in Q : Queue!SameSlot(j, k)}
<1>3. PICK res \in IF now = {} THEN {Queue!Result(S, {}, {})}
                   ELSE UNION {Queue!Results(S, j, Q) : j \in now} :
               /\ target' = res.target
               /\ queue' = Queue!Refreshed((Q \ now) \cup res.new, res.target, E, cloud)
               /\ combined' = combined \cup res.drops
               /\ back' = back \cup Queue!Returned(res.target, combined')
               /\ owed' = IF Queue!IsTwin(k) THEN owed
                          ELSE owed \ ((Queue!Recorded(S) \cup Queue!KeptBy(now))
                                          \ Queue!Recorded(res.target))
  BY <1>2
<1> DEFINE T == res.target
           P == queue'
<1>4. Settled(E, S, Q) /\ Asked(S, Q)
  BY RebaseSettles
<1> HIDE DEF E, S, Q
<1>5. /\ E \in Version /\ S \in Version /\ E.library = live.library
      /\ Origins(E, live, S) /\ Questions(E, live, S, Q)
      /\ \A u, w, r \in Items : Holds(E, u, r) /\ Stands(S, Q, w, r) /\ u # w =>
            u \in combined \/ r \in back
      /\ \A u, w, r \in Items : Stands(S, Q, u, r) /\ Stands(S, Q, w, r) /\ u # w =>
            r \in back \/ \E x \in {u, w} \cap combined :
                             Holds(S, x, r) /\ \E q \in Q : Decides(q, x)
      /\ combined \subseteq Queue!Known(S)
      /\ \A u \in combined \ touched : S.library[u] = Gone /\ \A q \in Q : ~Decides(q, u)
      /\ \A r \in owed : \E u \in Items : Stands(S, Q, u, r)
  BY <1>1, <1>4 DEF Settled
<1>6. /\ live \in Database /\ touched \subseteq Items /\ combined \subseteq Items
      /\ back \subseteq Items /\ owed \subseteq Items
  BY DEF TwinsInv, TwinTypes
<1>7. /\ T \in Version
      /\ \/ Minor(S, T, res, now)
         \/ k.kind = "deletion" /\ k.uid \in Items /\ Fate(S, T, res, Q, now, k.uid)
         \/ k.kind = "twin" /\ \E l, o \in Items : Union(S, T, res, Q, now, l, o)
  <2>1. CASE now = {}
    <3>1. T = S /\ res.new = {} /\ res.drops = {}
      BY <1>3, <2>1 DEF Queue!Result
    <3> QED
      BY <1>5, <2>1, <3>1 DEF Minor
  <2>2. CASE now # {}
    <3>1. PICK q \in now : res \in Queue!Results(S, q, Q)
      BY <1>3, <2>2
    <3> QED
      BY ONLY <1>4, <1>5, <3>1, OneResult
  <2> QED
    BY <2>1, <2>2
<1>8. now \subseteq Q
  OBVIOUS
<1>9. P = Queue!Refreshed((Q \ now) \cup res.new, T, E, cloud)
  BY <1>3
<1> HIDE DEF now, T, P
<1>10. Answered(E, S, T, live, Q, P, k, now, res)
  <2>1. live.library = E.library
    BY <1>5
  <2> QED
    BY ONLY <1>4, <1>5, <1>6, <1>7, <1>8, <1>9, <2>1, AnswerFacts
<1>11. /\ \A q \in P : Question(q)
       /\ Origins(E, live, T)
       /\ Questions(E, live, T, P)
       /\ res.drops \subseteq Items
       /\ Queue!Known(S) \cup res.drops \subseteq Queue!Known(T)
       /\ \A u, r \in Items : Stands(T, P, u, r) =>
            Stands(S, Q, u, r) \/ \E o \in res.drops : o # u /\ Stands(S, Q, o, r)
       /\ \A u, w, r \in Items :
            /\ Stands(T, P, u, r) /\ ~Stands(S, Q, u, r)
            /\ Stands(T, P, w, r) /\ ~Stands(S, Q, w, r)
            => u = w
       /\ \A u, r \in Items : Stands(T, P, u, r) /\ Holds(S, u, r) => Holds(T, u, r)
       /\ \A o \in res.drops : \A q \in Q : ~Decides(q, o)
       /\ \A u \in Items :
            /\ S.library[u] = Gone \/ u \in res.drops
            /\ \A q \in Q : ~Decides(q, u)
            => T.library[u] = Gone /\ \A q \in P : ~Decides(q, u)
       /\ \A u, r \in Items : Stands(S, Q, u, r) =>
            \/ \E w \in Items : Stands(T, P, w, r)
            \/ /\ k.kind # "twin"
               /\ r \in (Queue!Recorded(S) \cup Queue!KeptBy(now)) \ Queue!Recorded(T)
  BY <1>10 DEF Answered
<1>12. /\ target' = T /\ combined' = combined \cup res.drops
       /\ back' = back \cup Queue!Returned(T, combined')
       /\ owed' = IF k.kind = "twin" THEN owed
                  ELSE owed \ ((Queue!Recorded(S) \cup Queue!KeptBy(now)) \ Queue!Recorded(T))
  BY <1>3 DEF T, Queue!IsTwin
<1>13. /\ \A u \in res.drops : T.library[u] = Gone /\ \A q \in P : ~Decides(q, u)
       /\ \A u \in res.drops, r \in Items : ~Stands(T, P, u, r)
  <2>1. \A u \in res.drops : T.library[u] = Gone /\ \A q \in P : ~Decides(q, u)
    BY <1>11
  <2> QED
    BY <2>1 DEF Stands, Holds
<1>14. \A u \in combined', r \in Items : Holds(T, u, r) => r \in back'
  BY <1>12 DEF Queue!Returned, Queue!RecordsOf, Holds
<1>15. ASSUME NEW u \in Items, NEW w \in Items, NEW r \in Items, u # w,
              Holds(E, u, r), Stands(T, P, w, r)
       PROVE  u \in combined' \/ r \in back'
  <2>1. CASE Stands(S, Q, w, r)
    BY <1>5, <1>12, <1>15, <2>1
  <2>2. CASE \E o \in res.drops : Stands(S, Q, o, r)
    <3>1. PICK o \in res.drops : Stands(S, Q, o, r)
      BY <2>2
    <3>2. o \in Items
      BY <1>11
    <3> QED
      BY <1>5, <1>12, <1>15, <3>1, <3>2
  <2> QED
    BY <1>11, <1>15, <2>1, <2>2
<1>16. ASSUME NEW u \in Items, NEW w \in Items, NEW r \in Items, u # w,
              Stands(T, P, u, r), Stands(S, Q, u, r), Stands(S, Q, w, r),
              Stands(T, P, w, r) \/ w \in res.drops
       PROVE  r \in back'
  <2>1. CASE r \in back
    BY <1>12, <2>1
  <2>2. CASE r \notin back
    <3>1. PICK x \in {u, w} \cap combined : Holds(S, x, r) /\ \E q \in Q : Decides(q, x)
      BY <1>5, <1>16, <2>2
    <3>2. Stands(T, P, x, r) /\ x \in Items
      BY <1>11, <1>16, <3>1
    <3>3. Holds(T, x, r)
      BY <1>11, <3>1, <3>2
    <3> QED
      BY <1>12, <1>14, <3>1, <3>3
  <2> QED
    BY <2>1, <2>2
<1>17. ASSUME NEW u \in Items, NEW w \in Items, NEW r \in Items, u # w,
              Stands(T, P, u, r), Stands(S, Q, u, r), Stands(T, P, w, r)
       PROVE  r \in back'
  <2>1. CASE Stands(S, Q, w, r)
    BY <1>16, <1>17, <2>1
  <2>2. CASE ~Stands(S, Q, w, r)
    <3>1. PICK o \in res.drops : Stands(S, Q, o, r)
      BY <1>11, <1>17, <2>2
    <3>2. o \in Items /\ o # u
      BY <1>11, <1>13, <1>17, <3>1
    <3> QED
      BY <1>16, <1>17, <3>1, <3>2
  <2> QED
    BY <2>1, <2>2
<1>18. ASSUME NEW u \in Items, NEW w \in Items, NEW r \in Items, u # w,
              Stands(T, P, u, r), Stands(T, P, w, r)
       PROVE  r \in back'
  BY <1>11, <1>17, <1>18
<1>19. Places(baseline, target, queue, combined, back)'
  BY <1>1, <1>12, <1>15, <1>18 DEF Places, Stands, Holds, P
<1>20. (Queue!Returned(target, combined) \subseteq back)'
  BY <1>12 DEF Queue!Returned
<1>21. Untouched(E, live, T, P, combined', touched)
  <2>1. combined' \subseteq Queue!Known(T)
    BY <1>5, <1>11, <1>12
  <2>2. \A u \in Items \ touched : live.library[u] = E.library[u]
    BY <1>5
  <2>3. \A u \in combined' \ touched : T.library[u] = Gone /\ \A q \in P : ~Decides(q, u)
    <3>1. \A u \in combined \ touched : T.library[u] = Gone /\ \A q \in P : ~Decides(q, u)
      BY <1>5, <1>6, <1>11
    <3> QED
      BY <1>12, <1>13, <3>1
  <2> QED
    BY <2>1, <2>2, <2>3 DEF Untouched
<1>22. ASSUME NEW r \in owed'
       PROVE  Kept(E, live, T, P, r)
  <2>1. r \in owed /\ r \in Items
    BY <1>6, <1>12
  <2>2. PICK u \in Items : Stands(S, Q, u, r)
    BY <1>5, <2>1
  <2>3. PICK w \in Items : Stands(T, P, w, r)
    <3>1. ~(k.kind # "twin" /\ r \in (Queue!Recorded(S) \cup Queue!KeptBy(now)) \ Queue!Recorded(T))
      BY <1>12, <1>22
    <3> QED
      BY <1>11, <2>1, <2>2, <3>1
  <2> QED
    BY <1>5, <2>3 DEF Kept, Holds
<1>23. TwinTypes'
  <2>1. Queue!Returned(T, combined') \subseteq Items
    BY DEF Queue!Returned, Queue!RecordsOf
  <2>2. combined' \subseteq Items /\ back' \subseteq Items /\ owed' \subseteq Items
    BY <1>6, <1>11, <1>12, <2>1
  <2>3. \A q \in queue' : Question(q)
    BY <1>11 DEF P
  <2> QED
    BY <1>1, <1>5, <1>6, <1>7, <1>12, <2>2, <2>3 DEF TwinTypes, Question
<1>24. /\ Origins(baseline, live, target)' /\ Questions(baseline, live, target, queue)'
       /\ Untouched(baseline, live, target, queue, combined, touched)'
       /\ (\A r \in owed : Kept(baseline, live, target, queue, r))'
  <2>1. /\ baseline' = E /\ live' = live /\ target' = T /\ queue' = P /\ touched' = touched
    BY <1>1, <1>12 DEF P
  <2>2. Origins(E, live, T) /\ Questions(E, live, T, P)
    BY <1>11
  <2> HIDE DEF P
  <2> QED
    BY <1>21, <1>22, <2>1, <2>2
<1> QED
  BY <1>1, <1>19, <1>20, <1>23, <1>24 DEF TwinsInv

\* Without edits since the last merge there is nothing to merge in.
LEMMA NoEditsSettle ==
    ASSUME TwinsInv, phase # "done", live = Queue!ContentOf(baseline)
    PROVE  Settled(baseline, target, queue)
<1>1. live.library = baseline.library
  BY DEF Queue!ContentOf
<1>2. \A r \in owed : \E u \in Items : Stands(target, queue, u, r)
  BY <1>1 DEF TwinsInv, Kept
<1> QED
  BY <1>1, <1>2 DEF TwinsInv, TwinTypes, Places, Untouched, Settled

\* recover_pending_snapshot_apply keeps the invariant, whether the target goes back to the
\* user, is stored or is refused.
LEMMA ApplyStep ==
    ASSUME TwinsInv, Queue!Apply
    PROVE  TwinsInv'
<1> DEFINE same == live = Queue!ContentOf(baseline)
           E == IF same THEN baseline ELSE Queue!Local
<1>1. /\ phase = "apply" /\ UNCHANGED <<cloud, edits, touched, combined, owed>>
      /\ \E N \in IF same THEN {[target |-> target, queue |-> queue]}
                  ELSE Queue!Rebased(Queue!Local, FALSE) :
          /\ target' = N.target
          /\ queue' = N.queue
          /\ back' = back \cup Queue!Returned(N.target, combined)
          /\ \/ /\ \E k \in N.queue : Queue!IsTwin(k)
                /\ phase' = "await"
                /\ baseline' = E
                /\ UNCHANGED live
             \/ /\ Queue!Fits(N.target)
                /\ phase' = IF N.queue = {} THEN "done" ELSE "await"
                /\ baseline' = N.target
                /\ live' = Queue!ContentOf(N.target)
             \/ /\ phase' = "apply"
                /\ baseline' = E
                /\ UNCHANGED live
  BY DEF Queue!Apply
<1>2. PICK N \in IF same THEN {[target |-> target, queue |-> queue]}
                 ELSE Queue!Rebased(Queue!Local, FALSE) :
          /\ target' = N.target
          /\ queue' = N.queue
          /\ back' = back \cup Queue!Returned(N.target, combined)
          /\ \/ /\ \E k \in N.queue : Queue!IsTwin(k)
                /\ phase' = "await"
                /\ baseline' = E
                /\ UNCHANGED live
             \/ /\ Queue!Fits(N.target)
                /\ phase' = IF N.queue = {} THEN "done" ELSE "await"
                /\ baseline' = N.target
                /\ live' = Queue!ContentOf(N.target)
             \/ /\ phase' = "apply"
                /\ baseline' = E
                /\ UNCHANGED live
  BY <1>1
<1> DEFINE S == N.target
           Q == N.queue
<1>3. Settled(E, S, Q)
  <2>1. CASE same
    <3>1. S = target /\ Q = queue /\ E = baseline
      BY <1>2, <2>1
    <3> QED
      BY <1>1, <2>1, <3>1, NoEditsSettle
  <2>2. CASE ~same
    <3>1. N \in Queue!Rebased(Queue!Local, FALSE) /\ E = Queue!Local
      BY <1>2, <2>2
    <3> QED
      BY <3>1, RebaseSettles
  <2> QED
    BY <2>1, <2>2
<1>4. /\ target' = S /\ queue' = Q /\ touched' = touched /\ combined' = combined
      /\ owed' = owed /\ back' = back \cup Queue!Returned(S, combined)
      /\ \/ Q # {} /\ phase' = "await" /\ baseline' = E /\ live' = live
         \/ /\ Queue!Fits(S) /\ phase' = IF Q = {} THEN "done" ELSE "await"
            /\ baseline' = S /\ live' = Queue!ContentOf(S)
         \/ phase' = "apply" /\ baseline' = E /\ live' = live
  BY <1>1, <1>2
<1> HIDE DEF E, S, Q
<1>5. /\ E \in Version /\ S \in Version
      /\ E.library = live.library
      /\ \A k \in Q : Question(k)
      /\ Origins(E, live, S)
      /\ Questions(E, live, S, Q)
      /\ \A u, w, r \in Items : Holds(E, u, r) /\ Stands(S, Q, w, r) /\ u # w =>
            u \in combined \/ r \in back
      /\ \A u, w, r \in Items : Stands(S, Q, u, r) /\ Stands(S, Q, w, r) /\ u # w =>
            r \in back \/ \E x \in {u, w} \cap combined :
                             Holds(S, x, r) /\ \E k \in Q : Decides(k, x)
      /\ combined \subseteq Queue!Known(S)
      /\ \A u \in combined \ touched : S.library[u] = Gone /\ \A k \in Q : ~Decides(k, u)
      /\ \A r \in owed : \E u \in Items : Stands(S, Q, u, r)
  BY <1>1, <1>3 DEF Settled
<1>6. /\ live \in Database /\ touched \subseteq Items /\ combined \subseteq Items
      /\ back \subseteq Items /\ owed \subseteq Items
  BY DEF TwinsInv, TwinTypes
<1>7. \A u \in combined, r \in Items : Holds(S, u, r) => r \in back'
  BY <1>4 DEF Queue!Returned, Queue!RecordsOf, Holds
<1>8. \A u, w, r \in Items : Stands(S, Q, u, r) /\ Stands(S, Q, w, r) /\ u # w => r \in back'
  BY <1>4, <1>5, <1>7
<1>9. (Queue!Returned(target, combined) \subseteq back)'
  BY <1>4 DEF Queue!Returned
<1>10. back' \subseteq Items
  <2>1. Queue!Returned(S, combined) \subseteq Items
    BY DEF Queue!Returned, Queue!RecordsOf
  <2> QED
    BY <1>4, <1>6, <2>1
<1>11. CASE (phase' = "apply" \/ (Q # {} /\ phase' = "await")) /\ baseline' = E /\ live' = live
  <2>1. TwinTypes'
    BY <1>4, <1>5, <1>6, <1>10, <1>11 DEF TwinTypes
  <2>2. Places(E, S, Q, combined, back')
    BY <1>4, <1>5, <1>8 DEF Places
  <2>3. Untouched(E, live, S, Q, combined, touched)
    BY <1>5 DEF Untouched
  <2>4. \A r \in owed : Kept(E, live, S, Q, r)
    BY <1>5 DEF Kept, Holds
  <2>5. /\ Origins(baseline, live, target)' /\ Questions(baseline, live, target, queue)'
        /\ Places(baseline, target, queue, combined, back)'
        /\ Untouched(baseline, live, target, queue, combined, touched)'
        /\ (\A r \in owed : Kept(baseline, live, target, queue, r))'
    BY <1>4, <1>5, <1>11, <2>2, <2>3, <2>4
  <2>6. phase' # "done" /\ (phase' = "await" => queue' # {})
    BY <1>4, <1>11
  <2> QED
    BY <1>9, <2>1, <2>5, <2>6 DEF TwinsInv
<1>12. CASE /\ Queue!Fits(S) /\ phase' = IF Q = {} THEN "done" ELSE "await"
            /\ baseline' = S /\ live' = Queue!ContentOf(S)
  <2> DEFINE c == Queue!ContentOf(S)
  <2>1. c \in Database /\ c.library = S.library
    BY <1>5 DEF Queue!ContentOf, Version, Database
  <2> HIDE DEF c
  <2>2. TwinTypes'
    BY <1>4, <1>5, <1>6, <1>10, <1>12, <2>1 DEF TwinTypes, c
  <2>3. \A u, w, r \in Items : Holds(S, u, r) /\ Holds(S, w, r) => u = w
    BY <1>12 DEF Queue!Fits, Queue!Holders, Queue!RecordsOf, Holds
  <2>4. Origins(S, c, S)
    <3>1. \A u, r \in Items : Holds(S, u, r) => r \in Queue!Known(S)
      BY <1>5 DEF Questions, Stands
    <3> QED
      BY <2>1, <2>3, <3>1 DEF Origins, Holds
  <2>5. Questions(S, c, S, Q)
    BY <1>5, <2>1 DEF Questions
  <2>6. Places(S, S, Q, combined, back')
    BY <1>8 DEF Places, Stands
  <2>7. Untouched(S, c, S, Q, combined, touched)
    BY <1>5, <2>1 DEF Untouched
  <2>8. \A r \in owed : Kept(S, c, S, Q, r)
    BY <1>5, <2>1 DEF Kept, Holds
  <2>9. phase' = "done" => owed' \subseteq Queue!Recorded(live')
    <3> SUFFICES ASSUME Q = {} PROVE owed \subseteq Queue!Recorded(c)
      BY <1>4, <1>12 DEF c
    <3>1. Queue!Recorded(c) = Queue!Recorded(S)
      BY <2>1 DEF Queue!Recorded
    <3>2. \A r \in owed : \E u \in Items : Holds(S, u, r)
      BY <1>5 DEF Stands
    <3> QED
      BY <1>5, <1>6, <3>1, <3>2, RecordedFacts
  <2>10. /\ Origins(baseline, live, target)' /\ Questions(baseline, live, target, queue)'
         /\ Places(baseline, target, queue, combined, back)'
         /\ Untouched(baseline, live, target, queue, combined, touched)'
         /\ (\A r \in owed : Kept(baseline, live, target, queue, r))'
    <3>1. live' = c /\ baseline' = S
      BY <1>12 DEF c
    <3> QED
      BY <1>4, <2>4, <2>5, <2>6, <2>7, <2>8, <3>1
  <2>11. phase' = "await" => queue' # {}
    BY <1>4, <1>12
  <2> QED
    BY <1>9, <2>2, <2>9, <2>10, <2>11 DEF TwinsInv
<1> QED
  BY <1>4, <1>11, <1>12

-----------------------------------------------------------------------------
(* What the invariant says of the queue.                                   *)

\* The target that the next answer will start from.
LEMMA ComingFacts ==
    ASSUME TwinsInv
    PROVE  /\ Settled(Queue!Local, Queue!Coming.target, Queue!Coming.queue)
           /\ \A k \in Queue!Coming.queue : k.kind # "twin" =>
                \/ \E j \in queue : j.kind # "twin"
                \/ live.library[k.uid] # baseline.library[k.uid]
<1>1. Queue!Coming \in Queue!Rebased(Queue!Local, TRUE)
  BY DEF Queue!Coming, Queue!Rebased
<1> QED
  BY <1>1, RebaseSettles

\* The invariant gives each part of the property.
LEMMA TwinsSettleRight ==
    ASSUME TwinsInv
    PROVE  SettledRight
<1>1. Queue!RecordsOnce
  BY DEF TwinsInv, Places, Stands, Queue!RecordsOnce, Queue!Twice, Queue!Holders,
         Queue!RecordsOf, Holds
<1>2. Queue!CombinedStays
  BY DEF TwinsInv, TwinTypes, Untouched, Queue!CombinedStays
<1>3. Queue!RecordsKept
  <2>1. CASE phase = "done"
    BY <2>1 DEF TwinsInv, Queue!RecordsKept
  <2>2. CASE phase # "done"
    <3> SUFFICES ASSUME NEW r \in owed
                 PROVE  r \in Queue!Recorded(Queue!Coming.target)
                              \cup Queue!KeptBy(Queue!Coming.queue)
      BY <2>2 DEF Queue!RecordsKept
    <3> DEFINE S == Queue!Coming.target
               Q == Queue!Coming.queue
    <3>1. Settled(Queue!Local, S, Q)
      BY ComingFacts
    <3> HIDE DEF S, Q
    <3>2. /\ S \in Version /\ \A k \in Q : Question(k)
          /\ \E u \in Items : Stands(S, Q, u, r)
      BY <2>2, <3>1 DEF Settled
    <3>3. r \in Items
      BY DEF TwinsInv, TwinTypes
    <3>4. r \in Queue!Recorded(S) \cup Queue!KeptBy(Q)
      BY <3>2, <3>3, RecordedFacts DEF Stands, Decides
    <3> QED
      BY <3>4 DEF S, Q
  <2> QED
    BY <2>1, <2>2
<1>4. Queue!Answerable
  <2> SUFFICES ASSUME phase = "await"
               PROVE  \E k \in queue :
                        \/ Queue!IsTwin(k) /\ Queue!Pair(k) \cap Queue!Edited # {}
                        \/ \A j \in {j \in Queue!Coming.queue : Queue!SameSlot(j, k)} :
                              Queue!Results(Queue!Coming.target, j, Queue!Coming.queue) # {}
    BY DEF Queue!Answerable
  <2> DEFINE S == Queue!Coming.target
             Q == Queue!Coming.queue
  <2>1. Settled(Queue!Local, S, Q)
    BY ComingFacts
  <2>2. \A k \in Q : k.kind # "twin" =>
           (\E j \in queue : j.kind # "twin") \/ live.library[k.uid] # baseline.library[k.uid]
    BY ComingFacts
  <2>3. \A k \in queue \cup Q : Question(k)
    BY <2>1 DEF TwinsInv, TwinTypes, Settled
  <2> HIDE DEF S, Q
  <2>4. CASE \E k \in queue : k.kind # "twin"
    <3>1. PICK k \in queue : k.kind # "twin"
      BY <2>4
    <3>2. ASSUME NEW j \in Q, Queue!SameSlot(j, k)
          PROVE  Queue!Results(S, j, Q) # {}
      <4>1. j.kind = "field" \/ j.kind = "deletion"
        BY <2>3, <3>1, <3>2 DEF Queue!SameSlot, Question
      <4>2. Queue!Sides(S, j) # {} /\ Queue!Fates(S, j) # {}
        BY DEF Queue!Sides, Queue!Fates
      <4> QED
        BY <4>1, <4>2 DEF Queue!Results
    <3> QED
      BY <3>1, <3>2 DEF S, Q
  <2>5. CASE \A k \in queue : k.kind = "twin"
    <3>1. PICK k \in queue : TRUE
      BY DEF TwinsInv
    <3>2. CASE Queue!Pair(k) \cap Queue!Edited # {}
      BY <2>5, <3>2 DEF Queue!IsTwin
    <3>3. CASE Queue!Pair(k) \cap Queue!Edited = {}
      <4>1. ASSUME NEW j \in Q, Queue!SameSlot(j, k)
            PROVE  Queue!Results(S, j, Q) # {}
        <5>1. j.kind = "twin" /\ Queue!Pair(j) = Queue!Pair(k)
          BY <2>5, <4>1 DEF Queue!SameSlot, Queue!IsTwin
        <5>2. \A q \in Q : q.kind # "twin" => q.uid \in Queue!Edited
          BY <2>2, <2>3, <2>5 DEF Question, Queue!Edited
        <5>3. Queue!Ready(j, Q)
          BY <3>3, <5>1, <5>2 DEF Queue!Ready, Queue!IsTwin
        <5>4. Queue!Combinations(S, j, Q) # {}
          BY <5>3 DEF Queue!Combinations
        <5> QED
          BY <5>1, <5>4 DEF Queue!Results
      <4> QED
        BY <4>1 DEF S, Q
    <3> QED
      BY <3>2, <3>3
  <2> QED
    BY <2>4, <2>5
<1> QED
  BY <1>1, <1>2, <1>3, <1>4 DEF SettledRight, Queue!SettledRight

\* The invariant of the queue holds in every state, whatever the user edits and answers.
THEOREM TwinsInvariance == MCSpec => []TwinsInv
<1>1. MCInit => TwinsInv
  BY TwinsInit, TwinsIdle DEF MCInit
<1>2. TwinsInv /\ [MCNext]_MCVars => TwinsInv'
  <2> SUFFICES ASSUME TwinsInv, [MCNext]_MCVars PROVE TwinsInv'
    OBVIOUS
  <2>1. CASE UNCHANGED twins
    BY <2>1 DEF twins, TwinsInv, TwinTypes, Origins, Questions, Places, Untouched, Kept,
                Stands, Holds, Queue!Returned, Queue!Known, Queue!Live, Queue!Recorded
  <2>2. CASE Queue!Next
    BY <2>2, EditStep, AnswerStep, ApplyStep DEF Queue!Next
  <2> QED
    BY <2>1, <2>2 DEF MCNext, MCVars, Devices
<1> QED
  BY <1>1, <1>2, PTL DEF MCSpec

\* Settling twins, in any order and among edits, neither loses a record nor doubles one
\* nor comes to a halt, and what was combined stays so (resolve_journaled_sync_conflict,
\* recover_pending_snapshot_apply).
THEOREM TwinsSettle == MCSpec => []SettledRight
BY TwinsInvariance, TwinsSettleRight, PTL
=============================================================================
