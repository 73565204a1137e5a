---------------------------- MODULE CoversProofs ----------------------------
(***************************************************************************)
(* No cover is named that is not there, and the downloads bring what was   *)
(* merged and replace nothing the user chose, for any entries, covers and  *)
(* number of edits, publications and failures.                             *)
(***************************************************************************)
EXTENDS Covers, TLAPS

\* Whatever is named or lies on the disk is no newer than the last upload.
Old(path) == path \in Path => path.n <= Len(given)
CountInv == (\A u \in Uid : Old(cover[u])) /\ (\A path \in disk : Old(path))

\* A blob is what it is called; one that is not in the cloud is still to be uploaded.
BlobInv ==
    /\ \A b \in blobs : b[1] = b[2]
    /\ phase = "uploading" => Required(target) \ todo \subseteq Names

\* The cover that is known for a hash has that hash.
CacheInv ==
    phase \in {"loading", "setting"} =>
        \A h \in Hash : cache[h] # None => cache[h] \in Path /\ cache[h].hash = h

\* Whoever has not touched an entry since the apply finds the cover the apply left,
\* or already the one that was merged.
Materializing == phase \in {"applied", "loading", "setting"}
Arriving(u) == cover[u] # Gone /\ HashAt(cover[u], disk) \in {base[u], target[u]}
ApplyInv ==
    Materializing => broken \subseteq touched /\ \A u \in Wanting \ touched : Arriving(u)

\* What the second loop has dealt with has arrived.
SettingInv ==
    phase = "setting" =>
        /\ todo \subseteq Wanting
        /\ \A u \in Wanting \ (touched \cup todo) : HashAt(cover[u], disk) = target[u]

IInv == /\ TypeOK /\ CountInv /\ RowsHaveFiles /\ CoversPublished
        /\ BlobInv /\ CacheInv /\ ApplyInv /\ SettingInv

USE CoversAssumption

LEMMA Initially == Init => IInv
<1> SUFFICES ASSUME Init PROVE IInv
    OBVIOUS
<1>1. TypeOK
    BY DEF Init, TypeOK, Snapshot, NoSnapshot, NoCache
<1>2. CountInv /\ RowsHaveFiles
    BY DEF Init, CountInv, Old, RowsHaveFiles
<1>3. CoversPublished /\ BlobInv /\ CacheInv /\ ApplyInv /\ SettingInv
    BY DEF Init, CoversPublished, Required, BlobInv, CacheInv, ApplyInv, SettingInv, Materializing
<1> QED BY <1>1, <1>2, <1>3 DEF IInv

\* The removal of an entry's old file leaves every other file that is named.
LEMMA OldRemoved ==
    ASSUME TypeOK, NEW u \in Uid, NEW d, disk \subseteq d, d \subseteq Path, RemoveOld(d, u)
    PROVE  /\ disk' \subseteq d /\ fails' \in 0 .. MaxFails
           /\ \A path \in d : path # cover[u] => path \in disk'
           /\ \A v \in Uid \ {u} : cover[v] \in d => cover[v] \in disk'
BY DEF RemoveOld, Unreferenced, TypeOK

\* The cover of an entry that nobody touched is found as before.
LEMMA FoundAsBefore ==
    ASSUME IInv, NEW v \in Uid, cover'[v] = cover[v], disk' \subseteq Path,
           v \notin broken, cover[v] \in disk => cover[v] \in disk'
    PROVE  HashAt(cover[v], disk)' = HashAt(cover[v], disk)
<1>1. cover[v] \in {None, Gone} \/ cover[v] \in disk
    BY DEF IInv, RowsHaveFiles
<1>2. None \notin disk /\ Gone \notin disk /\ None \notin disk' /\ Gone \notin disk'
    BY DEF IInv, TypeOK
<1> QED BY <1>1, <1>2 DEF HashAt

-----------------------------------------------------------------------------
\* The user and the other devices.

LEMMA SaveCoverKeeps == ASSUME IInv, NEW u \in Uid, NEW h \in Hash, SaveCover(u, h) PROVE IInv'
<1> USE DEF IInv, SaveCover
<1> DEFINE new == [n |-> Len(given) + 1, hash |-> h]
<1>n. new \in Path /\ Len(given') = Len(given) + 1 /\ given' \in Seq(Hash)
    BY DEF TypeOK, Path
<1>c. cover[u] # new /\ (\A path \in disk : path # new)
    BY <1>n DEF CountInv, Old
<1>d. /\ disk' \subseteq disk \cup {new} /\ disk' \subseteq Path /\ fails' \in 0 .. MaxFails
      /\ new \in disk'
      /\ \A v \in Uid \ {u} : cover[v] \in disk => cover[v] \in disk'
    BY <1>n, <1>c, OldRemoved DEF TypeOK
<1>a. /\ cover' = [cover EXCEPT ![u] = new] /\ broken' = broken \ {u}
      /\ new \in Path /\ new.n = Len(given) + 1 /\ Len(given') = Len(given) + 1
      /\ given' \in Seq(Hash) /\ edits' = edits + 1 /\ edits' \in 0 .. MaxEdits
      /\ UNCHANGED <<blobs, remote, version, phase, target, seen, base, cache, todo, synced>>
    BY <1>n DEF User, cloud, plan, TypeOK
<1> HIDE DEF new
<1>1. TypeOK'
    BY <1>a, <1>d DEF TypeOK, User, Chose, Applied, cloud, plan
<1>2. CountInv'
    BY <1>a, <1>d, SMTT(20) DEF TypeOK, CountInv, Old, Path
<1>3. RowsHaveFiles'
    BY <1>a, <1>d DEF TypeOK, RowsHaveFiles
<1>4. CoversPublished' /\ BlobInv'
    BY <1>a DEF CoversPublished, BlobInv, Required, Names, User, cloud, plan
<1>5. CacheInv'
    BY DEF CacheInv, User
<1>6. ASSUME Materializing, NEW v \in Wanting \ touched, v # u
      PROVE  cover'[v] = cover[v] /\ HashAt(cover[v], disk)' = HashAt(cover[v], disk)
  <2>1. v \notin broken /\ cover'[v] = cover[v]
    BY <1>6, <1>a DEF ApplyInv, Wanting, TypeOK
  <2> QED BY <2>1, <1>6, <1>a, <1>d, FoundAsBefore DEF Wanting, TypeOK
<1>7. Materializing => touched' = touched \cup {u}
    BY DEF Chose, Applied, Materializing
<1>8. ApplyInv'
    BY <1>a, <1>6, <1>7 DEF ApplyInv, Materializing, Wanting, Arriving, User, plan
<1>9. SettingInv'
    BY <1>a, <1>6, <1>7 DEF SettingInv, Materializing, Wanting, User, plan
<1> QED BY <1>1, <1>2, <1>3, <1>4, <1>5, <1>8, <1>9

LEMMA DeleteMediaKeeps == ASSUME IInv, NEW u \in Uid, DeleteMedia(u) PROVE IInv'
<1> USE DEF IInv, DeleteMedia
<1>d. /\ disk' \subseteq disk /\ disk' \subseteq Path /\ fails' \in 0 .. MaxFails
      /\ \A v \in Uid \ {u} : cover[v] \in disk => cover[v] \in disk'
    BY OldRemoved DEF TypeOK
<1>a. /\ cover' = [cover EXCEPT ![u] = Gone] /\ broken' = broken \ {u} /\ given' = given
      /\ edits' = edits + 1 /\ edits' \in 0 .. MaxEdits
      /\ UNCHANGED <<blobs, remote, version, phase, target, seen, base, cache, todo, synced>>
    BY DEF User, cloud, plan, TypeOK
<1>1. TypeOK'
    BY <1>a, <1>d DEF TypeOK, User, Chose, Applied, cloud, plan
<1>2. CountInv'
    BY <1>a, <1>d DEF TypeOK, CountInv, Old, Path
<1>3. RowsHaveFiles'
    BY <1>a, <1>d DEF TypeOK, RowsHaveFiles
<1>4. CoversPublished' /\ BlobInv'
    BY <1>a DEF CoversPublished, BlobInv, Required, Names, User, cloud, plan
<1>5. CacheInv'
    BY DEF CacheInv, User
<1>6. ASSUME Materializing, NEW v \in Wanting \ touched, v # u
      PROVE  cover'[v] = cover[v] /\ HashAt(cover[v], disk)' = HashAt(cover[v], disk)
  <2>1. v \notin broken /\ cover'[v] = cover[v]
    BY <1>6, <1>a DEF ApplyInv, Wanting, TypeOK
  <2> QED BY <2>1, <1>6, <1>a, <1>d, FoundAsBefore DEF Wanting, TypeOK
<1>7. Materializing => touched' = touched \cup {u}
    BY DEF Chose, Applied, Materializing
<1>8. ApplyInv'
    BY <1>a, <1>6, <1>7 DEF ApplyInv, Materializing, Wanting, Arriving, User, plan
<1>9. SettingInv'
    BY <1>a, <1>6, <1>7 DEF SettingInv, Materializing, Wanting, User, plan
<1> QED BY <1>1, <1>2, <1>3, <1>4, <1>5, <1>8, <1>9

LEMMA UpdateMediaKeeps == ASSUME IInv, NEW u \in Uid, UpdateMedia(u) PROVE IInv'
<1> USE DEF IInv, UpdateMedia
<1>p. PICK path \in OldPaths \cup {None} :
        /\ cover' = [cover EXCEPT ![u] = path]
        /\ broken' = IF path \in disk \cup {None} THEN broken \ {u} ELSE broken \cup {u}
    OBVIOUS
<1>q. path \in Path \cup {None} /\ Old(path)
    BY DEF OldPaths, TypeOK, CountInv, Old, Path
<1>d. /\ disk' = disk /\ disk' \subseteq Path /\ fails' \in 0 .. MaxFails
    BY DEF TypeOK
<1>a. /\ cover' = [cover EXCEPT ![u] = path] /\ given' = given
      /\ broken' = IF path \in disk \cup {None} THEN broken \ {u} ELSE broken \cup {u}
      /\ path \in Path \cup {None} /\ Old(path)
      /\ edits' = edits + 1 /\ edits' \in 0 .. MaxEdits
      /\ UNCHANGED <<blobs, remote, version, phase, target, seen, base, cache, todo, synced>>
    BY <1>p, <1>q DEF User, cloud, plan, TypeOK
<1>1. TypeOK'
    BY <1>a, <1>d DEF TypeOK, User, Chose, Applied, cloud, plan
<1>2. CountInv'
    BY <1>a, <1>d DEF TypeOK, CountInv, Old, Path
<1>3. RowsHaveFiles'
    BY <1>a, <1>d DEF TypeOK, RowsHaveFiles
<1>4. CoversPublished' /\ BlobInv'
    BY <1>a DEF CoversPublished, BlobInv, Required, Names, User, cloud, plan
<1>5. CacheInv'
    BY DEF CacheInv, User
<1>6. ASSUME Materializing, NEW v \in Wanting \ touched, v # u
      PROVE  cover'[v] = cover[v] /\ HashAt(cover[v], disk)' = HashAt(cover[v], disk)
  <2>1. v \notin broken /\ cover'[v] = cover[v]
    BY <1>6, <1>a DEF ApplyInv, Wanting, TypeOK
  <2> QED BY <2>1, <1>6, <1>a, <1>d, FoundAsBefore DEF Wanting, TypeOK
<1>7. Materializing => touched' = touched \cup {u}
    BY DEF Chose, Applied, Materializing
<1>8. ApplyInv'
    BY <1>a, <1>6, <1>7 DEF ApplyInv, Materializing, Wanting, Arriving, User, plan
<1>9. SettingInv'
    BY <1>a, <1>6, <1>7 DEF SettingInv, Materializing, Wanting, User, plan
<1> QED BY <1>1, <1>2, <1>3, <1>4, <1>5, <1>8, <1>9

LEMMA OtherPublishesKeeps == ASSUME IInv, OtherPublishes PROVE IInv'
<1> USE DEF IInv
<1>p. PICK u \in Uid, x \in Hash \cup {None, Gone} :
        /\ remote' = [remote EXCEPT ![u] = x]
        /\ blobs' = blobs \cup {<<h, h>> : h \in {x} \cap Hash}
    BY DEF OtherPublishes
<1>a. /\ version' = version + 1 /\ version' \in 0 .. MaxVersion
      /\ UNCHANGED <<cover, disk, given, edits, broken, phase, target, seen, base, cache, todo,
                     synced, touched, fails>>
    BY DEF OtherPublishes, files, plan, TypeOK
<1>1. TypeOK'
    BY <1>p, <1>a DEF TypeOK, Snapshot
<1>2. CountInv' /\ RowsHaveFiles'
    BY <1>a DEF CountInv, Old, RowsHaveFiles
<1>3. CoversPublished'
    BY <1>p DEF CoversPublished, Required, TypeOK, Snapshot
<1>4. BlobInv'
    BY <1>p, <1>a DEF BlobInv, Required, Names
<1>5. CacheInv' /\ ApplyInv' /\ SettingInv'
    BY <1>a DEF CacheInv, ApplyInv, SettingInv, Materializing, Wanting, Arriving, HashAt
<1> QED BY <1>1, <1>2, <1>3, <1>4, <1>5

-----------------------------------------------------------------------------
\* The sync.

\* A step that leaves the files and the cloud alone, and begins no materialisation.
LEMMA CaptureLocalKeeps == ASSUME IInv, CaptureLocal PROVE IInv'
<1> USE DEF IInv, CaptureLocal
<1>a. /\ UNCHANGED <<cover, disk, given, edits, broken, blobs, remote, version, base, cache, todo,
                     synced, fails>>
      /\ phase' = "ready" /\ phase = "idle"
    BY DEF Sync, cloud
<1>1. TypeOK'
  <2>1. Local \in Snapshot
    BY DEF Local, HashAt, TypeOK, Snapshot, Path
  <2> QED BY <1>a, <2>1 DEF TypeOK
<1>2. CountInv' /\ RowsHaveFiles'
    BY <1>a DEF CountInv, Old, RowsHaveFiles
<1>3. CoversPublished' /\ BlobInv'
    BY <1>a DEF CoversPublished, BlobInv, Required
<1>4. CacheInv' /\ ApplyInv' /\ SettingInv'
    BY <1>a DEF CacheInv, ApplyInv, SettingInv, Materializing
<1> QED BY <1>1, <1>2, <1>3, <1>4

LEMMA FetchRemoteKeeps == ASSUME IInv, FetchRemote PROVE IInv'
<1> USE DEF IInv, FetchRemote
<1>a. /\ UNCHANGED <<cover, disk, given, edits, broken, blobs, remote, version, base, cache, todo,
                     synced, touched, fails>>
      /\ phase' = "fetched" /\ phase = "idle"
    BY DEF Sync, cloud
<1>1. TypeOK'
    BY <1>a DEF TypeOK
<1>2. CountInv' /\ RowsHaveFiles'
    BY <1>a DEF CountInv, Old, RowsHaveFiles
<1>3. CoversPublished' /\ BlobInv'
    BY <1>a DEF CoversPublished, BlobInv, Required
<1>4. CacheInv' /\ ApplyInv' /\ SettingInv'
    BY <1>a DEF CacheInv, ApplyInv, SettingInv, Materializing
<1> QED BY <1>1, <1>2, <1>3, <1>4

\* What is found for a hash is a file of that hash.
LEMMA Cached ==
    ASSUME TypeOK, NEW c \in Caches, NEW h \in Hash
    PROVE  c[h] # None => c[h] \in disk /\ c[h] \in Path /\ c[h].hash = h
           /\ \E u \in Uid : c[h] = cover[u]
<1> SUFFICES ASSUME c[h] # None PROVE c[h] \in disk /\ c[h] \in Path /\ c[h].hash = h
                                     /\ \E u \in Uid : c[h] = cover[u]
    OBVIOUS
<1>1. c[h] \in Holders(h)
    BY DEF Caches
<1>2. PICK u \in Uid : HashAt(cover[u], disk) = h /\ c[h] = cover[u]
    BY <1>1 DEF Holders
<1> QED BY <1>2 DEF HashAt, TypeOK

LEMMA CachesTyped == ASSUME TypeOK, NEW c \in Caches PROVE c \in [Hash -> Path \cup {None}]
<1>1. c = [h \in Hash |-> c[h]]
    BY DEF Caches
<1>2. \A h \in Hash : c[h] \in Path \cup {None}
    BY Cached
<1> QED BY <1>1, <1>2

LEMMA ApplySnapshotKeeps == ASSUME IInv, ApplySnapshot PROVE IInv'
<1> USE DEF IInv
<1>p. PICK s \in Snapshot, c \in Caches :
        /\ \A u \in Uid : s[u] \in {Local[u], target[u]}
        /\ target' = s
        /\ cover' = [u \in Uid |-> PathFor(s[u], c)]
        /\ base' = [u \in Uid |-> IF s[u] = Gone THEN Gone ELSE InstalledHash(s[u], c)]
    BY DEF ApplySnapshot
<1>a. /\ UNCHANGED <<disk, given, edits, blobs, remote, version, seen, cache, todo, synced, fails>>
      /\ phase' = "applied" /\ phase = "fetched" /\ broken' = {} /\ touched' = {}
    BY DEF ApplySnapshot, cloud
<1>c. \A u \in Uid :
        /\ s[u] \in Hash => cover'[u] = c[s[u]] /\ base'[u] = IF c[s[u]] = None THEN None ELSE s[u]
        /\ s[u] = None => cover'[u] = None /\ base'[u] = None
        /\ s[u] = Gone => cover'[u] = Gone /\ base'[u] = Gone
    BY <1>p DEF PathFor, InstalledHash
<1>s. \A u \in Uid : s[u] \in Hash \cup {None, Gone}
    BY DEF Snapshot
<1>d. \A u \in Uid : cover'[u] \in disk \cup {None, Gone}
    BY <1>c, <1>s, Cached
<1>1. TypeOK'
  <2>1. cover' \in [Uid -> Path \cup {None, Gone}]
    BY <1>p, <1>d DEF TypeOK
  <2>2. base' \in Snapshot
    BY <1>p, <1>c, <1>s DEF Snapshot
  <2> QED BY <1>p, <1>a, <2>1, <2>2 DEF TypeOK
<1>2. CountInv' /\ RowsHaveFiles'
    BY <1>a, <1>d DEF CountInv, Old, RowsHaveFiles, TypeOK
<1>3. CoversPublished' /\ BlobInv'
    BY <1>a DEF CoversPublished, BlobInv, Required
<1>4. ApplyInv'
  <2>1. ASSUME NEW u \in Uid, s[u] \in Hash
        PROVE  cover'[u] # Gone /\ HashAt(cover[u], disk)' = base'[u]
    <3>1. CASE c[s[u]] = None
      BY <1>a, <1>c, <2>1, <3>1 DEF HashAt, TypeOK
    <3>2. CASE c[s[u]] # None
      BY <1>a, <1>c, <2>1, <3>2, Cached DEF HashAt, TypeOK
    <3> QED BY <3>1, <3>2
  <2> QED BY <1>a, <1>p, <2>1 DEF ApplyInv, Wanting, Arriving
<1>5. CacheInv' /\ SettingInv'
    BY <1>a DEF CacheInv, SettingInv
<1> QED BY <1>1, <1>2, <1>3, <1>4, <1>5

LEMMA CollectKeeps == ASSUME IInv, Collect PROVE IInv'
<1> USE DEF IInv, Collect
<1>p. PICK c \in Caches : cache' = c /\ todo' = {h \in Pending : c[h] = None}
    OBVIOUS
<1>a. /\ UNCHANGED <<cover, disk, given, edits, broken, blobs, remote, version, target, seen, base,
                     synced, touched, fails>>
      /\ phase' = "loading" /\ phase = "applied"
    BY DEF Sync, cloud, plan
<1>1. TypeOK'
  <2>1. Pending \subseteq Hash
    BY DEF Pending, Wanting
  <2> QED BY <1>p, <1>a, <2>1, CachesTyped DEF TypeOK
<1>2. CountInv' /\ RowsHaveFiles'
    BY <1>a DEF CountInv, Old, RowsHaveFiles
<1>3. CoversPublished' /\ BlobInv'
    BY <1>a DEF CoversPublished, BlobInv, Required
<1>4. CacheInv'
    BY <1>p, Cached DEF CacheInv
<1>5. ApplyInv' /\ SettingInv'
    BY <1>a DEF ApplyInv, SettingInv, Materializing, Wanting, Arriving, HashAt
<1> QED BY <1>1, <1>2, <1>3, <1>4, <1>5

\* An error during the materialisation.
LEMMA GaveUp ==
    ASSUME IInv, GiveUp, Materializing,
           UNCHANGED <<cover, disk, given, edits, broken, blobs, remote, version, target, seen,
                       base, synced, touched>>, fails' \in 0 .. MaxFails
    PROVE  IInv'
<1> USE DEF IInv, GiveUp
<1>1. TypeOK'
    BY DEF TypeOK, NoCache
<1>2. CountInv' /\ RowsHaveFiles'
    BY DEF CountInv, Old, RowsHaveFiles
<1>3. CoversPublished' /\ BlobInv'
    BY DEF CoversPublished, BlobInv, Required
<1>4. CacheInv' /\ SettingInv'
    BY DEF CacheInv, SettingInv
<1>5. ApplyInv'
    BY DEF ApplyInv, Materializing, Wanting, Arriving, HashAt
<1> QED BY <1>1, <1>2, <1>3, <1>4, <1>5

LEMMA DownloadKeeps == ASSUME IInv, Download PROVE IInv'
<1> USE DEF IInv
<1>p. PICK h \in todo :
        IF <<h, h>> \in blobs
        THEN /\ disk' = disk \cup {Blob(h)} /\ cache' = Known(h) /\ todo' = todo \ {h}
             /\ UNCHANGED phase
        ELSE GiveUp /\ UNCHANGED disk
    BY DEF Download
<1>a. /\ UNCHANGED <<cover, given, edits, broken, blobs, remote, version, target, seen, base,
                     synced, touched, fails>>
      /\ phase = "loading"
    BY DEF Download, Sync, cloud, plan
<1>g. CASE <<h, h>> \notin blobs
    BY <1>p, <1>a, <1>g, GaveUp DEF Materializing, TypeOK
<1>o. CASE <<h, h>> \in blobs
  <2>h. /\ h \in Hash /\ Blob(h) \in Path /\ Blob(h).hash = h /\ Blob(h).n = 0
    BY <1>a DEF TypeOK, Blob, Path
  <2>1. TypeOK'
    BY <1>p, <1>o, <1>a, <2>h DEF TypeOK, Known
  <2>2. CountInv'
    BY <1>p, <1>o, <1>a, <2>h DEF CountInv, Old, TypeOK
  <2>3. RowsHaveFiles'
    BY <1>p, <1>o, <1>a DEF RowsHaveFiles
  <2>4. CoversPublished' /\ BlobInv'
    BY <1>p, <1>o, <1>a DEF CoversPublished, BlobInv, Required
  <2>5. CacheInv'
    BY <1>p, <1>o, <1>a, <2>h DEF CacheInv, TypeOK, Known
  <2>6. ASSUME NEW v \in Wanting \ touched PROVE HashAt(cover[v], disk)' = HashAt(cover[v], disk)
    <3>1. v \in Uid /\ v \notin broken
      BY <1>a, <2>6 DEF ApplyInv, Materializing, Wanting
    <3> QED BY <1>p, <1>o, <1>a, <2>1, <3>1, FoundAsBefore DEF TypeOK
  <2>7. ApplyInv' /\ SettingInv'
    BY <1>p, <1>o, <1>a, <2>6 DEF ApplyInv, SettingInv, Materializing, Wanting, Arriving
  <2> QED BY <2>1, <2>2, <2>3, <2>4, <2>5, <2>7
<1> QED BY <1>g, <1>o

LEMMA AllLoadedKeeps == ASSUME IInv, AllLoaded PROVE IInv'
<1> USE DEF IInv, AllLoaded
<1>a. /\ UNCHANGED <<cover, disk, given, edits, broken, blobs, remote, version, target, seen, base,
                     cache, synced, touched, fails>>
      /\ phase' = "setting" /\ phase = "loading" /\ todo' = Wanting
    BY DEF Sync, cloud, plan
<1>1. TypeOK'
    BY <1>a DEF TypeOK, Wanting
<1>2. CountInv' /\ RowsHaveFiles'
    BY <1>a DEF CountInv, Old, RowsHaveFiles
<1>3. CoversPublished' /\ BlobInv'
    BY <1>a DEF CoversPublished, BlobInv, Required
<1>4. CacheInv' /\ ApplyInv'
    BY <1>a DEF CacheInv, ApplyInv, Materializing, Wanting, Arriving, HashAt
<1>5. SettingInv'
    BY <1>a DEF SettingInv, Wanting
<1> QED BY <1>1, <1>2, <1>3, <1>4, <1>5

LEMMA SetCoverKeeps == ASSUME IInv, SetCover PROVE IInv'
<1> USE DEF IInv
<1>a. /\ UNCHANGED <<given, edits, blobs, remote, version, target, seen, base, synced, touched>>
      /\ phase = "setting"
    BY DEF SetCover, cloud, plan
<1>p. PICK u \in todo :
        LET h == target[u]
            live == HashAt(cover[u], disk)
        IN  \/ GiveUp /\ UNCHANGED <<cover, disk, broken, fails>>
            \/ /\ cover[u] = Gone \/ live = h \/ live # base[u] \/ cover[u] = cache[h]
               /\ cache[h] # None
               /\ todo' = todo \ {u} /\ UNCHANGED <<cover, disk, broken, phase, cache, fails>>
            \/ /\ cover[u] # Gone /\ live = base[u] /\ cover[u] # cache[h]
               /\ HashAt(cache[h], disk) = h
               /\ cover' = [cover EXCEPT ![u] = cache[h]]
               /\ RemoveOld(disk, u) /\ broken' = broken \ {u}
               /\ todo' = todo \ {u} /\ UNCHANGED <<phase, cache>>
    BY DEF SetCover, Observed, Usable
<1>u. u \in Wanting /\ u \in Uid /\ target[u] \in Hash
    BY <1>a DEF SettingInv, Wanting
<1>1. CASE GiveUp /\ UNCHANGED <<cover, disk, broken, fails>>
    BY <1>a, <1>1, GaveUp DEF Materializing, TypeOK
<1>2. CASE /\ \/ cover[u] = Gone \/ HashAt(cover[u], disk) = target[u]
              \/ HashAt(cover[u], disk) # base[u] \/ cover[u] = cache[target[u]]
           /\ cache[target[u]] # None
           /\ todo' = todo \ {u} /\ UNCHANGED <<cover, disk, broken, phase, cache, fails>>
  <2>1. TypeOK'
    BY <1>a, <1>2 DEF TypeOK
  <2>2. CountInv' /\ RowsHaveFiles'
    BY <1>a, <1>2 DEF CountInv, Old, RowsHaveFiles
  <2>3. CoversPublished' /\ BlobInv' /\ CacheInv'
    BY <1>a, <1>2 DEF CoversPublished, BlobInv, CacheInv, Required
  <2>4. ApplyInv'
    BY <1>a, <1>2 DEF ApplyInv, Materializing, Wanting, Arriving, HashAt
  <2>5. u \notin touched => HashAt(cover[u], disk) = target[u]
    <3>1. SUFFICES ASSUME u \notin touched PROVE HashAt(cover[u], disk) = target[u]
      OBVIOUS
    <3>2. cover[u] # Gone /\ HashAt(cover[u], disk) \in {base[u], target[u]} /\ u \notin broken
      BY <1>a, <1>u, <3>1 DEF ApplyInv, Materializing, Arriving
    <3>3. CASE cover[u] = cache[target[u]]
      <4>1. cover[u] \in Path /\ cover[u].hash = target[u]
        BY <1>a, <1>2, <1>u, <3>3 DEF CacheInv
      <4>2. cover[u] \in disk
        BY <1>u, <3>2, <4>1 DEF RowsHaveFiles
      <4> QED BY <4>1, <4>2 DEF HashAt
    <3> QED BY <1>2, <3>2, <3>3
  <2>6. SettingInv'
    BY <1>a, <1>2, <2>5 DEF SettingInv, Wanting, HashAt
  <2> QED BY <2>1, <2>2, <2>3, <2>4, <2>6
<1>3. CASE /\ cover[u] # Gone /\ HashAt(cover[u], disk) = base[u] /\ cover[u] # cache[target[u]]
           /\ HashAt(cache[target[u]], disk) = target[u]
           /\ cover' = [cover EXCEPT ![u] = cache[target[u]]]
           /\ RemoveOld(disk, u) /\ broken' = broken \ {u}
           /\ todo' = todo \ {u} /\ UNCHANGED <<phase, cache>>
  <2>c. cache[target[u]] \in disk /\ cache[target[u]].hash = target[u]
    BY <1>3, <1>u DEF HashAt
  <2>d. /\ disk' \subseteq disk /\ disk' \subseteq Path /\ fails' \in 0 .. MaxFails
        /\ cache[target[u]] \in disk'
        /\ \A v \in Uid \ {u} : cover[v] \in disk => cover[v] \in disk'
    BY <1>3, <1>u, <2>c, OldRemoved DEF TypeOK
  <2>1. TypeOK'
    BY <1>a, <1>3, <1>u, <2>c, <2>d DEF TypeOK
  <2>2. CountInv'
    BY <1>a, <1>3, <1>u, <2>c, <2>d DEF CountInv, Old, TypeOK
  <2>3. RowsHaveFiles'
    BY <1>3, <1>u, <2>d DEF RowsHaveFiles, TypeOK
  <2>4. CoversPublished' /\ BlobInv' /\ CacheInv'
    BY <1>a, <1>3 DEF CoversPublished, BlobInv, CacheInv, Required
  <2>5. ASSUME NEW v \in Wanting \ touched, v # u
        PROVE  cover'[v] = cover[v] /\ HashAt(cover[v], disk)' = HashAt(cover[v], disk)
    <3>1. v \in Uid /\ v \notin broken /\ cover'[v] = cover[v]
      BY <1>a, <1>3, <2>5 DEF ApplyInv, Materializing, Wanting, TypeOK
    <3> QED BY <2>d, <2>5, <3>1, FoundAsBefore
  <2>6. cover'[u] # Gone /\ HashAt(cover[u], disk)' = target[u]
    BY <1>3, <1>u, <2>c, <2>d DEF HashAt, TypeOK
  <2>7. ApplyInv'
    BY <1>a, <1>3, <2>5, <2>6 DEF ApplyInv, Materializing, Wanting, Arriving
  <2>8. SettingInv'
    BY <1>a, <1>3, <2>5, <2>6 DEF SettingInv, Wanting
  <2> QED BY <2>1, <2>2, <2>3, <2>4, <2>7, <2>8
<1> QED BY <1>p, <1>1, <1>2, <1>3

LEMMA MaterializedKeeps == ASSUME IInv, Materialized PROVE IInv'
<1> USE DEF IInv, Materialized
<1>a. /\ UNCHANGED <<cover, disk, given, edits, broken, blobs, remote, version, target, seen, base,
                     todo, touched, fails>>
      /\ phase' = "ready" /\ cache' = NoCache /\ synced' = seen /\ todo = {}
    BY DEF Sync, cloud, plan
<1>1. TypeOK'
    BY <1>a DEF TypeOK, NoCache
<1>2. CountInv' /\ RowsHaveFiles'
    BY <1>a DEF CountInv, Old, RowsHaveFiles
<1>3. CoversPublished' /\ BlobInv'
    BY <1>a DEF CoversPublished, BlobInv, Required
<1>4. CacheInv' /\ ApplyInv' /\ SettingInv'
    BY <1>a DEF CacheInv, ApplyInv, SettingInv, Materializing
<1> QED BY <1>1, <1>2, <1>3, <1>4

LEMMA ListBlobsKeeps == ASSUME IInv, ListBlobs PROVE IInv'
<1> USE DEF IInv
<1>p. PICK c \in [Hash -> {None} \cup UNION {HeldBy(h) : h \in Hash}] : cache' = c
    BY DEF ListBlobs
<1>a. /\ UNCHANGED <<cover, disk, given, edits, broken, blobs, remote, version, target, seen, base,
                     synced, touched, fails>>
      /\ phase' = "uploading" /\ todo' = Required(target) \ Names
    BY DEF ListBlobs, Sync, cloud, plan
<1>1. TypeOK'
  <2> DEFINE held == {None} \cup UNION {HeldBy(h) : h \in Hash}
  <2>1. held \subseteq Path \cup {None}
    <3>1. \A h \in Hash : HeldBy(h) \subseteq Path \cup {None}
      BY DEF HeldBy, TypeOK
    <3>2. SUFFICES ASSUME NEW x \in held PROVE x \in Path \cup {None}
      OBVIOUS
    <3>3. CASE x = None
      BY <3>3
    <3>4. CASE x # None
      <4>1. x \in UNION {HeldBy(h) : h \in Hash}
        BY <3>4
      <4>2. PICK h \in Hash : x \in HeldBy(h)
        BY <4>1, Zenon
      <4> QED BY <3>1, <4>2
    <3> QED BY <3>3, <3>4
  <2>2. cache' \in [Hash -> Path \cup {None}]
    <3>1. cache' \in [Hash -> held]
      BY <1>p
    <3> HIDE DEF held
    <3> QED BY <2>1, <3>1
  <2> QED BY <1>a, <2>2 DEF TypeOK, Required
<1>2. CountInv' /\ RowsHaveFiles'
    BY <1>a DEF CountInv, Old, RowsHaveFiles
<1>3. CoversPublished' /\ BlobInv'
    BY <1>a DEF CoversPublished, BlobInv, Required, Names
<1>4. CacheInv' /\ ApplyInv' /\ SettingInv'
    BY <1>a DEF CacheInv, ApplyInv, SettingInv, Materializing
<1> QED BY <1>1, <1>2, <1>3, <1>4

\* The end of a sync.
LEMMA SyncEnds ==
    ASSUME IInv, SyncOver, UNCHANGED <<cover, disk, given, edits, broken, blobs>>,
           remote' \in Snapshot, {version', synced'} \subseteq 0 .. MaxVersion,
           fails' \in 0 .. MaxFails, CoversPublished'
    PROVE  IInv'
<1> USE DEF IInv, SyncOver
<1>1. TypeOK'
    BY DEF TypeOK, NoCache, NoSnapshot, Snapshot
<1>2. CountInv' /\ RowsHaveFiles'
    BY DEF CountInv, Old, RowsHaveFiles
<1>3. BlobInv' /\ CacheInv' /\ ApplyInv' /\ SettingInv'
    BY DEF BlobInv, CacheInv, ApplyInv, SettingInv, Materializing
<1> QED BY <1>1, <1>2, <1>3

LEMMA UploadKeeps == ASSUME IInv, Upload PROVE IInv'
<1> USE DEF IInv
<1>p. PICK h \in todo :
        IF cache[h] \in disk /\ Valid(h, HashAt(cache[h], disk))
        THEN /\ blobs' = blobs \cup {<<h, HashAt(cache[h], disk)>>}
             /\ todo' = todo \ {h}
             /\ UNCHANGED <<phase, plan, cache, touched>>
        ELSE SyncOver /\ UNCHANGED blobs
    BY DEF Upload
<1>a. UNCHANGED <<cover, disk, given, edits, broken, remote, version, synced, fails>>
      /\ phase = "uploading"
    BY DEF Upload, Sync
<1>h. h \in Hash
    BY <1>a DEF TypeOK
<1>1. CASE SyncOver /\ UNCHANGED blobs
  <2>1. CoversPublished'
    BY <1>a, <1>1 DEF CoversPublished, Required
  <2> QED BY <1>a, <1>1, <2>1, SyncEnds DEF TypeOK
<1>2. CASE /\ blobs' = blobs \cup {<<h, h>>} /\ todo' = todo \ {h}
           /\ UNCHANGED <<phase, target, seen, base, cache, touched>>
  <2>1. TypeOK'
    BY <1>a, <1>h, <1>2 DEF TypeOK
  <2>2. CountInv' /\ RowsHaveFiles'
    BY <1>a DEF CountInv, Old, RowsHaveFiles
  <2>n. h \in Names' /\ Names \subseteq Names'
    <3>1. <<h, h>> \in blobs' /\ blobs \subseteq blobs'
      BY <1>2
    <3>2. <<h, h>>[1] = h
      OBVIOUS
    <3> QED BY <3>1, <3>2 DEF Names
  <2>3. CoversPublished' /\ BlobInv'
    BY <1>a, <1>2, <2>n DEF CoversPublished, BlobInv, Required
  <2>4. CacheInv' /\ ApplyInv' /\ SettingInv'
    BY <1>a, <1>2 DEF CacheInv, ApplyInv, SettingInv, Materializing
  <2> QED BY <2>1, <2>2, <2>3, <2>4
<1> QED BY <1>p, <1>1, <1>2 DEF Valid, plan

LEMMA PublishKeeps == ASSUME IInv, Publish PROVE IInv'
<1> USE DEF IInv
<1>a. /\ UNCHANGED <<cover, disk, given, edits, broken, blobs, fails>> /\ SyncOver
      /\ phase = "uploading" /\ todo = {}
      /\ \/ /\ version < MaxVersion
            /\ remote' = target /\ version' = version + 1 /\ synced' = version + 1
         \/ UNCHANGED <<remote, version, synced>>
    BY DEF Publish, Sync
<1>1. \A h \in Required(target) : <<h, h>> \in blobs
    BY <1>a DEF BlobInv, Names, TypeOK
<1>2. CoversPublished'
    BY <1>a, <1>1 DEF CoversPublished, Required
<1> QED BY <1>a, <1>2, SyncEnds DEF TypeOK

LEMMA FailKeeps == ASSUME IInv, Fail PROVE IInv'
<1> USE DEF IInv
<1>a. /\ UNCHANGED <<cover, disk, given, edits, broken, blobs, remote, version, synced>>
      /\ fails' = fails + 1 /\ fails' \in 0 .. MaxFails
      /\ \/ Materializing /\ GiveUp /\ UNCHANGED <<target, seen, base, touched>>
         \/ SyncOver
    BY DEF Fail, Sync, cloud, plan, Materializing, TypeOK
<1>1. CASE SyncOver
  <2>1. CoversPublished'
    BY <1>a DEF CoversPublished, Required
  <2> QED BY <1>a, <1>1, <2>1, SyncEnds DEF TypeOK
<1>2. CASE Materializing /\ GiveUp /\ UNCHANGED <<target, seen, base, touched>>
    BY <1>a, <1>2, GaveUp
<1> QED BY <1>a, <1>1, <1>2

-----------------------------------------------------------------------------
LEMMA StepKeeps == IInv /\ [Next]_vars => IInv'
<1> SUFFICES ASSUME IInv, [Next]_vars PROVE IInv'
    OBVIOUS
<1>1. CASE UNCHANGED vars
  <2>1. TypeOK'
    BY <1>1 DEF IInv, TypeOK, vars
  <2>2. CountInv' /\ RowsHaveFiles' /\ CoversPublished' /\ BlobInv'
    BY <1>1 DEF IInv, CountInv, Old, RowsHaveFiles, CoversPublished, BlobInv, Required, Names, vars
  <2>3. CacheInv' /\ ApplyInv' /\ SettingInv'
    BY <1>1 DEF IInv, CacheInv, ApplyInv, SettingInv, Materializing, Wanting, Arriving, HashAt, vars
  <2> QED BY <2>1, <2>2, <2>3 DEF IInv
<1>2. CASE Edit
    BY <1>2, SaveCoverKeeps, DeleteMediaKeeps, UpdateMediaKeeps DEF Edit
<1>3. CASE OtherPublishes
    BY <1>3, OtherPublishesKeeps
<1>4. CASE Transfer
    BY <1>4, CaptureLocalKeeps, FetchRemoteKeeps, ApplySnapshotKeeps, CollectKeeps, DownloadKeeps,
       AllLoadedKeeps, SetCoverKeeps, MaterializedKeeps, ListBlobsKeeps, UploadKeeps, PublishKeeps
       DEF Transfer
<1>5. CASE Fail
    BY <1>5, FailKeeps
<1> QED BY <1>1, <1>2, <1>3, <1>4, <1>5 DEF Next

LEMMA Always == Spec => []IInv
BY Initially, StepKeeps, PTL DEF Spec

\* Every variable keeps its type.
THEOREM TypeCorrect == Spec => []TypeOK
<1>1. IInv => TypeOK
    BY DEF IInv
<1> QED BY <1>1, Always, PTL

\* No entry names a file that is not there, and no snapshot in the cloud a
\* blob that is not: for any library, whatever the user edits while covers
\* are moved, and whatever fails (save_cover_bytes and the removal of old
\* covers in db.rs, the transfer of covers in sync_orchestrator.rs).
THEOREM NothingDangles == Spec => []NamesHaveFiles
<1>1. IInv => NamesHaveFiles
    BY DEF IInv, NamesHaveFiles
<1> QED BY <1>1, Always, PTL

LEMMA OnlyTheLoopWrites ==
    ASSUME IInv, Next, phase = "setting", todo' # todo
    PROVE  \A u \in touched : HashAt(cover[u], disk) # base[u] => cover'[u] = cover[u]
<1>1. ASSUME NEW u \in Uid, NEW h \in Hash, SaveCover(u, h) \/ DeleteMedia(u) \/ UpdateMedia(u)
      PROVE  FALSE
    BY <1>1 DEF SaveCover, DeleteMedia, UpdateMedia, User
<1>2. CASE SetCover
    BY <1>2 DEF SetCover, IInv, TypeOK, Observed
<1>3. CASE OtherPublishes \/ Fail
    BY <1>3 DEF OtherPublishes, Fail, files
<1>4. CASE Transfer /\ ~SetCover
    BY <1>4 DEF Transfer, CaptureLocal, FetchRemote, ApplySnapshot, Collect, Download, AllLoaded,
                Materialized, ListBlobs, Upload, Publish
<1>5. ~Edit
    BY <1>1 DEF Edit, User, SaveCover, DeleteMedia, UpdateMedia
<1> QED BY <1>2, <1>3, <1>4, <1>5 DEF Next

LEMMA OnlyTheLoopEnds ==
    ASSUME IInv, Next, phase = "setting", phase' = "ready"
    PROVE  \A u \in Wanting \ touched : HashAt(cover[u], disk) = target[u]
<1>1. todo = {}
  <2>1. ~Edit
    BY DEF Edit, User, SaveCover, DeleteMedia, UpdateMedia
  <2>2. ~Fail /\ ~OtherPublishes
    BY DEF Fail, OtherPublishes, GiveUp, SyncOver
  <2>3. ~SetCover
    BY DEF SetCover, GiveUp
  <2>4. CASE Transfer
    BY <2>3, <2>4 DEF Transfer, CaptureLocal, FetchRemote, ApplySnapshot, Collect, Download,
                AllLoaded, Materialized, ListBlobs, Upload, Publish, SyncOver
  <2> QED BY <2>1, <2>2, <2>4 DEF Next
<1> QED BY <1>1 DEF IInv, SettingInv

\* What the downloads replace the user has not chosen, and when they end every
\* entry that was left alone has the cover of the merged snapshot
\* (materialize_applied_covers and its compare-and-set).
THEOREM ChosenOrDelivered == Spec => CoversArrive
<1>1. IInv /\ [Next]_vars => [ChoiceKept /\ Delivered]_vars
  <2> SUFFICES ASSUME IInv, Next PROVE ChoiceKept /\ Delivered
    OBVIOUS
  <2> QED BY OnlyTheLoopWrites, OnlyTheLoopEnds DEF ChoiceKept, Delivered
<1> QED BY <1>1, Always, PTL DEF Spec, CoversArrive
=============================================================================
