--------------------------- MODULE LibraryProofs ---------------------------
(***************************************************************************)
(* The links of the library hold, a stale request finds its row or none,   *)
(* what is exported is recognised when it comes back, and an import does   *)
(* what its review showed, for any titles, files and bounds. The last part *)
(* is about the listener that offers a library to other programs           *)
(* (LocalApi).                                                             *)
(***************************************************************************)
EXTENDS Library, LocalApi, FiniteSetTheorems, SequenceTheorems, TLAPS

\* A review holds exact rows, as the analysis leaves them.
ReviewOK ==
    review # None =>
        /\ review.kind \in {"activities", "media"}
        /\ review.kind = "activities" => review.file \in Seq(ActivityRow)
        /\ review.kind = "media" => review.file \in Seq(MediaRow) /\ Distinct(review.file)

\* A number on the screen was given before, and to the row that was read.
Same(seen, present, top) ==
    \A r \in seen : r.id <= top /\ \A q \in present : q.id = r.id => q.uid = r.uid
ScreenOK ==
    /\ screen.media \subseteq [id : 1 .. MaxId, uid : 1 .. MaxUid, title : Title, variant : Variant, rest : Rest]
    /\ screen.logs \subseteq [id : 1 .. MaxId, uid : 1 .. MaxUid, media : 1 .. MaxId, what : What]
    /\ screen.stones \subseteq [id : 1 .. MaxId, uid : 1 .. MaxUid, media : 1 .. MaxUid, title : Title, name : Name]
    /\ Same(screen.media, media, last.media)
    /\ Same(screen.logs, logs, last.logs)
    /\ Same(screen.stones, stones, last.stones)

IInv == TypeOK /\ WellLinked /\ ReviewOK /\ ScreenOK /\ OnlyWhatWasSeen

USE LibraryAssumption

LEMMA Initially == Init => IInv
BY DEF Init, IInv, TypeOK, WellLinked, ReviewOK, ScreenOK, OnlyWhatWasSeen, Nothing, Same, Single

-----------------------------------------------------------------------------
\* A request that finds a row by its number hits the row it meant.
Meant(seen, table) ==
    \E view \in Views :
        \/ table = media /\ seen \in view.media
        \/ table = logs /\ seen \in view.logs
        \/ table = stones /\ seen \in view.stones
LEMMA HitsItsRow ==
    ASSUME IInv, NEW seen, NEW table, Meant(seen, table), NEW r \in table, r.id = seen.id
    PROVE  Hit(seen, table) = {seen.uid} /\ r.uid = seen.uid
<1>1. PICK view \in Views :
        \/ table = media /\ seen \in view.media
        \/ table = logs /\ seen \in view.logs
        \/ table = stones /\ seen \in view.stones
  BY DEF Meant
<1>2. \A q \in table : q.id = seen.id => q.uid = seen.uid
  <2>1. CASE view = screen
    BY <1>1, <2>1 DEF IInv, ScreenOK, Same
  <2>2. CASE view = Now
    BY <1>1, <2>2 DEF IInv, Now, WellLinked, Single
  <2> QED BY <2>1, <2>2 DEF Views
<1> QED BY <1>2 DEF Hit

LEMMA LookStep == ASSUME IInv, Look PROVE IInv'
<1> USE DEF IInv
<1>1. TypeOK' /\ WellLinked' /\ ReviewOK' /\ OnlyWhatWasSeen'
  BY DEF Look, TypeOK, WellLinked, Single, ReviewOK, OnlyWhatWasSeen, rows, Key
<1>2. ScreenOK'
  <2>1. CASE \E m \in media : screen' = [Nothing EXCEPT !.media = {m}]
    BY <2>1 DEF Look, Nothing, ScreenOK, Same, rows, TypeOK, WellLinked, Single
  <2>2. CASE \E l \in logs : screen' = [Nothing EXCEPT !.logs = {l}]
    BY <2>2 DEF Look, Nothing, ScreenOK, Same, rows, TypeOK, WellLinked, Single
  <2>3. CASE \E s \in stones : screen' = [Nothing EXCEPT !.stones = {s}]
    BY <2>3 DEF Look, Nothing, ScreenOK, Same, rows, TypeOK, WellLinked, Single
  <2> QED BY <2>1, <2>2, <2>3 DEF Look
<1> QED BY <1>1, <1>2

LEMMA AddMediaStep == ASSUME IInv, AddMedia PROVE IInv'
<1> USE DEF IInv
<1>1. PICK p \in Pairs, x \in Rest :
        /\ Free(p, 0)
        /\ media' = media \cup {[id |-> last.media + 1, uid |-> drawn + 1, title |-> p[1],
                                 variant |-> p[2], rest |-> x]}
        /\ last' = [last EXCEPT !.media = last.media + 1]
  BY DEF AddMedia, LastNumber
<1> DEFINE new == [id |-> last.media + 1, uid |-> drawn + 1, title |-> p[1], variant |-> p[2], rest |-> x]
<1>2. /\ drawn < MaxUid /\ last.media < MaxId /\ drawn' = drawn + 1 /\ touched' = None
      /\ logs' = logs /\ stones' = stones /\ screen' = screen /\ review' = review
  BY DEF AddMedia, Quiet
<1>3. last' \in [{"media", "logs", "stones"} -> 0 .. MaxId]
      /\ last'.media = last.media + 1 /\ last'.logs = last.logs /\ last'.stones = last.stones
  BY <1>1, <1>2 DEF TypeOK
<1>4. new \in [id : 1 .. MaxId, uid : 1 .. MaxUid, title : Title, variant : Variant, rest : Rest]
  BY <1>2 DEF TypeOK
<1>5. TypeOK'
  BY <1>1, <1>2, <1>3, <1>4, SMTT(20) DEF TypeOK
<1>6. WellLinked'
  <2>1. \A m \in media : m.id # new.id /\ m.uid # new.uid /\ Key(m) # Key(new)
    BY <1>1, <1>2 DEF TypeOK, Free, Key
  <2> QED BY <1>1, <1>2, <2>1 DEF WellLinked, Single, Key
<1>7. ScreenOK'
  BY <1>1, <1>2, <1>3 DEF ScreenOK, Same, TypeOK
<1> QED BY <1>2, <1>5, <1>6, <1>7 DEF ReviewOK, OnlyWhatWasSeen

LEMMA UpdateMediaStep == ASSUME IInv, UpdateMedia PROVE IInv'
<1> USE DEF IInv
<1>1. PICK view, seen, m, p, x :
        /\ view \in Views /\ seen \in view.media /\ m \in media /\ p \in Pairs /\ x \in Rest
        /\ m.id = seen.id /\ Free(p, m.id)
        /\ media' = (media \ {m}) \cup {[m EXCEPT !.title = p[1], !.variant = p[2], !.rest = x]}
        /\ stones' = Retitled(m.uid, p[1])
        /\ touched' = [meant |-> seen.uid, hit |-> Hit(seen, media)]
        /\ logs' = logs /\ last' = last /\ drawn' = drawn /\ screen' = screen /\ review' = review
  BY DEF UpdateMedia, Touch, Quiet
<1> DEFINE new == [m EXCEPT !.title = p[1], !.variant = p[2], !.rest = x]
<1>2. /\ new \in [id : 1 .. MaxId, uid : 1 .. MaxUid, title : Title, variant : Variant, rest : Rest]
      /\ new.id = m.id /\ new.uid = m.uid /\ Key(new) = p /\ new.title = p[1]
      /\ media' = (media \ {m}) \cup {new}
  <2>1. m \in [id : 1 .. MaxId, uid : 1 .. MaxUid, title : Title, variant : Variant, rest : Rest]
    BY <1>1 DEF TypeOK
  <2>2. p[1] \in Title /\ p[2] \in Variant /\ p = <<p[1], p[2]>>
    BY <1>1
  <2>3. new.title = p[1] /\ new.variant = p[2] /\ new.id = m.id /\ new.uid = m.uid
    BY <2>1
  <2> QED BY <1>1, <2>1, <2>2, <2>3 DEF Key
<1> HIDE DEF new
<1>3. \A s \in stones' : \E t \in stones :
        /\ s = IF t.media = m.uid THEN [t EXCEPT !.title = p[1]] ELSE t
        /\ s \in [id : 1 .. MaxId, uid : 1 .. MaxUid, media : 1 .. MaxUid, title : Title, name : Name]
        /\ s.id = t.id /\ s.uid = t.uid /\ s.media = t.media
        /\ s.title = IF t.media = m.uid THEN p[1] ELSE t.title
  BY <1>1 DEF Retitled, TypeOK
<1>4. TypeOK'
  <2>1. media' \subseteq [id : 1 .. MaxId, uid : 1 .. MaxUid, title : Title, variant : Variant, rest : Rest]
        /\ \A n \in media' : n.id <= last.media /\ n.uid <= drawn
    BY <1>1, <1>2 DEF TypeOK
  <2>2. stones' \subseteq [id : 1 .. MaxId, uid : 1 .. MaxUid, media : 1 .. MaxUid, title : Title, name : Name]
        /\ \A s \in stones' : s.id <= last.stones /\ s.uid <= drawn
    BY <1>3 DEF TypeOK
  <2> QED BY <1>1, <2>1, <2>2 DEF TypeOK
<1>5. WellLinked'
  <2>1. Single(media') /\ \A n, k \in media' : Key(n) = Key(k) => n = k
    BY <1>1, <1>2 DEF WellLinked, Single, Free, Key
  <2>2. Single(stones')
    BY <1>3 DEF WellLinked, Single
  <2>3. \A l \in logs' : \E n \in media' : n.id = l.media
    BY <1>1, <1>2 DEF WellLinked
  <2>4. \A s \in stones' : \E n \in media' : n.uid = s.media /\ n.title = s.title
    BY <1>1, <1>2, <1>3 DEF WellLinked, Single
  <2> QED BY <1>1, <2>1, <2>2, <2>3, <2>4 DEF WellLinked, Single
<1>6. ScreenOK'
  <2>1. Same(screen.media, media', last.media)
    BY <1>1, <1>2 DEF ScreenOK, Same
  <2>2. Same(screen.stones, stones', last.stones)
    BY <1>3 DEF ScreenOK, Same
  <2> QED BY <1>1, <2>1, <2>2 DEF ScreenOK, Same
<1>7. OnlyWhatWasSeen'
  BY <1>1, HitsItsRow DEF OnlyWhatWasSeen, Meant
<1> QED BY <1>1, <1>4, <1>5, <1>6, <1>7 DEF ReviewOK

LEMMA DeleteMediaStep == ASSUME IInv, DeleteMedia PROVE IInv'
<1> USE DEF IInv
<1>1. PICK view, seen, m :
        /\ view \in Views /\ seen \in view.media /\ m \in media
        /\ m.id = seen.id
        /\ media' = media \ {m}
        /\ logs' = {l \in logs : l.media # m.id}
        /\ stones' = {s \in stones : s.media # m.uid}
        /\ touched' = [meant |-> seen.uid, hit |-> Hit(seen, media)]
        /\ last' = last /\ drawn' = drawn /\ screen' = screen /\ review' = review
  BY DEF DeleteMedia, Touch, Quiet
<1>2. TypeOK'
  BY <1>1 DEF TypeOK
<1>3. WellLinked'
  BY <1>1 DEF WellLinked, Single, Key
<1>4. ScreenOK'
  BY <1>1 DEF ScreenOK, Same
<1>5. OnlyWhatWasSeen'
  BY <1>1, HitsItsRow DEF OnlyWhatWasSeen, Meant
<1> QED BY <1>1, <1>2, <1>3, <1>4, <1>5 DEF ReviewOK

LEMMA AddLogStep == ASSUME IInv, AddLog PROVE IInv'
<1> USE DEF IInv
<1>1. PICK view, seen, m, w :
        /\ view \in Views /\ seen \in view.media /\ m \in media /\ w \in What
        /\ m.id = seen.id
        /\ logs' = logs \cup {[id |-> last.logs + 1, uid |-> drawn + 1, media |-> m.id, what |-> w]}
        /\ last' = [last EXCEPT !.logs = last.logs + 1]
        /\ touched' = [meant |-> seen.uid, hit |-> Hit(seen, media)]
  BY DEF AddLog, LastNumber, Touch
<1>2. /\ drawn < MaxUid /\ last.logs < MaxId /\ drawn' = drawn + 1
      /\ media' = media /\ stones' = stones /\ screen' = screen /\ review' = review
  BY DEF AddLog, Quiet
<1> DEFINE new == [id |-> last.logs + 1, uid |-> drawn + 1, media |-> m.id, what |-> w]
<1>3. last' \in [{"media", "logs", "stones"} -> 0 .. MaxId]
      /\ last'.logs = last.logs + 1 /\ last'.media = last.media /\ last'.stones = last.stones
  BY <1>1, <1>2 DEF TypeOK
<1>4. new \in [id : 1 .. MaxId, uid : 1 .. MaxUid, media : 1 .. MaxId, what : What]
  BY <1>1, <1>2 DEF TypeOK
<1>5. TypeOK'
  BY <1>1, <1>2, <1>3, <1>4, SMTT(20) DEF TypeOK
<1>6. WellLinked'
  <2>1. \A l \in logs : l.id # new.id /\ l.uid # new.uid
    BY DEF TypeOK
  <2> QED BY <1>1, <1>2, <2>1 DEF WellLinked, Single
<1>7. ScreenOK'
  BY <1>1, <1>2, <1>3, SMTT(20) DEF ScreenOK, Same, TypeOK
<1>8. OnlyWhatWasSeen'
  BY <1>1, HitsItsRow DEF OnlyWhatWasSeen, Meant
<1> QED BY <1>2, <1>5, <1>6, <1>7, <1>8 DEF ReviewOK

LEMMA UpdateLogStep == ASSUME IInv, UpdateLog PROVE IInv'
<1> USE DEF IInv
<1>1. PICK view, seen, w, l, m :
        /\ view \in Views /\ seen \in view.logs /\ w \in What /\ l \in logs /\ m \in media
        /\ l.id = seen.id
        /\ logs' = (logs \ {l}) \cup {[l EXCEPT !.media = m.id, !.what = w]}
        /\ touched' = [meant |-> seen.uid, hit |-> Hit(seen, logs)]
        /\ media' = media /\ stones' = stones /\ last' = last /\ drawn' = drawn
        /\ screen' = screen /\ review' = review
  BY DEF UpdateLog, Touch, Quiet
<1> DEFINE new == [l EXCEPT !.media = m.id, !.what = w]
<1>2. /\ new \in [id : 1 .. MaxId, uid : 1 .. MaxUid, media : 1 .. MaxId, what : What]
      /\ new.id = l.id /\ new.uid = l.uid /\ new.media = m.id
      /\ logs' = (logs \ {l}) \cup {new}
  BY <1>1 DEF TypeOK
<1> HIDE DEF new
<1>3. TypeOK'
  BY <1>1, <1>2 DEF TypeOK
<1>4. WellLinked'
  BY <1>1, <1>2 DEF WellLinked, Single
<1>5. ScreenOK'
  BY <1>1, <1>2 DEF ScreenOK, Same
<1>6. OnlyWhatWasSeen'
  BY <1>1, HitsItsRow DEF OnlyWhatWasSeen, Meant
<1> QED BY <1>1, <1>3, <1>4, <1>5, <1>6 DEF ReviewOK

LEMMA DeleteLogStep == ASSUME IInv, DeleteLog \/ ClearActivities PROVE IInv'
<1> USE DEF IInv
<1>1. /\ logs' \subseteq logs /\ media' = media /\ stones' = stones /\ last' = last /\ drawn' = drawn
      /\ screen' = screen /\ review' = review
  BY DEF DeleteLog, ClearActivities, Quiet
<1>2. TypeOK' /\ WellLinked' /\ ScreenOK'
  BY <1>1 DEF TypeOK, WellLinked, Single, ScreenOK, Same, Key
<1>3. OnlyWhatWasSeen'
  <2>1. CASE DeleteLog
    <3>1. PICK view, seen, l :
            view \in Views /\ seen \in view.logs /\ l \in logs /\ l.id = seen.id /\ touched' = [meant |-> seen.uid, hit |-> Hit(seen, logs)]
      BY <2>1 DEF DeleteLog, Touch
    <3> QED BY <3>1, HitsItsRow DEF OnlyWhatWasSeen, Meant
  <2>2. CASE ClearActivities
    BY <2>2 DEF ClearActivities, OnlyWhatWasSeen
  <2> QED BY <2>1, <2>2
<1> QED BY <1>1, <1>2, <1>3 DEF ReviewOK

LEMMA AddMilestoneStep == ASSUME IInv, AddMilestone PROVE IInv'
<1> USE DEF IInv
<1>1. PICK m \in media, n \in Name :
        /\ stones' = stones \cup {[id |-> last.stones + 1, uid |-> drawn + 1, media |-> m.uid,
                                   title |-> m.title, name |-> n]}
        /\ last' = [last EXCEPT !.stones = last.stones + 1]
  BY DEF AddMilestone, LastNumber
<1>2. /\ drawn < MaxUid /\ last.stones < MaxId /\ drawn' = drawn + 1 /\ touched' = None
      /\ media' = media /\ logs' = logs /\ screen' = screen /\ review' = review
  BY DEF AddMilestone, Quiet
<1> DEFINE new == [id |-> last.stones + 1, uid |-> drawn + 1, media |-> m.uid, title |-> m.title, name |-> n]
<1>3. last' \in [{"media", "logs", "stones"} -> 0 .. MaxId]
      /\ last'.stones = last.stones + 1 /\ last'.media = last.media /\ last'.logs = last.logs
  BY <1>1, <1>2 DEF TypeOK
<1>4. new \in [id : 1 .. MaxId, uid : 1 .. MaxUid, media : 1 .. MaxUid, title : Title, name : Name]
  BY <1>2 DEF TypeOK
<1>5. TypeOK'
  BY <1>1, <1>2, <1>3, <1>4, SMTT(20) DEF TypeOK
<1>6. WellLinked'
  <2>1. \A s \in stones : s.id # new.id /\ s.uid # new.uid
    BY DEF TypeOK
  <2> QED BY <1>1, <1>2, <2>1 DEF WellLinked, Single
<1>7. ScreenOK'
  BY <1>1, <1>2, <1>3, SMTT(20) DEF ScreenOK, Same, TypeOK
<1> QED BY <1>2, <1>5, <1>6, <1>7 DEF ReviewOK, OnlyWhatWasSeen

LEMMA UpdateMilestoneStep == ASSUME IInv, UpdateMilestone PROVE IInv'
<1> USE DEF IInv
<1>1. PICK view, seen, n, s, m :
        /\ view \in Views /\ seen \in view.stones /\ n \in Name /\ s \in stones /\ m \in media
        /\ s.id = seen.id
        /\ stones' = (stones \ {s}) \cup {[s EXCEPT !.media = m.uid, !.title = m.title, !.name = n]}
        /\ touched' = [meant |-> seen.uid, hit |-> Hit(seen, stones)]
        /\ media' = media /\ logs' = logs /\ last' = last /\ drawn' = drawn
        /\ screen' = screen /\ review' = review
  BY DEF UpdateMilestone, Touch, Quiet
<1> DEFINE new == [s EXCEPT !.media = m.uid, !.title = m.title, !.name = n]
<1>2. /\ new \in [id : 1 .. MaxId, uid : 1 .. MaxUid, media : 1 .. MaxUid, title : Title, name : Name]
      /\ new.id = s.id /\ new.uid = s.uid /\ new.media = m.uid /\ new.title = m.title
      /\ stones' = (stones \ {s}) \cup {new}
  BY <1>1 DEF TypeOK
<1> HIDE DEF new
<1>3. TypeOK'
  BY <1>1, <1>2 DEF TypeOK
<1>4. WellLinked'
  BY <1>1, <1>2 DEF WellLinked, Single
<1>5. ScreenOK'
  BY <1>1, <1>2 DEF ScreenOK, Same
<1>6. OnlyWhatWasSeen'
  BY <1>1, HitsItsRow DEF OnlyWhatWasSeen, Meant
<1> QED BY <1>1, <1>3, <1>4, <1>5, <1>6 DEF ReviewOK

LEMMA DeleteMilestoneStep == ASSUME IInv, DeleteMilestone \/ ClearMilestones PROVE IInv'
<1> USE DEF IInv
<1>1. /\ stones' \subseteq stones /\ media' = media /\ logs' = logs /\ last' = last /\ drawn' = drawn
      /\ screen' = screen /\ review' = review
  BY DEF DeleteMilestone, ClearMilestones, Quiet
<1>2. TypeOK' /\ WellLinked' /\ ScreenOK'
  BY <1>1 DEF TypeOK, WellLinked, Single, ScreenOK, Same, Key
<1>3. OnlyWhatWasSeen'
  <2>1. CASE DeleteMilestone
    <3>1. PICK view, seen, s :
            view \in Views /\ seen \in view.stones /\ s \in stones /\ s.id = seen.id /\ touched' = [meant |-> seen.uid, hit |-> Hit(seen, stones)]
      BY <2>1 DEF DeleteMilestone, Touch
    <3> QED BY <3>1, HitsItsRow DEF OnlyWhatWasSeen, Meant
  <2>2. CASE ClearMilestones
    BY <2>2 DEF ClearMilestones, OnlyWhatWasSeen
  <2> QED BY <2>1, <2>2
<1> QED BY <1>1, <1>2, <1>3 DEF ReviewOK

-----------------------------------------------------------------------------
\* What a sync brings: rows with identifiers of their own, linked as here.
Fit(s) ==
    /\ s.media \subseteq [id : 0 .. MaxId, uid : 1 .. Total(s), title : Title, variant : Variant, rest : Rest]
    /\ s.logs \subseteq [id : 0 .. MaxId, uid : 1 .. Total(s), media : 0 .. MaxId, what : What]
    /\ s.stones \subseteq [id : 1 .. MaxId, uid : 1 .. Total(s), media : 1 .. MaxUid, title : Title, name : Name]
    /\ Single(s.media) /\ Single(s.logs) /\ Single(s.stones)
    /\ \A l \in s.logs : \E m \in s.media : m.id = l.media
    /\ \A r \in s.stones : \E m \in s.media : m.uid = r.media

LEMMA SnapshotsFit == ASSUME IInv, NEW s \in Snapshots PROVE Fit(s) /\ Total(s) \in Nat
<1> USE DEF IInv
<1>0. drawn \in Nat /\ Total(s) \in {drawn, drawn + 1}
  BY DEF TypeOK, Total
<1>1. /\ media \subseteq [id : 0 .. MaxId, uid : 1 .. Total(s), title : Title, variant : Variant, rest : Rest]
      /\ logs \subseteq [id : 0 .. MaxId, uid : 1 .. Total(s), media : 0 .. MaxId, what : What]
      /\ stones \subseteq [id : 1 .. MaxId, uid : 1 .. Total(s), media : 1 .. MaxUid, title : Title, name : Name]
  BY <1>0 DEF TypeOK
<1>2. CASE s = Now
  <2>1. s.media = media /\ s.logs = logs /\ s.stones = stones
    BY <1>2 DEF Now
  <2> QED BY <1>0, <1>1, <2>1 DEF Fit, WellLinked, Single
<1>3. CASE \E m \in media : s = Without(m)
  <2>1. PICK m \in media : s = Without(m)
    BY <1>3
  <2>2. s.media = media \ {m} /\ s.logs = {l \in logs : l.media # m.id} /\ s.stones = {r \in stones : r.media # m.uid}
    BY <2>1 DEF Without
  <2> QED BY <1>0, <1>1, <2>2 DEF Fit, WellLinked, Single
<1>4. CASE \E m \in media, p \in Pairs : s = Renamed(m, p)
  <2>1. PICK m \in media, p \in Pairs : s = Renamed(m, p)
    BY <1>4
  <2> DEFINE new == [m EXCEPT !.title = p[1], !.variant = p[2]]
  <2>2. s.media = (media \ {m}) \cup {new} /\ s.logs = logs /\ s.stones = stones
    BY <2>1 DEF Renamed, Now
  <2>3. m \in [id : 0 .. MaxId, uid : 1 .. Total(s), title : Title, variant : Variant, rest : Rest]
    BY <1>1
  <2>4. p[1] \in Title /\ p[2] \in Variant
    OBVIOUS
  <2>5. /\ new \in [id : 0 .. MaxId, uid : 1 .. Total(s), title : Title, variant : Variant, rest : Rest]
        /\ new.id = m.id /\ new.uid = m.uid
    BY <2>3, <2>4
  <2> HIDE DEF new
  <2>6. Single(s.media)
    BY <2>2, <2>5 DEF WellLinked, Single
  <2>7. \A l \in s.logs : \E k \in s.media : k.id = l.media
    BY <2>2, <2>5 DEF WellLinked
  <2>8. \A r \in s.stones : \E k \in s.media : k.uid = r.media
    BY <2>2, <2>5 DEF WellLinked
  <2> QED BY <1>0, <1>1, <2>2, <2>5, <2>6, <2>7, <2>8 DEF Fit, WellLinked, Single
<1>5. CASE \E p \in Pairs, x \in Rest, w \in What : s = Arrived(p, x, w)
  <2>1. PICK p \in Pairs, x \in Rest, w \in What : s = Arrived(p, x, w)
    BY <1>5
  <2> DEFINE new == [id |-> 0, uid |-> drawn + 1, title |-> p[1], variant |-> p[2], rest |-> x]
             log == [id |-> 0, uid |-> drawn + 1, media |-> 0, what |-> w]
  <2>2. s.media = media \cup {new} /\ s.logs = logs \cup {log} /\ s.stones = stones
    BY <2>1 DEF Arrived, Now
  <2>3. Total(s) = drawn + 1
    <3>1. new \in s.media /\ new.id = 0
      BY <2>2
    <3> QED BY <3>1 DEF Total
  <2>4. new \in [id : 0 .. MaxId, uid : 1 .. Total(s), title : Title, variant : Variant, rest : Rest]
    BY <1>0, <2>3
  <2>5. log \in [id : 0 .. MaxId, uid : 1 .. Total(s), media : 0 .. MaxId, what : What]
    BY <1>0, <2>3
  <2>6. new.id = 0 /\ new.uid = drawn + 1 /\ log.uid = drawn + 1 /\ log.id = 0 /\ log.media = 0
    OBVIOUS
  <2> HIDE DEF new, log
  <2>7. Single(s.media) /\ Single(s.logs)
    <3>1. /\ \A m \in media : m.id # 0 /\ m.uid # drawn + 1
          /\ \A l \in logs : l.id # 0 /\ l.uid # drawn + 1
      BY <1>0 DEF TypeOK
    <3>2. Single(s.media)
      BY <2>2, <2>6, <3>1 DEF WellLinked, Single
    <3>3. Single(s.logs)
      BY <2>2, <2>6, <3>1 DEF WellLinked, Single
    <3> QED BY <3>2, <3>3
  <2>8. \A l \in s.logs : \E m \in s.media : m.id = l.media
    BY <2>2, <2>6 DEF WellLinked
  <2>9. \A r \in s.stones : \E m \in s.media : m.uid = r.media
    BY <2>2 DEF WellLinked
  <2> QED BY <1>0, <1>1, <2>2, <2>4, <2>5, <2>7, <2>8, <2>9 DEF Fit, WellLinked
<1> QED BY <1>0, <1>2, <1>3, <1>4, <1>5 DEF Snapshots

LEMMA SyncApplyStep == ASSUME IInv, SyncApply PROVE IInv'
<1> USE DEF IInv
<1>0. DOMAIN last = {"media", "logs", "stones"} /\ \A t \in DOMAIN last : last[t] \in Nat
  BY DEF TypeOK
<1>1. PICK s \in Snapshots :
        /\ Total(s) <= MaxUid /\ \A t \in DOMAIN last : last[t] + Total(s) <= MaxId
        /\ \A m, n \in s.media : Key(m) = Key(n) => m = n
        /\ media' = {NewMedia(m) : m \in s.media}
        /\ logs' = {NewLog(s, l) : l \in s.logs}
        /\ stones' = {NewStone(s, r) : r \in s.stones}
        /\ last' = [t \in DOMAIN last |-> last[t] + Total(s)]
        /\ drawn' = Total(s) /\ touched' = None /\ screen' = screen /\ review' = review
  BY <1>0 DEF SyncApply, LastNumber, Quiet
<1>2. Fit(s) /\ Total(s) \in Nat
  BY SnapshotsFit
<1>3. /\ last.media \in Nat /\ last.logs \in Nat /\ last.stones \in Nat
      /\ last.media + Total(s) <= MaxId /\ last.logs + Total(s) <= MaxId /\ last.stones + Total(s) <= MaxId
      /\ last' \in [{"media", "logs", "stones"} -> 0 .. MaxId]
      /\ last'.media = last.media + Total(s) /\ last'.logs = last.logs + Total(s)
      /\ last'.stones = last.stones + Total(s)
  BY <1>0, <1>1, <1>2
<1>4. \A m \in s.media :
        /\ m \in [id : 0 .. MaxId, uid : 1 .. Total(s), title : Title, variant : Variant, rest : Rest]
        /\ last.media + m.uid \in 1 .. MaxId /\ m.uid \in 1 .. MaxUid
        /\ last.media < last.media + m.uid /\ last.media + m.uid <= last'.media
  BY <1>1, <1>2, <1>3 DEF Fit
<1>5. \A n \in media' : \E m \in s.media :
        /\ n.id = last.media + m.uid /\ n.uid = m.uid /\ n.title = m.title /\ n.variant = m.variant /\ n.rest = m.rest
        /\ n = NewMedia(m)
        /\ n \in [id : 1 .. MaxId, uid : 1 .. MaxUid, title : Title, variant : Variant, rest : Rest]
  <2> SUFFICES ASSUME NEW m \in s.media
               PROVE LET n == NewMedia(m)
                     IN  /\ n.id = last.media + m.uid /\ n.uid = m.uid /\ n.title = m.title
                         /\ n.variant = m.variant /\ n.rest = m.rest
                         /\ n \in [id : 1 .. MaxId, uid : 1 .. MaxUid, title : Title, variant : Variant, rest : Rest]
    BY <1>1
  <2> QED BY <1>4 DEF NewMedia, NewNumber, LastNumber
<1>6. \A m \in s.media : \E n \in media' : n.id = last.media + m.uid /\ n.uid = m.uid /\ n.title = m.title
  <2> SUFFICES ASSUME NEW m \in s.media
               PROVE NewMedia(m).id = last.media + m.uid /\ NewMedia(m).uid = m.uid /\ NewMedia(m).title = m.title
    BY <1>1
  <2> QED BY <1>4 DEF NewMedia, NewNumber, LastNumber
<1>7. \A l \in s.logs :
        /\ l \in [id : 0 .. MaxId, uid : 1 .. Total(s), media : 0 .. MaxId, what : What]
        /\ last.logs + l.uid \in 1 .. MaxId /\ l.uid \in 1 .. MaxUid
        /\ last.logs < last.logs + l.uid /\ last.logs + l.uid <= last'.logs
        /\ EntryOf(s, l) \in s.media /\ last.media + EntryOf(s, l).uid \in 1 .. MaxId
  <2>1. \A l \in s.logs : EntryOf(s, l) \in s.media
    BY <1>2 DEF Fit, EntryOf
  <2>2. \A l \in s.logs : last.media + EntryOf(s, l).uid \in 1 .. MaxId
    BY <1>4, <2>1
  <2>3. \A l \in s.logs : l \in [id : 0 .. MaxId, uid : 1 .. Total(s), media : 0 .. MaxId, what : What]
    BY <1>2 DEF Fit
  <2>4. \A l \in s.logs : l.uid \in 1 .. Total(s)
    BY <2>3
  <2>5. \A l \in s.logs :
          /\ last.logs + l.uid \in 1 .. MaxId /\ l.uid \in 1 .. MaxUid
          /\ last.logs < last.logs + l.uid /\ last.logs + l.uid <= last'.logs
    BY <1>1, <1>2, <1>3, <2>4, SMTT(20)
  <2> QED BY <2>1, <2>2, <2>3, <2>5
<1>8. \A k \in logs' : \E l \in s.logs :
        /\ k.id = last.logs + l.uid /\ k.uid = l.uid /\ k.media = last.media + EntryOf(s, l).uid
        /\ k = NewLog(s, l)
        /\ k \in [id : 1 .. MaxId, uid : 1 .. MaxUid, media : 1 .. MaxId, what : What]
  <2> SUFFICES ASSUME NEW l \in s.logs
               PROVE LET k == NewLog(s, l)
                     IN  /\ k.id = last.logs + l.uid /\ k.uid = l.uid /\ k.media = last.media + EntryOf(s, l).uid
                         /\ k \in [id : 1 .. MaxId, uid : 1 .. MaxUid, media : 1 .. MaxId, what : What]
    BY <1>1
  <2> QED BY <1>7 DEF NewLog, NewNumber, LastNumber
<1>9. \A r \in s.stones :
        /\ r \in [id : 1 .. MaxId, uid : 1 .. Total(s), media : 1 .. MaxUid, title : Title, name : Name]
        /\ last.stones + r.uid \in 1 .. MaxId /\ r.uid \in 1 .. MaxUid
        /\ last.stones < last.stones + r.uid /\ last.stones + r.uid <= last'.stones
        /\ TitleIn(s, r.media) \in Title
        /\ \E m \in s.media : m.uid = r.media /\ m.title = TitleIn(s, r.media)
  <2>1. \A r \in s.stones : \E m \in s.media : m.uid = r.media /\ m.title = TitleIn(s, r.media)
    BY <1>2 DEF Fit, TitleIn
  <2>2. \A r \in s.stones : TitleIn(s, r.media) \in Title
    BY <1>4, <2>1
  <2>3. \A r \in s.stones :
          r \in [id : 1 .. MaxId, uid : 1 .. Total(s), media : 1 .. MaxUid, title : Title, name : Name]
    BY <1>2 DEF Fit
  <2>4. \A r \in s.stones : r.uid \in 1 .. Total(s)
    BY <2>3
  <2>5. \A r \in s.stones :
          /\ last.stones + r.uid \in 1 .. MaxId /\ r.uid \in 1 .. MaxUid
          /\ last.stones < last.stones + r.uid /\ last.stones + r.uid <= last'.stones
    BY <1>1, <1>2, <1>3, <2>4, SMTT(20)
  <2> QED BY <2>1, <2>2, <2>3, <2>5
<1>10. \A q \in stones' : \E r \in s.stones :
        /\ q.id = last.stones + r.uid /\ q.uid = r.uid /\ q.media = r.media /\ q.title = TitleIn(s, r.media)
        /\ q = NewStone(s, r)
        /\ q \in [id : 1 .. MaxId, uid : 1 .. MaxUid, media : 1 .. MaxUid, title : Title, name : Name]
  <2> SUFFICES ASSUME NEW r \in s.stones
               PROVE LET q == NewStone(s, r)
                     IN  /\ q.id = last.stones + r.uid /\ q.uid = r.uid /\ q.media = r.media
                         /\ q.title = TitleIn(s, r.media)
                         /\ q \in [id : 1 .. MaxId, uid : 1 .. MaxUid, media : 1 .. MaxUid, title : Title, name : Name]
    BY <1>1
  <2> QED BY <1>9 DEF NewStone, NewNumber, LastNumber
<1>11. TypeOK'
  <2>1. /\ media' \subseteq [id : 1 .. MaxId, uid : 1 .. MaxUid, title : Title, variant : Variant, rest : Rest]
        /\ logs' \subseteq [id : 1 .. MaxId, uid : 1 .. MaxUid, media : 1 .. MaxId, what : What]
        /\ stones' \subseteq [id : 1 .. MaxId, uid : 1 .. MaxUid, media : 1 .. MaxUid, title : Title, name : Name]
    BY <1>5, <1>8, <1>10
  <2>2. \A m \in media' : m.id <= last'.media /\ m.uid <= drawn'
    BY <1>1, <1>4, <1>5
  <2>3. \A l \in logs' : l.id <= last'.logs /\ l.uid <= drawn'
    BY <1>1, <1>7, <1>8
  <2>4. \A r \in stones' : r.id <= last'.stones /\ r.uid <= drawn'
    BY <1>1, <1>9, <1>10
  <2>5. drawn' \in 0 .. MaxUid
    BY <1>1, <1>2
  <2> QED BY <1>3, <2>1, <2>2, <2>3, <2>4, <2>5 DEF TypeOK
<1>12. WellLinked'
  <2>1. Single(media')
    <3>1. \A r, q \in s.media : r.uid = q.uid => r = q
      BY <1>2 DEF Fit, Single
    <3>2. \A r, q \in s.media : last.media + r.uid = last.media + q.uid => r = q
      <4>1. \A r \in s.media : r.uid \in Nat
        BY <1>3, <1>4
      <4> QED BY <1>3, <3>1, <4>1
    <3>3. \A r, q \in media' : r.id = q.id \/ r.uid = q.uid => r = q
      BY <3>1, <3>2, <1>5
    <3> QED BY <3>3 DEF Single
  <2>2. \A m, n \in media' : m.title = n.title /\ m.variant = n.variant => m = n
    BY <1>1, <1>5 DEF Key
  <2>3. Single(logs')
    <3>1. \A r, q \in s.logs : r.uid = q.uid => r = q
      BY <1>2 DEF Fit, Single
    <3>2. \A r, q \in s.logs : last.logs + r.uid = last.logs + q.uid => r = q
      <4>1. \A r \in s.logs : r.uid \in Nat
        BY <1>3, <1>7
      <4> QED BY <1>3, <3>1, <4>1
    <3>3. \A r, q \in logs' : r.id = q.id \/ r.uid = q.uid => r = q
      BY <3>1, <3>2, <1>8
    <3> QED BY <3>3 DEF Single
  <2>4. Single(stones')
    <3>1. \A r, q \in s.stones : r.uid = q.uid => r = q
      BY <1>2 DEF Fit, Single
    <3>2. \A r, q \in s.stones : last.stones + r.uid = last.stones + q.uid => r = q
      <4>1. \A r \in s.stones : r.uid \in Nat
        BY <1>3, <1>9
      <4> QED BY <1>3, <3>1, <4>1
    <3>3. \A r, q \in stones' : r.id = q.id \/ r.uid = q.uid => r = q
      BY <3>1, <3>2, <1>10
    <3> QED BY <3>3 DEF Single
  <2>5. \A l \in logs' : \E m \in media' : m.id = l.media
    BY <1>6, <1>7, <1>8
  <2>6. \A r \in stones' : \E m \in media' : m.uid = r.media /\ m.title = r.title
    BY <1>6, <1>9, <1>10
  <2> QED BY <2>1, <2>2, <2>3, <2>4, <2>5, <2>6 DEF WellLinked, Single, Key
<1>13. ScreenOK'
  <2>1. Same(screen.media, media', last'.media)
    <3>1. \A r \in screen.media : r.id \in Nat /\ r.id <= last.media
      BY DEF ScreenOK, Same
    <3>2. \A q \in media' : last.media < q.id
      BY <1>4, <1>5
    <3>3. \A q \in media' : q.id \in Nat
      BY <1>5
    <3> QED BY <1>2, <1>3, <3>1, <3>2, <3>3 DEF Same
  <2>2. Same(screen.logs, logs', last'.logs)
    <3>1. \A r \in screen.logs : r.id \in Nat /\ r.id <= last.logs
      BY DEF ScreenOK, Same
    <3>2. \A q \in logs' : last.logs < q.id
      BY <1>7, <1>8
    <3>3. \A q \in logs' : q.id \in Nat
      BY <1>8
    <3> QED BY <1>2, <1>3, <3>1, <3>2, <3>3 DEF Same
  <2>3. Same(screen.stones, stones', last'.stones)
    <3>1. \A r \in screen.stones : r.id \in Nat /\ r.id <= last.stones
      BY DEF ScreenOK, Same
    <3>2. \A q \in stones' : last.stones < q.id
      BY <1>9, <1>10
    <3>3. \A q \in stones' : q.id \in Nat
      BY <1>10
    <3> QED BY <1>2, <1>3, <3>1, <3>2, <3>3 DEF Same
  <2> QED BY <1>1, <2>1, <2>2, <2>3 DEF ScreenOK
<1> QED BY <1>1, <1>11, <1>12, <1>13 DEF ReviewOK, OnlyWhatWasSeen

-----------------------------------------------------------------------------
\* The rows of a file, made exact, name their entries outright.
LEMMA Targets ==
    ASSUME IInv, NEW r, r.title \in Title, r.variant \in Variant \cup {NoColumn}
    PROVE  Target(r)[1] \in Title /\ Target(r)[2] \in Variant
<1>1. \A m \in media : m.title \in Title /\ m.variant \in Variant
  BY DEF IInv, TypeOK
<1>2. CASE Matches(r) = {}
  BY <1>2 DEF Target, Blank
<1>3. CASE Matches(r) # {}
  <2>1. (CHOOSE m \in Matches(r) : TRUE) \in media
    BY <1>3 DEF Matches
  <2> QED BY <1>1, <1>3, <2>1 DEF Target, Key
<1> QED BY <1>2, <1>3

LEMMA ExactActivities ==
    ASSUME IInv, NEW file \in ActivityFiles
    PROVE  Exact(file) \in Seq(ActivityRow) /\ Len(Exact(file)) = Len(file)
<1> DEFINE Given == [title : Title, variant : Variant \cup {NoColumn}, rest : Rest, what : What]
<1>1. file \in Seq(Given)
  OBVIOUS
<1>2. ASSUME NEW i \in 1 .. Len(file) PROVE ExactRow(file[i]) \in ActivityRow
  <2>1. file[i] \in Given
    <3> HIDE DEF Given
    <3> QED BY <1>1
  <2>2. Target(file[i])[1] \in Title /\ Target(file[i])[2] \in Variant
    BY <2>1, Targets
  <2> QED BY <2>1, <2>2 DEF ExactRow, ActivityRow
<1>3. DOMAIN file = 1 .. Len(file) /\ Len(file) \in Nat
  BY <1>1
<1>4. Exact(file) \in [1 .. Len(file) -> ActivityRow]
  BY <1>2, <1>3 DEF Exact
<1> QED BY <1>3, <1>4

LEMMA ExactMedia ==
    ASSUME IInv, NEW file \in MediaFiles
    PROVE  Exact(file) \in Seq(MediaRow)
<1> DEFINE Given == [title : Title, variant : Variant \cup {NoColumn}, rest : Rest]
<1>1. file \in Seq(Given)
  OBVIOUS
<1>2. ASSUME NEW i \in 1 .. Len(file) PROVE ExactRow(file[i]) \in MediaRow
  <2>1. file[i] \in Given
    <3> HIDE DEF Given
    <3> QED BY <1>1
  <2>2. Target(file[i])[1] \in Title /\ Target(file[i])[2] \in Variant
    BY <2>1, Targets
  <2> QED BY <2>1, <2>2 DEF ExactRow, MediaRow
<1>3. DOMAIN file = 1 .. Len(file) /\ Len(file) \in Nat
  BY <1>1
<1>4. Exact(file) \in [1 .. Len(file) -> MediaRow]
  BY <1>2, <1>3 DEF Exact
<1> QED BY <1>3, <1>4

\* Looking at a file changes no row.
LEMMA AnalyzeStep == ASSUME IInv, AnalyzeActivities \/ AnalyzeMedia \/ Dismiss PROVE IInv'
<1> USE DEF IInv
<1>1. /\ media' = media /\ logs' = logs /\ stones' = stones /\ last' = last /\ drawn' = drawn
      /\ touched' = None /\ screen' \in {screen, Nothing}
  BY DEF AnalyzeActivities, AnalyzeMedia, Dismiss, rows
<1>2. TypeOK' /\ WellLinked' /\ OnlyWhatWasSeen'
  BY <1>1 DEF TypeOK, WellLinked, Single, Key, OnlyWhatWasSeen
<1>3. ScreenOK'
  BY <1>1 DEF ScreenOK, Same, Nothing
<1>4. ReviewOK'
  <2>1. CASE AnalyzeActivities
    <3>1. PICK file \in ActivityFiles :
            review' = [kind |-> "activities", file |-> Exact(file), seen |-> Groups(Exact(file))]
      BY <2>1 DEF AnalyzeActivities
    <3>2. review'.kind = "activities" /\ review'.file = Exact(file)
      BY <3>1
    <3> QED BY <3>2, ExactActivities DEF ReviewOK
  <2>2. CASE AnalyzeMedia
    <3>1. PICK file \in MediaFiles :
            /\ Distinct(Exact(file))
            /\ review' = [kind |-> "media", file |-> Exact(file),
                          seen |-> [i \in DOMAIN file |-> Entry(Key(Exact(file)[i]))]]
      BY <2>2 DEF AnalyzeMedia
    <3>2. review'.kind = "media" /\ review'.file = Exact(file)
      BY <3>1
    <3> QED BY <3>1, <3>2, ExactMedia DEF ReviewOK, Distinct, Key
  <2>3. CASE Dismiss
    BY <2>3 DEF Dismiss, ReviewOK
  <2> QED BY <2>1, <2>2, <2>3
<1> QED BY <1>2, <1>3, <1>4

-----------------------------------------------------------------------------
\* A row of a file makes an entry with a number and an identifier of its own.
LEMMA EntryRows ==
    ASSUME IInv, NEW file, NEW i \in 1 .. Len(file), Len(file) \in Nat,
           file[i].title \in Title, file[i].variant \in Variant, file[i].rest \in Rest,
           drawn + Len(file) <= MaxUid, last.media + Len(file) <= MaxId
    PROVE  /\ NewEntry(file, i) \in [id : 1 .. MaxId, uid : 1 .. MaxUid, title : Title, variant : Variant, rest : Rest]
           /\ NewEntry(file, i).id = last.media + i /\ NewEntry(file, i).uid = drawn + i
           /\ NewEntry(file, i).title = file[i].title /\ NewEntry(file, i).variant = file[i].variant
           /\ \A m \in media : m.id < last.media + i /\ m.uid < drawn + i
           /\ last.media + i <= last.media + Len(file) /\ drawn + i <= drawn + Len(file)
<1>1. last.media \in Nat /\ drawn \in Nat /\ last.media + i \in 1 .. MaxId /\ drawn + i \in 1 .. MaxUid
  BY DEF IInv, TypeOK
<1>2. \A m \in media : m.id \in Nat /\ m.uid \in Nat /\ m.id <= last.media /\ m.uid <= drawn
  BY DEF IInv, TypeOK
<1> QED BY <1>1, <1>2 DEF NewEntry, LastNumber

\* New entries beside the old ones: one for each name that was missing.
EntriesFrom(file, Picked) == {NewEntry(file, i) : i \in Picked}
MayAdd(file, Picked) ==
    /\ Len(file) \in Nat /\ Picked \subseteq 1 .. Len(file)
    /\ drawn + Len(file) <= MaxUid /\ last.media + Len(file) <= MaxId
    /\ \A i \in Picked : file[i].title \in Title /\ file[i].variant \in Variant /\ file[i].rest \in Rest
    /\ \A i, j \in Picked : Key(file[i]) = Key(file[j]) => i = j
    /\ \A i \in Picked : Key(file[i]) \notin Keys
Entries(old) ==
    /\ old \subseteq [id : 1 .. MaxId, uid : 1 .. MaxUid, title : Title, variant : Variant, rest : Rest]
    /\ Single(old) /\ \A m, n \in old : Key(m) = Key(n) => m = n
StandFor(old) ==
    \A m \in old : \E n \in media : n.id = m.id /\ n.uid = m.uid /\ n.title = m.title /\ n.variant = m.variant
Grown(file, old, new) ==
    \A m \in new : /\ m.id <= last.media + Len(file) /\ m.uid <= drawn + Len(file)
                   /\ m \in old \/ (last.media < m.id /\ drawn < m.uid)
LEMMA EntriesAdded ==
    ASSUME IInv, NEW file, NEW Picked, MayAdd(file, Picked), NEW old, Entries(old), StandFor(old)
    PROVE  /\ Entries(old \cup EntriesFrom(file, Picked))
           /\ Grown(file, old, old \cup EntriesFrom(file, Picked))
<1> DEFINE new == old \cup EntriesFrom(file, Picked)
<1> USE DEF MayAdd, Entries, StandFor
<1>0. last.media \in Nat /\ drawn \in Nat
  BY DEF IInv, TypeOK
<1>1. \A m \in old : m.id \in Nat /\ m.uid \in Nat /\ m.id <= last.media /\ m.uid <= drawn
  BY DEF IInv, TypeOK
<1>2. \A m \in old : Key(m) \in Keys
  BY DEF Keys, Key
<1>3. \A i \in Picked :
        /\ NewEntry(file, i) \in [id : 1 .. MaxId, uid : 1 .. MaxUid, title : Title, variant : Variant, rest : Rest]
        /\ NewEntry(file, i).id = last.media + i /\ NewEntry(file, i).uid = drawn + i
        /\ NewEntry(file, i).title = file[i].title /\ NewEntry(file, i).variant = file[i].variant
        /\ i \in Nat /\ 0 < i /\ i <= Len(file)
  BY EntryRows
<1>4. \A i \in Picked : Key(NewEntry(file, i)) = Key(file[i])
  BY <1>3 DEF Key
<1>5. new \subseteq [id : 1 .. MaxId, uid : 1 .. MaxUid, title : Title, variant : Variant, rest : Rest]
  BY <1>3 DEF EntriesFrom
<1>6. Single(new)
  <2>1. ASSUME NEW r \in new, NEW q \in new, r.id = q.id \/ r.uid = q.uid PROVE r = q
    <3>1. CASE r \in old /\ q \in old
      BY <2>1, <3>1 DEF Single
    <3>2. CASE r \in old /\ q \notin old
      <4>1. PICK i \in Picked : q = NewEntry(file, i)
        BY <3>2 DEF EntriesFrom
      <4>2. q.id = last.media + i /\ q.uid = drawn + i /\ i \in Nat /\ 0 < i
        BY <1>3, <4>1
      <4> QED BY <1>0, <1>1, <2>1, <3>2, <4>2
    <3>3. CASE r \notin old /\ q \in old
      <4>1. PICK i \in Picked : r = NewEntry(file, i)
        BY <3>3 DEF EntriesFrom
      <4>2. r.id = last.media + i /\ r.uid = drawn + i /\ i \in Nat /\ 0 < i
        BY <1>3, <4>1
      <4> QED BY <1>0, <1>1, <2>1, <3>3, <4>2
    <3>4. CASE r \notin old /\ q \notin old
      <4>1. PICK i \in Picked, j \in Picked : r = NewEntry(file, i) /\ q = NewEntry(file, j)
        BY <3>4 DEF EntriesFrom
      <4>2. r.id = last.media + i /\ r.uid = drawn + i /\ q.id = last.media + j /\ q.uid = drawn + j
            /\ i \in Nat /\ j \in Nat
        BY <1>3, <4>1
      <4>3. i = j
        BY <1>0, <2>1, <4>2
      <4> QED BY <4>1, <4>3
    <3> QED BY <3>1, <3>2, <3>3, <3>4
  <2> QED BY <2>1 DEF Single
<1>7. \A m, n \in new : Key(m) = Key(n) => m = n
  BY <1>2, <1>4 DEF EntriesFrom
<1>8. \A m \in new : /\ m.id <= last.media + Len(file) /\ m.uid <= drawn + Len(file)
                     /\ m \in old \/ (last.media < m.id /\ drawn < m.uid)
  <2>1. ASSUME NEW i \in Picked
        PROVE  /\ NewEntry(file, i).id <= last.media + Len(file) /\ NewEntry(file, i).uid <= drawn + Len(file)
               /\ last.media < NewEntry(file, i).id /\ drawn < NewEntry(file, i).uid
    BY <1>0, <1>3
  <2>2. \A m \in old : m.id <= last.media + Len(file) /\ m.uid <= drawn + Len(file)
    BY <1>0, <1>1
  <2> QED BY <2>1, <2>2 DEF EntriesFrom
<1> QED BY <1>5, <1>6, <1>7, <1>8 DEF Grown

\* Activities from a file: each has the entry it names, old or made for it.
LEMMA ActivitiesImported ==
    ASSUME IInv, NEW file \in Seq(ActivityRow), NEW skip, ImportActivities(file, skip)
    PROVE  TypeOK' /\ WellLinked' /\ ScreenOK' /\ touched' = None
<1> USE DEF IInv
<1> DEFINE kept == Kept(file, skip)
           entries == media \cup Made(file, kept)
           Picked == {Maker(file, kept, k) : k \in {Key(file[i]) : i \in kept} \ Keys}
<1>1. /\ drawn + Len(file) <= MaxUid
      /\ last.media + Len(file) <= MaxId /\ last.logs + Len(file) <= MaxId
      /\ media' = entries
      /\ logs' = logs \cup {NewActivity(file, entries, i) : i \in kept}
      /\ last' = [last EXCEPT !.media = last.media + Len(file), !.logs = last.logs + Len(file)]
      /\ drawn' = drawn + Len(file) /\ touched' = None /\ stones' = stones /\ screen' = screen
  BY DEF ImportActivities, LastNumber
<1>2. Len(file) \in Nat /\ DOMAIN file = 1 .. Len(file) /\ kept \subseteq 1 .. Len(file)
  BY DEF Kept
<1>3. \A i \in 1 .. Len(file) : file[i] \in ActivityRow
  OBVIOUS
<1>4. \A i \in 1 .. Len(file) : file[i].title \in Title /\ file[i].variant \in Variant
                                /\ file[i].rest \in Rest /\ file[i].what \in What
  BY <1>3 DEF ActivityRow
<1>5. last' \in [{"media", "logs", "stones"} -> 0 .. MaxId]
      /\ last'.media = last.media + Len(file) /\ last'.logs = last.logs + Len(file) /\ last'.stones = last.stones
      /\ last.media \in Nat /\ last.logs \in Nat /\ last.stones \in Nat /\ drawn \in Nat
  <2>1. last \in [{"media", "logs", "stones"} -> 0 .. MaxId] /\ drawn \in Nat
    BY DEF TypeOK
  <2>2. last.media \in Nat /\ last.logs \in Nat /\ last.stones \in Nat
    BY <2>1
  <2>3. last.media + Len(file) \in 0 .. MaxId /\ last.logs + Len(file) \in 0 .. MaxId
    BY <1>1, <1>2, <2>2
  <2> QED BY <1>1, <2>1, <2>2, <2>3
<1>6. \A k \in {Key(file[i]) : i \in kept} :
        Maker(file, kept, k) \in kept /\ Key(file[Maker(file, kept, k)]) = k
  BY DEF Maker
<1>7. /\ Picked \subseteq 1 .. Len(file)
      /\ \A i, j \in Picked : Key(file[i]) = Key(file[j]) => i = j
      /\ \A i \in Picked : Key(file[i]) \notin Keys
      /\ \A i \in kept : Key(file[i]) \in Keys \/ \E j \in Picked : Key(file[j]) = Key(file[i])
      /\ Made(file, kept) = {NewEntry(file, i) : i \in Picked}
  BY <1>2, <1>6 DEF Made
<1> HIDE DEF Picked, kept, entries
<1>8. entries = media \cup {NewEntry(file, i) : i \in Picked}
  BY <1>7 DEF entries
<1>9. /\ entries \subseteq [id : 1 .. MaxId, uid : 1 .. MaxUid, title : Title, variant : Variant, rest : Rest]
      /\ Single(entries) /\ \A m, n \in entries : Key(m) = Key(n) => m = n
      /\ \A m \in entries : m.id <= last.media + Len(file) /\ m.uid <= drawn + Len(file)
      /\ \A m \in entries : m \in media \/ (last.media < m.id /\ drawn < m.uid)
  <2>1. Entries(media) /\ StandFor(media)
    BY DEF TypeOK, WellLinked, Entries, StandFor
  <2>2. MayAdd(file, Picked)
    BY <1>1, <1>2, <1>4, <1>7 DEF MayAdd
  <2>3. entries = media \cup EntriesFrom(file, Picked)
    BY <1>8 DEF EntriesFrom
  <2>4. Entries(entries) /\ Grown(file, media, entries)
    BY <2>1, <2>2, <2>3, EntriesAdded
  <2> QED BY <2>4 DEF Entries, Grown
<1>10. \A i \in kept : \E m \in entries : Key(m) = Key(file[i])
  <2>1. \A i \in Picked : Key(NewEntry(file, i)) = Key(file[i])
    BY DEF NewEntry, Key
  <2> QED BY <1>7, <1>8, <2>1 DEF Keys
<1>11. \A i \in kept :
        /\ \E m \in entries : m.id = NewActivity(file, entries, i).media
        /\ NewActivity(file, entries, i) \in [id : 1 .. MaxId, uid : 1 .. MaxUid, media : 1 .. MaxId, what : What]
        /\ NewActivity(file, entries, i).id = last.logs + i /\ NewActivity(file, entries, i).uid = drawn + i
        /\ i \in Nat /\ 0 < i /\ i <= Len(file)
  <2> TAKE i \in kept
  <2> DEFINE m == CHOOSE x \in entries : Key(x) = Key(file[i])
  <2>1. m \in entries
    BY <1>10
  <2>2. m.id \in 1 .. MaxId
    BY <1>9, <2>1
  <2>3. i \in Nat /\ 0 < i /\ i <= Len(file) /\ file[i].what \in What
    BY <1>2, <1>4
  <2>4. last.logs + i \in 1 .. MaxId /\ drawn + i \in 1 .. MaxUid
    BY <1>1, <1>2, <1>5, <2>3, SMTT(20)
  <2>5. NewActivity(file, entries, i) = [id |-> last.logs + i, uid |-> drawn + i, media |-> m.id, what |-> file[i].what]
    BY DEF NewActivity, LastNumber
  <2> HIDE DEF m
  <2> QED BY <2>1, <2>2, <2>3, <2>4, <2>5
<1>12. TypeOK'
  <2>1. /\ logs' \subseteq [id : 1 .. MaxId, uid : 1 .. MaxUid, media : 1 .. MaxId, what : What]
        /\ \A l \in logs' : l.id <= last.logs + Len(file) /\ l.uid <= drawn + Len(file)
    <3>1. \A l \in logs : l \in [id : 1 .. MaxId, uid : 1 .. MaxUid, media : 1 .. MaxId, what : What]
                          /\ l.id <= last.logs + Len(file) /\ l.uid <= drawn + Len(file)
      BY <1>2, <1>5 DEF TypeOK
    <3>2. \A i \in kept : NewActivity(file, entries, i).id <= last.logs + Len(file)
                          /\ NewActivity(file, entries, i).uid <= drawn + Len(file)
      BY <1>2, <1>5, <1>11
    <3> QED BY <1>1, <1>11, <3>1, <3>2
  <2>2. \A s \in stones : s.id <= last.stones /\ s.uid <= drawn + Len(file)
    BY <1>2, <1>5 DEF TypeOK
  <2>3. drawn + Len(file) \in 0 .. MaxUid
    BY <1>1, <1>2, <1>5
  <2> QED BY <1>1, <1>5, <1>9, <2>1, <2>2, <2>3 DEF TypeOK
<1>13. WellLinked'
  <2>1. Single(logs')
    <3>1. \A l \in logs : l.id \in Nat /\ l.uid \in Nat /\ l.id <= last.logs /\ l.uid <= drawn
      BY DEF TypeOK
    <3>2. \A l \in logs, i \in kept : l.id # last.logs + i /\ l.uid # drawn + i
      BY <1>5, <1>11, <3>1, SMTT(20)
    <3>3. \A i, j \in kept : last.logs + i = last.logs + j \/ drawn + i = drawn + j => i = j
      <4>1. \A i \in kept : i \in Nat
        BY <1>11
      <4> QED BY <1>5, <4>1
    <3> QED BY <1>1, <1>11, <3>2, <3>3 DEF WellLinked, Single
  <2>2. \A l \in logs' : \E m \in media' : m.id = l.media
    <3>1. \A l \in logs : \E m \in entries : m.id = l.media
      BY <1>8 DEF WellLinked
    <3>2. \A i \in kept : \E m \in entries : m.id = NewActivity(file, entries, i).media
      BY <1>11
    <3> QED BY <1>1, <3>1, <3>2
  <2>3. \A s \in stones' : \E m \in media' : m.uid = s.media /\ m.title = s.title
    BY <1>1, <1>8 DEF WellLinked
  <2> QED BY <1>1, <1>9, <2>1, <2>2, <2>3 DEF WellLinked, Single, Key
<1>14. ScreenOK'
  <2>1. Same(screen.media, media', last'.media)
    <3>1. \A r \in screen.media : r.id \in Nat /\ r.id <= last.media
      BY DEF ScreenOK, Same
    <3>2. \A m \in entries : m.id \in Nat
      BY <1>9
    <3>3. \A r \in screen.media, m \in entries : m.id = r.id => m \in media
      BY <1>5, <1>9, <3>1, <3>2
    <3> QED BY <1>1, <1>2, <1>5, <3>1, <3>3 DEF ScreenOK, Same
  <2>2. Same(screen.logs, logs', last'.logs)
    <3>1. \A r \in screen.logs : r.id \in Nat /\ r.id <= last.logs
      BY DEF ScreenOK, Same
    <3>2. \A r \in screen.logs, i \in kept : NewActivity(file, entries, i).id # r.id
      BY <1>5, <1>11, <3>1
    <3> QED BY <1>1, <1>2, <1>5, <3>1, <3>2 DEF ScreenOK, Same
  <2> QED BY <1>1, <1>5, <2>1, <2>2 DEF ScreenOK
<1> QED BY <1>1, <1>12, <1>13, <1>14

LEMMA ImportActivitiesStep == ASSUME IInv, ApplyActivities \/ ImportCsv PROVE IInv'
<1> USE DEF IInv
<1>1. CASE ApplyActivities
  <2>1. PICK skip : ImportActivities(review.file, skip)
    BY <1>1 DEF ApplyActivities
  <2>2. review.file \in Seq(ActivityRow) /\ review' = None
    BY <1>1 DEF ApplyActivities, ReviewOK
  <2> QED BY <2>1, <2>2, ActivitiesImported DEF ReviewOK, OnlyWhatWasSeen
<1>2. CASE ImportCsv
  <2>1. PICK file \in ActivityFiles : ImportActivities(Exact(file), {})
    BY <1>2 DEF ImportCsv
  <2>2. Exact(file) \in Seq(ActivityRow) /\ review' = review
    BY <1>2, ExactActivities DEF ImportCsv
  <2> QED BY <2>1, <2>2, ActivitiesImported DEF ReviewOK, OnlyWhatWasSeen
<1> QED BY <1>1, <1>2

\* A reviewed row rewrites what is said of an entry, never which it is.
LEMMA RewrittenRow ==
    ASSUME IInv, NEW file \in Seq(MediaRow), NEW picked \in SUBSET DOMAIN file, NEW m \in media
    PROVE  /\ Rewritten(file, picked, m) \in
                [id : 1 .. MaxId, uid : 1 .. MaxUid, title : Title, variant : Variant, rest : Rest]
           /\ Rewritten(file, picked, m).id = m.id /\ Rewritten(file, picked, m).uid = m.uid
           /\ Rewritten(file, picked, m).title = m.title /\ Rewritten(file, picked, m).variant = m.variant
<1>1. m \in [id : 1 .. MaxId, uid : 1 .. MaxUid, title : Title, variant : Variant, rest : Rest]
  BY DEF IInv, TypeOK
<1>2. CASE \E i \in picked : Key(file[i]) = Key(m)
  <2> DEFINE i == CHOOSE i \in picked : Key(file[i]) = Key(m)
  <2>1. i \in DOMAIN file
    BY <1>2
  <2>2. file[i] \in MediaRow
    BY <2>1
  <2>3. file[i].rest \in Rest
    BY <2>2 DEF MediaRow
  <2>4. Rewritten(file, picked, m) = [m EXCEPT !.rest = file[i].rest]
    BY <1>1, <1>2 DEF Rewritten
  <2> HIDE DEF i
  <2> QED BY <1>1, <2>3, <2>4
<1>3. CASE ~ \E i \in picked : Key(file[i]) = Key(m)
  <2>1. Rewritten(file, picked, m) = m
    BY <1>1, <1>3 DEF Rewritten
  <2> QED BY <1>1, <2>1
<1> QED BY <1>2, <1>3

LEMMA ApplyMediaStep == ASSUME IInv, ApplyMedia PROVE IInv'
<1> USE DEF IInv
<1> DEFINE file == review.file
<1>1. file \in Seq(MediaRow) /\ Distinct(file)
  BY DEF ApplyMedia, ReviewOK
<1>2. /\ drawn + Len(file) <= MaxUid /\ last.media + Len(file) <= MaxId
      /\ last' = [last EXCEPT !.media = last.media + Len(file)]
      /\ drawn' = drawn + Len(file) /\ review' = None /\ touched' = None
      /\ logs' = logs /\ stones' = stones /\ screen' = screen
  BY DEF ApplyMedia, LastNumber
<1> DEFINE Old(picked) == {Rewritten(file, picked, m) : m \in media}
           New(picked) == {j \in picked : Key(file[j]) \notin Keys}
<1>3. PICK picked \in SUBSET DOMAIN file : media' = Old(picked) \cup EntriesFrom(file, New(picked))
  BY DEF ApplyMedia, EntriesFrom
<1> DEFINE old == Old(picked)
           Picked == New(picked)
<1> HIDE DEF file
<1>4. /\ Len(file) \in Nat /\ DOMAIN file = 1 .. Len(file)
      /\ \A i \in 1 .. Len(file) : file[i] \in MediaRow
  BY <1>1
<1>5. last \in [{"media", "logs", "stones"} -> 0 .. MaxId] /\ drawn \in Nat
      /\ last.media \in Nat /\ last.media + Len(file) \in 0 .. MaxId /\ drawn + Len(file) \in 0 .. MaxUid
  <2>1. last \in [{"media", "logs", "stones"} -> 0 .. MaxId] /\ drawn \in Nat
    BY DEF TypeOK
  <2>2. last.media \in Nat
    BY <2>1
  <2> QED BY <1>2, <1>4, <2>1, <2>2
<1>6. last' \in [{"media", "logs", "stones"} -> 0 .. MaxId]
      /\ last'.media = last.media + Len(file) /\ last'.logs = last.logs /\ last'.stones = last.stones
  BY <1>2, <1>5
<1>7. \A m \in media :
        /\ Rewritten(file, picked, m) \in
             [id : 1 .. MaxId, uid : 1 .. MaxUid, title : Title, variant : Variant, rest : Rest]
        /\ Rewritten(file, picked, m).id = m.id /\ Rewritten(file, picked, m).uid = m.uid
        /\ Rewritten(file, picked, m).title = m.title /\ Rewritten(file, picked, m).variant = m.variant
  BY <1>1, RewrittenRow
<1>8. StandFor(old)
  BY <1>7 DEF StandFor
<1>9. /\ \A n \in old : \E m \in media : n = Rewritten(file, picked, m) /\ n.id = m.id /\ n.uid = m.uid
                                       /\ n.title = m.title /\ n.variant = m.variant
      /\ \A m \in media : \E n \in old : n.id = m.id /\ n.uid = m.uid /\ n.title = m.title
  BY <1>7
<1>10. Entries(old)
  <2>1. old \subseteq [id : 1 .. MaxId, uid : 1 .. MaxUid, title : Title, variant : Variant, rest : Rest]
    BY <1>7
  <2> HIDE DEF old
  <2>2. Single(old) /\ \A m, n \in old : Key(m) = Key(n) => m = n
    BY <1>9 DEF WellLinked, Single, Key
  <2> QED BY <2>1, <2>2 DEF Entries
<1>11. MayAdd(file, Picked)
  <2>1. \A i \in 1 .. Len(file) : file[i].title \in Title /\ file[i].variant \in Variant /\ file[i].rest \in Rest
    BY <1>4 DEF MediaRow
  <2>2. Picked \subseteq 1 .. Len(file)
    BY <1>4
  <2> QED BY <1>1, <1>2, <1>4, <2>1, <2>2 DEF MayAdd, Distinct
<1> HIDE DEF old, Picked
<1>12. Entries(media') /\ Grown(file, old, media')
  <2>1. media' = old \cup EntriesFrom(file, Picked)
    BY <1>3 DEF old, Picked
  <2> QED BY <1>8, <1>10, <1>11, <2>1, EntriesAdded
<1>13. old \subseteq media'
  BY <1>3 DEF old
<1>14. TypeOK'
  <2>1. \A m \in media' : m.id <= last'.media /\ m.uid <= drawn'
    BY <1>2, <1>6, <1>12 DEF Grown
  <2>2. /\ \A l \in logs : l.id <= last.logs /\ l.uid <= drawn + Len(file)
        /\ \A s \in stones : s.id <= last.stones /\ s.uid <= drawn + Len(file)
    BY <1>4, <1>5 DEF TypeOK
  <2> QED BY <1>2, <1>5, <1>6, <1>12, <2>1, <2>2 DEF TypeOK, Entries
<1>15. WellLinked'
  <2>1. \A l \in logs : \E m \in media' : m.id = l.media
    BY <1>9, <1>13 DEF WellLinked
  <2>2. \A s \in stones : \E m \in media' : m.uid = s.media /\ m.title = s.title
    BY <1>9, <1>13 DEF WellLinked
  <2> QED BY <1>2, <1>12, <2>1, <2>2 DEF WellLinked, Entries, Single, Key
<1>16. ScreenOK'
  <2>1. \A r \in screen.media : r.id \in Nat /\ r.id <= last.media
    BY DEF ScreenOK, Same
  <2>2. \A m \in media' : m.id \in Nat /\ (m \in old \/ last.media < m.id)
    BY <1>12 DEF Entries, Grown
  <2>3. \A r \in screen.media, m \in media' : m.id = r.id => m \in old
    BY <1>5, <2>1, <2>2
  <2>4. \A r \in screen.media, m \in old : m.id = r.id => m.uid = r.uid
    BY <1>9 DEF ScreenOK, Same
  <2>5. Same(screen.media, media', last'.media)
    <3>1. \A r \in screen.media : r.id <= last'.media
      BY <1>4, <1>5, <1>6, <2>1
    <3> QED BY <2>3, <2>4, <3>1 DEF Same
  <2> QED BY <1>2, <1>6, <2>5 DEF ScreenOK
<1> QED BY <1>2, <1>14, <1>15, <1>16 DEF ReviewOK, OnlyWhatWasSeen

LEMMA ImportMilestonesStep == ASSUME IInv, ImportMilestones PROVE IInv'
<1> USE DEF IInv
<1>1. PICK file \in StoneFiles :
        /\ drawn + Len(file) <= MaxUid /\ last.stones + Len(file) <= MaxId
        /\ \A i \in DOMAIN file : Matches(file[i]) # {}
        /\ stones' = stones \cup {NewMilestone(file, i) : i \in DOMAIN file}
        /\ last' = [last EXCEPT !.stones = last.stones + Len(file)]
        /\ drawn' = drawn + Len(file)
  BY DEF ImportMilestones, LastNumber
<1>2. touched' = None /\ media' = media /\ logs' = logs /\ screen' = screen /\ review' = review
  BY DEF ImportMilestones, Quiet
<1> DEFINE Given == [title : Title, variant : Variant \cup {NoColumn}, name : Name]
<1>3. file \in Seq(Given)
  OBVIOUS
<1>4. Len(file) \in Nat /\ DOMAIN file = 1 .. Len(file)
  BY <1>3
<1>5. \A i \in 1 .. Len(file) : file[i] \in Given
  <2> HIDE DEF Given
  <2> QED BY <1>3
<1>6. last \in [{"media", "logs", "stones"} -> 0 .. MaxId] /\ drawn \in Nat
      /\ last.stones \in Nat /\ last.stones + Len(file) \in 0 .. MaxId /\ drawn + Len(file) \in 0 .. MaxUid
  <2>1. last \in [{"media", "logs", "stones"} -> 0 .. MaxId] /\ drawn \in Nat
    BY DEF TypeOK
  <2>2. last.stones \in Nat
    BY <2>1
  <2> QED BY <1>1, <1>4, <2>1, <2>2
<1>7. last' \in [{"media", "logs", "stones"} -> 0 .. MaxId]
      /\ last'.stones = last.stones + Len(file) /\ last'.logs = last.logs /\ last'.media = last.media
  BY <1>1, <1>6
<1>8. \A i \in 1 .. Len(file) :
        /\ NewMilestone(file, i) \in
             [id : 1 .. MaxId, uid : 1 .. MaxUid, media : 1 .. MaxUid, title : Title, name : Name]
        /\ NewMilestone(file, i).id = last.stones + i /\ NewMilestone(file, i).uid = drawn + i
        /\ i \in Nat /\ 0 < i /\ i <= Len(file)
        /\ \E m \in media : m.uid = NewMilestone(file, i).media /\ m.title = NewMilestone(file, i).title
  <2> TAKE i \in 1 .. Len(file)
  <2> DEFINE m == CHOOSE x \in Matches(file[i]) : TRUE
  <2>1. m \in media
    BY <1>1, <1>4 DEF Matches
  <2>2. m.uid \in 1 .. MaxUid /\ m.title \in Title
    BY <2>1 DEF TypeOK
  <2>3. file[i].name \in Name
    BY <1>5
  <2>4. i \in Nat /\ 0 < i /\ i <= Len(file) /\ last.stones + i \in 1 .. MaxId /\ drawn + i \in 1 .. MaxUid
    BY <1>1, <1>4, <1>6
  <2>5. NewMilestone(file, i) = [id |-> last.stones + i, uid |-> drawn + i, media |-> m.uid,
                                 title |-> m.title, name |-> file[i].name]
    BY DEF NewMilestone, LastNumber
  <2> HIDE DEF m
  <2> QED BY <2>1, <2>2, <2>3, <2>4, <2>5
<1>9. TypeOK'
  <2>1. \A s \in stones : s \in [id : 1 .. MaxId, uid : 1 .. MaxUid, media : 1 .. MaxUid, title : Title, name : Name]
                          /\ s.id <= last.stones + Len(file) /\ s.uid <= drawn + Len(file)
    BY <1>4, <1>6 DEF TypeOK
  <2>2. \A i \in 1 .. Len(file) : NewMilestone(file, i).id <= last.stones + Len(file)
                                  /\ NewMilestone(file, i).uid <= drawn + Len(file)
    BY <1>4, <1>6, <1>8
  <2>3. /\ stones' \subseteq [id : 1 .. MaxId, uid : 1 .. MaxUid, media : 1 .. MaxUid, title : Title, name : Name]
        /\ \A s \in stones' : s.id <= last'.stones /\ s.uid <= drawn'
    BY <1>1, <1>4, <1>7, <1>8, <2>1, <2>2
  <2>4. /\ \A m \in media : m.id <= last.media /\ m.uid <= drawn + Len(file)
        /\ \A l \in logs : l.id <= last.logs /\ l.uid <= drawn + Len(file)
    BY <1>4, <1>6 DEF TypeOK
  <2> QED BY <1>1, <1>2, <1>6, <1>7, <2>3, <2>4 DEF TypeOK
<1>10. WellLinked'
  <2>1. Single(stones')
    <3>1. \A s \in stones : s.id \in Nat /\ s.uid \in Nat /\ s.id <= last.stones /\ s.uid <= drawn
      BY DEF TypeOK
    <3>2. \A s \in stones, i \in 1 .. Len(file) : s.id # last.stones + i /\ s.uid # drawn + i
      BY <1>4, <1>6, <3>1
    <3>3. \A i, j \in 1 .. Len(file) : last.stones + i = last.stones + j \/ drawn + i = drawn + j => i = j
      BY <1>4, <1>6
    <3> QED BY <1>1, <1>4, <1>8, <3>2, <3>3 DEF WellLinked, Single
  <2>2. \A s \in stones' : \E m \in media : m.uid = s.media /\ m.title = s.title
    BY <1>1, <1>4, <1>8 DEF WellLinked
  <2> QED BY <1>2, <2>1, <2>2 DEF WellLinked, Single, Key
<1>11. ScreenOK'
  <2>1. \A r \in screen.stones : r.id \in Nat /\ r.id <= last.stones
    BY DEF ScreenOK, Same
  <2>2. \A r \in screen.stones, i \in 1 .. Len(file) : NewMilestone(file, i).id # r.id
    BY <1>6, <1>8, <2>1
  <2>3. Same(screen.stones, stones', last'.stones)
    <3>1. \A r \in screen.stones : r.id <= last'.stones
      BY <1>4, <1>6, <1>7, <2>1
    <3> QED BY <1>1, <1>4, <2>2, <3>1 DEF ScreenOK, Same
  <2> QED BY <1>2, <1>7, <2>3 DEF ScreenOK
<1> QED BY <1>2, <1>9, <1>10, <1>11 DEF ReviewOK, OnlyWhatWasSeen

-----------------------------------------------------------------------------
LEMMA Inductive == ASSUME IInv, [Next]_vars PROVE IInv'
<1>1. CASE Look
  BY <1>1, LookStep
<1>2. CASE Edit
  BY <1>2, AddMediaStep, UpdateMediaStep, DeleteMediaStep, AddLogStep, UpdateLogStep, DeleteLogStep,
     AddMilestoneStep, UpdateMilestoneStep, DeleteMilestoneStep DEF Edit
<1>3. CASE SyncApply
  BY <1>3, SyncApplyStep
<1>4. CASE Import
  BY <1>4, AnalyzeStep, ImportActivitiesStep, ApplyMediaStep, ImportMilestonesStep DEF Import
<1>5. CASE UNCHANGED vars
  BY <1>5 DEF vars, IInv, TypeOK, WellLinked, Single, Key, ReviewOK, Distinct, ScreenOK, Same, OnlyWhatWasSeen
<1> QED BY <1>1, <1>2, <1>3, <1>4, <1>5 DEF Next

\* Whatever is edited, imported and synced, the strengthened invariant
\* holds: the numbers on a screen are below the last ones given (the
\* AUTOINCREMENT tables of db.rs).
THEOREM Invariance == Spec => []IInv
<1>1. Init => IInv
  BY Initially
<1>2. IInv /\ [Next]_vars => IInv'
  BY Inductive
<1> QED BY <1>1, <1>2, PTL DEF Spec

\* Numbers and identifiers are always ones that were given (db.rs inserts).
THEOREM TypeCorrect == Spec => []TypeOK
<1>1. IInv => TypeOK
  BY DEF IInv
<1> QED BY <1>1, Invariance, PTL

\* Identities stay single, activities and milestones keep their entry and
\* milestones its title, through edits, imports and syncs (db.rs
\* update_media and delete_media, csv_import.rs, apply_snapshot).
THEOREM LinksHold == Spec => []WellLinked
<1>1. IInv => WellLinked
  BY DEF IInv
<1> QED BY <1>1, Invariance, PTL

\* A request from an old screen never hits a row the user did not see (the
\* ids that the commands of lib.rs take, against apply_snapshot).
THEOREM StaleRequestsMiss == Spec => []OnlyWhatWasSeen
<1>1. IInv => OnlyWhatWasSeen
  BY DEF IInv
<1> QED BY <1>1, Invariance, PTL

-----------------------------------------------------------------------------
\* Counting.  The rows of a table, by the number each has, are in bijection with their
\* places: a place is how many rows have no higher number.
LEMMA Places ==
    ASSUME NEW S, IsFiniteSet(S), NEW f \in [S -> Nat],
           \A r, q \in S : f[r] = f[q] => r = q
    PROVE  [r \in S |-> Cardinality({q \in S : f[q] <= f[r]})] \in Bijection(S, 1 .. Cardinality(S))
<1> DEFINE D(r) == {q \in S : f[q] <= f[r]}
           g == [r \in S |-> Cardinality(D(r))]
           n == Cardinality(S)
<1>1. n \in Nat
  BY FS_CardinalityType
<1>2. ASSUME NEW r \in S
      PROVE  /\ IsFiniteSet(D(r)) /\ Cardinality(D(r)) \in Nat
             /\ Cardinality(D(r)) <= n /\ Cardinality(D(r)) # 0
  <2>1. D(r) \in SUBSET S /\ r \in D(r)
    OBVIOUS
  <2> HIDE DEF D
  <2>2. IsFiniteSet(D(r)) /\ Cardinality(D(r)) <= n
    BY <2>1, FS_Subset
  <2> QED BY <2>1, <2>2, FS_CardinalityType, FS_EmptySet
<1>3. g \in [S -> 1 .. n]
  BY <1>1, <1>2
<1>4. ASSUME NEW r \in S, NEW q \in S, f[r] < f[q] PROVE g[r] # g[q]
  <2>1. D(r) \subseteq D(q) /\ q \in D(q) /\ q \notin D(r)
    BY <1>4
  <2> HIDE DEF D
  <2>2. IsFiniteSet(D(q)) /\ D(r) \in SUBSET D(q) /\ D(r) # D(q)
    BY <1>2, <2>1
  <2>3. Cardinality(D(r)) # Cardinality(D(q))
    BY <2>2, FS_Subset
  <2> QED BY <2>3
<1>5. \A r, q \in S : g[r] = g[q] => r = q
  <2> SUFFICES ASSUME NEW r \in S, NEW q \in S, g[r] = g[q] PROVE r = q
    OBVIOUS
  <2>1. f[r] \in Nat /\ f[q] \in Nat
    OBVIOUS
  <2>2. ~(f[r] < f[q]) /\ ~(f[q] < f[r])
    BY <1>4
  <2>3. f[r] = f[q]
    BY <2>1, <2>2
  <2> QED BY <2>3
<1> HIDE DEF g, n
<1>6. g \in Injection(S, 1 .. n)
  BY <1>3, <1>5 DEF Injection, IsInjective
<1>7. IsFiniteSet(1 .. n) /\ Cardinality(1 .. n) = n
  BY <1>1, FS_Interval
<1>8. g \in Surjection(S, 1 .. n)
  BY <1>6, <1>7, FS_Injection DEF n
<1>9. g \in Bijection(S, 1 .. n)
  BY <1>6, <1>8 DEF Bijection
<1> QED BY <1>9 DEF g, n

\* A table whose numbers are given once is finite, and InOrder lists each of its rows
\* once.
Numbered(table) ==
    /\ IsFiniteSet(table) /\ \A r \in table : r.id \in Nat
    /\ \A r, q \in table : r.id = q.id => r = q

LEMMA Countable ==
    ASSUME NEW table, NEW top \in Nat, \A r \in table : r.id \in 1 .. top,
           \A r, q \in table : r.id = q.id => r = q
    PROVE  Numbered(table)
<1> DEFINE f == [r \in table |-> r.id]
<1>1. f \in Injection(table, 1 .. top)
  BY DEF Injection, IsInjective
<1>2. IsFiniteSet(1 .. top)
  BY FS_Interval
<1> HIDE DEF f
<1>3. IsFiniteSet(table)
  BY <1>1, <1>2, FS_Injection
<1> QED BY <1>3 DEF Numbered

LEMMA Ordered ==
    ASSUME NEW table, Numbered(table)
    PROVE  /\ Cardinality(table) \in Nat
           /\ DOMAIN InOrder(table) = 1 .. Cardinality(table)
           /\ \A i \in 1 .. Cardinality(table) : InOrder(table)[i] \in table
           /\ \A r \in table : \E i \in 1 .. Cardinality(table) : InOrder(table)[i] = r
           /\ \A i, j \in 1 .. Cardinality(table) :
                InOrder(table)[i] = InOrder(table)[j] => i = j
<1> DEFINE n == Cardinality(table)
           f == [r \in table |-> r.id]
           g == [r \in table |-> Cardinality({q \in table : f[q] <= f[r]})]
<1>1. IsFiniteSet(table) /\ f \in [table -> Nat] /\ \A r, q \in table : f[r] = f[q] => r = q
  BY DEF Numbered
<1>2. \A r \in table : g[r] = Cardinality({q \in table : q.id <= r.id})
  <2> TAKE r \in table
  <2>1. {q \in table : f[q] <= f[r]} = {q \in table : q.id <= r.id}
    OBVIOUS
  <2> QED BY <2>1
<1>3. g \in Bijection(table, 1 .. n)
  <2> HIDE DEF f
  <2> QED BY <1>1, Places
<1> HIDE DEF g, f
<1>4. /\ g \in [table -> 1 .. n]
      /\ \A r, q \in table : g[r] = g[q] => r = q
      /\ \A i \in 1 .. n : \E r \in table : g[r] = i
  BY <1>3 DEF Bijection, Injection, Surjection, IsInjective
<1>5. n \in Nat
  BY <1>1, FS_CardinalityType
<1>6. InOrder(table) = [i \in 1 .. n |-> CHOOSE r \in table : g[r] = i]
  BY <1>2 DEF InOrder
<1>7. \A i \in 1 .. n : InOrder(table)[i] \in table /\ g[InOrder(table)[i]] = i
  BY <1>4, <1>6
<1>8. \A r \in table : InOrder(table)[g[r]] = r
  BY <1>4, <1>7
<1> QED BY <1>4, <1>5, <1>6, <1>7, <1>8

-----------------------------------------------------------------------------
\* The rows of the three tables are numbered.
LEMMA TablesNumbered ==
    ASSUME IInv
    PROVE  /\ Numbered(media) /\ Numbered(stones)
           /\ \A period \in SUBSET logs : Numbered(period)
<1>1. MaxId \in Nat
  OBVIOUS
<1>2. Numbered(media)
  <2>1. /\ \A r \in media : r.id \in 1 .. MaxId
        /\ \A r, q \in media : r.id = q.id => r = q
    BY DEF IInv, TypeOK, WellLinked, Single
  <2> QED BY <1>1, <2>1, Countable
<1>3. Numbered(stones)
  <2>1. /\ \A r \in stones : r.id \in 1 .. MaxId
        /\ \A r, q \in stones : r.id = q.id => r = q
    BY DEF IInv, TypeOK, WellLinked, Single
  <2> QED BY <1>1, <2>1, Countable
<1>4. ASSUME NEW period \in SUBSET logs PROVE Numbered(period)
  <2>1. /\ \A r \in period : r.id \in 1 .. MaxId
        /\ \A r, q \in period : r.id = q.id => r = q
    BY DEF IInv, TypeOK, WellLinked, Single
  <2> QED BY <1>1, <2>1, Countable
<1> QED BY <1>2, <1>3, <1>4

\* A row that gives the title and the variant of an entry finds that entry and no other.
LEMMA FindsItsEntry ==
    ASSUME IInv, NEW r, NEW m \in media, r.title = m.title, r.variant = m.variant
    PROVE  Matches(r) = {m} /\ Target(r) = Key(m)
<1>1. m.variant # NoColumn
  BY DEF IInv, TypeOK
<1>2. \A x \in Matches(r) : x \in media /\ Key(x) = Key(m)
  BY <1>1 DEF Matches, Key
<1>3. m \in Matches(r)
  BY DEF Matches
<1>4. Matches(r) = {m}
  BY <1>2, <1>3 DEF IInv, WellLinked
<1> QED BY <1>4 DEF Target

LEMMA ExactAlready ==
    ASSUME NEW r, r \in ActivityRow \/ r \in MediaRow, Target(r) = Key(r)
    PROVE  ExactRow(r) = r
<1>1. Target(r)[1] = r.title /\ Target(r)[2] = r.variant
  BY DEF Key
<1>2. CASE r \in ActivityRow
  BY <1>1, <1>2 DEF ExactRow, ActivityRow
<1>3. CASE r \in MediaRow
  BY <1>1, <1>3 DEF ExactRow, MediaRow
<1> QED BY <1>2, <1>3

LEMMA ActivitiesComeBack == ASSUME IInv PROVE ActivitiesReturn
<1> SUFFICES ASSUME NEW period \in SUBSET logs
             PROVE  LET file == Exact(ExportLogs(period))
                    IN  /\ Len(file) = Cardinality(period)
                        /\ Clear(ExportLogs(period)) /\ Agree(file)
                        /\ Contents(file) = Overlaps(file) /\ Kept(file, Overlaps(file)) = {}
  BY DEF ActivitiesReturn
<1> DEFINE n == Cardinality(period)
           found == InOrder(period)
           of(i) == EntryOf(Now, found[i])
           given == ExportLogs(period)
           file == Exact(given)
           same(c) == {l \in logs : l.what = c[2] /\ \E m \in media : m.id = l.media /\ Key(m) = c[1]}
<1>1. /\ n \in Nat /\ DOMAIN found = 1 .. n
      /\ \A i \in 1 .. n : found[i] \in period
      /\ \A i, j \in 1 .. n : found[i] = found[j] => i = j
  BY TablesNumbered, Ordered
<1>2. \A i \in 1 .. n : of(i) \in media /\ of(i).id = found[i].media
  BY <1>1 DEF EntryOf, Now, IInv, WellLinked
<1>3. given = [i \in 1 .. n |-> LogRow(of(i), found[i])]
  <2>1. {l \in period : \E m \in media : m.id = l.media} = period
    BY DEF IInv, WellLinked
  <2> QED BY <1>1, <2>1 DEF ExportLogs
<1> HIDE DEF found, of
<1>4. \A i \in 1 .. n : /\ given[i].title = of(i).title /\ given[i].variant = of(i).variant
                        /\ given[i].what = found[i].what
                        /\ given[i] = [title |-> of(i).title, variant |-> of(i).variant,
                                       rest |-> of(i).rest, what |-> found[i].what]
  BY <1>3 DEF LogRow
<1>5. DOMAIN given = 1 .. n
  BY <1>3
<1> HIDE DEF given
<1>6. \A i \in 1 .. n : Matches(given[i]) = {of(i)} /\ Target(given[i]) = Key(of(i))
  BY <1>2, <1>4, FindsItsEntry
<1>7. Clear(given)
  BY <1>5, <1>6 DEF Clear
<1>8. \A i \in 1 .. n : ExactRow(given[i]) = given[i]
  <2> TAKE i \in 1 .. n
  <2>1. of(i).title \in Title /\ of(i).variant \in Variant /\ of(i).rest \in Rest
    BY <1>2 DEF IInv, TypeOK
  <2>2. found[i].what \in What
    BY <1>1 DEF IInv, TypeOK
  <2>3. given[i] \in ActivityRow
    <3>1. given[i] = [title |-> of(i).title, variant |-> of(i).variant,
                      rest |-> of(i).rest, what |-> found[i].what]
      BY <1>4
    <3> QED BY <2>1, <2>2, <3>1 DEF ActivityRow
  <2>4. Target(given[i]) = Key(given[i])
    BY <1>4, <1>6 DEF Key
  <2> QED BY <2>3, <2>4, ExactAlready
<1>9. DOMAIN file = 1 .. n /\ \A i \in 1 .. n : file[i] = given[i]
  BY <1>5, <1>8 DEF Exact
<1>10. Len(file) = n
  BY <1>1, <1>5 DEF Exact
<1> HIDE DEF file
<1>11. \A i \in 1 .. n : Key(file[i]) = Key(of(i)) /\ Content(file[i]) = <<Key(of(i)), found[i].what>>
  BY <1>4, <1>9 DEF Key, Content
<1>12. Agree(file)
  BY <1>2, <1>9, <1>11 DEF Agree, Keys
<1>13. \A c : IsFiniteSet(same(c)) /\ Existing(c) = Cardinality(same(c)) /\ Existing(c) \in Nat
  <2> TAKE c
  <2>1. IsFiniteSet(logs) /\ same(c) \in SUBSET logs
    BY TablesNumbered DEF Numbered
  <2> HIDE DEF same
  <2>2. IsFiniteSet(same(c))
    BY <2>1, FS_Subset
  <2>3. Cardinality(same(c)) \in Nat
    BY <2>2, FS_CardinalityType
  <2>4. Existing(c) = Cardinality(same(c))
    BY DEF Existing, same
  <2> QED BY <2>2, <2>3, <2>4
<1>14. \A i \in 1 .. n : found[i] \in same(Content(file[i]))
  BY <1>1, <1>2, <1>11
<1> HIDE DEF same
<1>15. \A i \in 1 .. n : Existing(Content(file[i])) > 0
  <2> TAKE i \in 1 .. n
  <2>1. Cardinality(same(Content(file[i]))) # 0
    BY <1>13, <1>14, FS_EmptySet
  <2> QED BY <1>13, <2>1
<1>16. Contents(file) = Overlaps(file)
  BY <1>9, <1>15 DEF Contents, Overlaps
<1>17. ASSUME NEW i \in 1 .. n PROVE Rank(file, i) <= Existing(Content(file[i]))
  <2> DEFINE J == {j \in 1 .. i : Content(file[j]) = Content(file[i])}
             f == [j \in J |-> found[j]]
  <2>1. \A j \in J : j \in 1 .. n /\ found[j] \in same(Content(file[i]))
    BY <1>1, <1>14
  <2>2. f \in Injection(J, same(Content(file[i])))
    BY <1>1, <2>1 DEF Injection, IsInjective
  <2> HIDE DEF f, J
  <2>3. Cardinality(J) <= Cardinality(same(Content(file[i])))
    BY <1>13, <2>2, FS_Injection
  <2> QED BY <1>13, <2>3 DEF Rank, J
<1>18. Kept(file, Overlaps(file)) = {}
  <2>1. \A i \in 1 .. n : Rank(file, i) \in Nat
    <3> TAKE i \in 1 .. n
    <3> DEFINE J == {j \in 1 .. i : Content(file[j]) = Content(file[i])}
    <3>1. IsFiniteSet(1 .. i) /\ J \in SUBSET (1 .. i)
      BY FS_Interval
    <3> HIDE DEF J
    <3>2. Cardinality(J) \in Nat
      BY <3>1, FS_Subset, FS_CardinalityType
    <3> QED BY <3>2 DEF Rank, J
  <2>2. \A i \in 1 .. n : Content(file[i]) \in Overlaps(file)
    BY <1>9, <1>16 DEF Contents
  <2>3. \A i \in 1 .. n : ~(Rank(file, i) > Existing(Content(file[i])))
    BY <1>13, <1>17, <2>1
  <2> QED BY <1>9, <2>2, <2>3 DEF Kept
<1> QED BY <1>7, <1>10, <1>12, <1>16, <1>18 DEF given, file

LEMMA MediaComeBack == ASSUME IInv PROVE MediaReturn
<1> DEFINE n == Cardinality(media)
           all == InOrder(media)
           given == ExportMedia
           file == Exact(given)
<1>1. /\ n \in Nat /\ DOMAIN all = 1 .. n
      /\ \A i \in 1 .. n : all[i] \in media
      /\ \A m \in media : \E i \in 1 .. n : all[i] = m
      /\ \A i, j \in 1 .. n : all[i] = all[j] => i = j
  BY TablesNumbered, Ordered
<1>2. given = [i \in 1 .. n |-> [title |-> all[i].title, variant |-> all[i].variant,
                                 rest |-> all[i].rest]]
  BY <1>1 DEF ExportMedia
<1>3. Len(given) = n
  BY <1>1, <1>2
<1> HIDE DEF all
<1>4. /\ DOMAIN given = 1 .. n
      /\ \A i \in 1 .. n : /\ given[i].title = all[i].title /\ given[i].variant = all[i].variant
                           /\ given[i] = [title |-> all[i].title, variant |-> all[i].variant,
                                          rest |-> all[i].rest]
  BY <1>2
<1> HIDE DEF given
<1>5. \A i \in 1 .. n : Matches(given[i]) = {all[i]} /\ Target(given[i]) = Key(all[i])
  BY <1>1, <1>4, FindsItsEntry
<1>6. Clear(given)
  BY <1>4, <1>5 DEF Clear
<1>7. \A i \in 1 .. n : ExactRow(given[i]) = given[i]
  <2> TAKE i \in 1 .. n
  <2>1. all[i].title \in Title /\ all[i].variant \in Variant /\ all[i].rest \in Rest
    BY <1>1 DEF IInv, TypeOK
  <2>2. given[i] \in MediaRow
    BY <1>4, <2>1 DEF MediaRow
  <2>3. Target(given[i]) = Key(given[i])
    BY <1>4, <1>5 DEF Key
  <2> QED BY <2>2, <2>3, ExactAlready
<1>8. DOMAIN file = 1 .. n /\ \A i \in 1 .. n : file[i] = given[i]
  BY <1>4, <1>7 DEF Exact
<1> HIDE DEF file
<1>9. \A i \in 1 .. n : Key(file[i]) = Key(all[i]) /\ file[i].rest = all[i].rest
  BY <1>4, <1>8 DEF Key
<1>10. \A i, j \in 1 .. n : Key(file[i]) = Key(file[j]) => i = j
  BY <1>1, <1>9 DEF IInv, WellLinked
<1>11. Distinct(file)
  BY <1>8, <1>10 DEF Distinct
<1>12. ASSUME NEW m \in media PROVE Rewritten(file, 1 .. n, m) = m
  <2>1. PICK k \in 1 .. n : all[k] = m
    BY <1>1
  <2>2. (CHOOSE i \in 1 .. n : Key(file[i]) = Key(m)) = k
    BY <1>9, <1>10, <2>1
  <2>3. Rewritten(file, 1 .. n, m) = [m EXCEPT !.rest = file[k].rest]
    BY <1>9, <2>1, <2>2 DEF Rewritten
  <2>4. file[k].rest = m.rest
    BY <1>9, <2>1
  <2>5. m \in [id : 1 .. MaxId, uid : 1 .. MaxUid, title : Title, variant : Variant, rest : Rest]
    BY DEF IInv, TypeOK
  <2> QED BY <2>3, <2>4, <2>5
<1>13. {Rewritten(file, DOMAIN given, m) : m \in media} = media
  BY <1>4, <1>12
<1> QED BY <1>3, <1>6, <1>11, <1>13 DEF MediaReturn, file, given

LEMMA MilestonesComeBack == ASSUME IInv PROVE MilestonesReturn
<1> DEFINE n == Cardinality(stones)
           all == InOrder(stones)
           of(s) == CHOOSE m \in media : m.uid = s.media
           given == ExportMilestones
<1>1. /\ n \in Nat /\ DOMAIN all = 1 .. n /\ \A i \in 1 .. n : all[i] \in stones
  BY TablesNumbered, Ordered
<1>2. Exportable /\ \A s \in stones : of(s) \in media /\ of(s).uid = s.media
  BY DEF Exportable, IInv, WellLinked
<1>3. given = [i \in 1 .. n |-> [title |-> of(all[i]).title, variant |-> of(all[i]).variant,
                                 name |-> all[i].name]]
  BY <1>1 DEF ExportMilestones
<1> HIDE DEF all, of
<1>4. /\ DOMAIN given = 1 .. n
      /\ \A i \in 1 .. n : given[i].title = of(all[i]).title /\ given[i].variant = of(all[i]).variant
  BY <1>3
<1> HIDE DEF given
<1>5. \A i \in 1 .. n : Matches(given[i]) = {of(all[i])} /\ of(all[i]).uid = all[i].media
  BY <1>1, <1>2, <1>4, FindsItsEntry
<1>6. Clear(given)
  BY <1>4, <1>5 DEF Clear
<1>7. \A i \in 1 .. n : (CHOOSE x \in Matches(given[i]) : TRUE) = of(all[i])
  BY <1>5
<1>8. \A i \in 1 .. n : NewMilestone(given, i).media = all[i].media
  BY <1>5, <1>7 DEF NewMilestone
<1> QED BY <1>2, <1>4, <1>6, <1>8 DEF MilestonesReturn, given, all

\* Whatever is in the library, its exports are files its imports take and recognise
\* (csv_import.rs export_logs_csv, export_media_csv and export_milestones_csv beside
\* the imports).
THEOREM ExportsComeBack == Spec => []ExportsReturn
<1>1. IInv => ExportsReturn
  BY ActivitiesComeBack, MediaComeBack, MilestonesComeBack DEF ExportsReturn
<1> QED BY <1>1, Invariance, PTL

-----------------------------------------------------------------------------
\* Of n rows with places 1 .. n those above the place k are n - k, or none.
LEMMA PlacesAbove ==
    ASSUME NEW S \in SUBSET Nat, IsFiniteSet(S), NEW k \in Nat
    PROVE  LET above == {i \in S : Cardinality({j \in S : j <= i}) > k}
               n == Cardinality(S)
           IN  /\ n \in Nat /\ IsFiniteSet(above)
               /\ Cardinality(above) = IF k > n THEN 0 ELSE n - k
<1> DEFINE f == [i \in S |-> i]
           g == [i \in S |-> Cardinality({j \in S : f[j] <= f[i]})]
           n == Cardinality(S)
           above == {i \in S : Cardinality({j \in S : j <= i}) > k}
           h == [i \in above |-> g[i]]
<1>1. n \in Nat
  BY FS_CardinalityType
<1>2. g \in Bijection(S, 1 .. n)
  <2>1. f \in [S -> Nat] /\ \A i, j \in S : f[i] = f[j] => i = j
    OBVIOUS
  <2> HIDE DEF f
  <2> QED BY <2>1, Places
<1>3. \A i \in S : g[i] = Cardinality({j \in S : j <= i})
  <2> TAKE i \in S
  <2>1. {j \in S : f[j] <= f[i]} = {j \in S : j <= i}
    OBVIOUS
  <2> QED BY <2>1
<1>4. above = {i \in S : g[i] > k}
  BY <1>3
<1> HIDE DEF g, above, n
<1>5. /\ g \in [S -> 1 .. n] /\ \A i, j \in S : g[i] = g[j] => i = j
      /\ \A m \in 1 .. n : \E i \in S : g[i] = m
  BY <1>2 DEF Bijection, Injection, Surjection, IsInjective
<1>6. IsFiniteSet(above)
  BY <1>4, FS_Subset
<1>7. h \in [above -> k + 1 .. n]
  <2>1. \A i \in above : i \in S /\ g[i] > k
    BY <1>4
  <2>2. \A i \in above : g[i] \in Nat /\ g[i] <= n /\ g[i] > k
    <3> TAKE i \in above
    <3>1. g[i] \in 1 .. n
      BY <1>5, <2>1
    <3> QED BY <1>1, <2>1, <3>1
  <2>3. \A i \in above : g[i] \in k + 1 .. n
    BY <1>1, <2>2
  <2> QED BY <2>3
<1>8. h \in Injection(above, k + 1 .. n) /\ h \in Surjection(above, k + 1 .. n)
  <2>1. \A m \in k + 1 .. n : \E i \in above : h[i] = m
    <3> TAKE m \in k + 1 .. n
    <3>1. m \in 1 .. n /\ m > k
      BY <1>1
    <3> QED BY <1>4, <1>5, <3>1
  <2>2. \A i, j \in above : h[i] = h[j] => i = j
    BY <1>4, <1>5
  <2> HIDE DEF h
  <2> QED BY <1>7, <2>1, <2>2 DEF Injection, Surjection, IsInjective
<1>9. /\ IsFiniteSet(k + 1 .. n)
      /\ Cardinality(k + 1 .. n) = IF k + 1 > n THEN 0 ELSE n - (k + 1) + 1
  BY <1>1, FS_Interval
<1> HIDE DEF h
<1>10. Cardinality(above) = Cardinality(k + 1 .. n)
  BY <1>8, <1>9, FS_Injection
<1>11. Cardinality(above) = IF k > n THEN 0 ELSE n - k
  BY <1>1, <1>9, <1>10
<1> QED BY <1>1, <1>6, <1>11 DEF above, n

\* The activities there are of what a row says.
SameAs(c, table, entries) ==
    {l \in table : l.what = c[2] /\ \E m \in entries : m.id = l.media /\ Key(m) = c[1]}

LEMMA SameCounted ==
    ASSUME IInv, NEW c
    PROVE  /\ IsFiniteSet(SameAs(c, logs, media)) /\ Existing(c) \in Nat
           /\ Existing(c) = Cardinality(SameAs(c, logs, media))
<1>1. IsFiniteSet(logs) /\ SameAs(c, logs, media) \in SUBSET logs
  BY TablesNumbered DEF Numbered, SameAs
<1>2. IsFiniteSet(SameAs(c, logs, media))
  BY <1>1, FS_Subset
<1>3. Existing(c) = Cardinality(SameAs(c, logs, media))
  BY DEF Existing, SameAs
<1> QED BY <1>2, <1>3, FS_CardinalityType

\* The rows of a file that say c, and of them those that are not skipped.
Saying(file, c) == {i \in DOMAIN file : Content(file[i]) = c}

LEMMA KeptCounted ==
    ASSUME IInv, NEW file \in Seq(ActivityRow), NEW skip, NEW c
    PROVE  /\ Cardinality(Saying(file, c)) \in Nat
           /\ IsFiniteSet(Kept(file, skip) \cap Saying(file, c))
           /\ Cardinality(Kept(file, skip) \cap Saying(file, c)) =
                IF c \notin skip THEN Cardinality(Saying(file, c))
                ELSE IF Existing(c) > Cardinality(Saying(file, c)) THEN 0
                ELSE Cardinality(Saying(file, c)) - Existing(c)
<1> DEFINE S == Saying(file, c)
           K == Kept(file, skip) \cap S
<1>1. DOMAIN file = 1 .. Len(file) /\ Len(file) \in Nat
  OBVIOUS
<1>2. S \in SUBSET Nat /\ IsFiniteSet(S) /\ Cardinality(S) \in Nat
  <2>1. S \in SUBSET (1 .. Len(file)) /\ IsFiniteSet(1 .. Len(file))
    BY <1>1, FS_Interval DEF Saying
  <2> HIDE DEF S
  <2>2. IsFiniteSet(S)
    BY <2>1, FS_Subset
  <2>3. S \in SUBSET Nat
    BY <1>1, <2>1
  <2> QED BY <2>2, <2>3, FS_CardinalityType
<1>3. Existing(c) \in Nat
  BY SameCounted
<1>4. CASE c \notin skip
  <2>1. K = S
    BY <1>4 DEF Kept, Saying
  <2> QED BY <1>2, <1>4, <2>1
<1>5. CASE c \in skip
  <2>1. \A i \in S : Rank(file, i) = Cardinality({j \in S : j <= i})
    <3> TAKE i \in S
    <3>1. {j \in 1 .. i : Content(file[j]) = Content(file[i])} = {j \in S : j <= i}
      BY <1>1 DEF Saying
    <3> QED BY <3>1 DEF Rank
  <2>2. K = {i \in S : Rank(file, i) > Existing(c)}
    BY <1>5 DEF Kept, Saying
  <2>3. K = {i \in S : Cardinality({j \in S : j <= i}) > Existing(c)}
    BY <2>1, <2>2
  <2> HIDE DEF S, K
  <2>4. /\ IsFiniteSet(K)
        /\ Cardinality(K) = IF Existing(c) > Cardinality(S) THEN 0
                            ELSE Cardinality(S) - Existing(c)
    BY <1>2, <1>3, <2>3, PlacesAbove
  <2> QED BY <1>2, <1>5, <2>4 DEF K, S
<1> QED BY <1>4, <1>5

\* What an import of activities leaves: the entries and activities there were, entries
\* for names that were missing, and an activity of its own for each row that is kept.
LEMMA ImportAdds ==
    ASSUME IInv, NEW file \in Seq(ActivityRow), NEW skip, ImportActivities(file, skip)
    PROVE  /\ media \subseteq media' /\ logs \subseteq logs'
           /\ \A m \in media' \ media : Key(m) \notin Keys /\ \E i \in DOMAIN file : Key(m) = Key(file[i])
           /\ logs' = logs \cup {NewActivity(file, media', i) : i \in Kept(file, skip)}
           /\ \A i \in Kept(file, skip) :
                /\ NewActivity(file, media', i).id = last.logs + i
                /\ NewActivity(file, media', i).what = file[i].what
                /\ \E m \in media' : m.id = NewActivity(file, media', i).media /\ Key(m) = Key(file[i])
<1> DEFINE kept == Kept(file, skip)
           missing == {Key(file[i]) : i \in kept} \ Keys
<1>1. /\ media' = media \cup Made(file, kept)
      /\ logs' = logs \cup {NewActivity(file, media', i) : i \in kept}
  BY DEF ImportActivities
<1>2. kept \subseteq DOMAIN file
  BY DEF Kept
<1>3. \A k \in missing : /\ Maker(file, kept, k) \in kept /\ Key(file[Maker(file, kept, k)]) = k
                         /\ Key(NewEntry(file, Maker(file, kept, k))) = k
  BY DEF Maker, NewEntry, Key
<1>4. Made(file, kept) = {NewEntry(file, Maker(file, kept, k)) : k \in missing}
  BY DEF Made
<1> HIDE DEF kept
<1>5. \A m \in media' \ media : Key(m) \notin Keys /\ \E i \in DOMAIN file : Key(m) = Key(file[i])
  BY <1>1, <1>2, <1>3, <1>4
<1>6. ASSUME NEW i \in kept PROVE \E m \in media' : Key(m) = Key(file[i])
  <2>1. CASE Key(file[i]) \in Keys
    BY <1>1, <2>1 DEF Keys
  <2>2. CASE Key(file[i]) \notin Keys
    <3>1. Key(file[i]) \in missing
      BY <2>2
    <3> HIDE DEF missing
    <3> QED BY <1>1, <1>3, <1>4, <3>1
  <2> QED BY <2>1, <2>2
<1>7. ASSUME NEW i \in kept
      PROVE  /\ NewActivity(file, media', i).id = last.logs + i
             /\ NewActivity(file, media', i).what = file[i].what
             /\ \E m \in media' : m.id = NewActivity(file, media', i).media /\ Key(m) = Key(file[i])
  <2> DEFINE m == CHOOSE x \in media' : Key(x) = Key(file[i])
  <2>1. m \in media' /\ Key(m) = Key(file[i])
    BY <1>6
  <2>2. NewActivity(file, media', i) = [id |-> last.logs + i, uid |-> drawn + i, media |-> m.id,
                                        what |-> file[i].what]
    BY DEF NewActivity, LastNumber
  <2> HIDE DEF m
  <2> QED BY <2>1, <2>2
<1> QED BY <1>1, <1>5, <1>7 DEF kept

\* Of each content there are afterwards the activities there were and the rows kept.
LEMMA ImportCounts ==
    ASSUME IInv, NEW file \in Seq(ActivityRow), NEW skip, ImportActivities(file, skip),
           NEW c \in Contents(file)
    PROVE  Existing(c)' = Existing(c) + Cardinality(Kept(file, skip) \cap Saying(file, c))
<1> DEFINE K == Kept(file, skip) \cap Saying(file, c)
           Row(i) == NewActivity(file, media', i)
           old == SameAs(c, logs, media)
           new == {Row(i) : i \in K}
<1>1. /\ logs' = logs \cup {Row(i) : i \in Kept(file, skip)} /\ media \subseteq media'
      /\ \A i \in Kept(file, skip) :
            /\ Row(i).id = last.logs + i /\ Row(i).what = file[i].what
            /\ \E m \in media' : m.id = Row(i).media /\ Key(m) = Key(file[i])
  BY ImportAdds
<1>2. \A m, n \in media' : m.id = n.id => m = n
  BY ActivitiesImported DEF WellLinked, Single
<1>3. /\ last.logs \in Nat /\ \A l \in logs : l.id \in Nat /\ l.id <= last.logs
      /\ \A l \in logs : \E m \in media : m.id = l.media
  BY DEF IInv, TypeOK, WellLinked
<1>4. \A i \in Kept(file, skip) : i \in DOMAIN file /\ i \in Nat /\ 0 < i
  <2>1. DOMAIN file = 1 .. Len(file) /\ Len(file) \in Nat
    OBVIOUS
  <2> QED BY <2>1 DEF Kept
<1>5. c = <<c[1], c[2]>>
  BY DEF Contents, Content
<1>6. \A l \in logs : l \in SameAs(c, logs', media') <=> l \in old
  BY <1>1, <1>2, <1>3 DEF SameAs
<1>7. \A i \in Kept(file, skip) : Row(i) \in SameAs(c, logs', media') <=> i \in K
  <2> TAKE i \in Kept(file, skip)
  <2>1. i \in K <=> Key(file[i]) = c[1] /\ file[i].what = c[2]
    BY <1>4, <1>5 DEF Saying, Content
  <2> HIDE DEF K, Row
  <2>2. Row(i) \in logs'
    BY <1>1
  <2>3. Row(i) \in SameAs(c, logs', media') <=> Key(file[i]) = c[1] /\ file[i].what = c[2]
    BY <1>1, <1>2, <2>2 DEF SameAs
  <2> QED BY <2>1, <2>3
<1>8. SameAs(c, logs', media') = old \cup new
  <2>1. SameAs(c, logs', media') \subseteq logs' /\ old \subseteq logs /\ K \subseteq Kept(file, skip)
    BY DEF SameAs
  <2> HIDE DEF Row, K, old
  <2> QED BY <1>1, <1>6, <1>7, <2>1
<1>9. old \cap new = {}
  <2>1. \A i \in Kept(file, skip) : Row(i) \notin logs
    <3> HIDE DEF Row
    <3> QED BY <1>1, <1>3, <1>4
  <2> HIDE DEF Row
  <2> QED BY <2>1 DEF SameAs
<1>10. IsFiniteSet(K) /\ IsFiniteSet(old) /\ Existing(c) = Cardinality(old)
  BY KeptCounted, SameCounted
<1>11. IsFiniteSet(new) /\ Cardinality(new) = Cardinality(K)
  <2> DEFINE f == [i \in K |-> Row(i)]
  <2>1. \A i, j \in K : f[i] = f[j] => i = j
    <3> HIDE DEF Row
    <3> QED BY <1>1, <1>3, <1>4
  <2>2. f \in Bijection(K, new)
    <3> HIDE DEF Row, K
    <3> QED BY <2>1 DEF Bijection, Injection, Surjection, IsInjective
  <2>3. IsFiniteSet(K)
    BY <1>10
  <2> HIDE DEF f, new, K
  <2> QED BY <2>2, <2>3, FS_Bijection DEF ExistsBijection
<1>12. Existing(c)' = Cardinality(SameAs(c, logs', media'))
  BY DEF Existing, SameAs
<1> HIDE DEF old, new, K
<1>13. Cardinality(old \cup new) = Cardinality(old) + Cardinality(new) - Cardinality(old \cap new)
  BY <1>10, <1>11, FS_Union
<1>14. /\ Cardinality(old \cap new) = 0 /\ Cardinality(old) \in Nat /\ Cardinality(new) \in Nat
  BY <1>9, <1>10, <1>11, FS_EmptySet, FS_CardinalityType
<1> QED BY <1>8, <1>10, <1>11, <1>12, <1>13, <1>14 DEF K

LEMMA ActivitiesAsReviewed == ASSUME IInv, ApplyActivities PROVE AsReviewed
<1>1. PICK file : file = review.file
  OBVIOUS
<1>2. PICK skip \in SUBSET Overlaps(file) : ImportActivities(file, skip)
  BY <1>1 DEF ApplyActivities
<1>3. /\ file \in Seq(ActivityRow) /\ review.kind = "activities"
      /\ \A c \in Contents(file) : review.seen[c].existing = Existing(c)
                                   /\ review.seen[c].held = (c[1] \in Keys)
  BY <1>1 DEF ApplyActivities, SameGroups, Groups, IInv, ReviewOK
<1>4. ASSUME NEW c \in Contents(file) PROVE Existing(c)' \in Promised(c, Existing(c), file)
  <2> DEFINE incoming == Cardinality(Saying(file, c))
             added == Cardinality(Kept(file, skip) \cap Saying(file, c))
  <2>1. Existing(c)' = Existing(c) + added
    BY <1>2, <1>3, ImportCounts
  <2>2. /\ incoming \in Nat
        /\ added = IF c \notin skip THEN incoming
                   ELSE IF Existing(c) > incoming THEN 0 ELSE incoming - Existing(c)
    <3>1. file \in Seq(ActivityRow)
      BY <1>3
    <3> QED BY <3>1, KeptCounted
  <2>3. Existing(c) \in Nat
    BY SameCounted
  <2>4. Promised(c, Existing(c), file) =
            {Existing(c) + incoming} \cup (IF Existing(c) > incoming THEN {Existing(c)} ELSE {incoming})
    BY DEF Promised, Saying
  <2> HIDE DEF incoming, added
  <2> QED BY <2>1, <2>2, <2>3, <2>4
<1>5. media \subseteq media' /\ logs \subseteq logs'
  BY <1>2, <1>3, ImportAdds
<1>6. ASSUME NEW k \in Keys' \ Keys PROVE \E c \in Contents(file) : k = c[1] /\ ~review.seen[c].held
  <2>1. PICK m \in media' : k = Key(m)
    BY <1>6 DEF Keys, Key
  <2>2. m \notin media
    BY <2>1 DEF Keys
  <2>3. PICK i \in DOMAIN file : Key(m) = Key(file[i])
    BY <1>2, <1>3, <2>1, <2>2, ImportAdds
  <2>4. Content(file[i]) \in Contents(file) /\ Content(file[i])[1] = k
    BY <2>1, <2>3 DEF Contents, Content
  <2> QED BY <1>3, <2>4
<1> QED BY <1>1, <1>3, <1>4, <1>5, <1>6 DEF AsReviewed

LEMMA MediaAsReviewed == ASSUME IInv, ApplyMedia PROVE AsReviewed
<1>1. PICK file : file = review.file
  OBVIOUS
<1>2. file \in Seq(MediaRow) /\ review.kind = "media" /\ logs' = logs
  BY <1>1 DEF ApplyMedia, IInv, ReviewOK
<1>3. PICK picked \in SUBSET DOMAIN file :
        /\ Reviewed(file, review.seen, picked)
        /\ media' = {Rewritten(file, picked, m) : m \in media} \cup
                {NewEntry(file, i) : i \in {j \in picked : Key(file[j]) \notin Keys}}
  BY <1>1 DEF ApplyMedia
<1>4. \A m \in media : Key(Rewritten(file, picked, m)) = Key(m)
  BY <1>2, RewrittenRow DEF Key
<1>5. Keys \subseteq Keys'
  <2>1. \A m \in media : \E n \in media' : Key(n) = Key(m)
    BY <1>3, <1>4
  <2> QED BY <2>1 DEF Keys, Key
<1>6. ASSUME NEW m \in media \ media'
      PROVE  \E i \in DOMAIN file : Key(file[i]) = Key(m) /\ review.seen[i] = {m.rest}
  <2>1. Rewritten(file, picked, m) # m
    BY <1>3
  <2>2. PICK i \in picked : Key(file[i]) = Key(m)
    BY <2>1 DEF Rewritten
  <2>3. Entry(Key(m)) = {m.rest}
    <3>1. {x \in media : Key(x) = Key(m)} = {m}
      BY DEF IInv, WellLinked
    <3> QED BY <3>1 DEF Entry
  <2> QED BY <1>3, <2>2, <2>3 DEF Reviewed
<1>7. ASSUME NEW k \in Keys' \ Keys
      PROVE  \E i \in DOMAIN file : Key(file[i]) = k /\ review.seen[i] = {}
  <2>1. PICK n \in media' : k = Key(n)
    BY <1>7 DEF Keys, Key
  <2>2. PICK i \in picked : n = NewEntry(file, i)
    BY <1>3, <1>4, <2>1 DEF Keys
  <2>3. Key(file[i]) = k
    BY <2>1, <2>2 DEF NewEntry, Key
  <2>4. Entry(k) = {}
    BY DEF Entry, Keys
  <2> QED BY <1>3, <2>3, <2>4 DEF Reviewed
<1> QED BY <1>1, <1>2, <1>5, <1>6, <1>7 DEF AsReviewed

\* An import, once applied, does what its review showed: each activity is added beside
\* those there were or only so far as they do not account for it, and no entry is made
\* or rewritten that was not shown so (csv_import.rs
\* apply_activity_import and apply_media_import).
THEOREM ImportsKeepTheirWord == Spec => ImportedAsReviewed
<1>1. ASSUME IInv, [Next]_vars, review # None, review' = None, drawn' # drawn PROVE AsReviewed
  <2>1. ~Edit /\ ~SyncApply /\ ~Look
    BY <1>1 DEF Edit, AddMedia, UpdateMedia, DeleteMedia, AddLog, UpdateLog, DeleteLog, ClearActivities,
       AddMilestone, UpdateMilestone, DeleteMilestone, ClearMilestones, SyncApply, Look, Quiet
  <2>2. ~AnalyzeActivities /\ ~ImportCsv /\ ~AnalyzeMedia /\ ~Dismiss /\ ~ImportMilestones
    BY <1>1 DEF AnalyzeActivities, ImportCsv, AnalyzeMedia, Dismiss, ImportMilestones, Quiet
  <2>3. ApplyActivities \/ ApplyMedia
    BY <1>1, <2>1, <2>2 DEF Next, Import, vars
  <2> QED BY <1>1, <2>3, ActivitiesAsReviewed, MediaAsReviewed
<1>2. IInv /\ [Next]_vars => [review # None /\ review' = None /\ drawn' # drawn => AsReviewed]_vars
  BY <1>1
<1> QED BY <1>2, Invariance, PTL DEF Spec, ImportedAsReviewed

-----------------------------------------------------------------------------
(***************************************************************************)
(* One process owns the directory, and its listener is the one chosen, for *)
(* any number of processes, ports, saves and failures.                     *)
(***************************************************************************)
\* The ports on which a process listens.
Mine(p) == {n \in Port : bound[n] # Unset /\ bound[n].by = p}

\* Whoever is past the lock holds it; whoever runs is named by the record.
Owning(p) == phase[p] \in {"locked", "ready", "recovery", "closing"}
LockInv ==
    \A p \in Process :
        /\ Owning(p) => lock = p
        /\ Running(p) => owner = p

\* A process whose screens are not up has nothing under way and no listener.
Asleep(p) ==
    /\ boot[p] = Unset /\ asked[p] = {} /\ job[p] = NoJob
    /\ Mine(p) = {}
    /\ phase[p] = "recovery" => api[p] = Runtime(Default, FALSE)

\* The screen and the file agree, unless a save is between the two.
FileAt(p) ==
    IF job[p].step = "set" THEN stored = job[p].want
                           ELSE api[p].read => api[p].config = Load

\* Between two jobs: the listener is the one the process knows, under the
\* configuration it shows; if there should be one, something says why not.
RestAt(p) ==
    job[p].step = "none" =>
        /\ job[p] = NoJob
        /\ Mine(p) = {api[p].server} \ {Unset}
        /\ api[p].server # Unset =>
             api[p].config.enabled /\ bound[api[p].server].under = api[p].config
        /\ api[p].config.enabled /\ api[p].server = Unset =>
             api[p].error \/ (boot[p] # Unset /\ ~api[p].touched)

\* The task of the start has the configuration on the screen, or a save came first.
BootAt(p) ==
    /\ boot[p] # Unset /\ ~api[p].touched =>
         /\ job[p].step = "none" /\ api[p].server = Unset
         /\ boot[p] = api[p].config /\ boot[p].enabled
    /\ job[p].step = "boot" =>
         /\ api[p].server = Unset /\ Mine(p) = {}
         /\ job[p].want = api[p].config /\ job[p].want.enabled

\* A save remembers what it replaced, and holds every listener there is.
SaveAt(p) ==
    job[p].step \notin {"none", "boot"} =>
        /\ api[p].touched /\ api[p].server = Unset
        /\ job[p].want \in Config /\ job[p].old = api[p].config
        /\ Mine(p) = {job[p].server} \ {Unset}
        /\ job[p].step \in {"stop", "unstart"} => job[p].server # Unset
        /\ job[p].step \in {"start", "restore"} => job[p].server = Unset
        /\ job[p].step \in {"write", "set"} =>
             /\ job[p].server # Unset =>
                  job[p].want.enabled /\ bound[job[p].server].under = job[p].want
             /\ job[p].want.enabled /\ job[p].server = Unset => job[p].error

Awake(p) == FileAt(p) /\ RestAt(p) /\ BootAt(p) /\ SaveAt(p)
Sound(p) == IF phase[p] = "ready" THEN Awake(p) ELSE Asleep(p)
ListenInv == \A p \in Process : Sound(p)

ApiInv == ApiTypeOK /\ LockInv /\ ListenInv

USE LocalApiAssumption

LEMMA DefaultIsConfig == Default \in Config /\ ~Default.enabled
BY DEF Default, Config

LEMMA LoadIsConfig == ApiTypeOK => Load \in Config
BY DefaultIsConfig DEF ApiTypeOK, Load

LEMMA ApiInitially == ApiInit => ApiInv
<1> SUFFICES ASSUME ApiInit PROVE ApiInv
    OBVIOUS
<1>1. ApiTypeOK
    BY DefaultIsConfig DEF ApiInit, ApiTypeOK, Runtimes, Jobs, Runtime, NoJob, Job
<1>2. LockInv
    BY DEF ApiInit, LockInv, Running, Owning
<1>3. ListenInv
    BY DEF ApiInit, ListenInv, Sound, Asleep, Mine
<1> QED BY <1>1, <1>2, <1>3 DEF ApiInv

\* Whoever owns the directory is alone.
LEMMA OnlyOne == LockInv => \A p, q \in Process : Owning(p) /\ Owning(q) => p = q
BY DEF LockInv

\* What a process has is left as it is by a step that does not touch it.
LEMMA LeftAlone ==
    ASSUME ApiTypeOK, NEW q \in Process, phase'[q] = phase[q], stored' = stored, api'[q] = api[q],
           boot'[q] = boot[q], asked'[q] = asked[q], job'[q] = job[q], Mine(q)' = Mine(q),
           \A n \in Mine(q) : bound'[n].under = bound[n].under
    PROVE  Sound(q) => Sound(q)'
<1>1. FileAt(q) => FileAt(q)'
    BY DEF FileAt, Load
<1>2. RestAt(q) => RestAt(q)'
    BY DEF RestAt, ApiTypeOK, NoJob, Job
<1>3. BootAt(q) => BootAt(q)'
    BY DEF BootAt
<1>4. SaveAt(q) => SaveAt(q)'
    BY DEF SaveAt, ApiTypeOK
<1>5. Asleep(q) => Asleep(q)'
    BY DEF Asleep, NoJob, Job, Runtime, Default
<1> QED BY <1>1, <1>2, <1>3, <1>4, <1>5 DEF Awake, Sound

\* A process at rest, and the memory of one that has just started.
LEMMA AtRest ==
    /\ NoJob.step = "none"
    /\ NoJob \in Jobs
BY DEF NoJob, Job, Jobs

LEMMA NewJob ==
    ASSUME NEW step \in {"boot", "stop", "start"}, NEW want \in Config,
           NEW old \in Config \cup {Unset}, NEW server \in Port \cup {Unset}
    PROVE  /\ Job(step, want, old, server) \in Jobs
           /\ Job(step, want, old, server).step = step
           /\ Job(step, want, old, server).want = want
           /\ Job(step, want, old, server).old = old
           /\ Job(step, want, old, server).server = server
BY DEF Job, Jobs

LEMMA FreshRuntime ==
    ASSUME NEW c \in Config, NEW b \in BOOLEAN
    PROVE  /\ Runtime(c, b) \in Runtimes
           /\ Runtime(c, b).config = c /\ Runtime(c, b).read = b
           /\ Runtime(c, b).server = Unset /\ ~Runtime(c, b).touched
BY DEF Runtime, Runtimes

\* What the updates of the actions keep, and what they give.
LEMMA Typed ==
    ASSUME ApiTypeOK, NEW p \in Process
    PROVE  /\ api \in [Process -> Runtimes] /\ job \in [Process -> Jobs]
           /\ boot[p] \in Config \cup {Unset}
           /\ api[p].config \in Config /\ api[p].server \in Port \cup {Unset}
           /\ api[p].error \in BOOLEAN /\ api[p].touched \in BOOLEAN /\ api[p].read \in BOOLEAN
           /\ job[p].step \in {"none", "boot", "stop", "start", "write", "set",
                              "unstart", "restore"}
           /\ job[p].want \in Config \cup {Unset} /\ job[p].old \in Config \cup {Unset}
           /\ job[p].server \in Port \cup {Unset} /\ job[p].error \in BOOLEAN
BY DEF ApiTypeOK, Runtimes, Jobs

LEMMA ListenerTaken ==
    ASSUME ApiTypeOK, NEW p \in Process,
           api' = [api EXCEPT ![p].server = Unset, ![p].touched = TRUE]
    PROVE  /\ api' \in [Process -> Runtimes]
           /\ api'[p].server = Unset /\ api'[p].touched /\ api'[p].error = api[p].error
           /\ api'[p].config = api[p].config /\ api'[p].read = api[p].read
<1>1. api \in [Process -> Runtimes]
    BY Typed
<1> QED BY <1>1 DEF Runtimes

LEMMA ListenerKnown ==
    ASSUME ApiTypeOK, NEW p \in Process, NEW s \in Port, NEW e \in BOOLEAN,
           api' = [api EXCEPT ![p].server = s, ![p].error = e]
    PROVE  /\ api' \in [Process -> Runtimes]
           /\ api'[p].server = s /\ api'[p].error = e /\ api'[p].touched = api[p].touched
           /\ api'[p].config = api[p].config /\ api'[p].read = api[p].read
<1>1. api \in [Process -> Runtimes]
    BY Typed
<1> QED BY <1>1 DEF Runtimes

LEMMA ErrorKnown ==
    ASSUME ApiTypeOK, NEW p \in Process,
           api' = [api EXCEPT ![p].error = TRUE]
    PROVE  /\ api' \in [Process -> Runtimes]
           /\ api'[p].server = api[p].server /\ api'[p].error /\ api'[p].touched = api[p].touched
           /\ api'[p].config = api[p].config /\ api'[p].read = api[p].read
<1>1. api \in [Process -> Runtimes]
    BY Typed
<1> QED BY <1>1 DEF Runtimes

LEMMA StepTaken ==
    ASSUME ApiTypeOK, NEW p \in Process,
           NEW s \in {"start", "write", "set", "unstart", "restore"},
           job' = [job EXCEPT ![p].step = s]
    PROVE  /\ job' \in [Process -> Jobs]
           /\ job'[p].step = s /\ job'[p].server = job[p].server
           /\ job'[p].want = job[p].want /\ job'[p].old = job[p].old
           /\ job'[p].error = job[p].error
<1>1. job \in [Process -> Jobs]
    BY Typed
<1> QED BY <1>1 DEF Jobs

LEMMA ServerChanged ==
    ASSUME ApiTypeOK, NEW p \in Process, NEW n \in Port \cup {Unset},
           NEW s \in {"start", "write", "restore"},
           job' = [job EXCEPT ![p].step = s, ![p].server = n]
    PROVE  /\ job' \in [Process -> Jobs]
           /\ job'[p].step = s /\ job'[p].server = n
           /\ job'[p].want = job[p].want /\ job'[p].old = job[p].old
<1>1. job \in [Process -> Jobs]
    BY Typed
<1> QED BY <1>1, ZenonT(30) DEF Jobs

LEMMA Disabled ==
    ASSUME ApiTypeOK, NEW p \in Process, job[p].want \in Config,
           job' = [job EXCEPT ![p].step = "write", ![p].want.enabled = FALSE, ![p].error = TRUE]
    PROVE  /\ job' \in [Process -> Jobs]
           /\ job'[p].step = "write" /\ job'[p].server = job[p].server
           /\ job'[p].want \in Config /\ ~job'[p].want.enabled /\ job'[p].old = job[p].old
<1> DEFINE c == [job[p].want EXCEPT !.enabled = FALSE]
           j == [job[p] EXCEPT !.step = "write", !.want = c, !.error = TRUE]
<1>1. job \in [Process -> Jobs]
    BY Typed
<1>2. c \in Config /\ ~c.enabled
    BY DEF Config
<1>3. j \in Jobs /\ j.step = "write" /\ j.server = job[p].server /\ j.want = c
      /\ j.old = job[p].old
    BY <1>1, <1>2 DEF Jobs
<1>4. job' = [job EXCEPT ![p] = j]
    BY <1>1 DEF Jobs
<1> HIDE DEF c, j
<1> QED BY <1>1, <1>2, <1>3, <1>4

LEMMA SpendCounts ==
    ASSUME ApiTypeOK, NEW what \in {"starts", "saves", "fails"}, Spend(what)
    PROVE  spent' \in [starts : Nat, saves : Nat, fails : Nat]
BY DEF ApiTypeOK, Spend

\* Who listens where, after each change of the sockets.
LEMMA SocketsStay ==
    ASSUME UNCHANGED bound
    PROVE  \A q \in Process : Mine(q)' = Mine(q)
BY DEF Mine

LEMMA StartTakesOne ==
    ASSUME ApiTypeOK, NEW p \in Process, NEW c \in Config, Unbound(c.port), Mine(p) = {},
           bound' = Started(p, c)
    PROVE  /\ bound' \in [Port -> Socket \cup {Unset}]
           /\ Mine(p)' = {c.port} /\ bound'[c.port].under = c
           /\ \A q \in Process : q # p => Mine(q)' = Mine(q)
<1>1. c.port \in Port
    BY DEF Config
<1>2. Listener(p, c) \in Socket
    BY DEF Listener, Socket
<1>3. Listener(p, c) # Unset
    BY <1>2
<1> QED BY <1>1, <1>2, <1>3 DEF Started, Mine, Unbound, ApiTypeOK, Listener

LEMMA CloseLeavesOthers ==
    ASSUME ApiTypeOK, NEW p \in Process, NEW n \in Port, Mine(p) = {n},
           bound' = [bound EXCEPT ![n] = Unset]
    PROVE  /\ bound' \in [Port -> Socket \cup {Unset}]
           /\ Mine(p)' = {}
           /\ \A q \in Process : q # p => Mine(q)' = Mine(q)
BY DEF Mine, ApiTypeOK

LEMMA EndLeavesNothing ==
    ASSUME ApiTypeOK, NEW p \in Process, Ended(p)
    PROVE  /\ bound' \in [Port -> Socket \cup {Unset}]
           /\ \A n \in Port : bound'[n] # Unset => bound'[n] = bound[n]
           /\ Mine(p)' = {}
           /\ \A q \in Process : q # p => Mine(q)' = Mine(q)
BY DEF Ended, Mine, ApiTypeOK

-----------------------------------------------------------------------------
\* The lock and the start.

LEMMA LockKeeps == ASSUME ApiInv, NEW p \in Process, Lock(p) PROVE ApiInv'
<1> USE DEF ApiInv, Lock
<1>m. \A q \in Process : Mine(q)' = Mine(q)
    BY SocketsStay
<1>1. ApiTypeOK'
    BY SpendCounts DEF ApiTypeOK, Go
<1>2. LockInv'
    BY OnlyOne DEF ApiTypeOK, LockInv, Running, Owning, Go
<1>3. ASSUME NEW q \in Process, q # p PROVE Sound(q)'
  <2>1. /\ phase'[q] = phase[q] /\ stored' = stored /\ api'[q] = api[q] /\ boot'[q] = boot[q]
        /\ asked'[q] = asked[q] /\ job'[q] = job[q]
    BY <1>3 DEF ApiTypeOK, Go
  <2>2. Mine(q)' = Mine(q) /\ \A n \in Mine(q) : bound'[n] = bound[n]
    BY <1>m, <1>3 DEF Mine
  <2> QED BY <1>3, <2>1, <2>2, LeftAlone DEF ListenInv
<1>4. Sound(p)'
    BY <1>m DEF ApiTypeOK, ListenInv, Sound, Asleep, Go
<1> QED BY <1>1, <1>2, <1>3, <1>4 DEF ListenInv

LEMMA RecordFailsKeeps == ASSUME ApiInv, NEW p \in Process, RecordFails(p) PROVE ApiInv'
<1> USE DEF ApiInv, RecordFails
<1>m. \A q \in Process : Mine(q)' = Mine(q)
    BY SocketsStay
<1>1. ApiTypeOK'
    BY SpendCounts DEF ApiTypeOK, Go
<1>2. LockInv'
    BY OnlyOne DEF ApiTypeOK, LockInv, Running, Owning, Go
<1>3. ASSUME NEW q \in Process, q # p PROVE Sound(q)'
  <2>1. /\ phase'[q] = phase[q] /\ stored' = stored /\ api'[q] = api[q] /\ boot'[q] = boot[q]
        /\ asked'[q] = asked[q] /\ job'[q] = job[q]
    BY <1>3 DEF ApiTypeOK, Go
  <2>2. Mine(q)' = Mine(q) /\ \A n \in Mine(q) : bound'[n] = bound[n]
    BY <1>m, <1>3 DEF Mine
  <2> QED BY <1>3, <2>1, <2>2, LeftAlone DEF ListenInv
<1>4. Sound(p)'
    BY <1>m DEF ApiTypeOK, ListenInv, Sound, Asleep, Go
<1> QED BY <1>1, <1>2, <1>3, <1>4 DEF ListenInv

LEMMA OpenKeeps == ASSUME ApiInv, NEW p \in Process, Open(p) PROVE ApiInv'
<1> USE DEF ApiInv, Open
<1>m. \A q \in Process : Mine(q)' = Mine(q)
    BY SocketsStay
<1>t. PICK c \in Config, b \in BOOLEAN : api' = [api EXCEPT ![p] = Runtime(c, b)]
    BY LoadIsConfig, DefaultIsConfig
<1>u. Runtime(c, b) \in Runtimes
    BY FreshRuntime
<1>1. ApiTypeOK'
  <2>1. boot' \in [Process -> Config \cup {Unset}]
    BY LoadIsConfig DEF ApiTypeOK
  <2>2. phase' = [phase EXCEPT ![p] = "ready"] \/ phase' = [phase EXCEPT ![p] = "recovery"]
    BY DEF Go
  <2>3. api' \in [Process -> Runtimes]
    BY <1>t, <1>u DEF ApiTypeOK
  <2> QED BY <2>1, <2>2, <2>3 DEF ApiTypeOK
<1>2. LockInv'
    BY OnlyOne DEF ApiTypeOK, LockInv, Running, Owning, Go
<1>3. ASSUME NEW q \in Process, q # p PROVE Sound(q)'
  <2>1. /\ phase'[q] = phase[q] /\ stored' = stored /\ api'[q] = api[q] /\ boot'[q] = boot[q]
        /\ asked'[q] = asked[q] /\ job'[q] = job[q]
    BY <1>3 DEF ApiTypeOK, Go
  <2>2. Mine(q)' = Mine(q) /\ \A n \in Mine(q) : bound'[n] = bound[n]
    BY <1>m, <1>3 DEF Mine
  <2> QED BY <1>3, <2>1, <2>2, LeftAlone DEF ListenInv
<1>4. Sound(p)'
  <2>1. /\ phase[p] # "ready" /\ Asleep(p) /\ Load' = Load /\ Load # Unset
        /\ job' = job
    BY LoadIsConfig DEF ListenInv, Sound, Load
  <2>2. ASSUME phase'[p] = "recovery" PROVE Asleep(p)'
    BY <1>m, <2>1, <2>2 DEF ApiTypeOK, Asleep, Go
  <2>3. ASSUME phase'[p] = "ready" PROVE Awake(p)'
    <3>1. /\ api'[p] = Runtime(Load, TRUE) /\ Load \in Config
          /\ boot'[p] = IF Load.enabled THEN Load ELSE Unset
      BY <2>3, LoadIsConfig DEF ApiTypeOK, Go
    <3>2. job'[p] = NoJob /\ Mine(p)' = {}
      BY <1>m, <2>1 DEF Asleep
    <3> QED BY <2>1, <3>1, <3>2, FreshRuntime, AtRest DEF Awake, FileAt, RestAt, BootAt, SaveAt
  <2> QED BY <2>2, <2>3 DEF Go, ApiTypeOK, Sound
<1> QED BY <1>1, <1>2, <1>3, <1>4 DEF ListenInv

LEMMA RecoveredKeeps == ASSUME ApiInv, NEW p \in Process, Recovered(p) PROVE ApiInv'
<1> USE DEF ApiInv, Recovered
<1>m. \A q \in Process : Mine(q)' = Mine(q)
    BY SocketsStay
<1>1. ApiTypeOK'
    BY DEF ApiTypeOK, Go
<1>2. LockInv'
    BY OnlyOne DEF ApiTypeOK, LockInv, Running, Owning, Go
<1>3. ASSUME NEW q \in Process, q # p PROVE Sound(q)'
  <2>1. /\ phase'[q] = phase[q] /\ stored' = stored /\ api'[q] = api[q] /\ boot'[q] = boot[q]
        /\ asked'[q] = asked[q] /\ job'[q] = job[q]
    BY <1>3 DEF ApiTypeOK, Go
  <2>2. Mine(q)' = Mine(q) /\ \A n \in Mine(q) : bound'[n] = bound[n]
    BY <1>m, <1>3 DEF Mine
  <2> QED BY <1>3, <2>1, <2>2, LeftAlone DEF ListenInv
<1>4. Sound(p)'
  <2>1. /\ Asleep(p) /\ api[p] = Runtime(Default, FALSE)
        /\ phase'[p] = "ready"
    BY DEF ListenInv, Sound, Asleep, Go, ApiTypeOK
  <2>2. /\ job'[p] = NoJob /\ Mine(p)' = {} /\ boot'[p] = Unset
        /\ api'[p] = Runtime(Default, FALSE)
    BY <1>m, <2>1 DEF Asleep
  <2>3. /\ api'[p].config = Default /\ ~api'[p].read /\ api'[p].server = Unset
    BY <2>2, FreshRuntime, DefaultIsConfig
  <2> QED BY <2>1, <2>2, <2>3, AtRest, DefaultIsConfig
          DEF Awake, Sound, FileAt, RestAt, BootAt, SaveAt
<1> QED BY <1>1, <1>2, <1>3, <1>4 DEF ListenInv

LEMMA QuitKeeps == ASSUME ApiInv, NEW p \in Process, Quit(p) PROVE ApiInv'
<1> USE DEF ApiInv, Quit
<1>m. /\ bound' \in [Port -> Socket \cup {Unset}]
      /\ \A n \in Port : bound'[n] # Unset => bound'[n] = bound[n]
      /\ Mine(p)' = {}
      /\ \A q \in Process : q # p => Mine(q)' = Mine(q)
    BY EndLeavesNothing
<1>1. ApiTypeOK'
    BY <1>m, AtRest, FreshRuntime, DefaultIsConfig DEF ApiTypeOK, Go, Ended
<1>2. LockInv'
    BY OnlyOne DEF ApiTypeOK, LockInv, Running, Owning, Go, Ended
<1>3. ASSUME NEW q \in Process, q # p PROVE Sound(q)'
  <2>1. /\ phase'[q] = phase[q] /\ stored' = stored /\ api'[q] = api[q] /\ boot'[q] = boot[q]
        /\ asked'[q] = asked[q] /\ job'[q] = job[q]
    BY <1>3 DEF ApiTypeOK, Go, Ended
  <2>2. Mine(q)' = Mine(q) /\ \A n \in Mine(q) : bound'[n] = bound[n]
    BY <1>m, <1>3 DEF Mine
  <2> QED BY <1>3, <2>1, <2>2, LeftAlone DEF ListenInv
<1>4. Sound(p)'
    BY <1>m DEF ApiTypeOK, ListenInv, Sound, Asleep, Go, Ended
<1> QED BY <1>1, <1>2, <1>3, <1>4 DEF ListenInv

LEMMA ReleaseKeeps == ASSUME ApiInv, NEW p \in Process, Release(p) PROVE ApiInv'
<1> USE DEF ApiInv, Release
<1>m. \A q \in Process : Mine(q)' = Mine(q)
    BY SocketsStay
<1>1. ApiTypeOK'
    BY DEF ApiTypeOK, Go
<1>2. LockInv'
    BY OnlyOne DEF ApiTypeOK, LockInv, Running, Owning, Go
<1>3. ASSUME NEW q \in Process, q # p PROVE Sound(q)'
  <2>1. /\ phase'[q] = phase[q] /\ stored' = stored /\ api'[q] = api[q] /\ boot'[q] = boot[q]
        /\ asked'[q] = asked[q] /\ job'[q] = job[q]
    BY <1>3 DEF ApiTypeOK, Go
  <2>2. Mine(q)' = Mine(q) /\ \A n \in Mine(q) : bound'[n] = bound[n]
    BY <1>m, <1>3 DEF Mine
  <2> QED BY <1>3, <2>1, <2>2, LeftAlone DEF ListenInv
<1>4. Sound(p)'
    BY <1>m DEF ApiTypeOK, ListenInv, Sound, Asleep, Go
<1> QED BY <1>1, <1>2, <1>3, <1>4 DEF ListenInv

LEMMA DieKeeps == ASSUME ApiInv, NEW p \in Process, Die(p) PROVE ApiInv'
<1> USE DEF ApiInv, Die
<1>m. /\ bound' \in [Port -> Socket \cup {Unset}]
      /\ \A n \in Port : bound'[n] # Unset => bound'[n] = bound[n]
      /\ Mine(p)' = {}
      /\ \A q \in Process : q # p => Mine(q)' = Mine(q)
    BY EndLeavesNothing
<1>1. ApiTypeOK'
    BY <1>m, AtRest, FreshRuntime, DefaultIsConfig DEF ApiTypeOK, Go, Ended
<1>2. LockInv'
    BY OnlyOne DEF ApiTypeOK, LockInv, Running, Owning, Go, Ended
<1>3. ASSUME NEW q \in Process, q # p PROVE Sound(q)'
  <2>1. /\ phase'[q] = phase[q] /\ stored' = stored /\ api'[q] = api[q] /\ boot'[q] = boot[q]
        /\ asked'[q] = asked[q] /\ job'[q] = job[q]
    BY <1>3 DEF ApiTypeOK, Go, Ended
  <2>2. Mine(q)' = Mine(q) /\ \A n \in Mine(q) : bound'[n] = bound[n]
    BY <1>m, <1>3 DEF Mine
  <2> QED BY <1>3, <2>1, <2>2, LeftAlone DEF ListenInv
<1>4. Sound(p)'
    BY <1>m DEF ApiTypeOK, ListenInv, Sound, Asleep, Go, Ended
<1> QED BY <1>1, <1>2, <1>3, <1>4 DEF ListenInv

-----------------------------------------------------------------------------
\* The listener.

LEMMA BootBeginKeeps == ASSUME ApiInv, NEW p \in Process, BootBegin(p) PROVE ApiInv'
<1> USE DEF ApiInv, BootBegin
<1>r. phase[p] = "ready" /\ Awake(p)
    BY AtRest DEF ListenInv, Sound, Asleep, Settled
<1>m. \A q \in Process : Mine(q)' = Mine(q)
    BY SocketsStay
<1>j. /\ boot[p] \in Config
      /\ ~api[p].touched => job' = [job EXCEPT ![p] = Job("boot", boot[p], Unset, Unset)]
    BY DEF ApiTypeOK, Untouched
<1>k. api[p].touched => job' = job
    BY DEF Untouched
<1>1. ApiTypeOK'
  <2>1. boot' \in [Process -> Config \cup {Unset}]
    BY DEF ApiTypeOK
  <2>2. job' \in [Process -> Jobs]
    <3>1. CASE api[p].touched
      BY <1>k, <3>1 DEF ApiTypeOK
    <3>2. CASE ~api[p].touched
      <4>1. Job("boot", boot[p], Unset, Unset) \in Jobs
        BY <1>j, NewJob
      <4>2. job \in [Process -> Jobs]
        BY Typed
      <4> QED BY <1>j, <3>2, <4>1, <4>2
    <3> QED BY <3>1, <3>2
  <2> QED BY <2>1, <2>2 DEF ApiTypeOK
<1>2. LockInv'
    BY DEF LockInv, Running, Owning
<1>3. ASSUME NEW q \in Process, q # p PROVE Sound(q)'
  <2>1. /\ phase'[q] = phase[q] /\ stored' = stored /\ api'[q] = api[q] /\ boot'[q] = boot[q]
        /\ asked'[q] = asked[q] /\ job'[q] = job[q]
    BY <1>3 DEF ApiTypeOK
  <2>2. Mine(q)' = Mine(q) /\ \A n \in Mine(q) : bound'[n] = bound[n]
    BY <1>m, <1>3 DEF Mine
  <2> QED BY <1>3, <2>1, <2>2, LeftAlone DEF ListenInv
<1>4. Sound(p)'
  <2>1. CASE api[p].touched
    BY <1>r, <1>m, <1>k, <2>1, AtRest
           DEF Settled, Awake, Sound, FileAt, RestAt, BootAt, SaveAt, Load, ApiTypeOK
  <2>2. CASE ~api[p].touched
    <3>1. /\ job'[p].step = "boot" /\ job'[p].want = boot[p] /\ boot'[p] = Unset
          /\ job[p].step = "none"
      BY <1>j, <2>2, NewJob, AtRest DEF ApiTypeOK, Settled
    <3> QED BY <1>r, <1>m, <2>2, <3>1 DEF Awake, Sound, FileAt, RestAt, BootAt, SaveAt, Load
  <2> QED BY <2>1, <2>2 DEF ApiTypeOK
<1> QED BY <1>1, <1>2, <1>3, <1>4 DEF ListenInv

LEMMA AskKeeps == ASSUME ApiInv, NEW p \in Process, Ask(p) PROVE ApiInv'
<1> USE DEF ApiInv, Ask
<1>r. phase[p] = "ready" /\ Awake(p)
    BY DEF ListenInv, Sound, Asleep, Settled
<1>m. \A q \in Process : Mine(q)' = Mine(q)
    BY SocketsStay
<1>1. ApiTypeOK'
    BY <1>m, SpendCounts DEF ApiTypeOK
<1>2. LockInv'
    BY DEF LockInv, Running, Owning
<1>3. ASSUME NEW q \in Process, q # p PROVE Sound(q)'
  <2>1. /\ phase'[q] = phase[q] /\ stored' = stored /\ api'[q] = api[q] /\ boot'[q] = boot[q]
        /\ asked'[q] = asked[q] /\ job'[q] = job[q]
    BY <1>3 DEF ApiTypeOK
  <2>2. Mine(q)' = Mine(q) /\ \A n \in Mine(q) : bound'[n] = bound[n]
    BY <1>m, <1>3 DEF Mine
  <2> QED BY <1>3, <2>1, <2>2, LeftAlone DEF ListenInv
<1>4. Sound(p)'
    BY <1>r, <1>m, AtRest DEF Awake, Sound, FileAt, RestAt, BootAt, SaveAt, Load, ApiTypeOK
<1> QED BY <1>1, <1>2, <1>3, <1>4 DEF ListenInv

LEMMA SaveBeginKeeps == ASSUME ApiInv, NEW p \in Process, SaveBegin(p) PROVE ApiInv'
<1> USE DEF ApiInv, SaveBegin
<1>r. phase[p] = "ready" /\ Awake(p)
    BY AtRest DEF ListenInv, Sound, Asleep, Settled
<1>m. \A q \in Process : Mine(q)' = Mine(q)
    BY SocketsStay
<1>s. PICK c \in asked[p] :
        /\ asked' = [asked EXCEPT ![p] = @ \ {c}]
        /\ IF c = Invalid THEN UNCHANGED <<api, job>>
           ELSE /\ api' = [api EXCEPT ![p].server = Unset, ![p].touched = TRUE]
                /\ job' = [job EXCEPT ![p] = Job(IF api[p].server = Unset THEN "start" ELSE "stop",
                                                c, api[p].config, api[p].server)]
    OBVIOUS
<1>c. c # Invalid => c \in Config
    BY DEF ApiTypeOK
<1>a. api[p].server \in Port \cup {Unset} /\ api[p].config \in Config
    BY Typed
<1>1. ApiTypeOK'
  <2>1. asked' \in [Process -> SUBSET (Config \cup {Invalid})]
    BY <1>s DEF ApiTypeOK
  <2>2. api' \in [Process -> Runtimes]
    <3>1. CASE c = Invalid
      BY <1>s, <3>1, Typed
    <3>2. CASE c # Invalid
      BY <1>s, <3>2, ListenerTaken
    <3> QED BY <3>1, <3>2
  <2>3. job' \in [Process -> Jobs]
    <3>1. CASE c = Invalid
      BY <1>s, <3>1, Typed
    <3>2. CASE c # Invalid
      BY <1>s, <1>c, <1>a, <3>2, NewJob, Typed
    <3> QED BY <3>1, <3>2
  <2> QED BY <2>1, <2>2, <2>3 DEF ApiTypeOK
<1>2. LockInv'
    BY DEF LockInv, Running, Owning
<1>3. ASSUME NEW q \in Process, q # p PROVE Sound(q)'
  <2>1. /\ phase'[q] = phase[q] /\ stored' = stored /\ api'[q] = api[q] /\ boot'[q] = boot[q]
        /\ asked'[q] = asked[q] /\ job'[q] = job[q]
    BY <1>3 DEF ApiTypeOK
  <2>2. Mine(q)' = Mine(q) /\ \A n \in Mine(q) : bound'[n] = bound[n]
    BY <1>m, <1>3 DEF Mine
  <2> QED BY <1>3, <2>1, <2>2, LeftAlone DEF ListenInv
<1>4. Sound(p)'
  <2>1. CASE c = Invalid
    BY <1>r, <1>m, <1>s, <2>1 DEF Awake, Sound, FileAt, RestAt, BootAt, SaveAt, Load
  <2>2. CASE c # Invalid
    <3>1. /\ job'[p].step = IF api[p].server = Unset THEN "start" ELSE "stop"
          /\ job'[p].want = c /\ job'[p].old = api[p].config /\ job'[p].server = api[p].server
      BY <1>s, <1>c, <1>a, <2>2, NewJob DEF ApiTypeOK
    <3>2. /\ api'[p].server = Unset /\ api'[p].touched /\ api'[p].config = api[p].config
          /\ api'[p].read = api[p].read
      BY <1>s, <2>2, ListenerTaken
    <3>3. job[p].step = "none"
      BY AtRest DEF Settled
    <3> QED BY <1>r, <1>m, <1>c, <2>2, <3>1, <3>2, <3>3
            DEF Awake, Sound, FileAt, RestAt, BootAt, SaveAt, Load
  <2> QED BY <2>1, <2>2
<1> QED BY <1>1, <1>2, <1>3, <1>4 DEF ListenInv
LEMMA BootEndKeeps == ASSUME ApiInv, NEW p \in Process, BootEnd(p) PROVE ApiInv'
<1> USE DEF ApiInv, BootEnd
<1>r. phase[p] = "ready" /\ Awake(p)
    BY AtRest DEF ListenInv, Sound, Asleep
<1>w. job[p].want \in Config /\ Mine(p) = {} /\ job[p].want.port \in Port
  <2>1. job[p].want = api[p].config /\ Mine(p) = {}
    BY <1>r DEF Awake, BootAt
  <2> QED BY <2>1, Typed DEF Config
<1>m. /\ bound' \in [Port -> Socket \cup {Unset}]
      /\ \A q \in Process : q # p => Mine(q)' = Mine(q)
      /\ \A n \in Port : bound[n] # Unset => bound'[n] = bound[n]
      /\ \/ /\ bound' = Started(p, job[p].want) /\ Mine(p)' = {job[p].want.port}
            /\ bound'[job[p].want.port].under = job[p].want
         \/ bound' = bound /\ Mine(p)' = {}
  <2>1. CASE bound' = bound
    BY <1>w, <2>1, SocketsStay DEF ApiTypeOK
  <2>2. CASE Unbound(job[p].want.port) /\ bound' = Started(p, job[p].want)
    BY <1>w, <2>2, StartTakesOne DEF Started, Unbound, ApiTypeOK
  <2> QED BY <2>1, <2>2
<1>k. /\ api' \in [Process -> Runtimes]
      /\ api'[p].config = api[p].config /\ api'[p].read = api[p].read
      /\ api'[p].touched = api[p].touched
      /\ \/ /\ bound' = Started(p, job[p].want) /\ Unbound(job[p].want.port)
            /\ api'[p].server = job[p].want.port
         \/ bound' = bound /\ api'[p].server = api[p].server /\ api'[p].error
    BY <1>w, ListenerKnown, ErrorKnown
<1>1. ApiTypeOK'
  <2>1. job' \in [Process -> Jobs]
    BY AtRest, Typed
  <2> QED BY <1>m, <1>k, <2>1 DEF ApiTypeOK
<1>2. LockInv'
    BY DEF LockInv, Running, Owning
<1>3. ASSUME NEW q \in Process, q # p PROVE Sound(q)'
  <2>1. /\ phase'[q] = phase[q] /\ stored' = stored /\ api'[q] = api[q] /\ boot'[q] = boot[q]
        /\ asked'[q] = asked[q] /\ job'[q] = job[q]
    BY <1>3 DEF ApiTypeOK
  <2>2. Mine(q)' = Mine(q) /\ \A n \in Mine(q) : bound'[n].under = bound[n].under
    BY <1>m, <1>3 DEF Mine
  <2> QED BY <1>3, <2>1, <2>2, LeftAlone DEF ListenInv
<1>4. Sound(p)'
  <2>1. job'[p] = NoJob /\ boot' = boot
    BY Typed, AtRest
  <2>2. CASE bound' = bound /\ api'[p].server = api[p].server /\ api'[p].error
    <3>1. Mine(p)' = {} /\ api[p].server = Unset
      BY <1>r, <1>w, <2>2, SocketsStay DEF Awake, BootAt
    <3> QED BY <1>r, <1>k, <2>1, <2>2, <3>1, AtRest
           DEF Awake, Sound, FileAt, RestAt, BootAt, SaveAt, Load
  <2>3. CASE bound' = Started(p, job[p].want) /\ Unbound(job[p].want.port)
             /\ api'[p].server = job[p].want.port
    <3>1. Mine(p)' = {job[p].want.port} /\ bound'[job[p].want.port].under = job[p].want
      BY <1>w, <1>k, <2>3, StartTakesOne
    <3> QED BY <1>r, <1>w, <1>k, <2>1, <2>3, <3>1, AtRest
           DEF Awake, Sound, FileAt, RestAt, BootAt, SaveAt, Load
  <2> QED BY <1>k, <2>2, <2>3
<1> QED BY <1>1, <1>2, <1>3, <1>4 DEF ListenInv

LEMMA StopKeeps == ASSUME ApiInv, NEW p \in Process, Stop(p) PROVE ApiInv'
<1> USE DEF ApiInv, Stop
<1>r. phase[p] = "ready" /\ Awake(p)
    BY AtRest DEF ListenInv, Sound, Asleep
<1>w. job[p].server \in Port /\ Mine(p) = {job[p].server}
    BY <1>r, Typed DEF Awake, SaveAt
<1>m. /\ bound' \in [Port -> Socket \cup {Unset}]
      /\ Mine(p)' = {}
      /\ \A q \in Process : q # p => Mine(q)' = Mine(q)
      /\ \A n \in Port : bound'[n] # Unset => bound'[n] = bound[n]
    BY <1>w, CloseLeavesOthers DEF Closed, ApiTypeOK
<1>j. /\ job' \in [Process -> Jobs] /\ api' = api /\ boot' = boot
      /\ job'[p].step = "start" /\ job'[p].server = Unset
      /\ job'[p].want = job[p].want /\ job'[p].old = job[p].old
    BY ServerChanged
<1>1. ApiTypeOK'
    BY <1>m, <1>j DEF ApiTypeOK
<1>2. LockInv'
    BY DEF LockInv, Running, Owning
<1>3. ASSUME NEW q \in Process, q # p PROVE Sound(q)'
  <2>1. /\ phase'[q] = phase[q] /\ stored' = stored /\ api'[q] = api[q] /\ boot'[q] = boot[q]
        /\ asked'[q] = asked[q] /\ job'[q] = job[q]
    BY <1>3 DEF ApiTypeOK
  <2>2. Mine(q)' = Mine(q) /\ \A n \in Mine(q) : bound'[n].under = bound[n].under
    BY <1>m, <1>3 DEF Mine
  <2> QED BY <1>3, <2>1, <2>2, LeftAlone DEF ListenInv
<1>4. Sound(p)'
    BY <1>r, <1>m, <1>j DEF Awake, Sound, FileAt, RestAt, BootAt, SaveAt, Load
<1> QED BY <1>1, <1>2, <1>3, <1>4 DEF ListenInv

LEMMA UnstartKeeps == ASSUME ApiInv, NEW p \in Process, Unstart(p) PROVE ApiInv'
<1> USE DEF ApiInv, Unstart
<1>r. phase[p] = "ready" /\ Awake(p)
    BY AtRest DEF ListenInv, Sound, Asleep
<1>w. job[p].server \in Port /\ Mine(p) = {job[p].server}
    BY <1>r, Typed DEF Awake, SaveAt
<1>m. /\ bound' \in [Port -> Socket \cup {Unset}]
      /\ Mine(p)' = {}
      /\ \A q \in Process : q # p => Mine(q)' = Mine(q)
      /\ \A n \in Port : bound'[n] # Unset => bound'[n] = bound[n]
    BY <1>w, CloseLeavesOthers DEF Closed, ApiTypeOK
<1>j. /\ job' \in [Process -> Jobs] /\ api' = api /\ boot' = boot
      /\ job'[p].step = "restore" /\ job'[p].server = Unset
      /\ job'[p].want = job[p].want /\ job'[p].old = job[p].old
    BY ServerChanged
<1>1. ApiTypeOK'
    BY <1>m, <1>j DEF ApiTypeOK
<1>2. LockInv'
    BY DEF LockInv, Running, Owning
<1>3. ASSUME NEW q \in Process, q # p PROVE Sound(q)'
  <2>1. /\ phase'[q] = phase[q] /\ stored' = stored /\ api'[q] = api[q] /\ boot'[q] = boot[q]
        /\ asked'[q] = asked[q] /\ job'[q] = job[q]
    BY <1>3 DEF ApiTypeOK
  <2>2. Mine(q)' = Mine(q) /\ \A n \in Mine(q) : bound'[n].under = bound[n].under
    BY <1>m, <1>3 DEF Mine
  <2> QED BY <1>3, <2>1, <2>2, LeftAlone DEF ListenInv
<1>4. Sound(p)'
    BY <1>r, <1>m, <1>j DEF Awake, Sound, FileAt, RestAt, BootAt, SaveAt, Load
<1> QED BY <1>1, <1>2, <1>3, <1>4 DEF ListenInv

LEMMA StartKeeps == ASSUME ApiInv, NEW p \in Process, Start(p) PROVE ApiInv'
<1> USE DEF ApiInv, Start
<1>r. phase[p] = "ready" /\ Awake(p)
    BY AtRest DEF ListenInv, Sound, Asleep
<1>w. /\ job[p].want \in Config /\ Mine(p) = {} /\ job[p].want.port \in Port
      /\ job[p].server = Unset
    BY <1>r DEF Awake, SaveAt, Config
<1>s. \/ /\ job[p].want.enabled /\ Unbound(job[p].want.port) /\ bound' = Started(p, job[p].want)
         /\ job' = [job EXCEPT ![p].step = "write", ![p].server = job[p].want.port]
      \/ /\ job' = [job EXCEPT ![p].step = "write", ![p].want.enabled = FALSE, ![p].error = TRUE]
         /\ bound' = bound
      \/ /\ ~job[p].want.enabled /\ job' = [job EXCEPT ![p].step = "write"] /\ bound' = bound
    OBVIOUS
<1>m. /\ bound' \in [Port -> Socket \cup {Unset}]
      /\ \A q \in Process : q # p => Mine(q)' = Mine(q)
      /\ \A n \in Port : bound[n] # Unset => bound'[n] = bound[n]
      /\ \/ /\ bound' = Started(p, job[p].want) /\ Mine(p)' = {job[p].want.port}
            /\ bound'[job[p].want.port].under = job[p].want
         \/ bound' = bound /\ Mine(p)' = {}
  <2>1. CASE bound' = bound
    BY <1>w, <2>1, SocketsStay DEF ApiTypeOK
  <2>2. CASE Unbound(job[p].want.port) /\ bound' = Started(p, job[p].want)
    BY <1>w, <2>2, StartTakesOne DEF Started, Unbound, ApiTypeOK
  <2> QED BY <2>1, <2>2
<1>j. /\ job' \in [Process -> Jobs]
      /\ job'[p].step = "write" /\ api' = api /\ boot' = boot /\ job'[p].old = job[p].old
      /\ job'[p].want \in Config
      /\ \/ /\ bound' = Started(p, job[p].want) /\ Unbound(job[p].want.port)
            /\ job'[p].want = job[p].want /\ job'[p].want.enabled
            /\ job'[p].server = job[p].want.port
         \/ bound' = bound /\ ~job'[p].want.enabled /\ job'[p].server = Unset
  <2>1. CASE /\ job[p].want.enabled /\ Unbound(job[p].want.port) /\ bound' = Started(p, job[p].want)
             /\ job' = [job EXCEPT ![p].step = "write", ![p].server = job[p].want.port]
    BY <1>w, <2>1, ServerChanged
  <2>2. CASE /\ job' = [job EXCEPT ![p].step = "write", ![p].want.enabled = FALSE,
                                ![p].error = TRUE]
             /\ bound' = bound
    BY <1>w, <2>2, Disabled
  <2>3. CASE ~job[p].want.enabled /\ job' = [job EXCEPT ![p].step = "write"] /\ bound' = bound
    BY <1>w, <2>3, StepTaken
  <2> QED BY <1>s, <2>1, <2>2, <2>3
<1>1. ApiTypeOK'
    BY <1>m, <1>j DEF ApiTypeOK
<1>2. LockInv'
    BY DEF LockInv, Running, Owning
<1>3. ASSUME NEW q \in Process, q # p PROVE Sound(q)'
  <2>1. /\ phase'[q] = phase[q] /\ stored' = stored /\ api'[q] = api[q] /\ boot'[q] = boot[q]
        /\ asked'[q] = asked[q] /\ job'[q] = job[q]
    BY <1>3 DEF ApiTypeOK
  <2>2. Mine(q)' = Mine(q) /\ \A n \in Mine(q) : bound'[n].under = bound[n].under
    BY <1>m, <1>3 DEF Mine
  <2> QED BY <1>3, <2>1, <2>2, LeftAlone DEF ListenInv
<1>4. Sound(p)'
  <2>1. CASE bound' = bound /\ ~job'[p].want.enabled /\ job'[p].server = Unset
    <3>1. Mine(p)' = {}
      BY <1>w, <2>1, SocketsStay
    <3> QED BY <1>r, <1>j, <2>1, <3>1 DEF Awake, Sound, FileAt, RestAt, BootAt, SaveAt, Load
  <2>2. CASE /\ bound' = Started(p, job[p].want) /\ Unbound(job[p].want.port)
             /\ job'[p].want = job[p].want /\ job'[p].want.enabled
             /\ job'[p].server = job[p].want.port
    <3>1. Mine(p)' = {job[p].want.port} /\ bound'[job[p].want.port].under = job[p].want
      BY <1>w, <2>2, StartTakesOne
    <3> QED BY <1>r, <1>w, <1>j, <2>2, <3>1 DEF Awake, Sound, FileAt, RestAt, BootAt, SaveAt, Load
  <2> QED BY <1>j, <2>1, <2>2
<1> QED BY <1>1, <1>2, <1>3, <1>4 DEF ListenInv

LEMMA WriteKeeps == ASSUME ApiInv, NEW p \in Process, Write(p) PROVE ApiInv'
<1> USE DEF ApiInv, Write
<1>r. phase[p] = "ready" /\ Awake(p)
    BY AtRest DEF ListenInv, Sound, Asleep
<1>m. bound' = bound /\ \A q \in Process : Mine(q)' = Mine(q)
    BY SocketsStay
<1>w. job[p].want \in Config
    BY <1>r DEF Awake, SaveAt
<1>j. /\ job' \in [Process -> Jobs]
      /\ job'[p].step = "set" /\ job'[p].want = job[p].want /\ job'[p].old = job[p].old
      /\ job'[p].server = job[p].server /\ job'[p].error = job[p].error
    BY StepTaken
<1>1. ApiTypeOK'
    BY <1>w, <1>j DEF ApiTypeOK
<1>2. LockInv'
    BY DEF LockInv, Running, Owning
<1>3. ASSUME NEW q \in Process, q # p PROVE Sound(q)'
  <2>1. phase[q] # "ready" /\ Asleep(q)
    BY <1>r, <1>3, OnlyOne DEF ListenInv, Sound, Owning
  <2>2. /\ phase'[q] = phase[q] /\ api'[q] = api[q] /\ boot'[q] = boot[q]
        /\ asked'[q] = asked[q] /\ job'[q] = job[q] /\ Mine(q)' = Mine(q)
    BY <1>m, <1>3 DEF ApiTypeOK
  <2> QED BY <2>1, <2>2 DEF Sound, Asleep
<1>4. Sound(p)'
    BY <1>r, <1>m, <1>j DEF Awake, Sound, FileAt, RestAt, BootAt, SaveAt, Load
<1> QED BY <1>1, <1>2, <1>3, <1>4 DEF ListenInv

LEMMA SetKeeps == ASSUME ApiInv, NEW p \in Process, Set(p) PROVE ApiInv'
<1> USE DEF ApiInv, Set
<1>r. phase[p] = "ready" /\ Awake(p)
    BY AtRest DEF ListenInv, Sound, Asleep
<1>m. bound' = bound /\ \A q \in Process : Mine(q)' = Mine(q)
    BY SocketsStay
<1>k. /\ api' \in [Process -> Runtimes]
      /\ api'[p].config = job[p].want /\ api'[p].server = job[p].server
      /\ api'[p].error = job[p].error /\ api'[p].read /\ api'[p].touched = api[p].touched
      /\ job' \in [Process -> Jobs] /\ job'[p] = NoJob
  <2>1. /\ job[p].want \in Config /\ job[p].server \in Port \cup {Unset}
        /\ job[p].error \in BOOLEAN
    BY <1>r, Typed DEF Awake, SaveAt
  <2>2. api \in [Process -> Runtimes] /\ job \in [Process -> Jobs]
    BY Typed
  <2>3. api' = [api EXCEPT ![p] = [@ EXCEPT !.config = job[p].want, !.server = job[p].server,
                                        !.error = job[p].error, !.read = TRUE]]
    OBVIOUS
  <2>4. [api[p] EXCEPT !.config = job[p].want, !.server = job[p].server,
                       !.error = job[p].error, !.read = TRUE] \in Runtimes
    BY <2>1, <2>2, ZenonT(30) DEF Runtimes
  <2>5. api' \in [Process -> Runtimes]
    BY <2>2, <2>3, <2>4
  <2>6. job' \in [Process -> Jobs] /\ job'[p] = NoJob
    BY <2>2, AtRest
  <2>7. /\ api'[p].config = job[p].want /\ api'[p].server = job[p].server
        /\ api'[p].error = job[p].error /\ api'[p].read /\ api'[p].touched = api[p].touched
    BY <2>2, <2>3 DEF Runtimes
  <2> QED BY <2>5, <2>6, <2>7
<1>1. ApiTypeOK'
    BY <1>k DEF ApiTypeOK
<1>2. LockInv'
    BY DEF LockInv, Running, Owning
<1>3. ASSUME NEW q \in Process, q # p PROVE Sound(q)'
  <2>1. /\ phase'[q] = phase[q] /\ stored' = stored /\ api'[q] = api[q] /\ boot'[q] = boot[q]
        /\ asked'[q] = asked[q] /\ job'[q] = job[q]
    BY <1>3 DEF ApiTypeOK
  <2>2. Mine(q)' = Mine(q) /\ \A n \in Mine(q) : bound'[n].under = bound[n].under
    BY <1>m, <1>3 DEF Mine
  <2> QED BY <1>3, <2>1, <2>2, LeftAlone DEF ListenInv
<1>4. Sound(p)'
    BY <1>r, <1>m, <1>k, AtRest DEF Awake, Sound, FileAt, RestAt, BootAt, SaveAt, Load
<1> QED BY <1>1, <1>2, <1>3, <1>4 DEF ListenInv

LEMMA WriteFailsKeeps == ASSUME ApiInv, NEW p \in Process, WriteFails(p) PROVE ApiInv'
<1> USE DEF ApiInv, WriteFails
<1>r. phase[p] = "ready" /\ Awake(p)
    BY AtRest DEF ListenInv, Sound, Asleep
<1>m. bound' = bound /\ \A q \in Process : Mine(q)' = Mine(q)
    BY SocketsStay
<1>j. /\ job' \in [Process -> Jobs]
      /\ job'[p].step = IF job[p].server = Unset THEN "restore" ELSE "unstart"
      /\ job'[p].want = job[p].want /\ job'[p].old = job[p].old
      /\ job'[p].server = job[p].server
    BY StepTaken
<1>1. ApiTypeOK'
    BY <1>j, SpendCounts DEF ApiTypeOK
<1>2. LockInv'
    BY DEF LockInv, Running, Owning
<1>3. ASSUME NEW q \in Process, q # p PROVE Sound(q)'
  <2>1. /\ phase'[q] = phase[q] /\ stored' = stored /\ api'[q] = api[q] /\ boot'[q] = boot[q]
        /\ asked'[q] = asked[q] /\ job'[q] = job[q]
    BY <1>3 DEF ApiTypeOK
  <2>2. Mine(q)' = Mine(q) /\ \A n \in Mine(q) : bound'[n].under = bound[n].under
    BY <1>m, <1>3 DEF Mine
  <2> QED BY <1>3, <2>1, <2>2, LeftAlone DEF ListenInv
<1>4. Sound(p)'
    BY <1>r, <1>m, <1>j DEF Awake, Sound, FileAt, RestAt, BootAt, SaveAt, Load
<1> QED BY <1>1, <1>2, <1>3, <1>4 DEF ListenInv

LEMMA RestoreKeeps == ASSUME ApiInv, NEW p \in Process, Restore(p) PROVE ApiInv'
<1> USE DEF ApiInv, Restore
<1>r. phase[p] = "ready" /\ Awake(p)
    BY AtRest DEF ListenInv, Sound, Asleep
<1>w. /\ job[p].old = api[p].config /\ Mine(p) = {} /\ api[p].server = Unset /\ api[p].touched
      /\ job[p].old \in Config /\ job[p].old.port \in Port
  <2>1. /\ job[p].old = api[p].config /\ Mine(p) = {} /\ api[p].server = Unset
        /\ api[p].touched
    BY <1>r DEF Awake, SaveAt
  <2> QED BY <2>1, Typed DEF Config
<1>m. /\ bound' \in [Port -> Socket \cup {Unset}]
      /\ \A q \in Process : q # p => Mine(q)' = Mine(q)
      /\ \A n \in Port : bound[n] # Unset => bound'[n] = bound[n]
      /\ \/ /\ bound' = Started(p, job[p].old) /\ Mine(p)' = {job[p].old.port}
            /\ bound'[job[p].old.port].under = job[p].old
         \/ bound' = bound /\ Mine(p)' = {}
  <2>1. CASE bound' = bound
    BY <1>w, <2>1, SocketsStay DEF ApiTypeOK
  <2>2. CASE Unbound(job[p].old.port) /\ bound' = Started(p, job[p].old)
    BY <1>w, <2>2, StartTakesOne DEF Started, Unbound, ApiTypeOK
  <2> QED BY <2>1, <2>2
<1>k. /\ api' \in [Process -> Runtimes] /\ job' \in [Process -> Jobs] /\ job'[p] = NoJob
      /\ api'[p].config = api[p].config /\ api'[p].read = api[p].read
      /\ api'[p].touched /\ api'[p].error
      /\ \/ /\ bound' = Started(p, job[p].old) /\ Unbound(job[p].old.port)
            /\ api'[p].server = job[p].old.port /\ job[p].old.enabled
         \/ bound' = bound /\ api'[p].server = Unset
  <2>1. job' \in [Process -> Jobs] /\ job'[p] = NoJob
    BY Typed, AtRest
  <2> QED BY <1>w, <2>1, ListenerKnown, ErrorKnown
<1>1. ApiTypeOK'
    BY <1>m, <1>k DEF ApiTypeOK
<1>2. LockInv'
    BY DEF LockInv, Running, Owning
<1>3. ASSUME NEW q \in Process, q # p PROVE Sound(q)'
  <2>1. /\ phase'[q] = phase[q] /\ stored' = stored /\ api'[q] = api[q] /\ boot'[q] = boot[q]
        /\ asked'[q] = asked[q] /\ job'[q] = job[q]
    BY <1>3 DEF ApiTypeOK
  <2>2. Mine(q)' = Mine(q) /\ \A n \in Mine(q) : bound'[n].under = bound[n].under
    BY <1>m, <1>3 DEF Mine
  <2> QED BY <1>3, <2>1, <2>2, LeftAlone DEF ListenInv
<1>4. Sound(p)'
  <2>1. CASE bound' = bound /\ api'[p].server = Unset
    <3>1. Mine(p)' = {}
      BY <1>w, <2>1, SocketsStay
    <3> QED BY <1>r, <1>w, <1>k, <2>1, <3>1, AtRest
           DEF Awake, Sound, FileAt, RestAt, BootAt, SaveAt, Load
  <2>2. CASE /\ bound' = Started(p, job[p].old) /\ Unbound(job[p].old.port)
             /\ api'[p].server = job[p].old.port /\ job[p].old.enabled
    <3>1. Mine(p)' = {job[p].old.port} /\ bound'[job[p].old.port].under = job[p].old
      BY <1>w, <2>2, StartTakesOne
    <3> QED BY <1>r, <1>w, <1>k, <2>2, <3>1, AtRest
           DEF Awake, Sound, FileAt, RestAt, BootAt, SaveAt, Load
  <2> QED BY <1>k, <2>1, <2>2
<1> QED BY <1>1, <1>2, <1>3, <1>4 DEF ListenInv

LEMMA ClientKeeps == ASSUME ApiInv, NEW n \in Port, Client(n) PROVE ApiInv'
<1> USE DEF ApiInv, Client
<1>m. /\ bound' \in [Port -> Socket \cup {Unset}]
      /\ \A m \in Port : (bound[m] = Unset) = (bound'[m] = Unset)
      /\ \A m \in Port : bound[m] # Unset =>
            bound'[m].by = bound[m].by /\ bound'[m].under = bound[m].under
  <2>1. bound[n] \in Socket /\ [bound[n] EXCEPT !.busy = ~@] \in Socket
    BY DEF ApiTypeOK, Socket
  <2>2. bound' = [bound EXCEPT ![n] = [bound[n] EXCEPT !.busy = ~@]]
    OBVIOUS
  <2>3. [bound[n] EXCEPT !.busy = ~@] # Unset
    BY <2>1
  <2> QED BY <2>1, <2>2, <2>3 DEF ApiTypeOK, Socket
<1>1. ApiTypeOK'
    BY <1>m DEF ApiTypeOK
<1>2. LockInv'
    BY DEF LockInv, Running, Owning
<1>3. ASSUME NEW q \in Process PROVE Sound(q)'
  <2>1. Mine(q)' = Mine(q) /\ \A m \in Mine(q) : bound'[m].under = bound[m].under
    BY <1>m DEF Mine
  <2> QED BY <1>3, <2>1, LeftAlone DEF ListenInv
<1> QED BY <1>1, <1>2, <1>3 DEF ListenInv

-----------------------------------------------------------------------------
LEMMA StepKeeps == ApiInv /\ [ApiNext]_apiVars => ApiInv'
<1> SUFFICES ASSUME ApiInv, [ApiNext]_apiVars PROVE ApiInv'
    OBVIOUS
<1>1. CASE UNCHANGED apiVars
  <2>1. ApiTypeOK'
    BY <1>1 DEF ApiInv, ApiTypeOK, apiVars
  <2>2. LockInv'
    BY <1>1 DEF ApiInv, LockInv, Running, Owning, apiVars
  <2>3. ListenInv'
    BY <1>1, LeftAlone, SocketsStay DEF ApiInv, ListenInv, apiVars
  <2> QED BY <2>1, <2>2, <2>3 DEF ApiInv
<1>2. ASSUME NEW p \in Process,
             Lock(p) \/ RecordFails(p) \/ Open(p) \/ Recovered(p) \/ Quit(p) \/ Release(p) \/ Die(p)
      PROVE  ApiInv'
    BY <1>2, LockKeeps, RecordFailsKeeps, OpenKeeps, RecoveredKeeps, QuitKeeps, ReleaseKeeps,
       DieKeeps
<1>3. ASSUME NEW p \in Process, Task(p) \/ Ask(p) \/ WriteFails(p) PROVE ApiInv'
    BY <1>3, BootBeginKeeps, BootEndKeeps, AskKeeps, WriteFailsKeeps DEF Task
<1>4. ASSUME NEW p \in Process, Save(p) PROVE ApiInv'
    BY <1>4, SaveBeginKeeps, StopKeeps, StartKeeps, WriteKeeps, SetKeeps, UnstartKeeps,
       RestoreKeeps DEF Save
<1>5. ASSUME NEW n \in Port, Client(n) PROVE ApiInv'
    BY <1>5, ClientKeeps
<1> QED BY <1>1, <1>2, <1>3, <1>4, <1>5 DEF ApiNext

LEMMA Sufficient == ApiInv => RunsAsChosen
<1> SUFFICES ASSUME ApiInv PROVE OwnerIsNamed /\ ServesAsChosen
    BY DEF RunsAsChosen
<1>1. OwnerIsNamed
    BY DEF ApiInv, LockInv, OwnerIsNamed, Running, Owning
<1>2. ServesAsChosen
    BY AtRest DEF ApiInv, ListenInv, Sound, Awake, FileAt, RestAt, ServesAsChosen, Settled, Mine
<1> QED BY <1>1, <1>2

LEMMA Always == ApiSpec => []ApiInv
BY ApiInitially, StepKeeps, PTL DEF ApiSpec

\* Every variable keeps its type.
THEOREM ApiTypeCorrect == ApiSpec => []ApiTypeOK
<1>1. ApiInv => ApiTypeOK
    BY DEF ApiInv
<1> QED BY <1>1, Always, PTL

\* However many launches of the app, saves and failures there are: at most one
\* process runs on the directory, and between two saves the listener is the one
\* its user chose, or its absence is explained (instance_lock.rs, run and
\* apply_local_http_api_config of lib.rs).
THEOREM OneOwnerAsChosen == ApiSpec => []RunsAsChosen
BY Always, Sufficient, PTL
=============================================================================
