------------------------------- MODULE Schema -------------------------------
(***************************************************************************)
(* The database bundle and what brings it to the latest schema (db.rs).    *)
(*                                                                         *)
(* A bundle is two SQLite files: the user's own (activities, milestones)   *)
(* and the shared one (media), each with its schema version.  A step of    *)
(* the migration is a function of the whole bundle, for it runs in one     *)
(* transaction over both files.  The columns a table has follow from its   *)
(* version and are not spelled out; the data the steps rewrite is: links,  *)
(* titles, variants, activity types and the identifiers of rows.           *)
(***************************************************************************)
EXTENDS Naturals, FiniteSets

NoUid == << >>          \* a blank identifier
Latest == 8             \* CURRENT_SCHEMA_VERSION
Blank == "blank"        \* a blank title or activity type

\* Identifiers: of a media entry, derived from its title or drawn at random;
\* of an activity or a milestone, derived from what it says.
TitleUid(title) == <<"title", title>>
RandomUid(n) == <<"random", n>>
RecordUid(about, what, k) == <<"record", about, what, k>>

Trim(variant) == [variant EXCEPT !.padded = FALSE]
Plain == [text |-> "", padded |-> FALSE]

Uids(b) == {m.uid : m \in b.media}
Titled(b, title) == {m \in b.media : m.title = title}
Broken(b) == {s \in b.stones : s.media \notin Uids(b)}
Dangling(b) == {l \in b.logs : \A m \in b.media : m.id # l.media}

Future(b) == b.main > Latest \/ b.shared > Latest
Fresh(b) == /\ b.main = 0 /\ b.shared = 0
            /\ b.mainMedia = {} /\ b.media = {} /\ b.logs = {} /\ b.stones = {}
Unversioned(b) == b.main = 0 /\ b.shared = 0 /\ ~Fresh(b)
Versioned(b) == b.main = b.shared /\ b.main # 0
Mixed(b) == b.main # b.shared

\* A bundle of two versions is taken for one that predates them if anything
\* in it does: the media table is the latest since version 6, and its titles
\* are never blank, the others since version 8.
Untitled(b) == {m \in b.media : m.title = Blank}
Predates(b) == b.mainMedia # {} \/ b.main < Latest \/ b.shared < 6 \/ Untitled(b) # {}

\* The records that no migration has named.
Nameless(b) == {r \in b.logs \cup b.stones : r.uid = NoUid}

At(b, version) == [b EXCEPT !.main = version, !.shared = version]

-----------------------------------------------------------------------------
\* The media of one profile move from its own file to the shared one: rows
\* whose id or title is taken are left out, which only the id reveals.  They
\* have an identifier when they arrive, for which a table without that column,
\* from before version 2, has no place.
Copied(b) == {r \in b.mainMedia : \A m \in b.media : m.id # r.id /\ m.title # r.title}
AsShared(r) == [r EXCEPT !.uid = TitleUid(r.title)]
CanShare(b) == \A r \in b.mainMedia :
    /\ \E m \in b.media \cup Copied(b) : m.id = r.id
    /\ NoUid \notin Uids(b)
Shared(b) == [b EXCEPT !.media = @ \cup {AsShared(r) : r \in Copied(b)}, !.mainMedia = {}]

\* Version 2 gives each media entry an identifier, and each milestone that
\* of the entry its title names.
LinkedByTitle(b, s) ==
    IF \E m \in b.media : m.title = s.title
    THEN [s EXCEPT !.media = (CHOOSE m \in b.media : m.title = s.title).uid]
    ELSE s
Founded(b) ==
    LET c == [b EXCEPT !.media = {IF m.uid = NoUid THEN AsShared(m) ELSE m : m \in @}]
    IN  [c EXCEPT !.stones = {IF s.media = NoUid THEN LinkedByTitle(c, s) ELSE s : s \in @}]

\* Version 5 gives each activity without a type the default of its entry.
DefaultType(m) == IF m.type = Blank THEN "None" ELSE m.type
TypeOf(b, l) == IF \E m \in b.media : m.id = l.media
                THEN (CHOOSE m \in b.media : m.id = l.media).type ELSE "None"
Typed(b) ==
    LET c == [b EXCEPT !.media = {[m EXCEPT !.type = DefaultType(m)] : m \in @}]
    IN  [c EXCEPT !.logs = {IF l.type = Blank THEN [l EXCEPT !.type = TypeOf(c, l)] ELSE l : l \in @}]

\* Version 6 identifies an entry by title and variant and links milestones by
\* identifier only: a broken link is repaired if one entry has its title, and
\* stops the migration otherwise.
Trimmed(b) == [b EXCEPT !.media = {[m EXCEPT !.variant = Trim(@)] : m \in @}]
RepairableAny(b, s) == Cardinality(Titled(b, s.title)) = 1      \* a mutant
Repairable(b, s) == s \in Broken(b) /\ Cardinality(Titled(b, s.title)) = 1
Repaired(b) ==
    [b EXCEPT !.stones = {IF Repairable(b, s) THEN LinkedByTitle(b, s) ELSE s : s \in @}]
TitleOf(b, uid) == (CHOOSE m \in b.media : m.uid = uid).title
CanIdentify(b) ==
    /\ Untitled(b) = {}
    /\ \A m, n \in Trimmed(b).media : <<m.title, m.variant>> = <<n.title, n.variant>> => m = n
    /\ Broken(Repaired(b)) = {}
Identified(b) ==
    LET c == Repaired(Trimmed(b))
    IN  [c EXCEPT !.stones = {[s EXCEPT !.title = TitleOf(c, s.media)] : s \in @}]

\* Version 7 names the records that have no identifier.  Records that say the
\* same are told apart by a count, in the order of their ids.
MediaUid(b, l) == IF \E m \in b.media : m.id = l.media
                  THEN (CHOOSE m \in b.media : m.id = l.media).uid
                  ELSE <<"orphan", l.media>>
LogKey(b, l) == <<MediaUid(b, l), l.type, l.what>>
StoneKey(s) == <<s.media, s.what>>
OccurrenceFromOne(r, same) == Cardinality({q \in same : q.id <= r.id})     \* a mutant
Occurrence(r, same) == Cardinality({q \in same : q.id < r.id})
NamedLog(b, l) ==
    LET same == {q \in b.logs : q.uid = NoUid /\ LogKey(b, q) = LogKey(b, l)}
    IN  [l EXCEPT !.uid = RecordUid("activity", LogKey(b, l), Occurrence(l, same))]
NamedStone(b, s) ==
    LET same == {q \in b.stones : q.uid = NoUid /\ StoneKey(q) = StoneKey(s)}
    IN  [s EXCEPT !.uid = RecordUid("milestone", StoneKey(s), Occurrence(s, same))]
Recorded(b) ==
    [b EXCEPT !.logs = {IF l.uid = NoUid THEN NamedLog(b, l) ELSE l : l \in @},
              !.stones = {IF s.uid = NoUid THEN NamedStone(b, s) ELSE s : s \in @}]
CanRecord(b) ==
    LET c == Recorded(b)
    IN  /\ \A l, q \in c.logs : l.uid = q.uid => l = q
        /\ \A s, q \in c.stones : s.uid = q.uid => s = q

-----------------------------------------------------------------------------
\* One registered migration, from the version the bundle is at to the next:
\* notes (3), variants (4) and date precision (8) only add columns.
CanStep(b) == CASE b.main = 5 -> CanIdentify(b)
                [] b.main = 6 -> CanRecord(b)
                [] OTHER -> TRUE
Stepped(b) ==
    LET c == CASE b.main = 1 -> Founded(b)
               [] b.main = 4 -> Typed(b)
               [] b.main = 5 -> Identified(b)
               [] b.main = 6 -> Recorded(b)
               [] OTHER -> b
    IN  At(c, b.main + 1)

\* A bundle from before the versions goes through all of them at once.
Renewed(b) == Typed(Founded(Shared(b)))
CanRenew(b) == /\ CanShare(b) /\ CanIdentify(Renewed(b))
               /\ CanRecord(Identified(Renewed(b)))
               /\ Dangling(Shared(b)) = {}
Current(b) == At(Recorded(Identified(Renewed(b))), Latest)

\* What create_indexes and validate_latest_schema ask of the data.
Valid(b) ==
    /\ CanRecord(b) /\ Untitled(b) = {} /\ Nameless(b) = {}
    /\ \A m, n \in b.media :
            m.uid = n.uid \/ <<m.title, m.variant>> = <<n.title, n.variant>> => m = n
    /\ Dangling(b) = {} /\ Broken(b) = {}
=============================================================================
