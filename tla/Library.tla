------------------------------ MODULE Library ------------------------------
(***************************************************************************)
(* The library of one device: media entries, activities and milestones     *)
(* (db.rs), the CSV imports into them (csv_import.rs) and the sync that    *)
(* replaces all of them (sync_snapshot.rs apply_snapshot).                 *)
(*                                                                         *)
(* Every command takes the connection and is one transaction.  What lies   *)
(* between two commands is in the clients: a screen shows rows read a      *)
(* while ago and sends their ids, and an import is reviewed by the user    *)
(* before it is applied.                                                   *)
(*                                                                         *)
(* A media entry is identified by title and variant; its other columns are *)
(* one value (`rest`), and so are those of an activity (`what`).           *)
(***************************************************************************)
EXTENDS Naturals, Sequences, FiniteSets

CONSTANTS
    Title, Variant, Rest, What, Name,
    Plain,          \* the blank variant
    NoColumn,       \* the variant of a row in a file without that column
    ActivityFiles, MediaFiles, StoneFiles,      \* sequences of rows
    None,
    Pairs,          \* bound: the titles and variants users give
    MaxUid, MaxId   \* bounds: identifiers drawn, numbers given

ActivityRow == [title : Title, variant : Variant, rest : Rest, what : What]
MediaRow == [title : Title, variant : Variant, rest : Rest]
ASSUME LibraryAssumption ==
    /\ Pairs \subseteq Title \X Variant /\ Plain \in Variant /\ NoColumn \notin Variant
    /\ MaxUid \in Nat /\ MaxId \in Nat
    /\ ActivityFiles \subseteq
            Seq([title : Title, variant : Variant \cup {NoColumn}, rest : Rest, what : What])
    /\ MediaFiles \subseteq Seq([title : Title, variant : Variant \cup {NoColumn}, rest : Rest])
    /\ StoneFiles \subseteq Seq([title : Title, variant : Variant \cup {NoColumn}, name : Name])

VARIABLES
    media,      \* rows [id, uid, title, variant, rest]
    logs,       \* activities [id, uid, media, what], by number of the entry
    stones,     \* milestones [id, uid, media, title, name], by its identifier
    last,       \* the last number given in each table
    drawn,      \* random identifiers drawn so far
    screen,     \* the row a client has open, as it was read
    review,     \* the import a user is looking at
    touched     \* the last request by number: the row meant and the row hit

rows == <<media, logs, stones>>
vars == <<media, logs, stones, last, drawn, screen, review, touched>>

Key(m) == <<m.title, m.variant>>
Keys == {Key(m) : m \in media}
Now == [media |-> media, logs |-> logs, stones |-> stones]
Nothing == [media |-> {}, logs |-> {}, stones |-> {}]

Init ==
    /\ media = {} /\ logs = {} /\ stones = {}
    /\ last = [media |-> 0, logs |-> 0, stones |-> 0] /\ drawn = 0
    /\ screen = Nothing /\ review = None /\ touched = None

\* Numbers are never given twice (AUTOINCREMENT): the next one is above the
\* last one given, whatever is left in the table.
LastNumber_Highest(table, left) ==                              \* a mutant
    IF left = {} THEN 0 ELSE CHOOSE n \in {r.id : r \in left} : \A r \in left : r.id <= n
LastNumber(table, left) == last[table]

\* A client answers from what it shows, or from a fresh read.
Views == {screen, Now}
Hit(r, present) == {q.uid : q \in {x \in present : x.id = r.id}}
Touch(r, present) == touched' = [meant |-> r.uid, hit |-> Hit(r, present)]
Quiet == UNCHANGED <<screen, review>>

\* One client takes its time: it has a row open, or an import under review.
Look ==
    /\ review = None
    /\ screen' \in {[Nothing EXCEPT !.media = {m}] : m \in media}
                   \cup {[Nothing EXCEPT !.logs = {l}] : l \in logs}
                   \cup {[Nothing EXCEPT !.stones = {s}] : s \in stones}
    /\ touched' = None /\ UNCHANGED <<rows, last, drawn, review>>

-----------------------------------------------------------------------------
\* Media entries.
Free(p, but) == \A m \in media : Key(m) = p => m.id = but
AddMedia ==
    /\ drawn < MaxUid /\ last.media < MaxId
    /\ \E p \in Pairs, x \in Rest :
        LET id == LastNumber("media", media) + 1
        IN  /\ Free(p, 0)
            /\ media' = media \cup {[id |-> id, uid |-> drawn + 1, title |-> p[1], variant |-> p[2], rest |-> x]}
            /\ last' = [last EXCEPT !.media = id]
    /\ drawn' = drawn + 1 /\ touched' = None
    /\ UNCHANGED <<logs, stones>> /\ Quiet

\* Milestones show the title of their entry and follow it.
Retitled_Not(uid, title) == stones                              \* a mutant
Retitled(uid, title) == {IF s.media = uid THEN [s EXCEPT !.title = title] ELSE s : s \in stones}
\* The identifier is compared if the client sends it.
SameUid(m, uid) == uid \in {None, m.uid}
UpdateMedia ==
    \E view \in Views : \E seen \in view.media : \E uid \in {seen.uid, None} :
        \E m \in {x \in media : x.id = seen.id}, p \in Pairs, x \in Rest :
            /\ SameUid(m, uid) /\ Free(p, m.id)
            /\ media' = (media \ {m}) \cup {[m EXCEPT !.title = p[1], !.variant = p[2], !.rest = x]}
            /\ stones' = Retitled(m.uid, p[1])
            /\ Touch(seen, media)
            /\ UNCHANGED <<logs, last, drawn>> /\ Quiet

DeleteMedia ==
    \E view \in Views : \E seen \in view.media : \E m \in {x \in media : x.id = seen.id} :
        /\ media' = media \ {m}
        /\ logs' = {l \in logs : l.media # m.id}
        /\ stones' = {s \in stones : s.media # m.uid}
        /\ Touch(seen, media)
        /\ UNCHANGED <<last, drawn>> /\ Quiet

-----------------------------------------------------------------------------
\* Activities name their entry by number.
AddLog ==
    /\ drawn < MaxUid /\ last.logs < MaxId
    /\ \E view \in Views : \E seen \in view.media : \E m \in {x \in media : x.id = seen.id}, w \in What :
        LET id == LastNumber("logs", logs) + 1
        IN  /\ logs' = logs \cup {[id |-> id, uid |-> drawn + 1, media |-> m.id, what |-> w]}
            /\ last' = [last EXCEPT !.logs = id]
            /\ Touch(seen, media)
    /\ drawn' = drawn + 1
    /\ UNCHANGED <<media, stones>> /\ Quiet
UpdateLog ==
    \E view \in Views : \E seen \in view.logs : \E w \in What :
        \E l \in {x \in logs : x.id = seen.id}, m \in {x \in media : x.id = seen.media} :
            /\ logs' = (logs \ {l}) \cup {[l EXCEPT !.media = m.id, !.what = w]}
            /\ Touch(seen, logs)
            /\ UNCHANGED <<media, stones, last, drawn>> /\ Quiet
DeleteLog ==
    \E view \in Views : \E seen \in view.logs : \E l \in {x \in logs : x.id = seen.id} :
        /\ logs' = logs \ {l}
        /\ Touch(seen, logs)
        /\ UNCHANGED <<media, stones, last, drawn>> /\ Quiet
ClearActivities ==
    /\ logs # {} /\ logs' = {} /\ touched' = None
    /\ UNCHANGED <<media, stones, last, drawn>> /\ Quiet

\* Milestones name it by identifier, and take its title from it.
AddMilestone ==
    /\ drawn < MaxUid /\ last.stones < MaxId
    /\ \E view \in Views : \E seen \in view.media : \E m \in {x \in media : x.uid = seen.uid}, n \in Name :
        LET id == LastNumber("stones", stones) + 1
        IN  /\ stones' = stones \cup {[id |-> id, uid |-> drawn + 1, media |-> m.uid, title |-> m.title, name |-> n]}
            /\ last' = [last EXCEPT !.stones = id]
    /\ drawn' = drawn + 1 /\ touched' = None
    /\ UNCHANGED <<media, logs>> /\ Quiet
UpdateMilestone ==
    \E view \in Views : \E seen \in view.stones : \E n \in Name :
        \E s \in {x \in stones : x.id = seen.id}, m \in {x \in media : x.uid = seen.media} :
            /\ stones' = (stones \ {s}) \cup {[s EXCEPT !.media = m.uid, !.title = m.title, !.name = n]}
            /\ Touch(seen, stones)
            /\ UNCHANGED <<media, logs, last, drawn>> /\ Quiet
DeleteMilestone ==
    \E view \in Views : \E seen \in view.stones : \E s \in {x \in stones : x.id = seen.id} :
        /\ stones' = stones \ {s}
        /\ Touch(seen, stones)
        /\ UNCHANGED <<media, logs, last, drawn>> /\ Quiet
ClearMilestones ==
    \E view \in Views : \E seen \in view.media :
        /\ stones' = {s \in stones : s.media # seen.uid}
        /\ stones' # stones /\ touched' = None
        /\ UNCHANGED <<media, logs, last, drawn>> /\ Quiet

-----------------------------------------------------------------------------
\* A sync replaces the whole library by a snapshot: every row is inserted
\* anew, under a new number and its old identifier.  What the other devices
\* changed is one entry dropped, renamed or arrived with an activity.
Without(m) == [media |-> media \ {m}, logs |-> {l \in logs : l.media # m.id},
               stones |-> {s \in stones : s.media # m.uid}]
Renamed(m, p) == [Now EXCEPT !.media = (@ \ {m}) \cup {[m EXCEPT !.title = p[1], !.variant = p[2]]}]
Arrived(p, x, w) ==
    [Now EXCEPT !.media = @ \cup {[id |-> 0, uid |-> drawn + 1, title |-> p[1], variant |-> p[2], rest |-> x]},
                !.logs = @ \cup {[id |-> 0, uid |-> drawn + 1, media |-> 0, what |-> w]}]
Snapshots == {Now} \cup {Without(m) : m \in media}
                   \cup {Renamed(m, p) : m \in media, p \in Pairs}
                   \cup {Arrived(p, x, w) : p \in Pairs, x \in Rest, w \in What}

EntryOf(s, l) == CHOOSE m \in s.media : m.id = l.media
TitleIn(s, uid) == (CHOOSE m \in s.media : m.uid = uid).title
\* All rows are gone before the first one is inserted.
NewNumber(table, r) == LastNumber(table, {}) + r.uid
NewMedia(m) == [m EXCEPT !.id = NewNumber("media", m)]
NewLog(s, l) == [l EXCEPT !.id = NewNumber("logs", l), !.media = NewNumber("media", EntryOf(s, l))]
NewStone(s, r) == [r EXCEPT !.id = NewNumber("stones", r), !.title = TitleIn(s, r.media)]
Total(s) == IF \E m \in s.media : m.id = 0 THEN drawn + 1 ELSE drawn
SyncApply ==
    \E s \in Snapshots :
        /\ Total(s) <= MaxUid /\ \A t \in DOMAIN last : last[t] + Total(s) <= MaxId
        /\ \A m, n \in s.media : Key(m) = Key(n) => m = n
        /\ media' = {NewMedia(m) : m \in s.media}
        /\ logs' = {NewLog(s, l) : l \in s.logs}
        /\ stones' = {NewStone(s, r) : r \in s.stones}
        /\ last' = [t \in DOMAIN last |-> LastNumber(t, {}) + Total(s)]
        /\ drawn' = Total(s) /\ touched' = None /\ Quiet

-----------------------------------------------------------------------------
\* A CSV row names its entry by title and variant, or by the title alone if
\* the file has no such column: then one entry at most may have it.
Matches(r) == {m \in media : m.title = r.title /\ r.variant \in {NoColumn, m.variant}}
Blank(variant) == IF variant = NoColumn THEN Plain ELSE variant
Target(r) ==
    IF Matches(r) = {} THEN <<r.title, Blank(r.variant)>> ELSE Key(CHOOSE m \in Matches(r) : TRUE)
Clear(file) == \A i \in DOMAIN file : \A m, n \in Matches(file[i]) : m = n
ExactRow(r) == [r EXCEPT !.title = Target(r)[1], !.variant = Target(r)[2]]
Exact(file) == [i \in DOMAIN file |-> ExactRow(file[i])]

\* The activities of a file, grouped by what they say and about what.
Content(r) == <<Key(r), r.what>>
Contents(file) == {Content(file[i]) : i \in DOMAIN file}
Existing(c) ==
    Cardinality({l \in logs : l.what = c[2] /\ \E m \in media : m.id = l.media /\ Key(m) = c[1]})
Groups(file) == [c \in Contents(file) |-> [existing |-> Existing(c), held |-> c[1] \in Keys]]

\* Rows about one new entry must describe it alike.
Agree(file) ==
    \A i, j \in DOMAIN file :
        Key(file[i]) = Key(file[j]) /\ Key(file[i]) \notin Keys => file[i].rest = file[j].rest
AnalyzeActivities ==
    /\ review = None /\ screen = Nothing
    /\ \E file \in ActivityFiles :
        /\ Clear(file) /\ Agree(Exact(file))
        /\ review' = [kind |-> "activities", file |-> Exact(file), seen |-> Groups(Exact(file))]
    /\ touched' = None /\ UNCHANGED <<rows, last, drawn, screen>>

\* Every content that exists already is answered: skip as many rows as
\* there may be overlaps, or import them all.
Overlaps(file) == {c \in Contents(file) : Existing(c) > 0}
Rank(file, i) == Cardinality({j \in 1 .. i : Content(file[j]) = Content(file[i])})
Kept(file, skip) ==
    {i \in DOMAIN file : Content(file[i]) \in skip => Rank(file, i) > Existing(Content(file[i]))}

\* The row an entry is made of; the numbers follow those of the rows.
Maker(file, kept, key) == CHOOSE i \in kept : Key(file[i]) = key
NewEntry(file, i) ==
    [id |-> LastNumber("media", media) + i, uid |-> drawn + i,
     title |-> file[i].title, variant |-> file[i].variant, rest |-> file[i].rest]
Made(file, kept) ==
    {NewEntry(file, Maker(file, kept, k)) : k \in {Key(file[i]) : i \in kept} \ Keys}
NewActivity(file, entries, i) ==
    [id |-> LastNumber("logs", logs) + i, uid |-> drawn + i,
     media |-> (CHOOSE m \in entries : Key(m) = Key(file[i])).id, what |-> file[i].what]
ImportActivities(file, skip) ==
    LET kept == Kept(file, skip)
        entries == media \cup Made(file, kept)
    IN  /\ drawn + Len(file) <= MaxUid
        /\ last.media + Len(file) <= MaxId /\ last.logs + Len(file) <= MaxId
        /\ media' = entries
        /\ logs' = logs \cup {NewActivity(file, entries, i) : i \in kept}
        /\ last' = [last EXCEPT !.media = LastNumber("media", media) + Len(file),
                                !.logs = LastNumber("logs", logs) + Len(file)]
        /\ drawn' = drawn + Len(file) /\ touched' = None
        /\ UNCHANGED <<stones, screen>>

\* An import is applied to the library it was reviewed against.
SameGroups_Held(file, seen) ==                                  \* a mutant
    \A c \in Contents(file) : seen[c].held = (c[1] \in Keys)
SameGroups(file, seen) == Groups(file) = seen
ApplyActivities ==
    /\ review # None /\ review.kind = "activities"
    /\ Agree(review.file) /\ SameGroups(review.file, review.seen)
    /\ \E skip \in SUBSET Overlaps(review.file) : ImportActivities(review.file, skip)
    /\ review' = None

\* Without a review a file is imported only if nothing in it may overlap.
ImportCsv ==
    /\ \E file \in ActivityFiles :
        /\ Clear(file) /\ Agree(Exact(file)) /\ Overlaps(Exact(file)) = {}
        /\ ImportActivities(Exact(file), {})
    /\ UNCHANGED review

-----------------------------------------------------------------------------
\* Media entries from a file: each row is shown beside the entry it would
\* replace, and the user picks the rows to apply.
Entry(key) == {m.rest : m \in {x \in media : Key(x) = key}}
Distinct(file) == \A i, j \in DOMAIN file : Key(file[i]) = Key(file[j]) => i = j
AnalyzeMedia ==
    /\ review = None /\ screen = Nothing
    /\ \E file \in MediaFiles :
        /\ Clear(file) /\ Distinct(Exact(file))
        /\ review' = [kind |-> "media", file |-> Exact(file),
                      seen |-> [i \in DOMAIN file |-> Entry(Key(Exact(file)[i]))]]
    /\ touched' = None /\ UNCHANGED <<rows, last, drawn, screen>>

Rewritten(file, picked, m) ==
    IF \E i \in picked : Key(file[i]) = Key(m)
    THEN [m EXCEPT !.rest = file[CHOOSE i \in picked : Key(file[i]) = Key(m)].rest]
    ELSE m
\* The rows must find the entries in the state they were shown in.
Reviewed(file, seen, picked) == \A i \in picked : Entry(Key(file[i])) = seen[i]
ApplyMedia ==
    /\ review # None /\ review.kind = "media"
    /\ drawn + Len(review.file) <= MaxUid /\ last.media + Len(review.file) <= MaxId
    /\ \E picked \in (SUBSET DOMAIN review.file) \ {{}} :
        /\ Reviewed(review.file, review.seen, picked)
        /\ media' = {Rewritten(review.file, picked, m) : m \in media} \cup
                {NewEntry(review.file, i) : i \in {j \in picked : Key(review.file[j]) \notin Keys}}
        /\ last' = [last EXCEPT !.media = LastNumber("media", media) + Len(review.file)]
        /\ drawn' = drawn + Len(review.file)
    /\ review' = None /\ touched' = None
    /\ UNCHANGED <<logs, stones, screen>>

Dismiss ==
    /\ review' = None /\ screen' = Nothing /\ touched' = None
    /\ UNCHANGED <<rows, last, drawn>>

\* Milestones from a file: every row must find its entry.
NewMilestone(file, i) ==
    LET m == CHOOSE x \in Matches(file[i]) : TRUE
    IN  [id |-> LastNumber("stones", stones) + i, uid |-> drawn + i, media |-> m.uid,
         title |-> m.title, name |-> file[i].name]
ImportMilestones ==
    /\ \E file \in StoneFiles :
        /\ drawn + Len(file) <= MaxUid /\ last.stones + Len(file) <= MaxId
        /\ Clear(file) /\ \A i \in DOMAIN file : Matches(file[i]) # {}
        /\ stones' = stones \cup {NewMilestone(file, i) : i \in DOMAIN file}
        /\ last' = [last EXCEPT !.stones = LastNumber("stones", stones) + Len(file)]
        /\ drawn' = drawn + Len(file)
    /\ touched' = None
    /\ UNCHANGED <<media, logs>> /\ Quiet

-----------------------------------------------------------------------------
\* The exports: a row for each entry, for each activity of some period, and
\* for each milestone, with the title and the variant of its entry.
InOrder(table) ==
    [i \in 1 .. Cardinality(table) |->
        CHOOSE r \in table : Cardinality({q \in table : q.id <= r.id}) = i]
LogRow_Bare(m, l) == [title |-> m.title, variant |-> NoColumn, rest |-> m.rest, what |-> l.what]  \* a mutant
LogRow(m, l) == [title |-> m.title, variant |-> m.variant, rest |-> m.rest, what |-> l.what]
ExportLogs(period) ==
    LET found == InOrder({l \in period : \E m \in media : m.id = l.media})
    IN  [i \in DOMAIN found |-> LogRow(EntryOf(Now, found[i]), found[i])]
ExportMedia ==
    LET all == InOrder(media)
    IN  [i \in DOMAIN all |-> [title |-> all[i].title, variant |-> all[i].variant, rest |-> all[i].rest]]
\* A milestone without its entry refuses the export.
Exportable == \A s \in stones : \E m \in media : m.uid = s.media
ExportMilestones ==
    LET all == InOrder(stones)
        of(s) == CHOOSE m \in media : m.uid = s.media
    IN  [i \in DOMAIN all |->
            [title |-> of(all[i]).title, variant |-> of(all[i]).variant, name |-> all[i].name]]

Edit == \/ AddMedia \/ UpdateMedia \/ DeleteMedia
        \/ AddLog \/ UpdateLog \/ DeleteLog \/ ClearActivities
        \/ AddMilestone \/ UpdateMilestone \/ DeleteMilestone \/ ClearMilestones
Import == \/ AnalyzeActivities \/ ApplyActivities \/ ImportCsv
          \/ AnalyzeMedia \/ ApplyMedia \/ Dismiss \/ ImportMilestones
Next == Look \/ Edit \/ SyncApply \/ Import
Spec == Init /\ [][Next]_vars

-----------------------------------------------------------------------------
\* The numbers and identifiers of the rows are ones that were given.
TypeOK ==
    /\ media \subseteq [id : 1 .. MaxId, uid : 1 .. MaxUid, title : Title, variant : Variant, rest : Rest]
    /\ logs \subseteq [id : 1 .. MaxId, uid : 1 .. MaxUid, media : 1 .. MaxId, what : What]
    /\ stones \subseteq [id : 1 .. MaxId, uid : 1 .. MaxUid, media : 1 .. MaxUid, title : Title, name : Name]
    /\ last \in [{"media", "logs", "stones"} -> 0 .. MaxId] /\ drawn \in 0 .. MaxUid
    /\ \A m \in media : m.id <= last.media /\ m.uid <= drawn
    /\ \A l \in logs : l.id <= last.logs /\ l.uid <= drawn
    /\ \A s \in stones : s.id <= last.stones /\ s.uid <= drawn

\* Whatever is edited, imported and synced in whatever order, an entry keeps
\* its identity to itself, every activity has its entry, and every milestone
\* has the entry whose title it shows (the indexes, savepoints and title
\* updates of db.rs, which no foreign key backs).
Single(table) == \A r, q \in table : r.id = q.id \/ r.uid = q.uid => r = q
WellLinked ==
    /\ Single(media) /\ Single(logs) /\ Single(stones)
    /\ \A m, n \in media : Key(m) = Key(n) => m = n
    /\ \A l \in logs : \E m \in media : m.id = l.media
    /\ \A s \in stones : \E m \in media : m.uid = s.media /\ m.title = s.title

\* A request made from a screen, however old, changes the row the user saw
\* or none: a sync gives every row a new number, and no number a new row.
OnlyWhatWasSeen == touched # None => touched.hit = {touched.meant}

\* What is exported finds its way back: no file an export writes is refused
\* as ambiguous or contradictory by the import, the activities of any period
\* are recognised as ones there are, the entries as they stand, and every
\* milestone comes back to the entry it was made for (export_logs_csv,
\* export_media_csv and export_milestones_csv beside the imports).
ActivitiesReturn ==
    \A period \in SUBSET logs :
        LET file == Exact(ExportLogs(period))
        IN  /\ Len(file) = Cardinality(period)
            /\ Clear(ExportLogs(period)) /\ Agree(file)
            /\ Contents(file) = Overlaps(file) /\ Kept(file, Overlaps(file)) = {}
MediaReturn ==
    /\ Len(ExportMedia) = Cardinality(media)
    /\ Clear(ExportMedia) /\ Distinct(Exact(ExportMedia))
    /\ {Rewritten(Exact(ExportMedia), DOMAIN ExportMedia, m) : m \in media} = media
MilestonesReturn ==
    /\ Exportable /\ Clear(ExportMilestones)
    /\ \A i \in DOMAIN ExportMilestones :
        NewMilestone(ExportMilestones, i).media = InOrder(stones)[i].media
ExportsReturn == ActivitiesReturn /\ MediaReturn /\ MilestonesReturn

\* An applied import does what its review showed: it adds each activity of
\* the file beside those there were, or only what they do not account for,
\* makes the entries that were said to be new and rewrites only entries as
\* they were shown.
Promised(c, before, file) ==
    LET incoming == Cardinality({i \in DOMAIN file : Content(file[i]) = c})
    IN  {before + incoming} \cup (IF before > incoming THEN {before} ELSE {incoming})
AsReviewed ==
    /\ review.kind = "activities" =>
        /\ \A c \in Contents(review.file) : Existing(c)' \in Promised(c, review.seen[c].existing, review.file)
        /\ \A k \in Keys' \ Keys : \E c \in Contents(review.file) : k = c[1] /\ ~review.seen[c].held
        /\ media \subseteq media' /\ logs \subseteq logs'
    /\ review.kind = "media" =>
        /\ logs' = logs /\ Keys \subseteq Keys'
        /\ \A m \in media \ media' :
            \E i \in DOMAIN review.file : Key(review.file[i]) = Key(m) /\ review.seen[i] = {m.rest}
        /\ \A k \in Keys' \ Keys : \E i \in DOMAIN review.file : Key(review.file[i]) = k /\ review.seen[i] = {}
ImportedAsReviewed ==
    [][review # None /\ review' = None /\ drawn' # drawn => AsReviewed]_vars
=============================================================================
