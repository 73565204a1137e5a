-------------------------------- MODULE Views --------------------------------
(***************************************************************************)
(* Reading a library while it is edited.  A timeline (TimelineView.ts)     *)
(* shows the events that pass a filter, page after page: it asks for the   *)
(* page that begins where those it shows end, and takes the answer unless  *)
(* it has asked for something else since.  The library changes in between, *)
(* by the user's hand or by a sync.                                        *)
(***************************************************************************)
EXTENDS Dashboard

CONSTANTS
    Media, Logs, Stones,    \* what the library may come to hold
    Trackings,              \* the statuses an entry may be given
    Years,                  \* the years that may be selected
    Queries,                \* the words that may be searched for
    Today,
    PageSize,
    MaxEdits, MaxAsks       \* bounds: edits, and requests of the timeline

\* The rows of a table have each a number of its own (db.rs, INTEGER PRIMARY
\* KEY), and an activity is of an entry (module Library shows it: WellLinked).
\* Titles are numbers here, for all that is asked of them is their order.
WellNumbered ==
    /\ \A rows \in {Media, Logs, Stones} :
        /\ IsFiniteSet(rows)
        /\ \A r \in rows : r.id \in Nat \ {0}
        /\ \A r, q \in rows : r.id = q.id => r = q
    /\ \A m \in Media : /\ DOMAIN m = {"id", "title", "variant", "content", "type",
                                       "tracking", "status", "cover"}
                        /\ m.title \in Int
    /\ \A l \in Logs : \E m \in Media : l.media = m.id
\* It is stored with the first day of its date (db.rs, the anchor of a date).
WellDated ==
    /\ \A l \in Logs : /\ l.precision \in Precision /\ {l.date, l.minutes, l.chars} \subseteq Int
                       /\ l.date = Anchor(l.date, l.precision)
    /\ \A s \in Stones : s.date \in Int \cup {None}
    /\ Today \in Int
\* What a chart sums up as the rest is none of the groups it can name
\* (dashboard_data.rs:881, "dashboard:other"), and no row is the lack of one.
RestIsApart ==
    /\ \A l \in Logs : Other \notin {l.type, l.media}
    /\ \A m \in Media : Other \notin {m.type, m.content}
    /\ None \notin Logs
ASSUME ViewsAssumption ==
    /\ WellNumbered /\ WellDated /\ RestIsApart
    /\ {PageSize, MaxEdits, MaxAsks} \subseteq Nat

VARIABLES
    lib,        \* the library
    filter,     \* what is selected: a year, and the word in the search box
    typed,      \* the timer that runs a search has been set
    level,      \* the zoom: two levels of detail, or months and years
    asks,       \* the requests under way
    last,       \* the number of the last request
    loading,    \* the timeline waits: "no", for a "first" page or for "more"
    shown,      \* the events on screen, and whether there are more
    edits,
    pages,      \* history: of which filter the pages on screen are, read after which edits
    missed      \* history: the last first page it wanted failed, or was zoomed away

client == <<filter, typed, level, asks, last, loading, shown, pages, missed>>
vars == <<lib, edits, client>>

Levels == {"detailed", "compact", "buckets"}
Select(y, w) == [year |-> y, kind |-> None, query |-> w]
Everything == Select(None, None)
NoPage == [events |-> <<>>, more |-> FALSE]
Libraries ==
    {[media |-> {[m EXCEPT !.tracking = t[m]] : m \in Media}, logs |-> l, stones |-> s] :
        t \in [Media -> Trackings], l \in SUBSET Logs, s \in SUBSET Stones}

Init ==
    /\ lib \in Libraries
    /\ filter = Everything /\ typed = FALSE /\ level = "detailed"
    /\ asks = {} /\ last = 0 /\ loading = "no" /\ shown = NoPage
    /\ edits = 0 /\ pages = {} /\ missed = FALSE

-----------------------------------------------------------------------------
Edit ==
    /\ edits < MaxEdits /\ edits' = edits + 1
    /\ \/ \E l \in Logs : lib' = [lib EXCEPT !.logs = SymDiff(@, {l})]
       \/ \E s \in Stones : lib' = [lib EXCEPT !.stones = SymDiff(@, {s})]
       \/ \E m \in lib.media, t \in Trackings :
            /\ m.tracking # t
            /\ lib' = [lib EXCEPT !.media = (@ \ {m}) \cup {[m EXCEPT !.tracking = t]}]
    /\ UNCHANGED client

\* A request is numbered, and remembers what was selected when it was sent.
Ask(first) ==
    /\ last' = last + 1
    /\ asks' = asks \cup {[id |-> last + 1, first |-> first, filter |-> filter',
                           offset |-> IF first THEN 0 ELSE Len(shown.events)]}
    /\ loading' = IF first THEN "first" ELSE "more"
    /\ missed' = (missed /\ ~first)
Room == last < MaxAsks

\* The timeline is opened again, or another year selected.  If it shows events
\* it asks for the first of them; opening it does not if it waits for them.
\* (Months and years are asked for by requests of their own.)
LoadData ==
    /\ Room /\ level # "buckets" /\ loading # "first"
    /\ UNCHANGED <<lib, edits, filter, typed, level, shown, pages>>
    /\ Ask(TRUE)
SelectYear(y) ==
    /\ Room /\ y # filter.year /\ filter' = [filter EXCEPT !.year = y]
    /\ IF level # "buckets" THEN Ask(TRUE) ELSE UNCHANGED <<last, asks, loading, missed>>
    /\ UNCHANGED <<lib, edits, typed, level, shown, pages>>
LoadMore ==
    /\ Room /\ level # "buckets" /\ loading = "no" /\ shown.more
    /\ UNCHANGED <<lib, edits, filter, typed, level, shown, pages>>
    /\ Ask(FALSE)

\* What is typed is the filter at once, and what is under way no longer wanted;
\* it is asked for when the timer ends, which each letter sets again.
Search(w) ==
    /\ Room /\ w # filter.query /\ filter' = [filter EXCEPT !.query = w]
    /\ last' = last + 1 /\ typed' = TRUE
    /\ UNCHANGED <<lib, edits, level, asks, loading, shown, pages, missed>>
SearchTimer ==
    /\ typed /\ typed' = FALSE /\ UNCHANGED filter
    /\ IF level # "buckets" THEN Ask(TRUE) ELSE UNCHANGED <<last, asks, loading, missed>>
    /\ UNCHANGED <<lib, edits, level, shown, pages>>

\* The zoom changes, and what is under way is no longer wanted.  The first
\* events are asked for on the way back from months and years only.
Zoom(to) ==
    /\ Room /\ to # level /\ level' = to /\ UNCHANGED filter
    /\ IF level = "buckets" THEN Ask(TRUE)
       ELSE /\ last' = last + 1
            /\ missed' = (missed \/ loading # "no")
            /\ UNCHANGED <<asks, loading>>
    /\ UNCHANGED <<lib, edits, typed, shown, pages>>

\* The library is read, in one transaction, and the answer arrives.  That to the
\* last request is taken, any other ignored.
Wanted_First(r) == r.id = last /\ r.first                       \* a mutant
Wanted(r) == r.id = last
Take(r) ==
    \E p \in Pages(lib, r.filter, r.offset, PageSize) :
        /\ shown' = [events |-> IF r.first THEN p.events ELSE shown.events \o p.events,
                     more |-> p.more]
        /\ pages' = {[filter |-> r.filter, at |-> edits]} \cup (IF r.first THEN {} ELSE pages)
Answer(r) ==
    /\ asks' = asks \ {r}
    /\ IF Wanted(r) THEN Take(r) /\ loading' = "no" ELSE UNCHANGED <<shown, loading, pages>>
    /\ UNCHANGED <<lib, edits, filter, typed, level, last, missed>>

\* The events on screen stay there if their successors cannot be read.
Fail(r) ==
    /\ asks' = asks \ {r}
    /\ loading' = IF Wanted(r) THEN "no" ELSE loading
    /\ missed' = (missed \/ (Wanted(r) /\ r.first))
    /\ UNCHANGED <<lib, edits, filter, typed, level, last, shown, pages>>

Next ==
    \/ Edit \/ LoadData \/ LoadMore \/ SearchTimer
    \/ \E y \in Years \cup {None} : SelectYear(y)
    \/ \E w \in Queries \cup {None} : Search(w)
    \/ \E to \in Levels : Zoom(to)
    \/ \E r \in asks : Answer(r) \/ Fail(r)

\* A request is answered, or its failure noticed; a timer that was set ends.
Answered == \E r \in asks : asks' = asks \ {r}
Spec == Init /\ [][Next]_vars /\ WF_asks(Answered) /\ WF_vars(SearchTimer)

-----------------------------------------------------------------------------
\* The pages a timeline puts together are one list.  They are of what is selected,
\* unless a search is about to run, or its first page failed or was zoomed away.
\* If they are of one filter, and the library was not edited since the first
\* was read, they are the first of the events that pass it in their order, none
\* missing and none twice, and "more" says whether there are others
\* (timeline_data.rs 241, TimelineView.ts 278).
PagesTile ==
    /\ loading = "no" /\ ~typed /\ ~missed /\ level # "buckets" =>
            \A p \in pages : p.filter = filter
    /\ \A p \in pages : pages = {p} /\ p.at = edits =>
            \E s \in Orders(lib, Filtered(lib, p.filter)) :
                /\ shown.events = Slice(s, 0, Len(shown.events))
                /\ shown.more = (Len(shown.events) < Len(s))

\* A timeline that waits gets its page, unless the user zoomed while it waited:
\* then the answer is ignored and not asked for again (TimelineView.ts 1190).
PageArrives == loading # "no" ~> loading = "no" \/ missed

\* What follows is about the library alone, and said of every library there may
\* be: the history begins with each of them.
AtFirst == last = 0 /\ edits = 0

Sum(field, rows) == SumFunction([r \in rows |-> r.total[field]])
SumOf(rows) == [minutes |-> Sum("minutes", rows), chars |-> Sum("chars", rows)]
Plus(s, t) == [minutes |-> s.minutes + t.minutes, chars |-> s.chars + t.chars]

\* Months and years account for the history as far back as they reach, and if
\* they are fewer than there may be they reach to its beginning: each event and
\* activity in reach is in one bucket.  A year is accounted for wholly when it is
\* selected, by the same buckets where the others reach it; it holds what its
\* months hold and what is dated by the year.  The summary of the years is of all
\* activities, in reach or not, and counts the same entries as completed as that
\* of the pages (timeline_data.rs 484-825).
BucketsAddUp == AtFirst =>
    /\ \A g \in {"month", "year"} :
        LET all == Buckets(lib, g, None, None)
            counts == [k \in all |-> SumFunction(k.count)]
            reached(day) == \E k \in all : k.key <= day
        IN  /\ SumOf(all) = Total({l \in Finer(lib, g) : reached(l.date)})
            /\ SumFunction(counts) = Cardinality({e \in Events(lib) : reached(e.date)})
            /\ Cardinality(all) <= MaxBuckets
            /\ Cardinality(all) < MaxBuckets =>
                    \A x \in Finer(lib, g) \cup Events(lib) : reached(x.date)
            /\ \A y \in BucketYears(lib, g) :
                LET selected == Buckets(lib, g, y, None)
                IN  /\ SumOf(selected) = Total({l \in Finer(lib, g) : YearOf(l.date) = y})
                    /\ {k \in selected : reached(k.key)} = {k \in all : YearOf(k.key) = y}
                    /\ selected # {}
    /\ LET years == BucketSummary(lib, "year", None, None)
           page == PageSummary(lib, Everything).summary
       IN  /\ years.total = Total(lib.logs)
           /\ years.completed = page.completed
           /\ page.completed = Cardinality({m \in lib.media : m.tracking = "Complete" /\ HasDays(lib, m)})
    /\ \A k \in Buckets(lib, "year", None, None) :
        k.total = Plus(SumOf(Buckets(lib, "month", YearOf(k.key), None)),
                       Total({l \in lib.logs : l.precision = "year" /\ YearOf(l.date) = YearOf(k.key)}))

Ranges == {r \in [start : {l.date : l \in Logs}, end : {End(l) : l \in Logs},
                  bucket : Precision, by : {"type", "media"}] : r.start <= r.end}

\* The charts of a range tell one story: its groups, its buckets and its
\* categories come to the same totals, though some groups are folded into one;
\* and the bucket it is compared with is worth what it is worth in a range of
\* its own (dashboard_data.rs 695-815).
ChartsAddUp == AtFirst =>
    \A r \in Ranges :
        LET chart == RangeOf(lib, r)
            span == PreviousSpan(r)
            before == BucketTotals(lib, [r EXCEPT !.start = span.start, !.end = span.end])
        IN  /\ SumOf(chart.totals) = Total(InRange(lib, r))
            /\ SumOf(chart.series) = SumOf(chart.totals) /\ SumOf(chart.categories) = SumOf(chart.totals)
            /\ \A t \in chart.totals :
                    SumOf({p \in chart.series : p.bucket = t.bucket}) = t.total
            /\ chart.previous.total = SumOf({t \in before : t.bucket = span.start})

\* The views agree on the days.  The heatmaps of all years come to the totals
\* by day of the summary, and have as many days; the weekdays' samples are the
\* days of the heatmap and those without any; the summary, the list of the
\* latest activities and the library list end with the same activity, whose
\* entry is the first to be logged again if it is open; and the day that stands
\* out in a range is the heaviest that the heatmaps have in it
\* (dashboard_data.rs 344-465, 611-651, library_data.rs 89-196).
DaysAgree == AtFirst =>
    LET all == Totals(lib, Today)
        heat == UNION {HeatmapYear(lib, y) : y \in {YearOf(l.date) : l \in Logs}}
        recent == RecentLogs(lib, 0, 1)
        listed == LibraryMedia(lib)
    IN  /\ SumOf(heat) = all.dayScoped /\ Cardinality(heat) = all.days
        /\ SumFunction([w \in 0 .. WeekDays - 1 |-> SampleTotal(lib, Today, w).minutes])
            = Sum("minutes", {h \in heat : h.date \in Window(Today)})
        /\ all.current <= all.longest /\ all.longest <= all.days
        /\ recent.total > 0 =>
            /\ recent.items[1] = all.last
            /\ End(LibraryMetrics(lib, listed[1]).last) = End(all.last)
            /\ LibraryMetrics(lib, MediaOf(lib, all.first)).first = all.first
            /\ LET m == MediaOf(lib, all.last)
               IN  m.tracking # "Complete" /\ m.status # "Archived" => QuickLogMedia(lib)[1] = m
        /\ \A r \in Ranges : \A h \in {x \in BuildHighlights(lib, r) : x.kind = "day"} :
            LET within == {d \in heat : d.date \in r.start .. r.end}
            IN  /\ \A d \in within : d.total.minutes <= h.worth
                /\ \E d \in within : d.date = h.of /\ d.total.minutes = h.worth

\* Whatever view the user opens, it tells of the same library.
ViewsAgree == BucketsAddUp /\ ChartsAddUp /\ DaysAgree
=============================================================================
