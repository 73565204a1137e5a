------------------------------ MODULE Timeline ------------------------------
(***************************************************************************)
(* The timeline of a library (timeline_data.rs): what was started, ended   *)
(* and reached when, event by event in pages, or summed up by months or    *)
(* years.  A library is given as b.media, b.logs and b.stones; a search is *)
(* a word that some fields contain.                                        *)
(***************************************************************************)
EXTENDS Dates, Sequences, SequencesExt

CONSTANTS
    None,
    Highlights,         \* how many covers a bucket shows
    MaxBuckets          \* how many buckets there are at most

\* There is room for the months of a year (twelve, of MAX_TIMELINE_BUCKETS = 600).
ASSUME TimelineAssumption ==
    None \notin Int /\ MaxBuckets \in Nat \ {0} /\ YearDays <= MaxBuckets * MonthDays

LogsOf(b, m) == {l \in b.logs : l.media = m.id}
DayLogs(b, m) == {l \in LogsOf(b, m) : l.precision = "day"}
HasDays(b, m) == DayLogs(b, m) # {}
FirstDay(b, m) == Min({l.date : l \in DayLogs(b, m)})
LastDay(b, m) == Max({l.date : l \in DayLogs(b, m)})

\* The statuses that end an entry, and the events they make.
TerminalKind == [Complete |-> "finished", Paused |-> "paused", Dropped |-> "dropped"]
Terminal(m) == m.tracking \in DOMAIN TerminalKind
SameDayTerminal(b, m) == Terminal(m) /\ FirstDay(b, m) = LastDay(b, m)

\* The type of an entry is the one most of its activities have.
OfType(b, m, t) == {l \in LogsOf(b, m) : l.type = t}
Dominates(b, m, t, u) ==
    LET n == Cardinality(OfType(b, m, t))
        k == Cardinality(OfType(b, m, u))
    IN  n > k \/ (n = k /\ Later(Latest(OfType(b, m, t)), Latest(OfType(b, m, u))))
DominantType(b, m) ==
    LET types == {l.type : l \in LogsOf(b, m)}
    IN  IF types = {} THEN m.type
        ELSE CHOOSE t \in types : \A u \in types \ {t} : Dominates(b, m, t, u)

-----------------------------------------------------------------------------
\* Events, with the entry they are about; `stone` is 0 if it is no milestone.
Event(kind, date, m, stone) == [kind |-> kind, date |-> date, media |-> m, stone |-> stone]
Ending(b, m) == Event(TerminalKind[m.tracking], LastDay(b, m), m, 0)
Beginning(b, m) == Event("started", FirstDay(b, m), m, 0)
LifeEvents(b, m) ==
    IF ~HasDays(b, m) THEN {}
    ELSE (IF Terminal(m) THEN {Ending(b, m)} ELSE {})
         \cup (IF SameDayTerminal(b, m) THEN {} ELSE {Beginning(b, m)})
StoneEvents(b) ==
    {Event("milestone", p[1].date, p[2], p[1].id) :
        p \in {q \in b.stones \X b.media : q[1].media = q[2].id /\ q[1].date # None}}
Events(b) == (UNION {LifeEvents(b, m) : m \in b.media}) \cup StoneEvents(b)

\* The latest day comes first; on one day what is likely to have come last.
Rank(b, e) ==
    CASE e.kind = "milestone" -> IF Terminal(e.media) THEN 4 ELSE 0
      [] e.kind = "started" -> 1
      [] OTHER -> IF SameDayTerminal(b, e.media) THEN 2 ELSE 3
\* The fields compared, each from the least on, so that the first that
\* differs decides.
SortKey_ByTitle(b, e) == <<- e.date, Rank(b, e), e.media.title>>    \* a mutant
SortKey(b, e) == <<- e.date, Rank(b, e), e.media.title, e.media.id, - e.stone>>
Less(s, t) == \E i \in DOMAIN s : s[i] < t[i] /\ \A j \in 1 .. i - 1 : s[j] = t[j]

\* The members of a set from the least key on, when no two keys are the same.
Sorted(set, key) ==
    [i \in 1 .. Cardinality(set) |->
        CHOOSE e \in set : Cardinality({f \in set : Less(key[f], key[e])}) = i - 1]

\* Rows come from the database in no order, and events of one key stay in it.
Orders(b, events) ==
    LET key == [e \in events |-> SortKey(b, e)]
    IN  IF Cardinality({key[e] : e \in events}) = Cardinality(events) THEN {Sorted(events, key)}
        ELSE {s \in SetToSeqs(events) :
                \A i \in 1 .. Len(s) - 1 : ~Less(key[s[i + 1]], key[s[i]])}

-----------------------------------------------------------------------------
\* Filters.
Said(b, m) == {m.title, m.variant, m.content, DominantType(b, m)}
MediaMatches(b, m, query) == query = None \/ query \in Said(b, m)
NameOf(b, e) == {s.name : s \in {x \in b.stones : x.id = e.stone}}
EventMatches(b, e, query) == MediaMatches(b, e.media, query) \/ query \in NameOf(b, e)
InYear(date, year) == year = None \/ YearOf(date) = year
Filtered(b, q) ==
    {e \in Events(b) : /\ InYear(e.date, q.year) /\ q.kind \in {None, e.kind}
                       /\ EventMatches(b, e, q.query)}

\* Titles that need their variant to be told apart.
Ambiguous(media) == {m.title : m \in {x \in media : \E n \in media : n # x /\ n.title = x.title}}
EventYears(events) == {YearOf(e.date) : e \in events}
Summary(b, events, others) ==
    LET media == {e.media : e \in events} \cup others
        logs == {l \in b.logs : \E m \in media : l.media = m.id}
    IN  [total |-> Total(logs), media |-> Cardinality(media),
         completed |-> Cardinality({e.media : e \in {x \in events : x.kind = "finished"}})]

\* One page of the events that pass a filter, and what it says of them all.
Slice(s, from, count) == SubSeq(s, from + 1, IF from + count < Len(s) THEN from + count ELSE Len(s))
Pages(b, q, offset, limit) ==
    {[events |-> Slice(s, offset, limit), total |-> Len(s), more |-> offset + limit < Len(s)] :
        s \in Orders(b, Filtered(b, q))}
PageSummary(b, q) ==
    [all |-> Cardinality(Events(b)), years |-> EventYears(Events(b)),
     ambiguous |-> Ambiguous({e.media : e \in Events(b)}),
     summary |-> Summary(b, Filtered(b, q), {})]

-----------------------------------------------------------------------------
\* Buckets: months or years, by the day they begin with.
Finer(b, g) == {l \in b.logs : AtLeast(l, g)}
Key(date, g) == Anchor(date, g)
FoundEvents(b, query) == {e \in Events(b) : EventMatches(b, e, query)}
FoundMedia(b, query) ==
    {e.media : e \in FoundEvents(b, query)} \cup {m \in b.media : MediaMatches(b, m, query)}
Logged(b, g, query) == {l \in Finer(b, g) : \E m \in FoundMedia(b, query) : l.media = m.id}
YearEvents(b, year, query) == {e \in FoundEvents(b, query) : InYear(e.date, year)}
Keys(b, g, year, query) ==
    {k \in {Key(e.date, g) : e \in YearEvents(b, year, query)}
           \cup {Key(l.date, g) : l \in Logged(b, g, query)} : InYear(k, year)}

\* Covers are ranked by the share of the bucket's time and text.
Above(n) == IF n > 0 THEN n ELSE 1
Immersion(b, logs, m) ==
    LET mine(n) == Total({l \in logs : l.media = n.id})
        minutes == Above(Max({mine(n).minutes : n \in b.media}))
        chars == Above(Max({mine(n).chars : n \in b.media}))
    IN  mine(m).minutes * chars + mine(m).chars * minutes
\* Of equals the one whose event comes first, and before those without one.
Shown(b, logs, events, candidates) ==
    LET of(m) == {e \in events : e.media = m}
        comes(m, n) == IF of(n) = {} THEN of(m) # {} \/ m.id < n.id
                       ELSE \E e \in of(m) : \A f \in of(n) : Less(SortKey(b, e), SortKey(b, f))
        share(m) == Immersion(b, logs, m)
        ahead(m, n) == share(m) > share(n) \/ (share(m) = share(n) /\ comes(m, n))
    IN  {m \in candidates : Cardinality({n \in candidates : ahead(n, m)}) < Highlights}
Bucket(b, g, year, query, k) ==
    LET events == {e \in YearEvents(b, year, query) : Key(e.date, g) = k}
        logs == {l \in Logged(b, g, query) : Key(l.date, g) = k}
        logged == {m \in b.media : \E l \in logs : l.media = m.id}
        featured == {e \in events : e.kind \in {"started", "finished"}}
        candidates == {m \in {e.media : e \in featured} \cup logged : m.cover}
    IN  [key |-> k, total |-> Total(logs),
         count |-> [kind \in {e.kind : e \in events} |->
                        Cardinality({e \in events : e.kind = kind})],
         media |-> {e.media : e \in events} \cup logged,
         highlights |-> Shown(b, logs, featured, candidates)]

\* The latest are kept; the summary is of all of them.
Truncated_Oldest(keys) ==                                           \* a mutant
    {k \in keys : Cardinality({j \in keys : j < k}) < MaxBuckets}
Truncated(keys) == {k \in keys : Cardinality({j \in keys : j > k}) < MaxBuckets}
Buckets(b, g, year, query) ==
    {Bucket(b, g, year, query, k) : k \in Truncated(Keys(b, g, year, query))}
BucketYears(b, g) == EventYears(Events(b)) \cup {YearOf(l.date) : l \in Finer(b, g)}
BucketSummary(b, g, year, query) ==
    LET within == {l \in Logged(b, g, query) : Key(l.date, g) \in Keys(b, g, year, query)}
    IN  Summary(b, YearEvents(b, year, query), {m \in b.media : \E l \in within : l.media = m.id})
=============================================================================
