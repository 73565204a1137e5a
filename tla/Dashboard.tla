------------------------------ MODULE Dashboard ------------------------------
(***************************************************************************)
(* What the dashboard and the library list say of a library                *)
(* (dashboard_data.rs, library_data.rs).  Each read is one transaction, so *)
(* that a read is an operator of the library b it finds.                   *)
(***************************************************************************)
EXTENDS Timeline

CONSTANTS
    TopGroups,          \* groups a chart names, by minutes and by characters
    QuickLogs,          \* entries offered for a quick log
    WeekDays,           \* days of a week
    Weeks,              \* weeks the weekday statistics look back
    Other               \* the group of all that is not named

ASSUME DashboardAssumption == {QuickLogs, WeekDays} \subseteq Nat \ {0} /\ Weeks \in Nat

Zero == [minutes |-> 0, chars |-> 0]
MediaOf(b, l) == CHOOSE m \in b.media : m.id = l.media
AnyLatest(logs) == IF logs = {} THEN None ELSE Latest(logs)
AnyEarliest(logs) == IF logs = {} THEN None ELSE Earliest(logs)

-----------------------------------------------------------------------------
\* The groups that are named: the first few by minutes, and by characters.
By(field, other, totals, k) == <<- totals[k][field], - totals[k][other], k>>
Leading(totals, field, other) ==
    {k \in DOMAIN totals :
        Cardinality({j \in DOMAIN totals : Less(By(field, other, totals, j),
                                                By(field, other, totals, k))}) < TopGroups}
SelectTop(totals) == Leading(totals, "minutes", "chars") \cup Leading(totals, "chars", "minutes")

\* Totals by group, those that are not named as one.
TotalsBy(logs, groups, group) == [g \in groups |-> Total({l \in logs : group[l] = g})]
Folded(totals) ==
    LET top == SelectTop(totals)
        rest == DOMAIN totals \ top
        sum(field) == SumFunction([k \in rest |-> totals[k][field]])
        other == [minutes |-> sum("minutes"), chars |-> sum("chars")]
    IN  {[group |-> k, total |-> totals[k]] : k \in top}
        \cup (IF other = Zero THEN {} ELSE {[group |-> Other, total |-> other]})

-----------------------------------------------------------------------------
\* A range of days, charted day by day, month by month or year by year.
\* An activity belongs to it if it surely happened in it.
InRange(b, r) == {l \in b.logs : r.start <= l.date /\ End(l) <= r.end}
BucketOf(l, r) == IF AtLeast(l, r.bucket) THEN Anchor(l.date, r.bucket) ELSE None
GroupOf(l, r) == IF r.by = "type" THEN l.type ELSE l.media
Series(b, r) ==
    LET logs == InRange(b, r)
        groups == {GroupOf(l, r) : l \in logs}
        top == SelectTop(TotalsBy(logs, groups, [l \in logs |-> GroupOf(l, r)]))
        named(l) == IF GroupOf(l, r) \in top THEN GroupOf(l, r) ELSE Other
        point(l) == <<BucketOf(l, r), named(l)>>
    IN  {[bucket |-> p[1], group |-> p[2], total |-> Total({l \in logs : point(l) = p})] :
            p \in {point(l) : l \in logs}}
BucketTotals(b, r) ==
    LET logs == InRange(b, r)
    IN  {[bucket |-> k, total |-> Total({l \in logs : BucketOf(l, r) = k})] :
            k \in {BucketOf(l, r) : l \in logs}}

\* The bucket before the range, to compare the first one with.
PreviousSpan(r) ==
    LET first == Anchor(r.start, r.bucket) - Days(r.bucket)
    IN  [start |-> first, end |-> first + Days(r.bucket) - 1]
PreviousTotals(b, r) ==
    LET span == PreviousSpan(r)
    IN  [bucket |-> span.start, total |->
            Total({l \in b.logs : /\ span.start <= l.date /\ l.date <= span.end
                                  /\ AtLeast(l, r.bucket)})]

\* What kind of thing the time went to: the content of the entry if it is
\* known, or its type, or the activity's.
Category(b, l) ==
    LET m == MediaOf(b, l)
    IN  IF m.content # None THEN m.content ELSE IF m.type # None THEN m.type ELSE l.type
CategoryTotals(b, r) ==
    LET logs == InRange(b, r)
        category == [l \in logs |-> Category(b, l)]
    IN  Folded(TotalsBy(logs, {category[l] : l \in logs}, category))

-----------------------------------------------------------------------------
\* Days in a row.
Runs(days) == {p \in days \X days : p[1] <= p[2] /\ p[1] .. p[2] \subseteq days}
LongestStreak(days) == Max({0} \cup {p[2] - p[1] + 1 : p \in Runs(days)})
CurrentStreak(days, today) ==
    IF days = {} \/ today - Max(days) \notin {0, 1} THEN 0
    ELSE Max({p[2] - p[1] + 1 : p \in {q \in Runs(days) : q[2] = Max(days)}})
ActiveDays(logs) == {l.date : l \in {k \in logs : k.precision = "day"}}

\* What stood out in a range: at most one highlight of a kind.  Of those that
\* are level the one that was entered first, or the earlier day.
First(score) == CHOOSE k \in DOMAIN score : \A j \in DOMAIN score \ {k} : Less(score[k], score[j])
BuildHighlights(b, r) ==
    LET logs == InRange(b, r)
        ids == {l.media : l \in logs}
        days == ActiveDays(logs)
        mine(i) == {l \in logs : l.media = i}
        of(i) == Total(mine(i))
        onDay(d) == Total({l \in logs : l.precision = "day" /\ l.date = d})
        streak(i) == LongestStreak(ActiveDays(mine(i)))
        time == First([i \in ids |-> <<- of(i).minutes, - of(i).chars, i>>])
        text == First([i \in ids |-> <<- of(i).chars, - of(i).minutes, i>>])
        sessions == First([i \in ids |-> <<- Cardinality(mine(i)), - of(i).minutes, i>>])
        row == First([i \in ids |-> <<- streak(i), - of(i).minutes, i>>])
        day == First([d \in days |-> <<- onDay(d).minutes, - onDay(d).chars, d>>])
    IN  IF ids = {} THEN {}
        ELSE {h \in {[kind |-> "time", of |-> time, worth |-> of(time).minutes],
                     [kind |-> "text", of |-> text, worth |-> of(text).chars],
                     [kind |-> "sessions", of |-> sessions, worth |-> Cardinality(mine(sessions))],
                     [kind |-> "streak", of |-> row, worth |-> streak(row)]} : h.worth > 0}
             \cup (IF days = {} \/ onDay(day).minutes = 0 THEN {}
                   ELSE {[kind |-> "day", of |-> day, worth |-> onDay(day).minutes]})

RangeOf(b, r) ==
    [series |-> Series(b, r), totals |-> BucketTotals(b, r), previous |-> PreviousTotals(b, r),
     categories |-> CategoryTotals(b, r), highlights |-> BuildHighlights(b, r)]

-----------------------------------------------------------------------------
\* The whole history.
DayScoped(logs) == {l \in logs : l.precision = "day"}
Totals(b, today) ==
    LET types == {l.type : l \in b.logs}
    IN  [logs |-> Cardinality(b.logs), media |-> Cardinality(b.media),
         days |-> Cardinality(ActiveDays(b.logs)),
         first |-> AnyEarliest(b.logs), last |-> AnyLatest(b.logs),
         longest |-> LongestStreak(ActiveDays(b.logs)),
         current |-> CurrentStreak(ActiveDays(b.logs), today),
         total |-> Total(b.logs), dayScoped |-> Total(DayScoped(b.logs)),
         types |-> Folded(TotalsBy(b.logs, types, [l \in b.logs |-> l.type]))]

\* The days of a year with what was done on them.
HeatmapYear(b, year) ==
    {[date |-> d, total |-> Total({l \in DayScoped(b.logs) : l.date = d})] :
        d \in {l.date : l \in {k \in DayScoped(b.logs) : YearOf(k.date) = year}}}

\* The weekdays of the last weeks, each day a sample, logged or not.
Window(today) == today - Weeks * WeekDays + 1 .. today
Samples(b, today, weekday) ==
    [d \in {x \in Window(today) : x % WeekDays = weekday} |->
        Total({l \in DayScoped(b.logs) : l.date = d})]
SampleTotal(b, today, weekday) ==
    LET s == Samples(b, today, weekday)
    IN  [minutes |-> SumFunction([d \in DOMAIN s |-> s[d].minutes]),
         chars |-> SumFunction([d \in DOMAIN s |-> s[d].chars])]

\* A page of the activities, the latest first.
Newest(b) ==
    Sorted(b.logs, [l \in b.logs |-> <<- End(l), KeyLength(l.precision), - l.id>>])
RecentLogs(b, offset, limit) ==
    [total |-> Cardinality(b.logs), items |-> Slice(Newest(b), offset, limit)]

\* Entries to log next: the ongoing ones, the one logged last first.
Recency(b, m) ==
    LET l == AnyLatest(LogsOf(b, m))
    IN  IF l = None THEN <<1, 0, 0, 0>> ELSE <<0, - End(l), KeyLength(l.precision), - l.id>>
QuickKey(b, m) ==
    <<IF m.tracking = "Complete" THEN 1 ELSE 0>> \o Recency(b, m) \o <<m.title, m.id>>
QuickLogMedia(b) ==
    LET live == {m \in b.media : m.status # "Archived"}
    IN  Slice(Sorted(live, [m \in live |-> QuickKey(b, m)]), 0, QuickLogs)

\* The library list: each entry with the first and the last of its activities.
LibraryMetrics(b, m) ==
    [media |-> m.id, first |-> AnyEarliest(LogsOf(b, m)), last |-> AnyLatest(LogsOf(b, m)),
     total |-> Total(LogsOf(b, m))]
ListKey(b, m) ==
    LET l == AnyLatest(LogsOf(b, m))
    IN  (IF l = None THEN <<1, 0>> ELSE <<0, - End(l)>>) \o <<- m.id>>
LibraryMedia(b) == Sorted(b.media, [m \in b.media |-> ListKey(b, m)])
=============================================================================
