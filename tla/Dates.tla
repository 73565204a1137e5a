------------------------------- MODULE Dates -------------------------------
(***************************************************************************)
(* Activities in time (db.rs).  An activity is dated by a day, a month or  *)
(* a year; it is stored with the first day it may have happened on, and    *)
(* the last one and the length of its date in writing follow from it.      *)
(*                                                                         *)
(* Days are numbered.  The calendar is a regular one: months of equal      *)
(* length, and as many in each year.                                       *)
(***************************************************************************)
EXTENDS Integers, FiniteSets, FiniteSetsExt, Functions

CONSTANTS MonthDays, YearDays       \* days in a month and in a year

ASSUME CalendarAssumption ==
    MonthDays \in Nat \ {0} /\ YearDays \in Nat \ {0} /\ YearDays % MonthDays = 0

Precision == {"day", "month", "year"}
Days(p) == CASE p = "day" -> 1 [] p = "month" -> MonthDays [] p = "year" -> YearDays
KeyLength(p) == CASE p = "day" -> 10 [] p = "month" -> 7 [] p = "year" -> 4

\* The first and the last day of the day, month or year around a day.
Anchor(d, p) == (d \div Days(p)) * Days(p)
End(l) == l.date + Days(l.precision) - 1
YearOf(d) == d \div YearDays

\* Whether an activity is dated finely enough to tell its month, say.
AtLeast(l, p) == KeyLength(l.precision) >= KeyLength(p)

\* The order of activities, latest first: of those that end on one day the
\* longest one, then the one that was entered last.
Later(l, k) ==
    \/ End(l) > End(k)
    \/ End(l) = End(k) /\ KeyLength(l.precision) < KeyLength(k.precision)
    \/ End(l) = End(k) /\ l.precision = k.precision /\ l.id > k.id
Latest(logs) == CHOOSE l \in logs : \A k \in logs \ {l} : Later(l, k)

\* And of those that begin on one day, for the earliest.
Earlier(l, k) ==
    \/ l.date < k.date
    \/ l.date = k.date /\ KeyLength(l.precision) < KeyLength(k.precision)
    \/ l.date = k.date /\ l.precision = k.precision /\ l.id < k.id
Earliest(logs) == CHOOSE l \in logs : \A k \in logs \ {l} : Earlier(l, k)

\* What a set of activities comes to: minutes and characters.
Minutes(logs) == SumFunction([l \in logs |-> l.minutes])
Chars(logs) == SumFunction([l \in logs |-> l.chars])
Total(logs) == [minutes |-> Minutes(logs), chars |-> Chars(logs)]
=============================================================================
