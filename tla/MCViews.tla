------------------------------ MODULE MCViews ------------------------------
EXTENDS Views
M(id, title, content) ==
    [id |-> id, title |-> title, variant |-> None, content |-> content, type |-> 1,
     tracking |-> "Ongoing", status |-> "Active", cover |-> TRUE]
L(id, m, d, p, t, minutes, chars) ==
    [id |-> id, media |-> m, date |-> d, precision |-> p, type |-> t,
     minutes |-> minutes, chars |-> chars]
\* Two entries of one title; a calendar of two years of two months of two days.
MCMedia == {M(1, 1, 5), M(2, 1, None)}
MCLogs == {L(1, 1, 4, "day", 1, 1, 0), L(2, 2, 4, "day", 1, 0, 2), L(3, 1, 6, "day", 2, 1, 1),
           L(4, 1, 4, "month", 2, 2, 0), L(5, 2, 0, "year", 2, 4, 1),
           L(6, 1, 3, "day", 2, 2, 0)}
MCStones == {[id |-> 1, media |-> 1, date |-> 4, name |-> 7]}
=============================================================================
