----------------------------- MODULE MCStartup -----------------------------
(***************************************************************************)
(* Small libraries for Startup: one of each kind of data that a path of    *)
(* the migration treats in its own way.                                    *)
(***************************************************************************)
EXTENDS Startup

Entry(n, title, variant, type, uid) ==
    [id |-> <<"id", n>>, title |-> title, variant |-> variant, type |-> type, uid |-> uid]
Log(n, m, type, what) ==
    [id |-> n, media |-> <<"id", m>>, type |-> type, what |-> what, uid |-> NoUid]
Stone(n, title, uid, what) ==
    [id |-> n, title |-> title, media |-> uid, what |-> what, uid |-> NoUid]
Padded == [text |-> "deluxe", padded |-> TRUE]
Both == {"user", "shared"}

Bundle(files, main, shared, own, media, logs, stones) ==
    [files |-> files, main |-> main, shared |-> shared, mainMedia |-> own,
     media |-> media, logs |-> logs, stones |-> stones,
     was |-> [media |-> media \cup own, logs |-> logs, stones |-> stones],
     gave |-> {}, chose |-> {}, before |-> {}]

\* Two entries, two activities that say the same, milestones of all kinds.
A == Entry(1, "A", Plain, Blank, TitleUid("A"))
OtherB == Entry(2, "B", Padded, "Reading", RandomUid(2))
Twins == {Log(1, 1, Blank, "hour"), Log(2, 1, Blank, "hour"), Log(3, 2, "Listening", "hour")}
Linked == {Stone(1, "A", TitleUid("A"), "start"), Stone(2, "B", NoUid, "start"),
           Stone(5, "A", RandomUid(2), "end")}
Lost == {Stone(3, "C", NoUid, "end"), Stone(4, "D", RandomUid(9), "end")}

One == {Stone(3, "C", RandomUid(9), "end")}

Old(v, stones) == Bundle(Both, v, v, {}, {A, OtherB}, Twins, stones)
Legacy(files) == Bundle(files, 0, 0, {[A EXCEPT !.uid = NoUid], [OtherB EXCEPT !.uid = NoUid]}, {},
                        Twins, {[s EXCEPT !.media = NoUid] : s \in Linked})
\* A profile with media of its own beside a shared file that has no identifiers yet.
Late == Bundle(Both, 0, 0, {[OtherB EXCEPT !.uid = NoUid]}, {[A EXCEPT !.uid = NoUid]}, Twins, {})
Single == Bundle(Both, 6, 6, {}, {[A EXCEPT !.type = "Reading"]}, {Log(1, 1, "Reading", "hour")},
                 Lost \cup {Stone(2, "A", NoUid, "start")})
Ready == LET b == Current(Old(5, Linked)) IN [b EXCEPT !.was = Rows(b)]

On(b) == [active |-> b, fallback |-> Absent]
MCLibraries ==
    { On(Absent), On(Old(1, Linked)), On(Old(4, Linked \cup One)), On(Single),
      On(Bundle(Both, 5, 5, {}, {A}, Twins, One)),
      On(Legacy({"user"})), On(Late), [active |-> Absent, fallback |-> Legacy({"user"})],
      On([Ready EXCEPT !.shared = 5]), On([Ready EXCEPT !.shared = 7]), On([Ready EXCEPT !.main = Latest + 1]) }
MCBackups == {Ready, Bundle(Both, 5, 5, {}, {A}, {Log(1, 1, Blank, "hour")}, One)}
MCVariants == {Padded}
=============================================================================
