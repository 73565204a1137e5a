---------------------------- MODULE MCMergeCases ----------------------------
(***************************************************************************)
(* What a merge is about, side by side; the initial state says which.      *)
(* Either two devices edit, and the merge of what they have is examined in *)
(* every state (MergeCases), or a merge has brought twins, and the user    *)
(* settles them while editing (Twins).                                     *)
(***************************************************************************)
EXTENDS MergeCases

\* The items of the second part are numbers, and so are their records.
CONSTANTS Items, title, status, Name, Taken, Ours, Theirs, Changed, Statuses, MaxEdits

VARIABLES about, live, baseline, target, cloud, queue, phase, edits, touched, combined,
          back, owed

MCStamp == 1..3
MCLocalStamp == {1, 3}
MCRemoteStamp == {2}
MCItems == 1..3

Queue == INSTANCE Twins WITH
    Uid <- Items, Record <- Items, Scalar <- {title, status},
    Val <- Name \cup Statuses \cup {Ours, Theirs},
    Optional <- {}, Entry <- {}, Picture <- {}, Setting <- {}, Stamp <- {}

twins == <<live, baseline, target, cloud, queue, phase, edits, touched, combined, back,
           owed>>
MCVars == <<about, vars, twins>>

\* Items and records have names and statuses that tell them apart from what is absent.
ItemsAssumption ==
    /\ Items \subseteq Nat
    /\ Changed \subseteq Items /\ Taken \subseteq Name
    /\ title # status /\ {title, status} \cap Items = {}
    /\ LET Values == Name \cup Statuses \cup {Ours, Theirs}
       IN  /\ Absent \notin Values
           /\ Gone \notin [{title, status} \cup Items -> Values \cup {Absent}]
    /\ DeleteVsUpdate \notin {title, status} \cup Items
ASSUME ItemsAssumption

MCInit ==
    \/ about = "devices" /\ Init /\ Queue!Idle
    \/ /\ about = "twins" /\ Queue!Init
       /\ base = [library |-> [u \in Uid |-> Gone], pictures |-> [p \in Picture |-> Absent],
                  settings |-> [k \in Setting |-> Absent], tombstones |-> {}]
       /\ local = ContentOf(base) /\ remote = base

Devices == about = "devices" /\ UNCHANGED <<about, twins>>
Twins == about = "twins" /\ UNCHANGED <<about, vars>>

MCNext ==
    \/ Devices /\ Next
    \/ Twins /\ Queue!Next

MCSpec == MCInit /\ [][MCNext]_MCVars

SettledRight == Queue!SettledRight
=============================================================================
