-------------------------- MODULE SyncJournalProofs --------------------------
(***************************************************************************)
(* The journal of a sync is sound, no edit of the user is lost, "clean" is *)
(* honest, a choice is applied once and answered truly, and what others    *)
(* published is not taken back: for any items, values and commands and any *)
(* number of edits, publications, errors and crashes.                      *)
(*                                                                         *)
(* The properties are not inductive: between two replacements of a file, a *)
(* command relies on what it has in memory, and a recovery on what an      *)
(* earlier command had written.  IInv says both, step by step.             *)
(***************************************************************************)
EXTENDS SyncJournal, TLAPS

\* A journal's conflicts are open, of one item each, and not of a later operation.
Open(q) ==
    /\ \A k \in q.conflicts :
        /\ k.batch <= q.op
        /\ k.item # Twin => k.theirs \in Val /\ q.merged[k.item] # k.theirs
    /\ \A k, l \in q.conflicts : k.item = l.item => k = l

\* A journal in itself: its operation has been given a number, and its fields agree.
Sound(q) ==
    /\ q.op \in 1 .. minted
    /\ q.applied => q.phase \in {"apply", "replace"}
    /\ q.phase \in {"replace", "force"} => q.conflicts = {}
    /\ q.phase = "replace" => q.merged = q.remote.c
    /\ q.phase = "force" => "force" \in Commands
    /\ Open(q)

SoundInv == /\ marker <= minted
            /\ journal # None => Sound(journal)
            /\ p # None => Sound(p)

\* What a command has in memory, and what of it is in the journal.
Unmarked == {"covers", "applyBase", "applyStatus", "applyReceipt", "applyClear",
             "replaceBase", "replaceStatus", "replaceClear"}
OnApply == {"applyBase", "applyStatus", "applyReceipt", "applyClear"}
OnReplace == {"replaceBase", "replaceStatus", "replaceClear"}
OnQueue == {"queue", "queueJournal"}
OnWait == {"queueBase", "queueStatus"}
OnPause == {"pauseReceipt", "pauseJournal"}
OnSync == {"load", "capture", "clean"}
OnForce == {"forceLoad", "forceCapture"}
OnFinal == {"finalize", "finalizeStatus", "finalizeClear"}

Recovering == pc \in {"apply", "replace", "force"} => p # None /\ journal = p /\ p.phase = pc
Committing ==
    pc = "commit" => /\ p # None /\ journal = p /\ p.phase = "apply" /\ ~p.applied
                     /\ marker # p.op /\ live = p.baseline
Applied ==
    pc = "applied" =>
        /\ p # None /\ journal # None /\ p.phase \in {"apply", "replace"}
        /\ journal.phase = p.phase /\ journal.merged = p.merged /\ journal.remote = p.remote
        /\ journal.conflicts = p.conflicts /\ journal.op = p.op /\ journal.choice = p.choice
        /\ journal.applied \/ marker = p.op
Marked ==
    pc \in {"unmark"} \cup Unmarked =>
        /\ p # None /\ journal = p /\ p.applied
        /\ pc \in Unmarked => marker = 0
        /\ pc \in OnApply => p.phase = "apply"
        /\ pc \in OnReplace => p.phase = "replace"
        /\ pc = "replaceStatus" => base = p.remote
Pausing ==
    /\ pc \in OnPause => /\ p # None /\ p.phase = "apply" /\ marker # p.op
                         /\ journal # None /\ journal.phase = "apply" /\ p.conflicts # {}
    /\ pc = "pauseStatus" => /\ p # None /\ p.conflicts # {}
                             /\ journal # None /\ journal.phase = "await"
Queueing ==
    pc \in OnQueue =>
        /\ p # None /\ ~p.applied /\ p.op # marker
        /\ p.phase \in {"apply", "await"} => journal = None
Waits == pc \in OnWait => p # None /\ journal = p /\ p.phase = "await"
Choosing ==
    /\ pc \in {"choose", "chosen"} =>
            (journal = None \/ journal.phase = "await") /\ call = "resolve"
    /\ pc \in {"choose", "chosen"} \/ call \in {"resume", "resolve"} => asked # None
Recovered == pc = "recovered" => /\ p # None /\ (journal = None \/ journal.phase = "await")
                                 /\ call = "sync" /\ p.conflicts = {} => journal = None
Syncing == /\ pc = "idle" => p = None /\ call = "none"
           /\ pc \in OnSync => journal = None /\ p = None /\ call = "sync"
           /\ pc \in OnForce => "force" \in Commands
           /\ pc \in OnForce \cup {"replaceLoad"} => call \notin {"sync", "review"}
           /\ call \in {"sync", "review"} /\ p # None => p.phase \in {"apply", "await"}
           /\ call = "sync" /\ pc # "load" => seen # None
Publishing ==
    /\ pc \in {"publish"} \cup OnFinal =>
        /\ seen # None
        /\ journal # None => p # None /\ journal = p /\ p.phase = "force"
        /\ p # None /\ p.phase = "force" => journal = p
    /\ pc = "publish" => out # None /\ (journal # None => seen = p.remote /\ out = p.merged)
    /\ pc \in OnFinal /\ journal # None => seen.c = p.merged
    /\ pc = "finalizeStatus" => base = seen
    /\ pc = "forget" => p # None /\ journal = p /\ p.phase = "force"
    /\ pc \in {"capture", "clean", "forceCapture"} => seen # None
Queued == journal # None /\ journal.phase = "await" => ~journal.applied /\ marker # journal.op

CommandInv ==
    /\ Recovering /\ Committing /\ Applied /\ Marked /\ Pausing /\ Queueing /\ Waits
    /\ Choosing /\ Recovered /\ Syncing /\ Publishing /\ Queued

\* No choice that was journaled is asked for again.
Fresh(q) == \A c \in chosen : /\ c.token[2] < q.op
                              /\ \A k \in q.conflicts : TokenOf(k) # c.token
FreshInv ==
    /\ \A c \in chosen : c.token[2] <= minted
    /\ journal # None => Fresh(journal)
    /\ p # None => Fresh(p)
    /\ pc = "chosen" =>
        /\ p # None /\ journal # None /\ p.phase = "apply" /\ ~p.applied /\ p.choice # None
        /\ marker # p.op
        /\ p.choice.token[2] < p.op
        /\ \A c \in chosen : c.token # p.choice.token
        /\ \A k \in p.conflicts : TokenOf(k) # p.choice.token

\* What the user wrote survives the merge with a target: where the database is
\* as the target's baseline, it is what the target says.
Keeps(q, items) ==
    \A i \in items : own[i] # None /\ live[i] = q.baseline[i] => q.merged[i] = live[i]
\* A target differs from its baseline only where that is as expected.
Follows(q, expected, items) ==
    \A i \in items : q.baseline[i] # expected[i] => q.merged[i] = q.baseline[i]
KeepInv ==
    /\ journal # None /\ journal.phase \in {"apply", "await"} /\ ~journal.applied
            /\ marker # journal.op => Keeps(journal, Item)
    /\ pc \in OnQueue /\ p.phase \in {"apply", "await"} =>
            Keeps(p, Item) /\ Follows(p, base.c, Item)
    /\ pc \in OnPause => Keeps(p, Item)
    /\ pc = "chosen" => /\ Keeps(p, Item \ {p.choice.token[1]})
                        /\ Follows(p, journal.baseline, Item \ {p.choice.token[1]})

\* The next generation, if it is ours, is what the journal forced.
Taken(s) == cloud.gen = s.gen + 1 /\ cloud.by = "me"
LandInv ==
    /\ journal # None /\ journal.phase = "force" /\ Landed(journal) => cloud.c = journal.merged
    /\ pc \in OnQueue /\ p.phase = "force" => ~Landed(p)
    /\ pc = "forceCapture" => ~Taken(seen)

\* While the library and the cloud differ, the status is not "clean".
StatusInv ==
    status = "clean" =>
        /\ journal # None => journal.phase \in {"replace", "force"}
        /\ pc \notin OnSync \cup OnQueue \cup OnWait \cup OnForce \cup {"replaceLoad"}
        /\ pc \in {"publish", "finalize"} => journal # None
        /\ pc = "recovered" => call # "sync"

MarkerInv == "force" \notin Commands /\ marker # 0 => journal # None

\* Without downloads and forced publications: the last choice that was journaled
\* is the one in the journal, or else the one of the receipt.
Latest == IF journal # None /\ journal.phase = "apply" /\ journal.choice # None
          THEN journal.choice ELSE receipt
Answering ==
    /\ journal # None => journal.phase \in {"apply", "await"}
    /\ p # None => p.phase \in {"apply", "await"}
    /\ {receipt, Latest} \subseteq chosen \cup {None}
    /\ \A c \in chosen : asked # None /\ c.token = asked.token => Latest = c
    /\ pc \in OnPause => p.choice = journal.choice
    /\ pc \in {"applyClear", "pauseJournal"} /\ p.choice # None => receipt = p.choice
    /\ pc = "chosen" => p.choice = asked
    /\ pc \in OnQueue => p.choice = None /\ call \in {"sync", "review"}
    /\ pc \in {"publish"} \cup OnFinal => call = "sync"
    /\ pc # "replaceLoad"
    /\ call = "resolve" => pc \in {"choose", "chosen"} \/ asked \in chosen
AnswerInv == Commands \subseteq {"sync", "resolve"} => Answering

\* Without forced publications: generations do not repeat, and of the items that
\* the user left alone the database holds what some snapshot says.
Dated(s) == s.gen <= cloud.gen /\ (s.gen = cloud.gen => s = cloud)
Same(c, d) == \A i \in Item \ edited : c[i] = d[i]
FromRemote(q) == /\ Dated(q.remote) /\ Same(q.merged, q.remote.c)
                 /\ \A k \in q.conflicts : k.item \in edited \cup {Twin}
Committed(q) == q.applied \/ marker = q.op
Following ==
    /\ Dated(base) /\ (seen # None => Dated(seen))
    /\ journal # None => FromRemote(journal)
    /\ p # None => FromRemote(p)
    /\ journal = None => Same(live, base.c)
    /\ journal # None /\ Committed(journal) => Same(live, journal.merged)
    /\ journal # None /\ journal.phase # "replace" /\ ~Committed(journal) =>
            Same(live, journal.baseline)
    /\ pc \in OnQueue \cup OnPause \cup {"chosen"} /\ p.phase # "replace" =>
            Same(live, p.baseline)
    /\ pc \in {"applyStatus", "applyReceipt", "applyClear", "replaceStatus", "replaceClear"} =>
            base = p.remote
    /\ call = "sync" /\ p # None /\ pc \notin OnFinal => p.remote = seen
    /\ pc = "recovered" /\ call = "sync" /\ p.conflicts = {} => base = seen
    /\ pc = "clean" => base = seen
    /\ pc = "capture" /\ base.gen = seen.gen => base = seen
    /\ pc = "publish" => Same(out, seen.c) /\ Same(live, seen.c)
    /\ pc \in OnFinal => Same(live, seen.c)
FollowInv == "force" \notin Commands => Following

IInv == /\ TypeOK /\ SoundInv /\ CommandInv /\ FreshInv /\ KeepInv /\ NoEditLost
        /\ LandInv /\ StatusInv /\ CleanIsHonest /\ ChosenOnce /\ MarkerInv
        /\ AnswerInv /\ FollowInv

USE ConstantsAssumption

-----------------------------------------------------------------------------
\* What the operations on a journal make of it.

Typed(q) ==
    /\ q \in Pending /\ q.phase \in {"await", "apply", "replace", "force"}
    /\ q.baseline \in Content /\ q.merged \in Content
    /\ q.remote \in Snapshot /\ q.remote.c \in Content /\ q.remote.gen \in Nat
    /\ q.conflicts \in SUBSET Conflict
    /\ \A k \in q.conflicts :
        /\ k.item \in Item \cup {Twin} /\ k.theirs \in Val \cup {None} /\ k.batch \in Nat
        /\ TokenOf(k) \in Token /\ TokenOf(k)[1] = k.item /\ TokenOf(k)[2] = k.batch
    /\ q.op \in Nat /\ q.applied \in BOOLEAN
    /\ q.choice \in Choice \cup {None} /\ None \notin Choice
    /\ q.choice # None =>
        /\ q.choice.token \in Token /\ q.choice.token[1] \in Item \cup {Twin}
        /\ q.choice.token[2] \in Nat

LEMMA Fields == ASSUME NEW q \in Pending PROVE Typed(q)
<1>1. /\ q.phase \in {"await", "apply", "replace", "force"}
      /\ q.baseline \in Content /\ q.merged \in Content
      /\ q.remote \in Snapshot /\ q.conflicts \in SUBSET Conflict
      /\ q.op \in Nat /\ q.applied \in BOOLEAN /\ q.choice \in Choice \cup {None}
    BY DEF Pending
<1>2. q.remote.c \in Content /\ q.remote.gen \in Nat
    BY <1>1 DEF Snapshot
<1>3. \A k \in Conflict :
        /\ k.item \in Item \cup {Twin} /\ k.theirs \in Val \cup {None} /\ k.batch \in Nat
        /\ TokenOf(k) \in Token /\ TokenOf(k)[1] = k.item /\ TokenOf(k)[2] = k.batch
    BY DEF Conflict, TokenOf, Token
<1>4. \A c \in Choice :
        c.token \in Token /\ c.token[1] \in Item \cup {Twin} /\ c.token[2] \in Nat
    BY DEF Choice, Token
<1> QED BY <1>1, <1>2, <1>3, <1>4 DEF Typed

LEMMA Known ==
    ASSUME TypeOK
    PROVE  /\ p # None => Typed(p)
           /\ journal # None => Typed(journal)
           /\ seen # None => seen \in Snapshot /\ seen.c \in Content /\ seen.gen \in Nat
           /\ live \in Content /\ base.c \in Content /\ cloud.c \in Content
           /\ base \in Snapshot /\ cloud \in Snapshot /\ cloud.gen \in Nat /\ base.gen \in Nat
           /\ \A c \in chosen : c \in Choice /\ c.token \in Token /\ c.token[2] \in Nat
           /\ marker \in Nat /\ minted \in Nat /\ minted + 1 \in Nat
<1>1. \A c \in Choice : c.token \in Token /\ c.token[2] \in Nat
    BY DEF Choice, Token
<1>2. chosen \subseteq Choice /\ marker \in Nat /\ minted \in Nat
    BY DEF TypeOK
<1> QED BY <1>1, <1>2, Fields DEF TypeOK, Snapshot

LEMMA WaitingIs ==
    ASSUME NEW q \in Pending
    PROVE  /\ Waiting(q) \in Pending /\ Waiting(q) # None
           /\ Waiting(q).phase = "await" /\ ~Waiting(q).applied /\ Waiting(q).choice = None
           /\ Waiting(q).baseline = q.baseline /\ Waiting(q).merged = q.merged
           /\ Waiting(q).remote = q.remote /\ Waiting(q).conflicts = q.conflicts
           /\ Waiting(q).op = q.op
BY ZenonT(30) DEF Waiting, Pending

LEMMA SettledIs ==
    ASSUME NEW q \in Pending
    PROVE  \/ q.conflicts = {} /\ Settled(q) = None
           \/ /\ q.conflicts # {} /\ Settled(q) \in Pending /\ Settled(q) # None
              /\ Settled(q).phase = "await" /\ ~Settled(q).applied /\ Settled(q).choice = None
              /\ Settled(q).baseline = q.merged /\ Settled(q).merged = q.merged
              /\ Settled(q).remote = q.remote /\ Settled(q).conflicts = q.conflicts
              /\ Settled(q).op = q.op
BY ZenonT(30) DEF Settled, Waiting, Pending

LEMMA BaselinedIs ==
    ASSUME NEW q \in Pending, NEW r, r = [q EXCEPT !.baseline = q.merged]
    PROVE  /\ r \in Pending /\ r # None /\ r.baseline = q.merged
           /\ r.phase = q.phase /\ r.merged = q.merged /\ r.remote = q.remote
           /\ r.conflicts = q.conflicts /\ r.op = q.op /\ r.applied = q.applied
           /\ r.choice = q.choice
BY DEF Pending

LEMMA AppliedIs ==
    ASSUME NEW q \in Pending, NEW r, r = [q EXCEPT !.applied = TRUE]
    PROVE  /\ r \in Pending /\ r # None /\ r.applied
           /\ r.phase = q.phase /\ r.baseline = q.baseline /\ r.merged = q.merged
           /\ r.remote = q.remote /\ r.conflicts = q.conflicts /\ r.op = q.op
           /\ r.choice = q.choice
BY DEF Pending

\* A rebase keeps the operation, and what it adds are clashes of its own.
LEMMA RebasedIs ==
    ASSUME NEW q \in Pending, live \in Content, NEW r, r = Rebased(q)
    PROVE  /\ r \in Pending /\ r # None
           /\ r.phase = q.phase /\ r.baseline = live /\ r.merged = Folded(q)
           /\ r.remote = q.remote /\ r.op = q.op /\ r.applied = q.applied /\ r.choice = q.choice
           /\ r.conflicts \subseteq Rejoined(q)
           /\ \A k \in r.conflicts : k.item # Twin => Folded(q)[k.item] # k.theirs
<1>1. Folded(q) \in Content /\ Rejoined(q) \in SUBSET Conflict
    BY Fields DEF Folded, Rejoined, Content, Conflict, Merged, Typed
<1>2. {k \in Rejoined(q) : k.item = Twin \/ Folded(q)[k.item] # k.theirs} \in SUBSET Conflict
    BY <1>1
<1> HIDE DEF Folded, Rejoined
<1> QED BY <1>1, <1>2 DEF Rebased, Pending

LEMMA RejoinedIs ==
    ASSUME NEW q \in Pending, NEW k \in Rejoined(q)
    PROVE  \/ k \in q.conflicts
           \/ /\ k.item \in Item /\ k.theirs = q.merged[k.item] /\ k.batch = q.op
              /\ \A j \in q.conflicts : j.item # k.item
              /\ k = [item |-> k.item, theirs |-> q.merged[k.item], batch |-> q.op]
BY DEF Rejoined

LEMMA RebasedOpen == ASSUME TypeOK, NEW q \in Pending, Open(q) PROVE Open(Rebased(q))
<1> DEFINE r == Rebased(q)
<1>1. Typed(q) /\ live \in Content
    BY Fields, Known
<1>2. /\ r.merged = Folded(q) /\ r.op = q.op /\ r.conflicts \subseteq Rejoined(q)
      /\ \A k \in r.conflicts : k.item # Twin => Folded(q)[k.item] # k.theirs
    BY <1>1, RebasedIs
<1> HIDE DEF r
<1>3. \A k \in Rejoined(q) :
        \/ k \in q.conflicts
        \/ /\ k.item \in Item /\ k.theirs = q.merged[k.item] /\ k.batch = q.op
           /\ \A j \in q.conflicts : j.item # k.item
           /\ k = [item |-> k.item, theirs |-> q.merged[k.item], batch |-> q.op]
    BY RejoinedIs
<1>4. \A k \in r.conflicts : k.batch <= r.op /\ (k.item # Twin => k.theirs \in Val)
    BY <1>1, <1>2, <1>3 DEF Open, Typed, Content
<1>5. \A k, l \in r.conflicts : k.item = l.item => k = l
    BY <1>1, <1>2, <1>3 DEF Open
<1>6. Open(r)
    BY <1>2, <1>4, <1>5 DEF Open
<1> QED BY <1>6 DEF r

LEMMA DatedLater ==
    ASSUME cloud \in Snapshot, cloud'.gen = cloud.gen + 1, NEW s \in Snapshot, Dated(s)
    PROVE  Dated(s)'
BY DEF Dated, Snapshot

\* A rebase takes nothing from the items that the user left alone.
LEMMA RebasedFollows ==
    ASSUME TypeOK, NEW q \in Pending, FromRemote(q), Same(live, q.baseline)
    PROVE  FromRemote(Rebased(q))
<1> DEFINE r == Rebased(q)
<1>1. Typed(q) /\ live \in Content
    BY Fields, Known
<1>2. r.merged = Folded(q) /\ r.remote = q.remote /\ r.conflicts \subseteq Rejoined(q)
    BY <1>1, RebasedIs
<1> HIDE DEF r
<1>3. Same(Folded(q), q.merged)
    BY DEF Same, Folded, Merged
<1>4. Same(r.merged, r.remote.c)
    BY <1>2, <1>3 DEF FromRemote, Same
<1>5. \A k \in Rejoined(q) : k.item \in edited \cup {Twin}
    BY DEF Rejoined, Clash, FromRemote, Same
<1>6. FromRemote(r)
    BY <1>2, <1>4, <1>5 DEF FromRemote
<1> QED BY <1>6 DEF r

-----------------------------------------------------------------------------
LEMMA NewPendingIs ==
    ASSUME NEW phase \in {"await", "apply", "replace", "force"}, NEW baseline \in Content,
           NEW target \in Content, NEW remote \in Snapshot, NEW conflicts \in SUBSET Conflict,
           NEW n \in Nat,
           NEW r, r = [phase |-> phase, baseline |-> baseline, merged |-> target,
                       remote |-> remote, conflicts |-> conflicts, op |-> n,
                       applied |-> FALSE, choice |-> None]
    PROVE  /\ r \in Pending /\ r # None /\ r.phase = phase /\ r.baseline = baseline
           /\ r.merged = target /\ r.remote = remote /\ r.conflicts = conflicts
           /\ r.op = n /\ ~r.applied /\ r.choice = None
<1>1. r \in Pending
    BY DEF Pending
<1> QED BY <1>1

LEMMA RenumberedIs ==
    ASSUME NEW q \in Pending, NEW n \in Nat, n >= q.op, Open(q), NEW r, r = [q EXCEPT !.op = n]
    PROVE  /\ r \in Pending /\ r.op = n /\ Open(r)
           /\ r.phase = q.phase /\ r.baseline = q.baseline /\ r.merged = q.merged
           /\ r.remote = q.remote /\ r.conflicts = q.conflicts /\ r.applied = q.applied
<1>1. /\ r \in Pending /\ r.op = n
      /\ r.phase = q.phase /\ r.baseline = q.baseline /\ r.merged = q.merged
      /\ r.remote = q.remote /\ r.conflicts = q.conflicts /\ r.applied = q.applied
    BY DEF Pending
<1>2. \A k \in q.conflicts : k.batch \in Nat
    BY Fields DEF Typed
<1> QED BY <1>1, <1>2, Fields DEF Open, Typed

\* The target that a resolution journals.
Answered(q, side) ==
    [Chosen(q, side) EXCEPT !.phase = "apply", !.applied = FALSE, !.choice = asked]

\* A choice settles the conflicts with its token and touches only their item.
LEMMA ChosenIs ==
    ASSUME NEW q \in Pending, Open(q), NEW side, asked \in Choice,
           NEW r, r = Answered(q, side)
    PROVE  /\ r \in Pending /\ r # None /\ r.phase = "apply" /\ ~r.applied /\ r.choice = asked
           /\ r.baseline = q.baseline /\ r.remote = q.remote /\ r.op = q.op
           /\ \A k \in r.conflicts : k \in q.conflicts /\ TokenOf(k) # asked.token
           /\ \A i \in Item : i # asked.token[1] => r.merged[i] = q.merged[i]
           /\ Open(r)
<1> DEFINE answered == {k \in q.conflicts : TokenOf(k) = asked.token}
           merged == [i \in Item |-> IF side = "theirs" /\ \E k \in answered : k.item = i
                                     THEN (CHOOSE k \in answered : TRUE).theirs ELSE q.merged[i]]
<1>1. Typed(q)
    BY Fields
<1>2. \A k \in answered : k.item = asked.token[1]
    BY <1>1 DEF Typed
<1>3. merged \in Content
  <2> SUFFICES ASSUME NEW i \in Item PROVE merged[i] \in Val
    BY DEF Content
  <2>1. CASE side = "theirs" /\ \E k \in answered : k.item = i
    <3>1. PICK k \in answered : k.item = i
      BY <2>1
    <3> DEFINE d == CHOOSE j \in answered : TRUE
    <3>2. d \in answered
      BY <3>1
    <3>3. d.item = i
      BY <1>2, <3>1, <3>2
    <3>4. d.theirs \in Val
      BY <3>2, <3>3 DEF Open
    <3> QED BY <2>1, <3>4
  <2>2. CASE ~(side = "theirs" /\ \E k \in answered : k.item = i)
    BY <1>1, <2>2 DEF Typed, Content
  <2> QED BY <2>1, <2>2
<1>4. q.conflicts \ answered \in SUBSET Conflict
    BY <1>1 DEF Typed
<1>5. \A i \in Item : i # asked.token[1] => merged[i] = q.merged[i]
    BY <1>2
<1>6. \A k \in q.conflicts \ answered : k.item \in Item => merged[k.item] = q.merged[k.item]
    BY DEF Open
<1>7. r = [q EXCEPT !.merged = merged, !.conflicts = q.conflicts \ answered,
                    !.phase = "apply", !.applied = FALSE, !.choice = asked]
    BY DEF Answered, Chosen, Pending
<1> HIDE DEF merged
<1> HIDE DEF answered
<1>8. /\ r \in Pending /\ r # None /\ r.phase = "apply" /\ ~r.applied /\ r.choice = asked
      /\ r.baseline = q.baseline /\ r.remote = q.remote /\ r.op = q.op
      /\ r.merged = merged /\ r.conflicts = q.conflicts \ answered
  <2> HIDE DEF Open
  <2>1. r \in Pending
    BY <1>3, <1>4, <1>7, ZenonT(30) DEF Pending
  <2> QED BY <1>7, <2>1 DEF Pending
<1>9. Open(r)
    BY <1>1, <1>6, <1>8 DEF Open, Typed
<1>10. \A k \in r.conflicts : k \in q.conflicts /\ TokenOf(k) # asked.token
    BY <1>8 DEF answered
<1> QED BY <1>5, <1>8, <1>9, <1>10

-----------------------------------------------------------------------------
\* What the actions leave alone, and the parts of CommandInv, are read as they stand.
USE DEF disk, memory, client, history, bounds,
        Recovering, Committing, Applied, Marked, Pausing, Queueing, Waits, Choosing,
        Recovered, Syncing, Publishing, Queued,
        Unmarked, OnApply, OnReplace, OnQueue, OnWait, OnPause, OnSync, OnForce, OnFinal

LEMMA LoadRemoteKeeps == ASSUME IInv, LoadRemote PROVE IInv'
<1> USE DEF IInv, LoadRemote
<1>a. cloud # None /\ journal = None /\ p = None /\ cloud.gen <= cloud.gen
    BY Known DEF TypeOK, CommandInv
<1>1. (CommandInv /\ FollowInv)'
    BY <1>a DEF CommandInv, FollowInv, Following, Dated, Same, FromRemote, Committed
<1>2. (TypeOK /\ SoundInv /\ FreshInv /\ KeepInv /\ NoEditLost /\ LandInv /\ StatusInv /\
   CleanIsHonest /\ ChosenOnce /\ MarkerInv /\ AnswerInv)'
    BY DEF TypeOK, SoundInv, Sound, Open, FreshInv, Fresh, KeepInv, Keeps, Follows, NoEditLost,
       LandInv, Landed, Taken, StatusInv, CleanIsHonest, ChosenOnce, MarkerInv, AnswerInv,
       Answering, Latest
<1> QED BY <1>1, <1>2

LEMMA CaptureLocalKeeps == ASSUME IInv, CaptureLocal PROVE IInv'
<1> USE DEF IInv, CaptureLocal
<1>a. /\ live # None /\ live \in Content /\ journal = None /\ seen # None /\ call = "sync"
      /\ (p # None => p.phase \in {"apply", "await"})
    BY Known DEF Typed, TypeOK, CommandInv
<1>1. (CommandInv /\ AnswerInv)'
    BY <1>a DEF CommandInv, AnswerInv, Answering, Latest
<1>2. (TypeOK /\ SoundInv /\ FreshInv /\ KeepInv /\ NoEditLost /\ LandInv /\ StatusInv /\
   CleanIsHonest /\ ChosenOnce /\ MarkerInv /\ FollowInv)'
    BY DEF TypeOK, SoundInv, Sound, Open, FreshInv, Fresh, KeepInv, Keeps, Follows, NoEditLost,
       LandInv, Landed, Taken, StatusInv, CleanIsHonest, ChosenOnce, MarkerInv, FollowInv,
       Following, Dated, Same, FromRemote, Committed, RemoteIsBase, CommandInv
<1> QED BY <1>1, <1>2

LEMMA StayCleanKeeps == ASSUME IInv, StayClean PROVE IInv'
<1> USE DEF IInv, StayClean, Return
<1>a. /\ live # None /\ live \in Content /\ journal = None /\ seen # None /\ call = "sync"
      /\ (p # None => p.phase \in {"apply", "await"})
    BY Known DEF Typed, TypeOK, CommandInv
<1>1. (TypeOK /\ CommandInv /\ MarkerInv /\ AnswerInv)'
    BY <1>a DEF TypeOK, CommandInv, MarkerInv, AnswerInv, Answering, Latest
<1>2. FollowInv'
    BY <1>a DEF FollowInv, Following, Dated, Same, FromRemote, Committed
<1>3. (SoundInv /\ FreshInv /\ KeepInv /\ NoEditLost /\ LandInv /\ StatusInv /\ CleanIsHonest /\
   ChosenOnce)'
    BY DEF SoundInv, Sound, Open, FreshInv, Fresh, KeepInv, Keeps, Follows, NoEditLost, LandInv,
       Landed, Taken, StatusInv, CleanIsHonest, ChosenOnce
<1> QED BY <1>1, <1>2, <1>3

LEMMA CaptureMergeKeeps == ASSUME IInv, CaptureMerge PROVE IInv'
<1> USE DEF IInv, CaptureMerge, Track
<1>a. /\ live \in Content /\ base.c \in Content /\ seen \in Snapshot /\ seen # None
      /\ seen.c \in Content /\ journal = None /\ call = "sync"
      /\ minted + 1 \in Nat /\ minted \in Nat
      /\ (\A c \in chosen : c.token[2] \in Nat) /\ marker \in Nat
    BY Known DEF Typed, TypeOK, CommandInv
<1>b. PICK phase \in {"apply", "await"}, conflicts \in SUBSET Conflict, target \in Content :
        /\ p' = [phase |-> phase, baseline |-> live, merged |-> target, remote |-> seen,
                  conflicts |-> conflicts, op |-> minted + 1, applied |-> FALSE,
                  choice |-> None]
        /\ \A i \in Item : target[i] = Merged(base.c[i], live[i], seen.c[i])
        /\ \A k \in conflicts :
            /\ k.batch = minted + 1
            /\ k.item # Twin => /\ k.item \in Item /\ k.theirs = seen.c[k.item]
                               /\ Clash(base.c[k.item], live[k.item], seen.c[k.item])
        /\ \A k, l \in conflicts : k.item = l.item => k = l
  <2> DEFINE n == minted + 1
             clashes == {i \in Item : Clash(base.c[i], live[i], seen.c[i])}
             conflicts == {[item |-> i, theirs |-> seen.c[i], batch |-> n] : i \in clashes}
             twin == [item |-> Twin, theirs |-> None, batch |-> n]
             target == [i \in Item |-> Merged(base.c[i], live[i], seen.c[i])]
  <2>1. \/ p' = NewPending("apply", target, seen, conflicts)
        \/ p' = NewPending("await", target, seen, conflicts \cup {twin})
    OBVIOUS
  <2>2. target \in Content /\ \A i \in Item : target[i] = Merged(base.c[i], live[i], seen.c[i])
    BY <1>a DEF Content, Merged
  <2>3. conflicts \subseteq Conflict /\ twin \in Conflict
    BY <1>a DEF Conflict, Content
  <2>4. \A k \in conflicts :
            /\ k.batch = n /\ k.item \in Item /\ k.theirs = seen.c[k.item]
            /\ Clash(base.c[k.item], live[k.item], seen.c[k.item])
            /\ k = [item |-> k.item, theirs |-> seen.c[k.item], batch |-> n]
    OBVIOUS
  <2>5. twin.item = Twin /\ twin.batch = n
    OBVIOUS
  <2> HIDE DEF clashes, conflicts, twin, target
  <2>6. CASE p' = NewPending("apply", target, seen, conflicts)
    <3>1. /\ conflicts \in SUBSET Conflict
          /\ \A k \in conflicts :
                /\ k.batch = n
                /\ k.item # Twin => /\ k.item \in Item /\ k.theirs = seen.c[k.item]
                                   /\ Clash(base.c[k.item], live[k.item], seen.c[k.item])
          /\ \A k, l \in conflicts : k.item = l.item => k = l
      BY <2>3, <2>4
    <3>2. p' = [phase |-> "apply", baseline |-> live, merged |-> target, remote |-> seen,
                conflicts |-> conflicts, op |-> n, applied |-> FALSE, choice |-> None]
      BY <2>6 DEF NewPending
    <3> QED BY <2>2, <3>1, <3>2
  <2>7. CASE p' = NewPending("await", target, seen, conflicts \cup {twin})
    <3>1. conflicts \cup {twin} \in SUBSET Conflict
      BY <2>3
    <3>2. /\ \A k \in conflicts \cup {twin} :
                /\ k.batch = n
                /\ k.item # Twin => /\ k.item \in Item /\ k.theirs = seen.c[k.item]
                                   /\ Clash(base.c[k.item], live[k.item], seen.c[k.item])
          /\ \A k, l \in conflicts \cup {twin} : k.item = l.item => k = l
      BY <2>4, <2>5
    <3> QED BY <2>2, <2>7, <3>1, <3>2 DEF NewPending
  <2> QED BY <2>1, <2>6, <2>7
<1>c. /\ p' \in Pending /\ p' # None /\ p'.phase = phase /\ p'.baseline = live
      /\ p'.merged = target /\ p'.remote = seen /\ p'.conflicts = conflicts
      /\ p'.op = minted + 1 /\ ~p'.applied /\ p'.choice = None
    BY <1>a, <1>b, NewPendingIs, SMTT(20)
<1>d. \A i \in Item : own'[i] # None =>
        /\ own'[i] = own[i] /\ live[i] = own[i] /\ live[i] # base.c[i]
    BY <1>a DEF NoEditLost
<1>e. \A i \in Item : live[i] # base.c[i] => target[i] = live[i]
    BY <1>b DEF Merged
<1>f. \A k \in conflicts : k.item # Twin => k.theirs \in Val /\ target[k.item] # k.theirs
    BY <1>a, <1>b DEF Clash, Merged, Content
<1>g. status # "clean"
    BY DEF StatusInv
<1>h. \A k \in conflicts : TokenOf(k)[2] = minted + 1
    BY <1>b DEF TokenOf
<1>i. marker # minted + 1
    BY <1>a DEF SoundInv
<1>j. "force" \notin Commands => /\ Same(live, base.c) /\ FromRemote(p')
    BY <1>a, <1>b, <1>c DEF FollowInv, Following, FromRemote, Same, Merged, Clash
<1>1. SoundInv'
    BY <1>a, <1>b, <1>f DEF SoundInv, Sound, Open
<1>2. (TypeOK /\ FreshInv /\ LandInv /\ AnswerInv)'
    BY <1>a, <1>c, <1>h DEF FreshInv, Fresh, AnswerInv, Answering, Latest, TypeOK, LandInv,
       Landed, Taken
<1>3. KeepInv'
    BY <1>c, <1>d, <1>e DEF KeepInv, Keeps, Follows
<1>4. CommandInv'
    BY <1>c, <1>i DEF CommandInv
<1>5. FollowInv'
    BY <1>c, <1>j DEF FollowInv, Following, Dated, Same, FromRemote, Committed
<1>6. (NoEditLost /\ StatusInv /\ CleanIsHonest /\ ChosenOnce /\ MarkerInv)'
    BY DEF NoEditLost, StatusInv, CleanIsHonest, ChosenOnce, MarkerInv
<1> QED BY <1>1, <1>2, <1>3, <1>4, <1>5, <1>6

LEMMA QueueReceiptKeeps == ASSUME IInv, QueueReceipt PROVE IInv'
<1> USE DEF IInv, QueueReceipt, Go
<1>1. (TypeOK /\ SoundInv /\ CommandInv /\ FreshInv /\ KeepInv /\ NoEditLost /\ LandInv /\
   StatusInv /\ CleanIsHonest /\ ChosenOnce /\ MarkerInv /\ AnswerInv /\ FollowInv)'
    BY DEF TypeOK, SoundInv, Sound, Open, CommandInv, FreshInv, Fresh, KeepInv, Keeps, Follows,
       NoEditLost, LandInv, Landed, Taken, StatusInv, CleanIsHonest, ChosenOnce, MarkerInv,
       AnswerInv, Answering, Latest, FollowInv, Following, Dated, Same, FromRemote, Committed
<1> QED BY <1>1

LEMMA QueueJournalKeeps == ASSUME IInv, QueueJournal PROVE IInv'
<1> USE DEF IInv, QueueJournal, Go
<1>a. /\ p # None /\ p \in Pending /\ ~p.applied /\ p.op # marker /\ Typed(p)
      /\ p.phase \in {"await", "apply", "replace", "force"}
      /\ (p.phase \in {"apply", "await"} => journal = None)
    BY Known DEF Typed, TypeOK, CommandInv
<1>b. status # "clean"
    BY DEF StatusInv
<1>c. Sound(p)
    BY <1>a DEF SoundInv
<1>1. (TypeOK /\ CommandInv /\ FreshInv /\ KeepInv)'
    BY <1>a, <1>c DEF TypeOK, Sound, CommandInv, FreshInv, Fresh, KeepInv, Follows, Keeps
<1>2. (LandInv /\ MarkerInv /\ AnswerInv /\ FollowInv)'
    BY <1>a DEF LandInv, Landed, Taken, MarkerInv, AnswerInv, Answering, Latest, FollowInv,
       Committed, Dated, Following, FromRemote, Same
<1>3. CleanIsHonest'
    BY <1>b DEF CleanIsHonest
<1>4. (SoundInv /\ NoEditLost /\ StatusInv /\ ChosenOnce)'
    BY DEF SoundInv, Open, Sound, NoEditLost, StatusInv, ChosenOnce
<1> QED BY <1>1, <1>2, <1>3, <1>4

LEMMA QueueBaseKeeps == ASSUME IInv, QueueBase PROVE IInv'
<1> USE DEF IInv, QueueBase, Go, Track
<1>a. /\ p # None /\ journal = p /\ p.phase = "await" /\ p.remote \in Snapshot
      /\ p.remote.c \in Content
    BY Known DEF Typed, TypeOK, SoundInv, Sound, CommandInv
<1>b. status # "clean"
    BY DEF StatusInv
<1>1. (TypeOK /\ FollowInv)'
    BY <1>a DEF TypeOK, FollowInv, Following, Dated, Same, FromRemote, Committed
<1>2. CleanIsHonest'
    BY <1>b DEF CleanIsHonest
<1>3. (SoundInv /\ CommandInv /\ FreshInv /\ KeepInv /\ NoEditLost /\ LandInv /\ StatusInv /\
   ChosenOnce /\ MarkerInv /\ AnswerInv)'
    BY DEF SoundInv, Sound, Open, CommandInv, FreshInv, Fresh, KeepInv, Keeps, Follows,
       NoEditLost, LandInv, Landed, Taken, StatusInv, ChosenOnce, MarkerInv, AnswerInv,
       Answering, Latest
<1> QED BY <1>1, <1>2, <1>3

LEMMA QueueStatusKeeps == ASSUME IInv, QueueStatus PROVE IInv'
<1> USE DEF IInv, QueueStatus, Return
<1>1. (TypeOK /\ SoundInv /\ CommandInv /\ FreshInv /\ KeepInv /\ NoEditLost /\ LandInv /\
   StatusInv /\ CleanIsHonest /\ ChosenOnce /\ MarkerInv /\ AnswerInv /\ FollowInv)'
    BY DEF TypeOK, SoundInv, Sound, Open, CommandInv, FreshInv, Fresh, KeepInv, Keeps, Follows,
       NoEditLost, LandInv, Landed, Taken, StatusInv, CleanIsHonest, ChosenOnce, MarkerInv,
       AnswerInv, Answering, Latest, FollowInv, Following, Dated, Same, FromRemote, Committed
<1> QED BY <1>1

LEMMA ApplyProvenKeeps == ASSUME IInv, ApplyProven PROVE IInv'
<1> USE DEF IInv, ApplyProven, Proven
<1>a. /\ p # None /\ journal = p /\ p \in Pending /\ p.phase = "apply" /\ p.merged \in Content
      /\ p.baseline \in Content /\ p.applied \in BOOLEAN
    BY Known DEF Typed, TypeOK, CommandInv
<1>b. /\ p' \in Pending /\ p' # None /\ p'.baseline = p.merged
      /\ p'.phase = p.phase /\ p'.merged = p.merged /\ p'.remote = p.remote
      /\ p'.conflicts = p.conflicts /\ p'.op = p.op /\ p'.applied = p.applied
      /\ p'.choice = p.choice
    BY <1>a, BaselinedIs
<1>1. (TypeOK /\ CommandInv)'
    BY <1>b DEF TypeOK, CommandInv
<1>2. (SoundInv /\ FreshInv /\ AnswerInv /\ FollowInv)'
    BY <1>a DEF SoundInv, Sound, Open, FreshInv, Fresh, AnswerInv, Answering, Latest, FollowInv,
       Following, Dated, Same, FromRemote, Committed
<1>3. (KeepInv /\ NoEditLost /\ LandInv /\ StatusInv /\ CleanIsHonest /\ ChosenOnce /\
   MarkerInv)'
    BY DEF KeepInv, Keeps, Follows, NoEditLost, LandInv, Landed, Taken, StatusInv,
       CleanIsHonest, ChosenOnce, MarkerInv
<1> QED BY <1>1, <1>2, <1>3

LEMMA ApplyKnownKeeps == ASSUME IInv, ApplyKnown PROVE IInv'
<1> USE DEF IInv, ApplyKnown, Go
<1>a. /\ p # None /\ journal = p /\ p \in Pending /\ p.phase \in {"apply", "replace"}
      /\ p.applied \in BOOLEAN /\ p.baseline \in Content
      /\ p.applied = TRUE
    BY Known DEF Typed, TypeOK, CommandInv
<1>1. (TypeOK /\ SoundInv /\ CommandInv /\ FreshInv /\ KeepInv /\ NoEditLost /\ LandInv /\
   StatusInv /\ CleanIsHonest /\ ChosenOnce /\ MarkerInv /\ AnswerInv /\ FollowInv)'
    BY DEF TypeOK, SoundInv, Sound, Open, CommandInv, FreshInv, Fresh, KeepInv, Keeps, Follows,
       NoEditLost, LandInv, Landed, Taken, StatusInv, CleanIsHonest, ChosenOnce, MarkerInv,
       AnswerInv, Answering, Latest, FollowInv, Following, Dated, Same, FromRemote, Committed
<1> QED BY <1>1

LEMMA ApplyRebaseKeeps == ASSUME IInv, ApplyRebase PROVE IInv'
<1> USE DEF IInv, ApplyRebase, Proven
<1>a. /\ p # None /\ journal = p /\ p \in Pending /\ p.phase = "apply" /\ ~p.applied
      /\ marker # p.op /\ live \in Content
      /\ p.baseline \in Content /\ p.merged \in Content /\ p.op \in Nat
      /\ (\A c \in chosen : c.token[2] \in Nat) /\ marker \in Nat
    BY Known DEF Typed, TypeOK, CommandInv
<1>b. /\ p' \in Pending /\ p' # None
      /\ p'.phase = p.phase /\ p'.baseline = live /\ p'.merged = Folded(p)
      /\ p'.remote = p.remote /\ p'.op = p.op /\ p'.applied = p.applied /\ p'.choice = p.choice
      /\ p'.conflicts \subseteq Rejoined(p)
    BY <1>a, RebasedIs
<1>c. Sound(p)
    BY <1>a DEF SoundInv
<1>d. Open(p')
    BY <1>a, <1>c, RebasedOpen DEF Sound
<1>e. Sound(p')
    BY <1>a, <1>b, <1>c, <1>d DEF Sound
<1>f. \A k \in p'.conflicts : k \in p.conflicts \/ (k.batch = p.op /\ TokenOf(k)[2] = p.op)
    BY <1>a, <1>b, RejoinedIs DEF TokenOf
<1>g. \A i \in Item : own[i] # None => p'.merged[i] = live[i]
    BY <1>a, <1>b DEF KeepInv, Keeps, Folded, Merged, Content
<1>h. Fresh(p')
    BY <1>a, <1>b, <1>f DEF FreshInv, Fresh, TokenOf
<1>i. status # "clean"
    BY <1>a DEF StatusInv
<1>j. "force" \notin Commands => Following /\ FromRemote(p')
    BY <1>a, RebasedFollows DEF FollowInv, Following, Committed
<1>1. (TypeOK /\ LandInv /\ AnswerInv /\ FollowInv)'
    BY <1>a, <1>b, <1>j DEF FollowInv, Committed, Dated, Following, FromRemote, Same, TypeOK,
       LandInv, Landed, Taken, AnswerInv, Answering, Latest
<1>2. SoundInv'
    BY <1>e DEF SoundInv, Open, Sound
<1>3. FreshInv'
    BY <1>h DEF FreshInv, Fresh
<1>4. KeepInv'
    BY <1>g DEF KeepInv, Follows, Keeps
<1>5. (StatusInv /\ CleanIsHonest)'
    BY <1>i DEF StatusInv, CleanIsHonest
<1>6. MarkerInv'
    BY <1>b DEF MarkerInv
<1>7. CommandInv'
  <2>1. CASE Paused(p')
    <3>1. p'.conflicts # {}
        BY <2>1 DEF Paused
    <3> QED BY <1>b, <2>1, <3>1 DEF CommandInv
  <2>2. CASE ~Paused(p')
      BY <1>b, <2>2 DEF CommandInv
  <2> QED BY <2>1, <2>2
<1>8. (NoEditLost /\ ChosenOnce)'
    BY DEF NoEditLost, ChosenOnce
<1> QED BY <1>1, <1>2, <1>3, <1>4, <1>5, <1>6, <1>7, <1>8

LEMMA ApplyCommitKeeps == ASSUME IInv, ApplyCommit PROVE IInv'
<1> USE DEF IInv, ApplyCommit
<1>a. /\ p # None /\ journal = p /\ p \in Pending /\ p.phase = "apply" /\ ~p.applied
      /\ marker # p.op /\ live = p.baseline
      /\ p.merged \in Content /\ p.baseline \in Content /\ p.applied \in BOOLEAN /\ p.op \in Nat
    BY Known DEF Typed, TypeOK, CommandInv
<1>b. /\ p' \in Pending /\ p' # None /\ p'.baseline = p.merged
      /\ p'.phase = p.phase /\ p'.merged = p.merged /\ p'.remote = p.remote
      /\ p'.conflicts = p.conflicts /\ p'.op = p.op /\ p'.applied = p.applied
      /\ p'.choice = p.choice
    BY <1>a, BaselinedIs
<1>c. status # "clean"
    BY <1>a DEF StatusInv
<1>d. p.op <= minted
    BY <1>a DEF SoundInv, Sound, TypeOK
<1>1. (TypeOK /\ SoundInv /\ CommandInv /\ FreshInv)'
    BY <1>a, <1>b DEF TypeOK, SoundInv, Sound, Open, CommandInv, FreshInv, Fresh
<1>2. (KeepInv /\ NoEditLost /\ MarkerInv /\ AnswerInv)'
    BY <1>a DEF KeepInv, Keeps, Follows, NoEditLost, MarkerInv, AnswerInv, Answering, Latest
<1>3. CleanIsHonest'
    BY <1>c DEF CleanIsHonest
<1>4. FollowInv'
    BY <1>a DEF FollowInv, Following, Dated, Same, FromRemote, Committed
<1>5. (LandInv /\ StatusInv /\ ChosenOnce)'
    BY DEF LandInv, Landed, Taken, StatusInv, ChosenOnce
<1> QED BY <1>1, <1>2, <1>3, <1>4, <1>5

LEMMA JournalAppliedKeeps == ASSUME IInv, JournalApplied PROVE IInv'
<1> USE DEF IInv, JournalApplied
<1>a. p # None /\ p \in Pending /\ journal # None /\ p.phase \in {"apply", "replace"} /\ Typed(p)
    BY Known DEF Typed, TypeOK, CommandInv
<1>b. /\ journal.merged = p.merged /\ journal.phase = p.phase /\ journal.op = p.op
      /\ journal.remote = p.remote /\ journal.choice = p.choice
      /\ (journal.applied \/ marker = p.op)
    BY <1>a DEF CommandInv
<1>c. /\ p' \in Pending /\ p' # None /\ p'.applied
      /\ p'.phase = p.phase /\ p'.baseline = p.baseline /\ p'.merged = p.merged
      /\ p'.remote = p.remote /\ p'.conflicts = p.conflicts /\ p'.op = p.op
      /\ p'.choice = p.choice
    BY <1>a, AppliedIs
<1>d. Sound(p)
    BY <1>a DEF SoundInv
<1>1. (TypeOK /\ SoundInv /\ CommandInv /\ FreshInv)'
    BY <1>a, <1>c, <1>d DEF TypeOK, Sound, SoundInv, Open, CommandInv, FreshInv, Fresh
<1>2. (StatusInv /\ CleanIsHonest /\ AnswerInv /\ FollowInv)'
    BY <1>a, <1>b, <1>c DEF AnswerInv, Answering, Latest, FollowInv, Following, Dated, Same,
       FromRemote, Committed, StatusInv, CleanIsHonest
<1>3. LandInv'
    BY <1>a DEF LandInv, Landed, Taken
<1>4. MarkerInv'
    BY <1>c DEF MarkerInv
<1>5. (KeepInv /\ NoEditLost /\ ChosenOnce)'
    BY DEF KeepInv, Keeps, Follows, NoEditLost, ChosenOnce
<1> QED BY <1>1, <1>2, <1>3, <1>4, <1>5

LEMMA UnmarkKeeps == ASSUME IInv, Unmark PROVE IInv'
<1> USE DEF IInv, Unmark, Go
<1>a. p # None /\ journal = p /\ p.applied /\ minted \in Nat
    BY Known DEF Typed, TypeOK, CommandInv
<1>1. (SoundInv /\ KeepInv /\ FollowInv)'
    BY <1>a DEF SoundInv, Sound, Open, KeepInv, Keeps, Follows, FollowInv, Following, Dated,
       Same, FromRemote, Committed
<1>2. (TypeOK /\ CommandInv /\ FreshInv /\ NoEditLost /\ LandInv /\ StatusInv /\ CleanIsHonest /\
   ChosenOnce /\ MarkerInv /\ AnswerInv)'
    BY DEF TypeOK, CommandInv, FreshInv, Fresh, NoEditLost, LandInv, Landed, Taken, StatusInv,
       CleanIsHonest, ChosenOnce, MarkerInv, AnswerInv, Answering, Latest
<1> QED BY <1>1, <1>2

LEMMA CoversKeeps == ASSUME IInv, Covers PROVE IInv'
<1> USE DEF IInv, Covers, Go
<1>a. p # None /\ journal = p /\ p.applied /\ marker = 0 /\ p.phase \in {"apply", "replace"}
    BY Known DEF Typed, TypeOK, CommandInv
<1>1. CommandInv'
    BY <1>a DEF CommandInv
<1>2. (TypeOK /\ SoundInv /\ FreshInv /\ KeepInv /\ NoEditLost /\ LandInv /\ StatusInv /\
   CleanIsHonest /\ ChosenOnce /\ MarkerInv /\ AnswerInv /\ FollowInv)'
    BY DEF TypeOK, SoundInv, Sound, Open, FreshInv, Fresh, KeepInv, Keeps, Follows, NoEditLost,
       LandInv, Landed, Taken, StatusInv, CleanIsHonest, ChosenOnce, MarkerInv, AnswerInv,
       Answering, Latest, FollowInv, Following, Dated, Same, FromRemote, Committed
<1> QED BY <1>1, <1>2

LEMMA ApplyBaseKeeps == ASSUME IInv, ApplyBase PROVE IInv'
<1> USE DEF IInv, ApplyBase, Go, Track
<1>a. /\ p # None /\ journal = p /\ p \in Pending /\ p.applied /\ marker = 0
      /\ p.phase = "apply" /\ p.remote \in Snapshot /\ p.remote.c \in Content
      /\ p.choice \in Choice \cup {None}
    BY Known DEF Typed, TypeOK, SoundInv, Sound, CommandInv
<1>b. status # "clean"
    BY <1>a DEF StatusInv
<1>1. (TypeOK /\ FollowInv)'
    BY <1>a DEF TypeOK, FollowInv, Following, Dated, Same, FromRemote, Committed
<1>2. CleanIsHonest'
    BY <1>b DEF CleanIsHonest
<1>3. (SoundInv /\ CommandInv /\ FreshInv /\ KeepInv /\ NoEditLost /\ LandInv /\ StatusInv /\
   ChosenOnce /\ MarkerInv /\ AnswerInv)'
    BY DEF SoundInv, Sound, Open, CommandInv, FreshInv, Fresh, KeepInv, Keeps, Follows,
       NoEditLost, LandInv, Landed, Taken, StatusInv, ChosenOnce, MarkerInv, AnswerInv,
       Answering, Latest
<1> QED BY <1>1, <1>2, <1>3

LEMMA ApplyStatusKeeps == ASSUME IInv, ApplyStatus PROVE IInv'
<1> USE DEF IInv, ApplyStatus, Go
<1>1. (TypeOK /\ SoundInv /\ CommandInv /\ FreshInv /\ KeepInv /\ NoEditLost /\ LandInv /\
   StatusInv /\ CleanIsHonest /\ ChosenOnce /\ MarkerInv /\ AnswerInv /\ FollowInv)'
    BY DEF TypeOK, SoundInv, Sound, Open, CommandInv, FreshInv, Fresh, KeepInv, Keeps, Follows,
       NoEditLost, LandInv, Landed, Taken, StatusInv, CleanIsHonest, ChosenOnce, MarkerInv,
       AnswerInv, Answering, Latest, FollowInv, Following, Dated, Same, FromRemote, Committed
<1> QED BY <1>1

LEMMA ApplyReceiptKeeps == ASSUME IInv, ApplyReceipt PROVE IInv'
<1> USE DEF IInv, ApplyReceipt, Go
<1>a. /\ p # None /\ journal = p /\ p \in Pending /\ p.applied /\ marker = 0
      /\ p.phase = "apply" /\ p.remote \in Snapshot /\ p.remote.c \in Content
      /\ p.choice \in Choice \cup {None}
    BY Known DEF Typed, TypeOK, SoundInv, Sound, CommandInv
<1>b. receipt' \in Choice \cup {None}
    BY <1>a DEF NewReceipt, TypeOK
<1>1. TypeOK'
    BY <1>b DEF TypeOK
<1>2. AnswerInv'
    BY <1>a DEF AnswerInv, Answering, Latest, NewReceipt
<1>3. (SoundInv /\ CommandInv /\ FreshInv /\ KeepInv /\ NoEditLost /\ LandInv /\ StatusInv /\
   CleanIsHonest /\ ChosenOnce /\ MarkerInv /\ FollowInv)'
    BY DEF SoundInv, Sound, Open, CommandInv, FreshInv, Fresh, KeepInv, Keeps, Follows,
       NoEditLost, LandInv, Landed, Taken, StatusInv, CleanIsHonest, ChosenOnce, MarkerInv,
       FollowInv, Following, Dated, Same, FromRemote, Committed
<1> QED BY <1>1, <1>2, <1>3

LEMMA ApplyClearKeeps == ASSUME IInv, ApplyClear PROVE IInv'
<1> USE DEF IInv, ApplyClear, Go
<1>a. /\ p # None /\ journal = p /\ p \in Pending /\ p.applied /\ marker = 0
      /\ p.phase = "apply" /\ p.remote \in Snapshot /\ p.remote.c \in Content
      /\ p.choice \in Choice \cup {None}
    BY Known DEF Typed, TypeOK, SoundInv, Sound, CommandInv
<1>b. \/ p.conflicts = {} /\ journal' = None
      \/ /\ p.conflicts # {} /\ journal' \in Pending /\ journal' # None
         /\ journal'.phase = "await" /\ ~journal'.applied /\ journal'.choice = None
         /\ journal'.baseline = p.merged /\ journal'.merged = p.merged
         /\ journal'.remote = p.remote
         /\ journal'.conflicts = p.conflicts /\ journal'.op = p.op
    BY <1>a, SettledIs
<1>c. status # "clean"
    BY <1>a DEF StatusInv
<1>d. p.op # 0
    BY <1>a DEF SoundInv, Sound
<1>1. (TypeOK /\ SoundInv /\ FreshInv /\ AnswerInv)'
    BY <1>a, <1>b DEF TypeOK, SoundInv, Sound, Open, FreshInv, Fresh, AnswerInv, Answering,
       Latest
<1>2. (CommandInv /\ KeepInv /\ LandInv)'
    BY <1>b, <1>d DEF CommandInv, KeepInv, Keeps, Follows, LandInv, Landed, Taken
<1>3. (MarkerInv /\ FollowInv)'
    BY <1>a, <1>b DEF FollowInv, Following, Dated, Same, FromRemote, Committed, MarkerInv
<1>4. (StatusInv /\ CleanIsHonest)'
    BY <1>c DEF StatusInv, CleanIsHonest
<1>5. (NoEditLost /\ ChosenOnce)'
    BY DEF NoEditLost, ChosenOnce
<1> QED BY <1>1, <1>2, <1>3, <1>4, <1>5

LEMMA PauseReceiptKeeps == ASSUME IInv, PauseReceipt PROVE IInv'
<1> USE DEF IInv, PauseReceipt, Go
<1>a. p # None /\ p.choice \in Choice \cup {None}
    BY Known DEF Typed, TypeOK, CommandInv
<1>b. receipt' \in Choice \cup {None}
    BY <1>a DEF NewReceipt, TypeOK
<1>1. TypeOK'
    BY <1>b DEF TypeOK
<1>2. (SoundInv /\ CommandInv /\ FreshInv /\ KeepInv /\ NoEditLost /\ LandInv /\ StatusInv /\
   CleanIsHonest /\ ChosenOnce /\ MarkerInv /\ AnswerInv /\ FollowInv)'
    BY DEF SoundInv, Sound, Open, CommandInv, FreshInv, Fresh, KeepInv, Keeps, Follows,
       NoEditLost, LandInv, Landed, Taken, StatusInv, CleanIsHonest, ChosenOnce, MarkerInv,
       AnswerInv, Answering, Latest, NewReceipt, FollowInv, Following, Dated, Same, FromRemote,
       Committed
<1> QED BY <1>1, <1>2

LEMMA PauseJournalKeeps == ASSUME IInv, PauseJournal PROVE IInv'
<1> USE DEF IInv, PauseJournal, Go
<1>a. /\ p # None /\ p \in Pending /\ p.phase = "apply" /\ marker # p.op /\ journal # None
      /\ journal.phase = "apply" /\ Typed(p)
    BY Known DEF Typed, TypeOK, CommandInv
<1>b. /\ journal' \in Pending /\ journal' # None
      /\ journal'.phase = "await" /\ ~journal'.applied /\ journal'.choice = None
      /\ journal'.baseline = p.baseline /\ journal'.merged = p.merged
      /\ journal'.remote = p.remote
      /\ journal'.conflicts = p.conflicts /\ journal'.op = p.op
    BY <1>a, WaitingIs
<1>c. status # "clean"
    BY <1>a DEF StatusInv
<1>1. (TypeOK /\ SoundInv /\ FreshInv /\ FollowInv)'
    BY <1>a, <1>b DEF SoundInv, Sound, Open, FreshInv, Fresh, FollowInv, Following, Dated, Same,
       FromRemote, Committed, TypeOK
<1>2. (CommandInv /\ KeepInv /\ LandInv /\ MarkerInv)'
    BY <1>b DEF CommandInv, KeepInv, Keeps, Follows, LandInv, Landed, Taken, MarkerInv
<1>3. (StatusInv /\ CleanIsHonest)'
    BY <1>c DEF StatusInv, CleanIsHonest
<1>4. AnswerInv'
    BY <1>b DEF AnswerInv, Answering, Latest
<1>5. (NoEditLost /\ ChosenOnce)'
    BY DEF NoEditLost, ChosenOnce
<1> QED BY <1>1, <1>2, <1>3, <1>4, <1>5

LEMMA PauseStatusKeeps == ASSUME IInv, PauseStatus PROVE IInv'
<1> USE DEF IInv, PauseStatus, Go
<1>a. p # None /\ p.conflicts # {} /\ journal # None /\ journal.phase = "await"
    BY Known DEF Typed, TypeOK, CommandInv
<1>1. FollowInv'
    BY <1>a DEF FollowInv, Following, Dated, Same, FromRemote, Committed
<1>2. (TypeOK /\ SoundInv /\ CommandInv /\ FreshInv /\ KeepInv /\ NoEditLost /\ LandInv /\
   StatusInv /\ CleanIsHonest /\ ChosenOnce /\ MarkerInv /\ AnswerInv)'
    BY DEF TypeOK, SoundInv, Sound, Open, CommandInv, FreshInv, Fresh, KeepInv, Keeps, Follows,
       NoEditLost, LandInv, Landed, Taken, StatusInv, CleanIsHonest, ChosenOnce, MarkerInv,
       AnswerInv, Answering, Latest
<1> QED BY <1>1, <1>2

LEMMA ContinueSyncKeeps == ASSUME IInv, ContinueSync PROVE IInv'
<1> USE DEF IInv, ContinueSync, Return
<1>a. /\ p # None /\ p.merged \in Content /\ p.merged # None /\ p.phase \in {"apply", "await"}
      /\ (call = "sync" /\ p.conflicts = {} => journal = None)
    BY Known DEF Typed, TypeOK, CommandInv
<1>1. (TypeOK /\ CommandInv /\ FollowInv)'
    BY <1>a DEF TypeOK, CommandInv, FollowInv, Following, Dated, Same, FromRemote, Committed
<1>2. (SoundInv /\ FreshInv /\ KeepInv /\ NoEditLost /\ LandInv /\ StatusInv /\ CleanIsHonest /\
   ChosenOnce /\ MarkerInv /\ AnswerInv)'
    BY DEF SoundInv, Sound, Open, FreshInv, Fresh, KeepInv, Keeps, Follows, NoEditLost, LandInv,
       Landed, Taken, StatusInv, CleanIsHonest, ChosenOnce, MarkerInv, AnswerInv, Answering,
       Latest
<1> QED BY <1>1, <1>2

LEMMA StartSyncKeeps == ASSUME IInv, StartSync PROVE IInv'
<1> USE DEF IInv, StartSync, Return
<1>1. (TypeOK /\ SoundInv /\ CommandInv /\ FreshInv /\ KeepInv /\ NoEditLost /\ LandInv /\
   StatusInv /\ CleanIsHonest /\ ChosenOnce /\ MarkerInv /\ AnswerInv /\ FollowInv)'
    BY DEF TypeOK, SoundInv, Sound, Open, CommandInv, FreshInv, Fresh, KeepInv, Keeps, Follows,
       NoEditLost, LandInv, Landed, Taken, StatusInv, CleanIsHonest, ChosenOnce, MarkerInv,
       AnswerInv, Answering, Latest, FollowInv, Following, Dated, Same, FromRemote, Committed
<1> QED BY <1>1

LEMMA ResumeResolveKeeps == ASSUME IInv, ResumeResolve PROVE IInv'
<1> USE DEF IInv, ResumeResolve
<1>1. (TypeOK /\ SoundInv /\ CommandInv /\ FreshInv /\ KeepInv /\ NoEditLost /\ LandInv /\
   StatusInv /\ CleanIsHonest /\ ChosenOnce /\ MarkerInv /\ AnswerInv /\ FollowInv)'
    BY DEF TypeOK, SoundInv, Sound, Open, CommandInv, FreshInv, Fresh, KeepInv, Keeps, Follows,
       NoEditLost, LandInv, Landed, Taken, StatusInv, CleanIsHonest, ChosenOnce, MarkerInv,
       AnswerInv, Answering, Latest, FollowInv, Following, Dated, Same, FromRemote, Committed
<1> QED BY <1>1

LEMMA FinishedKeeps == ASSUME IInv, Finished PROVE IInv'
<1> USE DEF IInv, Finished, Return
<1>1. (TypeOK /\ SoundInv /\ CommandInv /\ FreshInv /\ KeepInv /\ NoEditLost /\ LandInv /\
   StatusInv /\ CleanIsHonest /\ ChosenOnce /\ MarkerInv /\ AnswerInv /\ FollowInv)'
    BY DEF TypeOK, SoundInv, Sound, Open, CommandInv, FreshInv, Fresh, KeepInv, Keeps, Follows,
       NoEditLost, LandInv, Landed, Taken, StatusInv, CleanIsHonest, ChosenOnce, MarkerInv,
       AnswerInv, Answering, Latest, FollowInv, Following, Dated, Same, FromRemote, Committed
<1> QED BY <1>1

LEMMA ChoiceKnownKeeps == ASSUME IInv, ChoiceKnown PROVE IInv'
<1> USE DEF IInv, ChoiceKnown, Return
<1>1. (TypeOK /\ SoundInv /\ CommandInv /\ FreshInv /\ KeepInv /\ NoEditLost /\ LandInv /\
   StatusInv /\ CleanIsHonest /\ ChosenOnce /\ MarkerInv /\ AnswerInv /\ FollowInv)'
    BY DEF TypeOK, SoundInv, Sound, Open, CommandInv, FreshInv, Fresh, KeepInv, Keeps, Follows,
       NoEditLost, LandInv, Landed, Taken, StatusInv, CleanIsHonest, ChosenOnce, MarkerInv,
       AnswerInv, Answering, Latest, FollowInv, Following, Dated, Same, FromRemote, Committed
<1> QED BY <1>1

LEMMA ChoiceStaleKeeps == ASSUME IInv, ChoiceStale PROVE IInv'
<1> USE DEF IInv, ChoiceStale, Return
<1>1. (TypeOK /\ SoundInv /\ CommandInv /\ FreshInv /\ KeepInv /\ NoEditLost /\ LandInv /\
   StatusInv /\ CleanIsHonest /\ ChosenOnce /\ MarkerInv /\ AnswerInv /\ FollowInv)'
    BY DEF TypeOK, SoundInv, Sound, Open, CommandInv, FreshInv, Fresh, KeepInv, Keeps, Follows,
       NoEditLost, LandInv, Landed, Taken, StatusInv, CleanIsHonest, ChosenOnce, MarkerInv,
       AnswerInv, Answering, Latest, FollowInv, Following, Dated, Same, FromRemote, Committed
<1> QED BY <1>1

LEMMA ChooseKeeps == ASSUME IInv, Choose PROVE IInv'
<1> USE DEF IInv, Choose
<1>a. /\ asked # None /\ asked \in Choice /\ journal # None /\ Typed(journal)
      /\ journal.phase = "await"
      /\ live \in Content /\ minted \in Nat /\ minted + 1 \in Nat
      /\ (\A c \in chosen : c.token[2] \in Nat) /\ marker \in Nat
    BY Known DEF TypeOK, CommandInv, Offered
<1>b. PICK t \in journal.conflicts : asked.token = TokenOf(t)
    BY <1>a DEF Offered
<1>c. /\ journal \in Pending /\ journal.baseline \in Content /\ journal.merged \in Content
      /\ journal.op \in Nat
      /\ (\A k \in journal.conflicts : k.batch \in Nat /\ TokenOf(k)[2] = k.batch
                                        /\ TokenOf(k)[1] = k.item)
    BY <1>a DEF Typed
<1>d. ~journal.applied /\ marker # journal.op /\ Sound(journal)
    BY <1>a DEF CommandInv, SoundInv
<1>e. journal.op \in 1 .. minted /\ Open(journal)
    BY <1>d DEF Sound
<1>f. PICK side : p' = [Chosen(Rebased([journal EXCEPT !.op = minted + 1]), side) EXCEPT
                          !.phase = "apply", !.applied = FALSE, !.choice = asked]
    OBVIOUS
<1> DEFINE q == [journal EXCEPT !.op = minted + 1]
           r == Rebased(q)
<1>g. /\ q \in Pending /\ q.op = minted + 1 /\ Open(q)
      /\ q.baseline = journal.baseline /\ q.merged = journal.merged
      /\ q.conflicts = journal.conflicts /\ q.remote = journal.remote
  <2>1. minted + 1 >= journal.op
    BY <1>a, <1>c, <1>e
  <2> QED BY <1>a, <1>c, <1>e, <2>1, RenumberedIs
<1> HIDE DEF q
<1>h. /\ r \in Pending /\ Open(r) /\ r.baseline = live /\ r.op = minted + 1 /\ r.remote = q.remote
      /\ r.merged = Folded(q) /\ \A k \in r.conflicts : k \in Rejoined(q)
    BY <1>a, <1>g, RebasedIs, RebasedOpen
<1> HIDE DEF r
<1>i. /\ p' \in Pending /\ p' # None /\ p'.phase = "apply" /\ ~p'.applied /\ p'.choice = asked
      /\ p'.baseline = live /\ p'.op = minted + 1 /\ p'.remote = r.remote /\ Open(p')
      /\ \A k \in p'.conflicts : k \in r.conflicts /\ TokenOf(k) # asked.token
      /\ \A i \in Item : i # asked.token[1] => p'.merged[i] = Folded(q)[i]
  <2>1. p' = Answered(r, side)
    BY <1>f DEF Answered, q, r
  <2> HIDE DEF Choose
  <2> QED BY <1>a, <1>h, <2>1, ChosenIs
<1>j. \A k \in p'.conflicts : k \in journal.conflicts \/ TokenOf(k)[2] = minted + 1
    BY <1>g, <1>h, <1>i, RejoinedIs DEF TokenOf
<1>k. Fresh(p') /\ \A c \in chosen : c.token # asked.token
    BY <1>a, <1>b, <1>i, <1>j DEF FreshInv, Fresh
<1>l. asked.token[2] < minted + 1
    BY <1>a, <1>b, <1>c, <1>e DEF Open
<1>m. \A i \in Item : i # asked.token[1] =>
        /\ p'.merged[i] = Merged(journal.baseline[i], live[i], journal.merged[i])
        /\ own[i] # None /\ live[i] = journal.baseline[i] => journal.merged[i] = live[i]
    BY <1>a, <1>d, <1>g, <1>i DEF Folded, KeepInv, Keeps
<1>n. "force" \notin Commands => FromRemote(p')
  <2> SUFFICES ASSUME "force" \notin Commands PROVE FromRemote(p')
    OBVIOUS
  <2>1. Following
    BY DEF FollowInv
  <2>2. FromRemote(journal) /\ Same(live, journal.baseline)
    BY <1>a, <1>d, <2>1 DEF Following, Committed
  <2>3. FromRemote(q) /\ Same(live, q.baseline)
    BY <1>g, <2>2 DEF FromRemote
  <2>4. FromRemote(r)
    BY <1>g, <2>3, RebasedFollows DEF r
  <2>5. asked.token[1] \in edited \cup {Twin}
    BY <1>b, <1>c, <2>2 DEF FromRemote
  <2>6. Same(p'.merged, r.merged)
    BY <1>h, <1>i, <2>5 DEF Same
  <2> QED BY <1>i, <2>4, <2>6 DEF FromRemote, Same
<1>o. call = "resolve" /\ marker # minted + 1
    BY <1>a DEF CommandInv, SoundInv
<1>1. FreshInv'
    BY <1>a, <1>i, <1>k, <1>l, <1>o DEF FreshInv, Fresh
<1>2. (TypeOK /\ FollowInv)'
    BY <1>i, <1>n, <1>o DEF FollowInv, Following, Dated, Same, FromRemote, Committed, TypeOK
<1>3. SoundInv'
    BY <1>a, <1>i DEF SoundInv, Sound, Open
<1>4. KeepInv'
    BY <1>i, <1>m DEF KeepInv, Keeps, Follows, Merged
<1>5. (CommandInv /\ NoEditLost /\ LandInv /\ StatusInv /\ CleanIsHonest /\ ChosenOnce /\
   MarkerInv /\ AnswerInv)'
    BY DEF CommandInv, NoEditLost, LandInv, Landed, Taken, StatusInv, CleanIsHonest, ChosenOnce,
       MarkerInv, AnswerInv, Answering, Latest
<1> QED BY <1>1, <1>2, <1>3, <1>4, <1>5

LEMMA JournalChoiceKeeps == ASSUME IInv, JournalChoice PROVE IInv'
<1> USE DEF IInv, JournalChoice, Go
<1>a. /\ p # None /\ Typed(p) /\ journal # None /\ journal.phase = "await" /\ p.phase = "apply"
      /\ p.applied = FALSE /\ p.choice # None /\ asked # None
    BY Known DEF FreshInv, CommandInv
<1>b. /\ p \in Pending /\ p.choice \in Choice /\ p.choice.token[2] < p.op
      /\ \A c \in chosen : c.token # p.choice.token
      /\ \A k \in p.conflicts : TokenOf(k) # p.choice.token
    BY <1>a DEF FreshInv, Typed
<1>c. Sound(p) /\ p.op <= minted /\ minted \in Nat /\ p.op \in Nat /\ p.choice.token[2] \in Nat
    BY <1>a, Known DEF SoundInv, Sound, Typed
<1>d. status # "clean"
    BY <1>a DEF StatusInv
<1>e. Fresh(p)
    BY <1>a DEF FreshInv
<1>f. /\ \A i \in Item : own'[i] # None => own'[i] = own[i]
      /\ \A i \in Item : own'[i] # None /\ i = p.choice.token[1] =>
            p.merged[i] = p.baseline[i] \/ live[i] # p.baseline[i]
      /\ own' \in [Item -> Val \cup {None}]
    BY DEF TypeOK
<1>g. \A i \in Item : i # p.choice.token[1] /\ own[i] # None /\ live[i] = p.baseline[i] =>
        p.merged[i] = live[i]
    BY <1>a DEF KeepInv, Keeps
<1>h. Keeps(p, Item)'
    BY <1>f, <1>g DEF Keeps
<1>i. call = "resolve" /\ marker # p.op
    BY <1>a DEF CommandInv, FreshInv
<1>1. (TypeOK /\ CommandInv /\ LandInv /\ AnswerInv)'
    BY <1>a, <1>b DEF TypeOK, AnswerInv, Answering, Latest, CommandInv, LandInv, Landed, Taken
<1>2. FollowInv'
    BY <1>a, <1>i DEF FollowInv, Following, Dated, Same, FromRemote, Committed
<1>3. FreshInv'
    BY <1>c DEF FreshInv, Fresh
<1>4. (StatusInv /\ CleanIsHonest)'
    BY <1>d DEF StatusInv, CleanIsHonest
<1>5. (ChosenOnce /\ MarkerInv)'
    BY <1>b DEF ChosenOnce, MarkerInv
<1>6. (SoundInv /\ KeepInv /\ NoEditLost)'
    BY DEF SoundInv, Sound, Open, KeepInv, Keeps, Follows, NoEditLost
<1> QED BY <1>1, <1>2, <1>3, <1>4, <1>5, <1>6

LEMMA ReplaceLoadKeeps == ASSUME IInv, ReplaceLoad PROVE IInv'
<1> USE DEF IInv, ReplaceLoad
<1>a. /\ live \in Content /\ cloud \in Snapshot /\ cloud.c \in Content /\ minted + 1 \in Nat
      /\ minted \in Nat /\ call # "sync"
      /\ (\A c \in chosen : c.token[2] \in Nat) /\ marker \in Nat
    BY Known DEF Typed, TypeOK, CommandInv
<1>b. /\ p' \in Pending /\ p' # None /\ p'.phase = "replace" /\ p'.baseline = live
      /\ p'.merged = cloud.c /\ p'.remote = cloud /\ p'.conflicts = {}
      /\ p'.op = minted + 1 /\ ~p'.applied /\ p'.choice = None
  <2>1. {} \in SUBSET Conflict /\ "replace" \in {"await", "apply", "replace", "force"}
    OBVIOUS
  <2>2. p' = [phase |-> "replace", baseline |-> live, merged |-> cloud.c, remote |-> cloud,
              conflicts |-> {}, op |-> minted + 1, applied |-> FALSE, choice |-> None]
    BY DEF NewPending
  <2> QED BY <1>a, <2>1, <2>2, NewPendingIs
<1>c. marker # p'.op
    BY <1>a, <1>b DEF SoundInv, TypeOK
<1>d. status # "clean"
    BY DEF StatusInv
<1>e. cloud.gen <= cloud.gen
    BY <1>a DEF Snapshot
<1>1. (TypeOK /\ SoundInv /\ FreshInv /\ FollowInv)'
    BY <1>a, <1>b, <1>e DEF FollowInv, Following, Dated, Same, FromRemote, Committed, SoundInv,
       Sound, Open, FreshInv, Fresh, TypeOK
<1>2. (CommandInv /\ KeepInv /\ LandInv)'
    BY <1>b, <1>c DEF CommandInv, KeepInv, Keeps, Follows, LandInv, Landed, Taken
<1>3. (NoEditLost /\ StatusInv /\ CleanIsHonest /\ ChosenOnce /\ MarkerInv /\ AnswerInv)'
    BY DEF NoEditLost, StatusInv, CleanIsHonest, ChosenOnce, MarkerInv, AnswerInv, Answering,
       Latest
<1> QED BY <1>1, <1>2, <1>3

LEMMA ReplaceProvenKeeps == ASSUME IInv, ReplaceProven PROVE IInv'
<1> USE DEF IInv, ReplaceProven, Proven
<1>a. /\ p # None /\ journal = p /\ p \in Pending /\ p.phase = "replace" /\ p.merged \in Content
      /\ p.baseline \in Content /\ p.applied \in BOOLEAN
    BY Known DEF Typed, TypeOK, CommandInv
<1>b. /\ p' \in Pending /\ p' # None /\ p'.baseline = p.merged
      /\ p'.phase = p.phase /\ p'.merged = p.merged /\ p'.remote = p.remote
      /\ p'.conflicts = p.conflicts /\ p'.op = p.op /\ p'.applied = p.applied
      /\ p'.choice = p.choice
    BY <1>a, BaselinedIs
<1>1. (TypeOK /\ CommandInv)'
    BY <1>b DEF TypeOK, CommandInv
<1>2. (SoundInv /\ FreshInv /\ AnswerInv /\ FollowInv)'
    BY <1>a DEF SoundInv, Sound, Open, FreshInv, Fresh, AnswerInv, Answering, Latest, FollowInv,
       Following, Dated, Same, FromRemote, Committed
<1>3. (KeepInv /\ NoEditLost /\ LandInv /\ StatusInv /\ CleanIsHonest /\ ChosenOnce /\
   MarkerInv)'
    BY DEF KeepInv, Keeps, Follows, NoEditLost, LandInv, Landed, Taken, StatusInv,
       CleanIsHonest, ChosenOnce, MarkerInv
<1> QED BY <1>1, <1>2, <1>3

LEMMA ReplaceCommitKeeps == ASSUME IInv, ReplaceCommit PROVE IInv'
<1> USE DEF IInv, ReplaceCommit
<1>a. p # None /\ journal = p /\ p \in Pending /\ p.phase = "replace" /\ ~p.applied 
      /\ p.merged \in Content /\ p.baseline \in Content /\ p.applied \in BOOLEAN /\ p.op \in Nat
    BY Known DEF Typed, TypeOK, CommandInv
<1>b. /\ p' \in Pending /\ p' # None /\ p'.baseline = p.merged
      /\ p'.phase = p.phase /\ p'.merged = p.merged /\ p'.remote = p.remote
      /\ p'.conflicts = p.conflicts /\ p'.op = p.op /\ p'.applied = p.applied
      /\ p'.choice = p.choice
    BY <1>a, BaselinedIs
<1>c. p.op <= minted
    BY <1>a DEF SoundInv, Sound, TypeOK
<1>1. (TypeOK /\ SoundInv /\ CommandInv /\ FreshInv)'
    BY <1>a, <1>b DEF TypeOK, SoundInv, Sound, Open, CommandInv, FreshInv, Fresh
<1>2. (CleanIsHonest /\ MarkerInv /\ AnswerInv /\ FollowInv)'
    BY <1>a DEF CleanIsHonest, MarkerInv, AnswerInv, Answering, Latest, FollowInv, Following,
       Dated, Same, FromRemote, Committed
<1>3. (KeepInv /\ NoEditLost /\ LandInv /\ StatusInv /\ ChosenOnce)'
    BY DEF KeepInv, Keeps, Follows, NoEditLost, LandInv, Landed, Taken, StatusInv, ChosenOnce
<1> QED BY <1>1, <1>2, <1>3

LEMMA ReplaceBaseKeeps == ASSUME IInv, ReplaceBase PROVE IInv'
<1> USE DEF IInv, ReplaceBase, Go, Track
<1>a. /\ p # None /\ journal = p /\ p \in Pending /\ p.applied /\ marker = 0
      /\ p.phase = "replace" /\ p.remote \in Snapshot /\ p.remote.c \in Content
      /\ p.merged = p.remote.c
    BY Known DEF Typed, TypeOK, SoundInv, Sound, CommandInv
<1>1. (TypeOK /\ CleanIsHonest /\ FollowInv)'
    BY <1>a DEF TypeOK, CleanIsHonest, FollowInv, Following, Dated, Same, FromRemote, Committed
<1>2. (SoundInv /\ CommandInv /\ FreshInv /\ KeepInv /\ NoEditLost /\ LandInv /\ StatusInv /\
   ChosenOnce /\ MarkerInv /\ AnswerInv)'
    BY DEF SoundInv, Sound, Open, CommandInv, FreshInv, Fresh, KeepInv, Keeps, Follows,
       NoEditLost, LandInv, Landed, Taken, StatusInv, ChosenOnce, MarkerInv, AnswerInv,
       Answering, Latest
<1> QED BY <1>1, <1>2

LEMMA ReplaceStatusKeeps == ASSUME IInv, ReplaceStatus PROVE IInv'
<1> USE DEF IInv, ReplaceStatus, Go
<1>a. /\ p # None /\ journal = p /\ p \in Pending /\ p.applied /\ marker = 0
      /\ p.phase = "replace" /\ base = p.remote /\ p.merged = p.remote.c
    BY Known DEF Typed, TypeOK, SoundInv, Sound, CommandInv
<1>b. status' \in {"clean", "dirty"} /\ (status' = "clean" => live = p.merged)
    BY DEF FinalStatus
<1>1. (TypeOK /\ StatusInv /\ CleanIsHonest)'
    BY <1>a, <1>b DEF CleanIsHonest, TypeOK, StatusInv
<1>2. (SoundInv /\ CommandInv /\ FreshInv /\ KeepInv /\ NoEditLost /\ LandInv /\ ChosenOnce /\
   MarkerInv /\ AnswerInv /\ FollowInv)'
    BY DEF SoundInv, Sound, Open, CommandInv, FreshInv, Fresh, KeepInv, Keeps, Follows,
       NoEditLost, LandInv, Landed, Taken, ChosenOnce, MarkerInv, AnswerInv, Answering, Latest,
       FollowInv, Following, Dated, Same, FromRemote, Committed
<1> QED BY <1>1, <1>2

LEMMA ReplaceClearKeeps == ASSUME IInv, ReplaceClear PROVE IInv'
<1> USE DEF IInv, ReplaceClear, Go
<1>a. /\ p # None /\ journal = p /\ p \in Pending /\ p.applied /\ marker = 0
      /\ p.phase = "replace" /\ p.conflicts = {}
    BY Known DEF Typed, TypeOK, SoundInv, Sound, CommandInv
<1>b. call # "sync"
    BY <1>a DEF CommandInv
<1>1. (TypeOK /\ MarkerInv /\ AnswerInv /\ FollowInv)'
    BY <1>a DEF TypeOK, MarkerInv, AnswerInv, Answering, Latest, FollowInv, Following, Dated,
       Same, FromRemote, Committed
<1>2. StatusInv'
    BY <1>b DEF StatusInv
<1>3. (SoundInv /\ CommandInv /\ FreshInv /\ KeepInv /\ NoEditLost /\ LandInv /\ CleanIsHonest /\
   ChosenOnce)'
    BY DEF SoundInv, Sound, Open, CommandInv, FreshInv, Fresh, KeepInv, Keeps, Follows,
       NoEditLost, LandInv, Landed, Taken, CleanIsHonest, ChosenOnce
<1> QED BY <1>1, <1>2, <1>3

LEMMA ForceLoadKeeps == ASSUME IInv, ForceLoad PROVE IInv'
<1> USE DEF IInv, ForceLoad
<1>a. cloud # None /\ cloud.gen \in Nat /\ "force" \in Commands
    BY Known DEF Typed, TypeOK, SoundInv, Sound, CommandInv
<1>1. (CommandInv /\ LandInv /\ FollowInv)'
    BY <1>a DEF CommandInv, LandInv, Landed, Taken, FollowInv, Following, Dated, Same,
       FromRemote, Committed
<1>2. (TypeOK /\ SoundInv /\ FreshInv /\ KeepInv /\ NoEditLost /\ StatusInv /\ CleanIsHonest /\
   ChosenOnce /\ MarkerInv /\ AnswerInv)'
    BY DEF TypeOK, SoundInv, Sound, Open, FreshInv, Fresh, KeepInv, Keeps, Follows, NoEditLost,
       StatusInv, CleanIsHonest, ChosenOnce, MarkerInv, AnswerInv, Answering, Latest
<1> QED BY <1>1, <1>2

LEMMA ForceCaptureKeeps == ASSUME IInv, ForceCapture PROVE IInv'
<1> USE DEF IInv, ForceCapture
<1>a. /\ live \in Content /\ seen \in Snapshot /\ seen # None /\ seen.c \in Content
      /\ minted + 1 \in Nat /\ minted \in Nat
      /\ "force" \in Commands /\ call # "sync"
      /\ (\A c \in chosen : c.token[2] \in Nat) /\ marker \in Nat
    BY Known DEF Typed, TypeOK, SoundInv, Sound, CommandInv
<1>b. /\ p' \in Pending /\ p' # None /\ p'.phase = "force" /\ p'.baseline = live
      /\ p'.merged = live /\ p'.remote = seen /\ p'.conflicts = {}
      /\ p'.op = minted + 1 /\ ~p'.applied /\ p'.choice = None
  <2>1. {} \in SUBSET Conflict /\ "force" \in {"await", "apply", "replace", "force"}
    OBVIOUS
  <2>2. p' = [phase |-> "force", baseline |-> live, merged |-> live, remote |-> seen,
              conflicts |-> {}, op |-> minted + 1, applied |-> FALSE, choice |-> None]
    BY DEF NewPending
  <2> QED BY <1>a, <2>1, <2>2, NewPendingIs
<1>c. marker # p'.op
    BY <1>a, <1>b DEF SoundInv, TypeOK
<1>d. status # "clean"
    BY DEF StatusInv
<1>e. ~Landed(p')
    BY <1>b DEF LandInv, Landed, Taken
<1>1. (TypeOK /\ SoundInv /\ FreshInv /\ KeepInv)'
    BY <1>a, <1>b DEF SoundInv, Sound, Open, FreshInv, Fresh, TypeOK, KeepInv, Keeps, Follows
<1>2. CommandInv'
    BY <1>b, <1>c DEF CommandInv
<1>3. LandInv'
    BY <1>e DEF LandInv, Landed, Taken
<1>4. (AnswerInv /\ FollowInv)'
    BY <1>a DEF AnswerInv, Answering, Latest, FollowInv, Following, Dated, Same, FromRemote,
       Committed
<1>5. (NoEditLost /\ StatusInv /\ CleanIsHonest /\ ChosenOnce /\ MarkerInv)'
    BY DEF NoEditLost, StatusInv, CleanIsHonest, ChosenOnce, MarkerInv
<1> QED BY <1>1, <1>2, <1>3, <1>4, <1>5

LEMMA ForceLandedKeeps == ASSUME IInv, ForceLanded PROVE IInv'
<1> USE DEF IInv, ForceLanded
<1>a. /\ p # None /\ journal = p /\ p \in Pending /\ p.phase = "force" /\ p.merged \in Content
      /\ p.merged # None /\ p.remote \in Snapshot /\ p.remote # None /\ cloud # None
      /\ "force" \in Commands
    BY Known DEF Typed, TypeOK, SoundInv, Sound, CommandInv
<1>b. cloud.c = p.merged
    BY <1>a DEF LandInv
<1>1. (CommandInv /\ StatusInv /\ AnswerInv /\ FollowInv)'
    BY <1>a, <1>b DEF CommandInv, StatusInv, AnswerInv, Answering, Latest, FollowInv, Following,
       Dated, Same, FromRemote, Committed
<1>2. (TypeOK /\ SoundInv /\ FreshInv /\ KeepInv /\ NoEditLost /\ LandInv /\ CleanIsHonest /\
   ChosenOnce /\ MarkerInv)'
    BY DEF TypeOK, SoundInv, Sound, Open, FreshInv, Fresh, KeepInv, Keeps, Follows, NoEditLost,
       LandInv, Landed, Taken, CleanIsHonest, ChosenOnce, MarkerInv
<1> QED BY <1>1, <1>2

LEMMA ForceSupersededKeeps == ASSUME IInv, ForceSuperseded PROVE IInv'
<1> USE DEF IInv, ForceSuperseded
<1>a. /\ p # None /\ journal = p /\ p \in Pending /\ p.phase = "force" /\ p.merged \in Content
      /\ p.merged # None /\ p.remote \in Snapshot /\ p.remote # None /\ cloud # None
      /\ "force" \in Commands
    BY Known DEF Typed, TypeOK, SoundInv, Sound, CommandInv
<1>1. (TypeOK /\ SoundInv /\ CommandInv /\ FreshInv /\ KeepInv /\ NoEditLost /\ LandInv /\
   StatusInv /\ CleanIsHonest /\ ChosenOnce /\ MarkerInv /\ AnswerInv /\ FollowInv)'
    BY DEF TypeOK, SoundInv, Sound, Open, CommandInv, FreshInv, Fresh, KeepInv, Keeps, Follows,
       NoEditLost, LandInv, Landed, Taken, StatusInv, CleanIsHonest, ChosenOnce, MarkerInv,
       AnswerInv, Answering, Latest, FollowInv, Following, Dated, Same, FromRemote, Committed
<1> QED BY <1>1

LEMMA ForceRetryKeeps == ASSUME IInv, ForceRetry PROVE IInv'
<1> USE DEF IInv, ForceRetry
<1>a. /\ p # None /\ journal = p /\ p \in Pending /\ p.phase = "force" /\ p.merged \in Content
      /\ p.merged # None /\ p.remote \in Snapshot /\ p.remote # None /\ cloud # None
      /\ "force" \in Commands
    BY Known DEF Typed, TypeOK, SoundInv, Sound, CommandInv
<1>1. (TypeOK /\ CommandInv /\ StatusInv /\ AnswerInv)'
    BY <1>a DEF TypeOK, CommandInv, StatusInv, AnswerInv, Answering, Latest
<1>2. FollowInv'
    BY <1>a DEF FollowInv, Following, Dated, Same, FromRemote, Committed
<1>3. (SoundInv /\ FreshInv /\ KeepInv /\ NoEditLost /\ LandInv /\ CleanIsHonest /\ ChosenOnce /\
   MarkerInv)'
    BY DEF SoundInv, Sound, Open, FreshInv, Fresh, KeepInv, Keeps, Follows, NoEditLost, LandInv,
       Landed, Taken, CleanIsHonest, ChosenOnce, MarkerInv
<1> QED BY <1>1, <1>2, <1>3

LEMMA ForgetKeeps == ASSUME IInv, Forget PROVE IInv'
<1> USE DEF IInv, Forget, Return, Track, Reported
<1>a. p # None /\ journal = p /\ p.phase = "force" /\ "force" \in Commands
    BY Known DEF Typed, TypeOK, SoundInv, Sound, CommandInv
<1>b. answer' \in {"none", "ok", "refused"}
    BY DEF Reported, TypeOK
<1>1. (TypeOK /\ MarkerInv /\ AnswerInv /\ FollowInv)'
    BY <1>a DEF TypeOK, MarkerInv, AnswerInv, Answering, Latest, FollowInv, Following, Dated,
       Same, FromRemote, Committed
<1>2. (SoundInv /\ CommandInv /\ FreshInv /\ KeepInv /\ NoEditLost /\ LandInv /\ StatusInv /\
   CleanIsHonest /\ ChosenOnce)'
    BY DEF SoundInv, Sound, Open, CommandInv, FreshInv, Fresh, KeepInv, Keeps, Follows,
       NoEditLost, LandInv, Landed, Taken, StatusInv, CleanIsHonest, ChosenOnce
<1> QED BY <1>1, <1>2

LEMMA PublishWonKeeps == ASSUME IInv, PublishWon PROVE IInv'
<1> USE DEF IInv, PublishWon, Track
<1>a. /\ seen # None /\ seen \in Snapshot /\ seen.gen + 1 \in Nat /\ out \in Content /\ out # None
      /\ (journal # None => p # None /\ journal = p /\ p.phase = "force" /\ seen = p.remote
                             /\ out = p.merged)
      /\ (p # None /\ p.phase = "force" => journal = p)
    BY Known DEF Typed, TypeOK, CommandInv
<1>b. /\ cloud' \in Snapshot /\ cloud' # None /\ cloud'.c = out /\ cloud'.gen = seen.gen + 1
      /\ cloud'.by = "me"
    BY <1>a DEF Published, Snapshot
<1>c. journal = None => status # "clean"
    BY DEF StatusInv
<1>d. \A s \in Snapshot : Dated(s) => Dated(s)'
  <2>1. cloud \in Snapshot /\ cloud'.gen = cloud.gen + 1
    BY <1>a, <1>b, Known
  <2> QED BY <2>1, DatedLater
<1>e. /\ base \in Snapshot /\ (journal # None => journal.remote \in Snapshot)
      /\ (p # None => p.remote \in Snapshot)
      /\ cloud'.gen <= cloud'.gen
    BY <1>a, <1>b, Known DEF Typed
<1>1. (CommandInv /\ FollowInv)'
    BY <1>b, <1>d, <1>e DEF FollowInv, Following, Dated, Same, FromRemote, Committed, CommandInv
<1>2. (TypeOK /\ LandInv)'
    BY <1>a, <1>b DEF TypeOK, LandInv, Landed, Taken
<1>3. (SoundInv /\ FreshInv /\ KeepInv /\ NoEditLost /\ StatusInv /\ CleanIsHonest /\ ChosenOnce
   /\ MarkerInv /\ AnswerInv)'
    BY DEF SoundInv, Sound, Open, FreshInv, Fresh, KeepInv, Keeps, Follows, NoEditLost,
       StatusInv, CleanIsHonest, ChosenOnce, MarkerInv, AnswerInv, Answering, Latest
<1> QED BY <1>1, <1>2, <1>3

LEMMA PublishLostKeeps == ASSUME IInv, PublishLost PROVE IInv'
<1> USE DEF IInv, PublishLost, Return, GiveUp
<1>a. /\ seen # None /\ seen \in Snapshot /\ seen.gen + 1 \in Nat /\ out \in Content /\ out # None
      /\ (journal # None => p # None /\ journal = p /\ p.phase = "force" /\ seen = p.remote
                             /\ out = p.merged)
      /\ (p # None /\ p.phase = "force" => journal = p)
    BY Known DEF Typed, TypeOK, CommandInv
<1>1. (TypeOK /\ SoundInv /\ CommandInv /\ FreshInv /\ KeepInv /\ NoEditLost /\ LandInv /\
   StatusInv /\ CleanIsHonest /\ ChosenOnce /\ MarkerInv /\ AnswerInv /\ FollowInv)'
    BY DEF TypeOK, SoundInv, Open, Sound, CommandInv, FreshInv, Fresh, KeepInv, Follows, Keeps,
       NoEditLost, LandInv, Landed, Taken, StatusInv, CleanIsHonest, ChosenOnce, MarkerInv,
       AnswerInv, Answering, Latest, FollowInv, Committed, Dated, Following, FromRemote, Same
<1> QED BY <1>1

LEMMA PublishMistakenKeeps == ASSUME IInv, PublishMistaken PROVE IInv'
<1> USE DEF IInv, PublishMistaken, Return, Track, GiveUp
<1>a. /\ seen # None /\ seen \in Snapshot /\ seen.gen + 1 \in Nat /\ out \in Content /\ out # None
      /\ (journal # None => p # None /\ journal = p /\ p.phase = "force" /\ seen = p.remote
                             /\ out = p.merged)
      /\ (p # None /\ p.phase = "force" => journal = p)
    BY Known DEF Typed, TypeOK, CommandInv
<1>b. /\ cloud' \in Snapshot /\ cloud' # None /\ cloud'.c = out /\ cloud'.gen = seen.gen + 1
      /\ cloud'.by = "me"
    BY <1>a DEF Published, Snapshot
<1>c. \A s \in Snapshot : Dated(s) => Dated(s)'
  <2>1. cloud \in Snapshot /\ cloud'.gen = cloud.gen + 1
    BY <1>a, <1>b, Known
  <2> QED BY <2>1, DatedLater
<1>d. /\ base \in Snapshot /\ (journal # None => journal.remote \in Snapshot)
      /\ (p # None => p.remote \in Snapshot)
      /\ cloud'.gen <= cloud'.gen
    BY <1>a, <1>b, Known DEF Typed
<1>1. (TypeOK /\ LandInv)'
    BY <1>a, <1>b DEF TypeOK, LandInv, Landed, Taken
<1>2. FollowInv'
    BY <1>c, <1>d DEF FollowInv, CommandInv, Committed, Dated, Following, FromRemote, Same
<1>3. (SoundInv /\ CommandInv /\ FreshInv /\ KeepInv /\ NoEditLost /\ StatusInv /\ CleanIsHonest
   /\ ChosenOnce /\ MarkerInv /\ AnswerInv)'
    BY DEF SoundInv, Open, Sound, CommandInv, FreshInv, Fresh, KeepInv, Follows, Keeps,
       NoEditLost, StatusInv, CleanIsHonest, ChosenOnce, MarkerInv, AnswerInv, Answering, Latest
<1> QED BY <1>1, <1>2, <1>3

LEMMA FinalizeBaseKeeps == ASSUME IInv, FinalizeBase PROVE IInv'
<1> USE DEF IInv, FinalizeBase, Go, Track
<1>a. /\ seen # None /\ seen \in Snapshot /\ seen.c \in Content
      /\ (journal # None => p # None /\ journal = p /\ p.phase = "force" /\ seen.c = p.merged)
    BY Known DEF Typed, TypeOK, CommandInv
<1>b. status = "clean" => journal # None
    BY DEF StatusInv
<1>1. (TypeOK /\ CleanIsHonest /\ FollowInv)'
    BY <1>a, <1>b DEF CleanIsHonest, TypeOK, FollowInv, Following, Dated, Same, FromRemote,
       Committed
<1>2. (SoundInv /\ CommandInv /\ FreshInv /\ KeepInv /\ NoEditLost /\ LandInv /\ StatusInv /\
   ChosenOnce /\ MarkerInv /\ AnswerInv)'
    BY DEF SoundInv, Sound, Open, CommandInv, FreshInv, Fresh, KeepInv, Keeps, Follows,
       NoEditLost, LandInv, Landed, Taken, StatusInv, ChosenOnce, MarkerInv, AnswerInv,
       Answering, Latest
<1> QED BY <1>1, <1>2

LEMMA FinalizeStatusKeeps == ASSUME IInv, FinalizeStatus PROVE IInv'
<1> USE DEF IInv, FinalizeStatus, Go
<1>a. /\ seen # None /\ seen \in Snapshot /\ seen.c \in Content
      /\ (journal # None => p # None /\ journal = p /\ p.phase = "force" /\ seen.c = p.merged)
    BY Known DEF Typed, TypeOK, CommandInv
<1>b. base = seen
    BY Known DEF Typed, TypeOK, CommandInv
<1>c. status' \in {"clean", "dirty"} /\ (status' = "clean" => live = seen.c)
    BY DEF FinalStatus
<1>1. (TypeOK /\ StatusInv /\ CleanIsHonest)'
    BY <1>a, <1>b, <1>c DEF CleanIsHonest, TypeOK, StatusInv
<1>2. (SoundInv /\ CommandInv /\ FreshInv /\ KeepInv /\ NoEditLost /\ LandInv /\ ChosenOnce /\
   MarkerInv /\ AnswerInv /\ FollowInv)'
    BY DEF SoundInv, Sound, Open, CommandInv, FreshInv, Fresh, KeepInv, Keeps, Follows,
       NoEditLost, LandInv, Landed, Taken, ChosenOnce, MarkerInv, AnswerInv, Answering, Latest,
       FollowInv, Following, Dated, Same, FromRemote, Committed
<1> QED BY <1>1, <1>2

LEMMA FinalizeClearKeeps == ASSUME IInv, FinalizeClear PROVE IInv'
<1> USE DEF IInv, FinalizeClear, Return, Reported
<1>a. journal # None => "force" \in Commands
    BY Known DEF Typed, TypeOK, SoundInv, Sound, CommandInv
<1>b. answer' \in {"none", "ok", "refused"}
    BY DEF Reported, TypeOK
<1>1. (TypeOK /\ MarkerInv /\ AnswerInv /\ FollowInv)'
    BY <1>a DEF TypeOK, MarkerInv, AnswerInv, Answering, Latest, FollowInv, Following, Dated,
       Same, FromRemote, Committed
<1>2. (SoundInv /\ CommandInv /\ FreshInv /\ KeepInv /\ NoEditLost /\ LandInv /\ StatusInv /\
   CleanIsHonest /\ ChosenOnce)'
    BY DEF SoundInv, Sound, Open, CommandInv, FreshInv, Fresh, KeepInv, Keeps, Follows,
       NoEditLost, LandInv, Landed, Taken, StatusInv, CleanIsHonest, ChosenOnce
<1> QED BY <1>1, <1>2

LEMMA CrashKeeps == ASSUME IInv, Crash PROVE IInv'
<1> USE DEF IInv, Crash, Return
<1>1. (TypeOK /\ SoundInv /\ CommandInv /\ FreshInv /\ KeepInv /\ NoEditLost /\ LandInv /\
   StatusInv /\ CleanIsHonest /\ ChosenOnce /\ MarkerInv /\ AnswerInv /\ FollowInv)'
    BY DEF TypeOK, SoundInv, Sound, Open, CommandInv, FreshInv, Fresh, KeepInv, Keeps, Follows,
       NoEditLost, LandInv, Landed, Taken, StatusInv, CleanIsHonest, ChosenOnce, MarkerInv,
       AnswerInv, Answering, Latest, FollowInv, Following, Dated, Same, FromRemote, Committed
<1> QED BY <1>1

LEMMA FailKeeps == ASSUME IInv, Fail PROVE IInv'
<1> USE DEF IInv, Fail, Return
<1>1. (TypeOK /\ SoundInv /\ CommandInv /\ FreshInv /\ KeepInv /\ NoEditLost /\ LandInv /\
   StatusInv /\ CleanIsHonest /\ ChosenOnce /\ MarkerInv /\ AnswerInv /\ FollowInv)'
    BY DEF TypeOK, SoundInv, Sound, Open, CommandInv, FreshInv, Fresh, KeepInv, Keeps, Follows,
       NoEditLost, LandInv, Landed, Taken, StatusInv, CleanIsHonest, ChosenOnce, MarkerInv,
       AnswerInv, Answering, Latest, FollowInv, Following, Dated, Same, FromRemote, Committed
<1> QED BY <1>1

LEMMA RunSyncKeeps == ASSUME IInv, RunSync PROVE IInv'
<1> USE DEF IInv, RunSync, Recover, Enter
<1>a. p = None /\ call = "none" /\ (journal # None => Typed(journal))
    BY Known DEF CommandInv
<1>1. (CommandInv /\ FreshInv /\ KeepInv /\ LandInv /\ FollowInv)'
  <2>1. CASE journal = None
      BY <1>a, <2>1 DEF CommandInv, FreshInv, Fresh, KeepInv, Keeps, Follows, LandInv, Landed,
         Taken, FollowInv, Following, Dated, Same, FromRemote, Committed
  <2>2. CASE journal # None /\ journal.phase = "await"
      BY <2>2 DEF CommandInv, FreshInv, Fresh, KeepInv, Keeps, Follows, LandInv, Landed, Taken,
         FollowInv, Following, Dated, Same, FromRemote, Committed
  <2>3. CASE journal # None /\ journal.phase # "await"
    <3>1. /\ pc' \in {"apply", "replace", "force"} /\ pc' = journal.phase
            /\ p' = journal /\ call' = "start" /\ UNCHANGED <<status, seen, out>>
        BY <1>a, <2>3 DEF Typed
    <3> QED BY <2>3, <3>1 DEF CommandInv, FreshInv, Fresh, KeepInv, Keeps, Follows, LandInv,
        Landed, Taken, FollowInv, Following, Dated, Same, FromRemote, Committed
  <2> QED BY <2>1, <2>2, <2>3
<1>2. (TypeOK /\ SoundInv /\ NoEditLost /\ StatusInv /\ CleanIsHonest /\ ChosenOnce /\ MarkerInv
   /\ AnswerInv)'
    BY DEF TypeOK, SoundInv, Open, Sound, NoEditLost, StatusInv, CleanIsHonest, ChosenOnce,
       MarkerInv, AnswerInv, Answering, Latest
<1> QED BY <1>1, <1>2

LEMMA ReplaceLocalKeeps == ASSUME IInv, ReplaceLocal PROVE IInv'
<1> USE DEF IInv, ReplaceLocal, Recover, Enter
<1>a. p = None /\ call = "none" /\ (journal # None => Typed(journal))
    BY Known DEF CommandInv
<1>1. (TypeOK /\ SoundInv /\ CommandInv /\ FreshInv /\ KeepInv /\ NoEditLost /\ LandInv /\
   StatusInv /\ CleanIsHonest /\ ChosenOnce /\ MarkerInv /\ AnswerInv /\ FollowInv)'
    BY DEF TypeOK, SoundInv, Open, Sound, CommandInv, FreshInv, Fresh, KeepInv, Follows, Keeps,
       NoEditLost, LandInv, Landed, Taken, StatusInv, CleanIsHonest, ChosenOnce, MarkerInv,
       AnswerInv, Answering, Latest, FollowInv, Committed, Dated, Following, FromRemote, Same
<1> QED BY <1>1

LEMMA ForcePublishKeeps == ASSUME IInv, ForcePublish PROVE IInv'
<1> USE DEF IInv, ForcePublish, Recover, Enter
<1>a. p = None /\ call = "none" /\ (journal # None => Typed(journal))
    BY Known DEF CommandInv
<1>1. (TypeOK /\ SoundInv /\ CommandInv /\ FreshInv /\ KeepInv /\ NoEditLost /\ LandInv /\
   StatusInv /\ CleanIsHonest /\ ChosenOnce /\ MarkerInv /\ AnswerInv /\ FollowInv)'
    BY DEF TypeOK, SoundInv, Open, Sound, CommandInv, FreshInv, Fresh, KeepInv, Follows, Keeps,
       NoEditLost, LandInv, Landed, Taken, StatusInv, CleanIsHonest, ChosenOnce, MarkerInv,
       AnswerInv, Answering, Latest, FollowInv, Committed, Dated, Following, FromRemote, Same
<1> QED BY <1>1

LEMMA EditKeeps ==
    ASSUME IInv, NEW i \in Item, NEW v \in Val, Edit(i, v) PROVE IInv'
<1> USE DEF IInv, Edit, Locked
<1>a. /\ live \in Content /\ live' \in Content /\ live'[i] = v
      /\ \A j \in Item : j # i => live'[j] = live[j]
      /\ own' \in [Item -> Val \cup {None}] /\ edited' \subseteq Item
      /\ own'[i] # None => own'[i] = v /\ v # Expected[i]
      /\ \A j \in Item : j # i => own'[j] = own[j]
    BY DEF TypeOK, Content
<1>b. status' \in {"dirty", "conflict"}
    BY DEF MarkedDirty, TypeOK
<1>c. journal # None /\ journal.phase \in {"apply", "await"} /\ ~journal.applied
            /\ marker # journal.op => Expected = journal.baseline
    BY DEF Expected
<1>d. /\ p # None => Typed(p)
      /\ pc \in OnQueue /\ p.phase \in {"apply", "await"} => Expected = base.c /\ p # None
      /\ pc = "chosen" => Expected = journal.baseline /\ p # None
    BY Known DEF CommandInv, FreshInv, Expected
<1>e. /\ pc \notin Locked /\ edits' \in Nat
      /\ UNCHANGED <<marker, base, journal, receipt, cloud, memory, client, chosen, minted, fails>>
    BY DEF TypeOK
<1> HIDE DEF Edit
<1>f. edited \subseteq edited' /\ i \in edited'
    BY DEF Edit
<1>g. /\ \A c, d : Same(c, d) => Same(c, d)'
      /\ \A d : Same(live, d) => Same(live, d)'
    BY <1>a, <1>f DEF Same
<1>1. KeepInv'
    BY <1>a, <1>c, <1>d, <1>e DEF KeepInv, Keeps, Follows
<1>2. (TypeOK /\ SoundInv /\ CommandInv /\ FreshInv)'
    BY <1>a, <1>b, <1>e DEF TypeOK, SoundInv, Sound, Open, CommandInv, FreshInv, Fresh
<1>3. NoEditLost'
    BY <1>a DEF NoEditLost
<1>4. (LandInv /\ ChosenOnce /\ MarkerInv /\ AnswerInv)'
    BY <1>e DEF LandInv, Landed, Taken, ChosenOnce, MarkerInv, AnswerInv, Answering, Latest
<1>5. (StatusInv /\ CleanIsHonest)'
    BY <1>b DEF StatusInv, CleanIsHonest
<1>6. FollowInv'
  <2> SUFFICES ASSUME "force" \notin Commands PROVE Following'
    BY DEF FollowInv
  <2>1. Following
    BY DEF FollowInv
  <2>2. (journal # None => FromRemote(journal))' /\ (p # None => FromRemote(p))'
    BY <1>e, <1>f, <1>g, <2>1 DEF Following, FromRemote, Dated
  <2>3. Dated(base)' /\ (seen # None => Dated(seen))'
    BY <1>e, <1>f, <1>g, <2>1 DEF Following, Dated
  <2> QED BY <1>e, <1>f, <1>g, <2>1, <2>2, <2>3 DEF Following, Committed
<1> QED BY <1>1, <1>2, <1>3, <1>4, <1>5, <1>6

LEMMA OtherPublishesKeeps ==
    ASSUME IInv, NEW i \in Item, NEW v \in Val, OtherPublishes(i, v) PROVE IInv'
<1> USE DEF IInv, OtherPublishes, Track
<1>a. /\ cloud' \in Snapshot /\ cloud' # None /\ cloud'.by = "other" /\ cloud'.gen = cloud.gen + 1
      /\ cloud'.c \in Content /\ cloud.gen \in Nat
    BY Known DEF Snapshot, Content
<1>b. /\ own' \in [Item -> Val \cup {None}]
      /\ \A j \in Item : own'[j] # None => own'[j] = own[j]
    BY DEF TypeOK
<1>c. \A s \in Snapshot : Dated(s) => Dated(s)'
  <2>1. cloud \in Snapshot /\ cloud'.gen = cloud.gen + 1
    BY <1>a, Known
  <2> QED BY <2>1, DatedLater
<1>d. /\ base \in Snapshot /\ (seen # None => seen \in Snapshot)
      /\ (journal # None => journal.remote \in Snapshot) /\ (p # None => p.remote \in Snapshot)
    BY Known DEF Typed
<1>e. UNCHANGED <<live, disk, memory, client, edited, chosen, bounds>>
    OBVIOUS
<1> HIDE DEF OtherPublishes
<1>1. (TypeOK /\ SoundInv /\ KeepInv /\ NoEditLost)'
    BY <1>a, <1>b, <1>e DEF TypeOK, KeepInv, Keeps, Follows, NoEditLost, SoundInv, Sound, Open
<1>2. (CommandInv /\ FreshInv /\ StatusInv /\ FollowInv)'
    BY <1>c, <1>d, <1>e DEF FollowInv, Following, Dated, Same, FromRemote, Committed,
       CommandInv, FreshInv, Fresh, StatusInv
<1>3. LandInv'
    BY <1>a DEF LandInv, Landed, Taken
<1>4. (CleanIsHonest /\ ChosenOnce /\ MarkerInv /\ AnswerInv)'
    BY <1>e DEF CleanIsHonest, ChosenOnce, MarkerInv, AnswerInv, Answering, Latest
<1> QED BY <1>1, <1>2, <1>3, <1>4

LEMMA ResolveKeeps ==
    ASSUME IInv, NEW c \in Choice,
           c.token \in Offered \/ (asked # None /\ c.token = asked.token), Resolve(c),
           screen' \in {screen, Offered} PROVE IInv'
<1> USE DEF IInv, Resolve, Recover, Enter
<1>a. p = None /\ call = "none" /\ (journal # None => Typed(journal))
    BY Known DEF CommandInv
<1>b. c # None /\ Offered \subseteq Token
    BY <1>a DEF Offered, Typed
<1>c. \A k \in chosen : k.token = c.token => asked # None /\ k.token = asked.token
  <2>1. c.token \in Offered => \A k \in chosen : k.token # c.token
    BY DEF FreshInv, Fresh, Offered
  <2> QED BY <2>1
<1>1. AnswerInv'
    BY <1>c DEF AnswerInv, Answering, Latest
<1>2. (CommandInv /\ FreshInv /\ KeepInv /\ LandInv /\ FollowInv)'
  <2>1. CASE journal # None /\ journal.phase # "await"
    <3>1. /\ pc' \in {"apply", "replace", "force"} /\ pc' = journal.phase
            /\ p' = journal /\ call' = "resume" /\ UNCHANGED <<seen, out>>
        BY <1>a, <2>1 DEF Typed
    <3> QED BY <2>1, <3>1 DEF CommandInv, FreshInv, Fresh, KeepInv, Keeps, Follows, LandInv,
        Landed, Taken, FollowInv, Following, Dated, Same, FromRemote, Committed
  <2>2. CASE ~(journal # None /\ journal.phase # "await")
      BY <2>2 DEF CommandInv, FreshInv, Fresh, KeepInv, Keeps, Follows, LandInv, Landed, Taken,
         FollowInv, Following, Dated, Same, FromRemote, Committed
  <2> QED BY <2>1, <2>2
<1>3. (SoundInv /\ NoEditLost /\ StatusInv /\ CleanIsHonest /\ ChosenOnce /\ MarkerInv)'
    BY DEF TypeOK, SoundInv, Open, Sound, NoEditLost, StatusInv, CleanIsHonest, ChosenOnce,
       MarkerInv
<1>4. screen' \subseteq Token
    BY <1>b DEF TypeOK
<1> HIDE DEF Offered
<1>5. TypeOK'
    BY <1>4 DEF TypeOK
<1> QED BY <1>1, <1>2, <1>3, <1>5


-----------------------------------------------------------------------------
LEMMA Initially == Init => IInv
<1> SUFFICES ASSUME Init PROVE IInv
    OBVIOUS
<1> USE DEF Init
<1>1. PICK v \in Val : base = [gen |-> 1, by |-> "other", c |-> [i \in Item |-> v]]
    OBVIOUS
<1>2. /\ base \in Snapshot /\ base.c \in Content /\ cloud = base /\ live = base.c
      /\ own \in [Item -> Val \cup {None}] /\ \A i \in Item : own[i] = None
    BY <1>1 DEF Snapshot, Content
<1>3. base # None
    BY <1>2
<1> HIDE DEF Init
<1>4. /\ journal = None /\ p = None /\ seen = None /\ out = None /\ pc = "idle" /\ call = "none"
      /\ status = "clean" /\ asked = None /\ answer = "none" /\ receipt = None /\ marker = 0
      /\ edited = {} /\ chosen = {} /\ minted = 0 /\ edits = 0 /\ fails = 0 /\ screen = {}
    BY DEF Init
<1>5. TypeOK
    BY <1>2, <1>4 DEF TypeOK
<1>6. SoundInv /\ CommandInv
    BY <1>4 DEF SoundInv, CommandInv
<1>7. FreshInv /\ KeepInv /\ NoEditLost /\ LandInv
    BY <1>2, <1>4 DEF FreshInv, KeepInv, NoEditLost, LandInv
<1>8. StatusInv /\ CleanIsHonest /\ ChosenOnce /\ MarkerInv
    BY <1>2, <1>4 DEF StatusInv, CleanIsHonest, ChosenOnce, MarkerInv
<1>9. AnswerInv /\ FollowInv
    BY <1>2, <1>4 DEF AnswerInv, Answering, Latest, FollowInv, Following, Dated, Same, Snapshot
<1> QED BY <1>5, <1>6, <1>7, <1>8, <1>9 DEF IInv

LEMMA StutterKeeps == ASSUME IInv, UNCHANGED vars PROVE IInv'
<1> USE DEF IInv
<1>1. /\ UNCHANGED <<live, marker, base, status, journal, receipt, cloud, pc, call, p, seen, out>>
      /\ UNCHANGED <<asked, answer, screen, own, edited, chosen, minted, edits, fails>>
    BY DEF vars
<1>2. (TypeOK /\ SoundInv /\ FreshInv /\ KeepInv)'
    BY <1>1 DEF TypeOK, SoundInv, Sound, Open, FreshInv, Fresh, KeepInv, Keeps, Follows
<1>3. CommandInv'
  <2>1. (Recovering /\ Committing /\ Marked /\ Pausing /\ Queueing /\ Waits /\ Choosing)'
    BY <1>1 DEF CommandInv
  <2>2. (Applied /\ Recovered /\ Syncing /\ Queued)'
    BY <1>1 DEF CommandInv
  <2>3. Publishing'
    BY <1>1 DEF CommandInv
  <2> QED BY <2>1, <2>2, <2>3 DEF CommandInv
<1>4. (NoEditLost /\ LandInv /\ StatusInv /\ CleanIsHonest /\ ChosenOnce /\ MarkerInv)'
    BY <1>1 DEF NoEditLost, LandInv, Landed, Taken, StatusInv, CleanIsHonest, ChosenOnce,
       MarkerInv
<1>5. (AnswerInv /\ FollowInv)'
    BY <1>1 DEF AnswerInv, Answering, Latest, FollowInv, Following, Dated, Same, FromRemote,
       Committed
<1> QED BY <1>2, <1>3, <1>4, <1>5

LEMMA StepKeeps == ASSUME IInv, Step PROVE IInv'
BY LoadRemoteKeeps, CaptureLocalKeeps, StayCleanKeeps, CaptureMergeKeeps, QueueReceiptKeeps,
   QueueJournalKeeps, QueueBaseKeeps, QueueStatusKeeps, ApplyProvenKeeps, ApplyKnownKeeps,
   ApplyRebaseKeeps, ApplyCommitKeeps, JournalAppliedKeeps, UnmarkKeeps, CoversKeeps,
   ApplyBaseKeeps, ApplyStatusKeeps, ApplyReceiptKeeps, ApplyClearKeeps, PauseReceiptKeeps,
   PauseJournalKeeps, PauseStatusKeeps, ContinueSyncKeeps, StartSyncKeeps, ResumeResolveKeeps,
   FinishedKeeps, ChoiceKnownKeeps, ChoiceStaleKeeps, ChooseKeeps, JournalChoiceKeeps,
   ReplaceLoadKeeps, ReplaceProvenKeeps, ReplaceCommitKeeps, ReplaceBaseKeeps,
   ReplaceStatusKeeps, ReplaceClearKeeps, ForceLoadKeeps, ForceCaptureKeeps, ForceLandedKeeps,
   ForceSupersededKeeps, ForceRetryKeeps, ForgetKeeps, PublishWonKeeps, PublishLostKeeps,
   PublishMistakenKeeps, FinalizeBaseKeeps, FinalizeStatusKeeps, FinalizeClearKeeps DEF Step

\* The user is asked about what is offered, or once more about the last choice.
LEMMA AnswersAreChoices ==
    ASSUME IInv, Answer \/ AnswerAgain
    PROVE  \E c \in Choice : /\ c.token \in Offered \/ (asked # None /\ c.token = asked.token)
                             /\ Resolve(c) /\ screen' \in {screen, Offered}
<1>1. Offered \subseteq Token
    BY Known DEF IInv, Offered, Typed
<1>2. \A t \in Token, s \in Side : [token |-> t, side |-> s] \in Choice
    BY DEF Choice
<1>3. CASE Answer
  <2>1. PICK t \in Offered, s \in Side : Resolve([token |-> t, side |-> s])
    BY <1>3 DEF Answer
  <2>a. screen' \in {screen, Offered}
    BY <1>3 DEF Answer
  <2> DEFINE c == [token |-> t, side |-> s]
  <2>2. c.token = t
    OBVIOUS
  <2>3. c \in Choice
    BY <1>1, <1>2, <2>1, Zenon
  <2>4. Resolve(c)
    BY <2>1 DEF Resolve
  <2> HIDE DEF c
  <2> QED BY <2>1, <2>2, <2>3, <2>4, <2>a
<1>4. CASE AnswerAgain
  <2>1. PICK s \in Side : asked # None /\ Resolve([asked EXCEPT !.side = s])
    BY <1>4 DEF AnswerAgain
  <2>a. screen' \in {screen, Offered}
    BY <1>4 DEF AnswerAgain
  <2>2. asked \in Choice
    BY <2>1 DEF IInv, TypeOK
  <2>3. [asked EXCEPT !.side = s] \in Choice /\ [asked EXCEPT !.side = s].token = asked.token
    BY <2>2 DEF Choice
  <2> QED BY <2>1, <2>3, <2>a
<1> QED BY <1>3, <1>4

LEMMA NextKeeps == ASSUME IInv, Next PROVE IInv'
<1>1. CASE \E i \in Item, v \in Val : Edit(i, v) \/ OtherPublishes(i, v)
    BY <1>1, EditKeeps, OtherPublishesKeeps
<1>2. CASE Crash \/ Fail
    BY <1>2, CrashKeeps, FailKeeps
<1>3. CASE RunSync \/ ReplaceLocal \/ ForcePublish
    BY <1>3, RunSyncKeeps, ReplaceLocalKeeps, ForcePublishKeeps
<1>4. CASE Answer \/ AnswerAgain
  <2>1. PICK c \in Choice : /\ c.token \in Offered \/ (asked # None /\ c.token = asked.token)
                            /\ Resolve(c) /\ screen' \in {screen, Offered}
    BY <1>4, AnswersAreChoices
  <2> QED BY <2>1, ResolveKeeps
<1> QED BY <1>1, <1>2, <1>3, <1>4, StepKeeps DEF Next

\* IInv holds in every state of every behaviour: no step of a command, edit,
\* publication of another device, error or crash leaves it.
THEOREM Invariance == Spec => []IInv
<1>1. IInv /\ [Next]_vars => IInv'
    BY NextKeeps, StutterKeeps
<1> QED BY Initially, <1>1, PTL DEF Spec

-----------------------------------------------------------------------------
\* Everything that is on disk or in memory is of its type, and the fields of the
\* journal agree (PendingSyncState, the commit marker, the completed resolution).
THEOREM TypeCorrect == Spec => []TypeOK
<1>1. IInv => TypeOK
    BY DEF IInv
<1> QED BY <1>1, Invariance, PTL

\* No merge, rebase, replay or recovery undoes what the user wrote meanwhile
\* (apply_snapshot_with_commit_marker refuses a base that is no longer live,
\* recover_pending_snapshot_apply rebases on it), and "clean" is only shown for a
\* library that is as the base says (finalize_clean_if_local_still_matches_base_with_hook).
THEOREM EditsAndStatus == Spec => []KeptAndHonest
<1>1. IInv => KeptAndHonest
    BY DEF IInv, KeptAndHonest
<1> QED BY <1>1, Invariance, PTL

\* At every moment, and so after any crash, the journal can be resumed: its phase,
\* marker and conflicts agree, the user is asked about real conflicts only, and
\* two journaled choices never answer the same question
\* (queue_pending_sync_with_client, resolve_sync_conflict_with_client).
THEOREM SoundJournal == Spec => []JournalIsSound
<1>1. IInv => JournalIsSound
  <2> SUFFICES ASSUME IInv PROVE JournalIsSound
      OBVIOUS
  <2>1. ConflictsAreOpen
      BY DEF IInv, SoundInv, Sound, Open, ConflictsAreOpen
  <2> QED BY <2>1 DEF IInv, JournalIsSound, KeptAndHonest
<1> QED BY <1>1, Invariance, PTL

LEMMA StepsCommitOnce ==
    ASSUME IInv, Next, pc' = "applied", marker = p.op
    PROVE  live' = live
<1>1. ASSUME NEW i \in Item, NEW v \in Val, Edit(i, v) PROVE FALSE
    BY <1>1 DEF Edit, Locked
<1>2. ~ApplyCommit
    BY DEF ApplyCommit, IInv, CommandInv
<1>3. ~ReplaceCommit
    BY DEF ReplaceCommit, Proven
<1>4. CASE Step
    BY <1>2, <1>3, <1>4 DEF Step, Go, Return, LoadRemote, CaptureLocal, StayClean, CaptureMerge,
       QueueReceipt, QueueJournal, QueueBase, QueueStatus, ApplyProven, ApplyKnown, ApplyRebase,
       JournalApplied, Unmark, Covers, ApplyBase, ApplyStatus, ApplyReceipt, ApplyClear,
       PauseReceipt, PauseJournal, PauseStatus, ContinueSync, StartSync, ResumeResolve,
       Finished, ChoiceKnown, ChoiceStale, Choose, JournalChoice, ReplaceLoad, ReplaceProven,
       ReplaceBase, ReplaceStatus, ReplaceClear, ForceLoad, ForceCapture, ForceLanded,
       ForceSuperseded, ForceRetry, Forget, PublishWon, PublishLost, PublishMistaken,
       FinalizeBase, FinalizeStatus, FinalizeClear
<1>5. CASE Crash \/ Fail \/ RunSync \/ Answer \/ AnswerAgain \/ ReplaceLocal \/ ForcePublish
    BY <1>5 DEF Crash, Fail, RunSync, Answer, AnswerAgain, Resolve, ReplaceLocal, ForcePublish
<1>6. CASE \E i \in Item, v \in Val : OtherPublishes(i, v)
    BY <1>6 DEF OtherPublishes
<1> QED BY <1>1, <1>4, <1>5, <1>6 DEF Next

\* A transaction whose marker is in the database is not run again: an operation
\* that committed is found applied, never applied over what the user wrote since
\* (recover_pending_snapshot_apply, recover_replace_local_from_remote).
THEOREM OnceCommitted == Spec => CommittedOnce
<1>1. IInv /\ [Next]_vars => [pc' = "applied" /\ marker = p.op => live' = live]_vars
    BY StepsCommitOnce
<1> QED BY <1>1, Invariance, PTL DEF Spec, CommittedOnce

LEMMA StepsAnswer ==
    ASSUME IInv, Next, Commands \subseteq {"sync", "resolve"}, answer' # answer
    PROVE  (answer' = "ok" => asked \in chosen) /\ (answer' = "refused" => asked \notin chosen)
<1>1. Answering
    BY DEF IInv, AnswerInv
<1>2. CASE ChoiceKnown
  <2>1. asked # None
    BY <1>2 DEF ChoiceKnown, IInv, CommandInv
  <2> QED BY <1>1, <1>2, <2>1 DEF ChoiceKnown, Answering
<1>3. CASE ChoiceStale
  <2>1. receipt # asked /\ asked # None /\ (journal = None \/ journal.phase = "await")
    BY <1>3 DEF ChoiceStale, IInv, CommandInv
  <2>2. asked \notin chosen
    BY <1>1, <2>1 DEF Answering, Latest
  <2> QED BY <1>3, <2>2 DEF ChoiceStale
<1>4. CASE Finished
    BY <1>1, <1>4 DEF Finished, Answering
<1>5. CASE Forget \/ FinalizeClear
    BY <1>1, <1>5 DEF Forget, FinalizeClear, Reported, Answering, IInv, CommandInv
<1>6. CASE Answer \/ AnswerAgain
    BY <1>6 DEF Answer, AnswerAgain, Resolve
<1>7. CASE Next /\ ~(ChoiceKnown \/ ChoiceStale \/ Finished \/ Forget \/ FinalizeClear
                     \/ Answer \/ AnswerAgain)
    BY <1>7 DEF Next, Step, Edit, OtherPublishes, Crash, Fail, RunSync, ReplaceLocal,
       ForcePublish, Go, Return, GiveUp, LoadRemote, CaptureLocal, StayClean, CaptureMerge,
       QueueReceipt, QueueJournal, QueueBase, QueueStatus, ApplyProven, ApplyKnown, ApplyRebase,
       ApplyCommit, JournalApplied, Unmark, Covers, ApplyBase, ApplyStatus, ApplyReceipt,
       ApplyClear, PauseReceipt, PauseJournal, PauseStatus, ContinueSync, StartSync,
       ResumeResolve, Choose, JournalChoice, ReplaceLoad, ReplaceProven, ReplaceCommit,
       ReplaceBase, ReplaceStatus, ReplaceClear, ForceLoad, ForceCapture, ForceLanded,
       ForceSuperseded, ForceRetry, PublishWon, PublishLost, PublishMistaken, FinalizeBase,
       FinalizeStatus
<1> QED BY <1>2, <1>3, <1>4, <1>5, <1>6, <1>7

\* "ok" is told of a choice only when it was journaled, "refused" only when it was
\* not: a resolution that is asked for twice, since the first response was lost, is
\* recognised by the journal or by the receipt (resolve_sync_conflict_with_client).
\* Commands: a resolution that finds a forced publication to finish reports that
\* one, and a replacement clears the receipt of a choice that was applied.
THEOREM TrueAnswers == Commands \subseteq {"sync", "resolve"} /\ Spec => AnswersAreTrue
<1> SUFFICES ASSUME Commands \subseteq {"sync", "resolve"} PROVE Spec => AnswersAreTrue
    OBVIOUS
<1>1. IInv /\ [Next]_vars =>
        [answer' # answer => /\ answer' = "ok" => asked \in chosen
                             /\ answer' = "refused" => asked \notin chosen]_vars
    BY StepsAnswer
<1> QED BY <1>1, Invariance, PTL DEF Spec, AnswersAreTrue

LEMMA StepsRevertNothing ==
    ASSUME IInv, Next, "force" \notin Commands, cloud' # cloud, cloud'.by = "me"
    PROVE  \A i \in Item \ edited : cloud'.c[i] = cloud.c[i]
<1>1. Following
    BY DEF IInv, FollowInv
<1>2. CASE PublishWon \/ PublishMistaken
  <2>1. pc = "publish" /\ cloud.gen = seen.gen /\ cloud'.c = out
    BY <1>2 DEF PublishWon, PublishMistaken, Published
  <2>2. seen # None
    BY <2>1 DEF IInv, CommandInv
  <2> QED BY <1>1, <2>1, <2>2 DEF Following, Dated, Same
<1>3. CASE \E i \in Item, v \in Val : OtherPublishes(i, v)
    BY <1>3 DEF OtherPublishes
<1>4. CASE Next /\ ~(PublishWon \/ PublishMistaken)
                /\ ~(\E i \in Item, v \in Val : OtherPublishes(i, v))
    BY <1>4 DEF Next, Step, Edit, Crash, Fail, RunSync, Answer, AnswerAgain, Resolve,
       ReplaceLocal, ForcePublish, Go, Return, LoadRemote, CaptureLocal, StayClean,
       CaptureMerge, QueueReceipt, QueueJournal, QueueBase, QueueStatus, ApplyProven,
       ApplyKnown, ApplyRebase, ApplyCommit, JournalApplied, Unmark, Covers, ApplyBase,
       ApplyStatus, ApplyReceipt, ApplyClear, PauseReceipt, PauseJournal, PauseStatus,
       ContinueSync, StartSync, ResumeResolve, Finished, ChoiceKnown, ChoiceStale, Choose,
       JournalChoice, ReplaceLoad, ReplaceProven, ReplaceCommit, ReplaceBase, ReplaceStatus,
       ReplaceClear, ForceLoad, ForceCapture, ForceLanded, ForceSuperseded, ForceRetry, Forget,
       PublishLost, FinalizeBase, FinalizeStatus, FinalizeClear
<1> QED BY <1>2, <1>3, <1>4

\* A sync publishes no value for an item the user left alone other than the one
\* the cloud has (publish_snapshot_with_client, with the merge of
\* queue_pending_sync_with_client and the rebase of the recovery).  A forced
\* publication is the one command that is meant to.
THEOREM OthersKept == "force" \notin Commands /\ Spec => NothingReverted
<1> SUFFICES ASSUME "force" \notin Commands PROVE Spec => NothingReverted
    OBVIOUS
<1>1. IInv /\ [Next]_vars =>
        [cloud' # cloud /\ cloud'.by = "me" /\ ~(p # None /\ p.phase = "force") =>
            \A i \in Item \ edited : cloud'.c[i] = cloud.c[i]]_vars
    BY StepsRevertNothing
<1> QED BY <1>1, Invariance, PTL DEF Spec, NothingReverted

=============================================================================
