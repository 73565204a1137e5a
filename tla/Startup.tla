------------------------------ MODULE Startup ------------------------------
(***************************************************************************)
(* How the app comes to an open database: a start (lib.rs run,             *)
(* web_server.rs main), the first profile (initialize_user_db), a full     *)
(* backup (backup.rs import_full_backup) and the interactive recovery of   *)
(* milestones without a media entry (database_recovery.rs).  Desktop and   *)
(* web server run the same steps.                                          *)
(*                                                                         *)
(* Each opens a bundle and migrates it, one transaction per version, and   *)
(* may end at any step: the process dies, or the data refuses.  The swap   *)
(* of a prepared backup for the active library is one step here; module    *)
(* BackupSwap shows that it is one; the names here are told apart from    *)
(* those there, for the proofs are about both.                             *)
(***************************************************************************)
EXTENDS Schema, FiniteSetsExt

CONSTANTS
    Libraries,      \* what may be on disk at first: [active, fallback]
    Backups,        \* the bundles a backup may hold
    Variants,       \* variants a user may give a new entry
    MaxCrashes, MaxBegun, MaxAnswers        \* bounds (answers in flight)

None == "none"
Dirs == {"active", "fallback", "incoming", "staged"}

\* The rows a bundle shows, and what becomes of them: `was`, at first;
\* `gave`, the milestones a user discarded; `chose` and `before`, the
\* answer that was applied to it and the rows it was applied to.
Rows(b) == [media |-> b.media \cup b.mainMedia, logs |-> b.logs, stones |-> b.stones]
Absent == [files |-> {}, main |-> 0, shared |-> 0, mainMedia |-> {}, media |-> {},
           logs |-> {}, stones |-> {}, was |-> Rows([media |-> {}, mainMedia |-> {},
           logs |-> {}, stones |-> {}]), gave |-> {}, chose |-> {}, before |-> {}]

\* A bundle as the releases of the app leave one: rows with their columns, a
\* number of its own for each milestone, media in the shared file since the
\* first version and with an identifier since the second.
WellFormed(b) ==
    /\ DOMAIN b = DOMAIN Absent /\ {b.main, b.shared} \subseteq Nat
    /\ \A m \in b.media \cup b.mainMedia : DOMAIN m = {"id", "title", "variant", "type", "uid"}
    /\ \A s \in b.stones : DOMAIN s = {"id", "title", "media", "what", "uid"}
    /\ \A s, q \in b.stones : s.id = q.id => s = q
    /\ b.main > 0 => b.mainMedia = {}
    /\ b.shared > 1 => NoUid \notin Uids(b)
Released == \A b \in {l.active : l \in Libraries} \cup {l.fallback : l \in Libraries} \cup Backups :
                WellFormed(b) /\ b.before = {}
ASSUME StartupAssumption == Released

\* The milestones to ask about: those no single entry has the title of.
Groups(b) ==
    {[title |-> t, stones |-> {s.id : s \in {x \in Broken(b) : x.title = t}}] :
        t \in {x.title : x \in {y \in Broken(b) : Cardinality(Titled(b, y.title)) # 1}}}
\* Before version 2 a milestone has no link that could be broken.
HasPlan(b) == /\ b.files = {"user", "shared"}
              /\ b.main = b.shared /\ b.main \in 2 .. Latest
              /\ Groups(b) # {}

\* An answer to one group, and answers to several: sets of such records.
Resolutions(b) ==
    {[group |-> g, kind |-> "discard"] : g \in Groups(b)}
    \cup {[group |-> g, kind |-> "attach", uid |-> u] : g \in Groups(b), u \in Uids(b)}
    \cup {[group |-> g, kind |-> "create", variant |-> v] : g \in Groups(b), v \in Variants}
Tries(b) == UNION {kSubset(n, Resolutions(b)) : n \in 1 .. Cardinality(Groups(b)) + 1}
OnePerGroup(rs) == \A r, q \in rs : r.group = q.group => r = q
Answered(rs) == {r.group : r \in rs}

-----------------------------------------------------------------------------
\* What a set of resolutions makes of a bundle.
NewUid(r) == <<"new", r.group.title>>
NewMedia(r) == [id |-> <<"new", r.group.title>>, title |-> r.group.title,
                variant |-> Trim(r.variant), type |-> "Reading", uid |-> NewUid(r)]
CanResolve(b, rs) ==
    \A r \in rs :
        /\ r.kind = "attach" => r.uid \in Uids(b)
        /\ r.kind = "create" =>
                /\ b.main >= 5
                /\ \A m \in Titled(b, r.group.title) : m.variant # Trim(r.variant)
Of(rs, kind) == {r \in rs : r.kind = kind}
Discarded(rs) == UNION {r.group.stones : r \in Of(rs, "discard")}
Settle(b, rs, s) ==
    IF \E r \in Of(rs, "attach") : s.id \in r.group.stones
    THEN LET r == CHOOSE r \in Of(rs, "attach") : s.id \in r.group.stones
         IN  [s EXCEPT !.media = r.uid, !.title = TitleOf(b, r.uid)]
    ELSE IF \E r \in Of(rs, "create") : s.id \in r.group.stones
    THEN LET r == CHOOSE r \in Of(rs, "create") : s.id \in r.group.stones
         IN  [s EXCEPT !.media = NewUid(r)]
    ELSE s
ResolvedOnly(b, rs) ==                                          \* a mutant
    [b EXCEPT !.media = @ \cup {NewMedia(r) : r \in Of(rs, "create")},
              !.stones = {Settle(b, rs, s) : s \in {x \in @ : x.id \notin Discarded(rs)}},
              !.gave = @ \cup Discarded(rs), !.chose = rs, !.before = {Rows(b)}]
Resolved(b, rs) ==
    LET c == Repaired(b)
    IN  [c EXCEPT !.media = @ \cup {NewMedia(r) : r \in Of(rs, "create")},
                  !.stones = {Settle(b, rs, s) : s \in {x \in @ : x.id \notin Discarded(rs)}},
                  !.gave = @ \cup Discarded(rs), !.chose = rs, !.before = {Rows(b)}]

VARIABLES
    db,         \* the bundle in each directory
    mode,       \* the startup mode; "none" while the app is not running
    session,    \* the recovery session: its directory, token and groups
    step,       \* where the opening of a bundle is
    dir, cause, \* the bundle being opened, and what for
    answers,    \* requests to apply a recovery, on their way
    safety,     \* the safety backups: where they are and what they hold
    choice,     \* the resolutions being committed
    admitted,   \* imports that found the mode Ready and wait for the lock
    crashes, begun

startupVars ==
    <<db, mode, session, step, dir, cause, choice, answers, safety, admitted, crashes, begun>>
route == <<mode, session, step, dir, cause, choice>>
users == <<answers, safety, admitted, crashes, begun>>

NoSession == [dir |-> None, token |-> 0, groups |-> {}]
Tokens == 1 .. MaxAnswers + 2
NewToken == CHOOSE t \in Tokens : t # session.token /\ \A a \in answers : a.token # t
Plan(d, b) == [dir |-> d, token |-> NewToken, groups |-> Groups(b)]

StartupInit ==
    /\ \E l \in Libraries : db = [d \in Dirs |-> CASE d = "active" -> l.active
                                                   [] d = "fallback" -> l.fallback
                                                   [] OTHER -> Absent]
    /\ mode = None /\ session = NoSession /\ step = "off" /\ dir = None /\ cause = None
    /\ choice = {} /\ answers = {} /\ safety = {} /\ admitted = 0 /\ crashes = 0 /\ begun = 0

Idle == step = "idle"
Open(d, w) == step' = "opening" /\ dir' = d /\ cause' = w /\ UNCHANGED choice

-----------------------------------------------------------------------------
\* A start: without a user database the app waits for the first profile.
StartApp ==
    /\ step = "off"
    /\ session' = NoSession
    /\ IF "user" \in db["active"].files
       THEN Open("active", "start") /\ mode' = None
       ELSE step' = "idle" /\ mode' = "ready" /\ UNCHANGED <<dir, cause, choice>>
    /\ UNCHANGED <<db, users>>

\* The first profile takes over the database of an older one, if there is
\* one of that name; its copy is complete when it gets its name.
WithUser(b, f) ==
    LET c == [b EXCEPT !.files = {"user", "shared"}, !.main = f.main, !.mainMedia = f.mainMedia,
                       !.logs = f.logs, !.stones = f.stones]
    IN  [c EXCEPT !.was = Rows(c)]
InitializeUser ==
    /\ Idle /\ mode = "ready" /\ "user" \notin db["active"].files
    /\ ~Future(db["active"]) /\ ~Future(db["fallback"])
    /\ db' = [db EXCEPT !["active"] = WithUser(@, db["fallback"])]
    /\ Open("active", "profile")
    /\ UNCHANGED <<mode, session, users>>

\* An import is admitted by the mode and then waits for the sync lock.
AdmitImport ==
    /\ mode = "ready" /\ begun < MaxBegun
    /\ begun' = begun + 1 /\ admitted' = admitted + 1
    /\ UNCHANGED <<db, route, answers, safety, crashes>>
BeginImport ==
    /\ Idle /\ admitted > 0 /\ mode # None
    /\ admitted' = admitted - 1
    /\ \E b \in Backups : db' = [db EXCEPT !["incoming"] = b]
    /\ Open("incoming", "import")
    /\ UNCHANGED <<mode, session, answers, safety, crashes, begun>>

-----------------------------------------------------------------------------
\* init_db: every action is one commit to the bundle at hand, or none.
B == db[dir]
Write(b) == db' = [db EXCEPT ![dir] = b]
Fails == step' = "failed" /\ UNCHANGED <<db, mode, session, dir, cause, choice, users>>
Goes(to) == step' = to /\ UNCHANGED <<mode, session, dir, cause, choice, users>>

Create == /\ step = "opening" /\ Fresh(B)
          /\ Write(At(B, Latest)) /\ Goes("checking")
Renew == /\ step = "opening" /\ ~Future(B)
         /\ Unversioned(B) \/ (Mixed(B) /\ Predates(B))
         /\ IF CanRenew(B) THEN Write(Current(B)) /\ Goes("checking") ELSE Fails
Restamp == /\ step = "opening" /\ ~Future(B) /\ Mixed(B) /\ ~Predates(B)
           /\ IF Nameless(B) = {} /\ Dangling(B) = {} /\ Broken(B) = {}
              THEN Write(At(B, Latest)) /\ Goes("checking") ELSE Fails
Begin == /\ step = "opening" /\ Versioned(B) /\ ~Future(B)
         /\ IF Dangling(B) = {} THEN UNCHANGED db /\ Goes("stepping") ELSE Fails
RefuseFuture == step = "opening" /\ Future(B) /\ Fails
StepUp == /\ step = "stepping" /\ B.main < Latest
          /\ IF CanStep(B) THEN Write(Stepped(B)) /\ Goes("stepping") ELSE Fails
Arrive == /\ step = "stepping" /\ B.main = Latest
          /\ UNCHANGED db /\ Goes("checking")
Check == /\ step = "checking"
         /\ IF Valid(B) THEN UNCHANGED db /\ Goes("opened") ELSE Fails
Migrate == Create \/ Renew \/ Restamp \/ Begin \/ RefuseFuture \/ StepUp \/ Arrive \/ Check

-----------------------------------------------------------------------------
Closed(d) == [db EXCEPT ![d] = Absent]
Rest(m, s) == /\ step' = "idle" /\ dir' = None /\ cause' = None /\ choice' = {}
              /\ mode' = m /\ session' = s

\* The bundle is open: the app is ready, or the backup can be installed.  A
\* safety backup made beside a staged bundle is copied to the app first.
Preserved == safety \cup {[x EXCEPT !.place = "app"] : x \in {y \in safety : y.place = dir}}
Opened ==
    /\ step = "opened"
    /\ IF dir = "active"
       THEN Rest("ready", NoSession) /\ UNCHANGED safety
       ELSE /\ step' = "installing"
            /\ safety' = Preserved
            /\ UNCHANGED <<mode, session, dir, cause, choice>>
    /\ UNCHANGED <<db, answers, admitted, crashes, begun>>

\* The swap succeeds, or leaves the active library; the staged files go.
Install ==
    /\ step = "installing"
    /\ \/ db' = [Closed(dir) EXCEPT !["active"] = B]
       \/ db' = Closed(dir)
    /\ IF cause = "apply" THEN Rest("ready", NoSession) ELSE Rest(mode, session)
    /\ UNCHANGED users

\* The bundle does not open.  At a start, and of a backup, the recovery
\* takes over if it can help; after an answer the session gets the plan that
\* is left, and stays as it was if there is none.
Failed ==
    /\ step = "failed"
    /\ CASE cause = "profile" -> Rest(mode, session) /\ UNCHANGED db
         [] cause = "start" -> /\ IF HasPlan(B) THEN Rest("recovery", Plan(dir, B))
                                  ELSE Rest("blocked", NoSession)
                               /\ UNCHANGED db
         [] cause = "import" -> IF HasPlan(B)
                                THEN /\ Rest("recovery", Plan("staged", B))
                                     /\ db' = [Closed("incoming") EXCEPT !["staged"] = B]
                                ELSE Rest(mode, session) /\ db' = Closed("incoming")
         [] OTHER -> /\ Rest(mode, IF HasPlan(B) THEN Plan(dir, B) ELSE session)
                     /\ UNCHANGED db
    /\ UNCHANGED users

-----------------------------------------------------------------------------
\* A client answers the plan it was shown, all of it or some of it; the
\* request arrives at any later time.
Send ==
    /\ mode = "recovery" /\ Cardinality(answers) < MaxAnswers
    /\ \E rs \in Tries(db[session.dir]) :
            answers' = answers \cup {[token |-> session.token, resolutions |-> rs]}
    /\ UNCHANGED <<db, route, safety, admitted, crashes, begun>>

\* An answer is good if it is for this session, what it was shown is what
\* is there, and it settles everything.
CompleteSome(rs, groups) == Answered(rs) \subseteq groups      \* a mutant
Complete(rs, groups) == Answered(rs) = groups
Acceptable(a) ==
    LET b == db[session.dir]
    IN  /\ a.token = session.token
        /\ HasPlan(b) /\ Groups(b) = session.groups
        /\ OnePerGroup(a.resolutions) /\ Complete(a.resolutions, session.groups)
Taken(a) == answers' = answers \ {a}

\* The safety backup is written, then the choices in one transaction.
Apply(a) ==
    /\ Idle /\ mode = "recovery" /\ Acceptable(a)
    /\ Taken(a)
    /\ safety' = safety \cup {[place |-> IF session.dir = "active" THEN "app" ELSE "staged",
                               rows |-> Rows(db[session.dir])]}
    /\ step' = "committing" /\ dir' = session.dir /\ cause' = "apply"
    /\ choice' = a.resolutions
    /\ UNCHANGED <<db, mode, session, admitted, crashes, begun>>
CommitChoice ==
    /\ step = "committing"
    /\ IF CanResolve(B, choice) THEN Write(Resolved(B, choice)) /\ Goes("opening") ELSE Fails

\* Any other answer is refused, and the plan drawn up anew if there is one.
Reject(a) ==
    /\ Idle /\ mode # None /\ ~(mode = "recovery" /\ Acceptable(a))
    /\ Taken(a)
    /\ session' = IF mode = "recovery" /\ HasPlan(db[session.dir])
                  THEN Plan(session.dir, db[session.dir]) ELSE session
    /\ UNCHANGED <<db, mode, step, dir, cause, choice, safety, admitted, crashes, begun>>

\* The process dies: what is on disk stays, and nobody knows of a staged
\* bundle, or of the backup beside it, any more.
Killed ==
    /\ step # "off" /\ crashes < MaxCrashes
    /\ crashes' = crashes + 1
    /\ db' = [db EXCEPT !["incoming"] = Absent, !["staged"] = Absent]
    /\ safety' = {x \in safety : x.place = "app"}
    /\ step' = "off" /\ mode' = None /\ session' = NoSession /\ dir' = None /\ cause' = None
    /\ choice' = {} /\ answers' = {} /\ admitted' = 0
    /\ UNCHANGED begun

System == StartApp \/ Migrate \/ Opened \/ Install \/ Failed \/ CommitChoice
UserActs == InitializeUser \/ AdmitImport \/ BeginImport \/ Send
Answer == \E a \in answers : Apply(a) \/ Reject(a)
StartupNext == System \/ UserActs \/ Answer \/ Killed

\* Whatever was begun is gone on with; a user who sees the recovery keeps
\* trying, and tries again and again what the database would take.
Answerable(a) == Acceptable(a) /\ CanResolve(db[session.dir], a.resolutions)
StartupSpec ==
    /\ StartupInit /\ [][StartupNext]_startupVars
    /\ WF_startupVars(System) /\ WF_startupVars(BeginImport) /\ WF_startupVars(Answer)
    /\ SF_startupVars(Send /\ \E a \in answers' : a \notin answers /\ Answerable(a))
    /\ SF_startupVars(\E a \in answers : Answerable(a) /\ Apply(a))

-----------------------------------------------------------------------------
\* What is there at first is not in each other's way: rows have their columns,
\* the media in a profile's own file have numbers of their own and no
\* identifiers, and none has the number of another entry in the shared file.
Untangled(b) ==
    /\ \A l \in b.logs : DOMAIN l = {"id", "media", "type", "what", "uid"}
    /\ \A r \in b.mainMedia : r.uid = NoUid
    /\ \A r, q \in b.mainMedia : r.id = q.id => r = q
    /\ \A r \in b.mainMedia, m \in b.media : m.id = r.id => m.title = r.title
    /\ b.was = Rows(b)
AllUntangled ==
    /\ \A l \in Libraries : /\ Untangled(l.active) /\ Untangled(l.fallback)
                            /\ "user" \notin l.active.files => Untangled(WithUser(l.active, l.fallback))
    /\ \A b \in Backups : Untangled(b) /\ "user" \in b.files
ASSUME UntangledAssumption == AllUntangled

\* Activities and milestones have numbers of their own, and identifiers since
\* version 7.
Numbered(b) ==
    /\ IsFiniteSet({l.id : l \in b.logs}) /\ {l.id : l \in b.logs} \subseteq Nat
    /\ IsFiniteSet({s.id : s \in b.stones}) /\ {s.id : s \in b.stones} \subseteq Nat
    /\ \A l, q \in b.logs : l.id = q.id => l = q
    /\ b.main < 7 => /\ \A l \in b.logs : l.uid = NoUid
                     /\ \A s \in b.stones : s.uid = NoUid
AllNumbered ==
    \A b \in {l.active : l \in Libraries} \cup {l.fallback : l \in Libraries} \cup Backups : Numbered(b)
ASSUME NumberedAssumption == AllNumbered

\* Whatever is migrated, by whatever path and however often it is cut short,
\* keeps every media entry with its id and title, every activity with its
\* entry, and every milestone that was not given up, with its entry if it had
\* one (docs/database-versioning.md:41, :56).
Keeps(b, was) ==
    /\ \A m \in was.media : \E n \in Rows(b).media : n.id = m.id /\ n.title = m.title
    /\ \A l \in was.logs : \E q \in b.logs : q.id = l.id /\ q.media = l.media /\ q.what = l.what
    /\ \A s \in was.stones :
            \/ s.id \in b.gave
            \/ \E q \in b.stones :
                  /\ q.id = s.id /\ q.what = s.what
                  /\ s.media \in {m.uid : m \in was.media} \ {NoUid} => q.media = s.media
RowsKept == \A d \in Dirs : Keeps(db[d], db[d].was)
\* And a bundle with an activity of no entry is refused before any version of
\* it is committed (db.rs, migrate_schema: "Reject cross-database orphans
\* before the first versioned step commits").
RefusedWhole ==
    /\ step \in {"opening", "stepping", "checking"} /\ dir' = dir
    /\ Dangling(Shared(B)) # {}
    => db'[dir].main = B.main /\ db'[dir].shared = B.shared
NothingDropped == [][RowsKept' /\ RefusedWhole]_startupVars

\* The identifiers that the migration gives to records are those the loader
\* of an old snapshot gives to the same records, so the two meet in a merge
\* (docs/database-versioning.md:67).
Loaded(key, about) ==
    UNION {{RecordUid(about, key[q], i) : i \in 0 .. Cardinality({r \in DOMAIN key : key[r] = key[q]}) - 1} :
            q \in DOMAIN key}
UidsAgree ==
    [][step = "stepping" /\ B.main = 6 /\ db'[dir].main = 7 =>
         LET c == db'[dir]
         IN  /\ {l.uid : l \in c.logs} = Loaded([l \in B.logs |-> LogKey(B, l)], "activity")
             /\ {s.uid : s \in c.stones} = Loaded([s \in B.stones |-> StoneKey(s)], "milestone")
      ]_startupVars

\* What a recovery leaves is what the user chose for all of it: an answer to
\* part of the plan, or to a plan the data has left behind, changes nothing.
Held(b, r, s) ==
    CASE r.kind = "discard" -> s \notin {x.id : x \in b.stones}
      [] r.kind = "attach" -> \E x \in b.stones : x.id = s /\ x.media = r.uid
      [] OTHER -> \E x \in b.stones, m \in b.media :
                    /\ x.id = s /\ x.media = m.uid
                    /\ m.title = r.group.title /\ m.variant = Trim(r.variant)
RecoveredAsChosen ==
    \A d \in Dirs : \A rows \in db[d].before :
        /\ Answered(db[d].chose) = Groups(rows)
        /\ \A r \in db[d].chose : \A s \in r.group.stones : Held(db[d], r, s)

\* Before the active library holds what a recovery made, the app holds a
\* backup of what it was made from, wherever the process dies.
SafetyFirst ==
    \A rows \in db["active"].before : \E x \in safety : x.place = "app" /\ x.rows = rows

\* A recovery leaves what was chosen, and what it was made from is kept.
RecoveryIsSound == RecoveredAsChosen /\ SafetyFirst

\* A recovery that an answer can end is ended; only an activity without an
\* entry, a blank title or two entries of one name keep a library out of use.
Curable(b) == /\ Dangling(b) = {} /\ \A m \in b.media : m.title # Blank
              /\ \A m, n \in Trimmed(b).media : <<m.title, m.variant>> = <<n.title, n.variant>> => m = n
RecoveryEnds == mode = "recovery" /\ Curable(db[session.dir]) ~> mode # "recovery"
=============================================================================
