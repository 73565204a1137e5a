------------------------------ MODULE BackupSwap ------------------------------
(***************************************************************************)
(* Installing a full backup over the live library (backup.rs), and what    *)
(* the next start of the app does with an installation that stopped half   *)
(* way.                                                                    *)
(*                                                                         *)
(* The library is a list of paths.  An installation moves the active ones  *)
(* into a swap directory of its own, moves the staged ones in, opens the   *)
(* database, and records each phase in a file before it begins.  An error  *)
(* undoes it at once; a crash, at the next start.  Either way the swap     *)
(* directory is removed at last, entry by entry.                           *)
(*                                                                         *)
(* A file is abstracted to the library it belongs to: 1 is the library at  *)
(* the start, k + 1 the one the k-th import brings.                        *)
(***************************************************************************)
EXTENDS Naturals, FiniteSets

CONSTANTS
    Count,          \* paths that are swapped out (backup_swap_paths)
    Installed,      \* how many of them, the first ones, are in a backup
    MaxImports,     \* bound: imports the user starts
    MaxFails        \* bound: errors and crashes

ASSUME ConstantsAssumption ==
    /\ {Count, Installed, MaxImports, MaxFails} \subseteq Nat
    /\ Installed \in 1..Count

Path == 1..Count        \* the databases are the first, in every library
Installable == 1..Installed
Swap == 1..MaxImports
Nothing == 0
Library == 1 .. MaxImports + 1
Brought(s) == s + 1     \* the library that the import with directory s brings
File == Library \cup {Nothing}

Undoing == {"installing", "verifying"}
Phases == {"none", "moving_originals", "committed"} \cup Undoing

\* A swap directory: the phase file, the originals (and whether there is a
\* subdirectory for those of sync/), the progress markers of a recovery.
Dir == [exists : BOOLEAN, phase : Phases, originals : [Path -> File],
        nested : BOOLEAN, marks : [Path -> {"none", "original", "absent"}]]

NoDir == [exists |-> FALSE, phase |-> "none", nested |-> FALSE,
          originals |-> [p \in Path |-> Nothing],
          marks |-> [p \in Path |-> "none"]]

VARIABLES
    active,     \* the file at each path
    dirs,       \* the swap directories
    rank,       \* the order of their random names
    staged,     \* the paths the prepared backup holds
    open,       \* whether the database connection is there
    pc,         \* where the running installation or recovery is
    why,        \* what it is part of: an installation, its abort, a start
    swap,       \* the directory at hand
    at,         \* the path at hand
    entry,      \* the entry of the directory that is being removed
    imports, fails,
    refused,    \* the last recovery gave up on what it found
    current,    \* history: the library committed last
    has,        \* history: the paths each committed library has
    beside,     \* history: an import began beside an earlier one's directory
    torn        \* history: phases of directories whose removal was cut short

disk == <<active, dirs>>
control == <<pc, why, swap, at, entry>>
committed == <<current, has>>
vars == <<disk, rank, staged, open, control, imports, fails, refused,
          committed, beside, torn>>

D == dirs[swap]
Originals(d) == {p \in Path : d.originals[p] # Nothing}
Marked(d) == {p \in Path : d.marks[p] # "none"}

Init ==
    /\ \E P \in SUBSET Path :
        /\ 1 \in P
        /\ active = [p \in Path |-> IF p \in P THEN 1 ELSE Nothing]
        /\ has = [l \in Library |-> IF l = 1 THEN P ELSE {}]
    /\ dirs = [s \in Swap |-> NoDir]
    /\ rank \in {r \in [Swap -> Swap] : \A s, t \in Swap : r[s] = r[t] => s = t}
    /\ staged = {} /\ open = TRUE
    /\ pc = "idle" /\ why = "none" /\ swap = 0 /\ at = 0 /\ entry = "none"
    /\ imports = 0 /\ fails = 0 /\ refused = FALSE
    /\ current = 1 /\ beside = FALSE /\ torn = {}

\* The step only moves on; the path at hand is i.
Go(to, i) == /\ pc' = to /\ at' = i
             /\ UNCHANGED <<why, swap, entry>>

History == <<committed, beside, torn>>
User == <<rank, staged, imports, fails>>

-----------------------------------------------------------------------------
(* install_prepared_full_backup.                                           *)

\* The connection is replaced first, whatever it was.
Import ==
    /\ pc \in {"idle", "detached"}
    /\ imports < MaxImports
    /\ imports' = imports + 1
    /\ staged' \in {S \in SUBSET Installable : 1 \in S}
    /\ open' = FALSE
    /\ beside' = (beside \/ \E s \in Swap : dirs[s].exists)
    /\ pc' = "create" /\ why' = "install" /\ swap' = imports + 1
    /\ UNCHANGED <<disk, rank, at, entry, fails, refused, committed, torn>>

CreateDir ==
    /\ pc = "create"
    /\ dirs' = [dirs EXCEPT ![swap].exists = TRUE]
    /\ Go("begin", 0)
    /\ UNCHANGED <<active, open, refused, User, History>>

\* write_backup_swap_phase: the file is replaced atomically.
Record(phase) == dirs' = [dirs EXCEPT ![swap].phase = phase]

BeginMoving_AsInstalling ==
    /\ pc = "begin"
    /\ Record("installing")
    /\ Go("move", 1)
    /\ UNCHANGED <<active, open, refused, User, History>>

BeginMoving ==
    /\ pc = "begin"
    /\ Record("moving_originals")
    /\ Go("move", 1)
    /\ UNCHANGED <<active, open, refused, User, History>>

MoveOut ==
    /\ pc = "move" /\ at \in Path
    /\ IF active[at] = Nothing THEN UNCHANGED disk
       ELSE /\ active' = [active EXCEPT ![at] = Nothing]
            /\ dirs' = [dirs EXCEPT ![swap].originals[at] = active[at],
                                    ![swap].nested = @ \/ at \notin Installable]
    /\ Go("move", at + 1)
    /\ UNCHANGED <<open, refused, User, History>>

BeginInstalling_Unrecorded ==
    /\ pc = "move" /\ at \notin Path
    /\ Go("install", 1)
    /\ UNCHANGED <<disk, open, refused, User, History>>

BeginInstalling ==
    /\ pc = "move" /\ at \notin Path
    /\ Record("installing")
    /\ Go("install", 1)
    /\ UNCHANGED <<active, open, refused, User, History>>

MoveIn ==
    /\ pc = "install" /\ at \in Installable
    /\ active' = IF at \in staged THEN [active EXCEPT ![at] = Brought(swap)]
                                  ELSE active
    /\ Go("install", at + 1)
    /\ UNCHANGED <<dirs, open, refused, User, History>>

BeginVerifying ==
    /\ pc = "install" /\ at \notin Installable
    /\ Record("verifying")
    /\ Go("verify", 0)
    /\ UNCHANGED <<active, open, refused, User, History>>

\* init_db_without_backup_recovery: SQLite may create files that were missing.
Verify ==
    /\ pc = "verify"
    /\ \E made \in SUBSET {p \in Installable : active[p] = Nothing} :
        active' = [p \in Path |-> IF p \in made THEN Brought(swap) ELSE active[p]]
    /\ Go("commit", 0)
    /\ UNCHANGED <<dirs, open, refused, User, History>>

Commit ==
    /\ pc = "commit"
    /\ Record("committed")
    /\ current' = Brought(swap)
    /\ has' = [has EXCEPT ![Brought(swap)] = {p \in Path : active[p] = Brought(swap)}]
    /\ Go("attach", 0)
    /\ UNCHANGED <<active, open, refused, User, beside, torn>>

Attach ==
    /\ pc = "attach"
    /\ open' = TRUE
    /\ Go("clean", 0)
    /\ UNCHANGED <<disk, refused, User, History>>

-----------------------------------------------------------------------------
(* recover_backup_swap_directory, for an abort or at the start of the app. *)

\* What was found cannot be undone by the book.
Refuse ==
    /\ refused' = TRUE
    /\ pc' = IF why = "start" THEN "down" ELSE "detached"
    /\ UNCHANGED <<disk, why, swap, at, entry>>

\* No phase was recorded: only an empty directory may go.
RecoverUnphased ==
    /\ pc = "recover" /\ D.phase = "none"
    /\ IF Originals(D) = {} /\ ~D.nested
       THEN Go("clean", 0) /\ UNCHANGED <<disk, refused>>
       ELSE Refuse
    /\ UNCHANGED <<open, User, History>>

\* The originals moved so far go back; nothing else was touched.
MoveBack ==
    /\ pc = "recover" /\ D.phase = "moving_originals" /\ at \in Path
    /\ \/ /\ D.originals[at] = Nothing
          /\ Go("recover", at + 1) /\ UNCHANGED <<disk, refused>>
       \/ /\ D.originals[at] # Nothing /\ active[at] = Nothing
          /\ active' = [active EXCEPT ![at] = D.originals[at]]
          /\ dirs' = [dirs EXCEPT ![swap].originals[at] = Nothing]
          /\ Go("recover", at + 1) /\ UNCHANGED refused
       \/ /\ D.originals[at] # Nothing /\ active[at] # Nothing
          /\ Refuse
    /\ UNCHANGED <<open, User, History>>

Undo == pc = "recover" /\ D.phase \in Undoing /\ at \in Path

Mark_Original(d, p) == "original"

\* read_or_create_backup_recovery_marker: what there was to restore.
Mark(d, p) == IF d.originals[p] # Nothing THEN "original" ELSE "absent"

\* The first look at a path is remembered across restarts.
UndoMark ==
    /\ Undo /\ D.marks[at] = "none"
    /\ dirs' = [dirs EXCEPT ![swap].marks[at] = Mark(D, at)]
    /\ UNCHANGED <<active, open, control, refused, User, History>>

UndoAbsent_Again ==
    /\ Undo /\ D.marks[at] = "absent"
    /\ active' = [active EXCEPT ![at] = Nothing]
    /\ UNCHANGED <<dirs, open, control, refused, User, History>>

UndoAbsent ==
    /\ Undo /\ D.marks[at] = "absent"
    /\ active' = [active EXCEPT ![at] = Nothing]
    /\ Go("recover", at + 1)
    /\ UNCHANGED <<dirs, open, refused, User, History>>

\* Restored by an earlier recovery.
UndoRestored ==
    /\ Undo /\ D.marks[at] = "original" /\ D.originals[at] = Nothing
    /\ IF active[at] # Nothing
       THEN Go("recover", at + 1) /\ UNCHANGED <<disk, refused>>
       ELSE Refuse
    /\ UNCHANGED <<open, User, History>>

UndoRemove ==
    /\ Undo /\ D.marks[at] = "original" /\ D.originals[at] # Nothing
    /\ active[at] # Nothing
    /\ active' = [active EXCEPT ![at] = Nothing]
    /\ UNCHANGED <<dirs, open, control, refused, User, History>>

UndoRestore ==
    /\ Undo /\ D.marks[at] = "original" /\ D.originals[at] # Nothing
    /\ active[at] = Nothing
    /\ active' = [active EXCEPT ![at] = D.originals[at]]
    /\ dirs' = [dirs EXCEPT ![swap].originals[at] = Nothing]
    /\ Go("recover", at + 1)
    /\ UNCHANGED <<open, refused, User, History>>

Recovered ==
    /\ pc = "recover"
    /\ \/ D.phase = "committed"
       \/ D.phase \in Undoing \cup {"moving_originals"} /\ at \notin Path
    /\ Go("clean", 0)
    /\ UNCHANGED <<disk, open, refused, User, History>>

-----------------------------------------------------------------------------
(* remove_dir_all: the entries go one by one, in the order the file system *)
(* lists them; a subdirectory is emptied before the next entry.            *)

Cleaning == pc = "clean"

Removing(e) == Cleaning /\ entry \in {"none", e}

CleanPhase ==
    /\ Removing("phase") /\ D.phase # "none"
    /\ dirs' = [dirs EXCEPT ![swap].phase = "none"]
    /\ UNCHANGED <<active, open, control, refused, User, History>>

CleanOriginals ==
    /\ Removing("originals")
    /\ \/ \E p \in Originals(D) : dirs' = [dirs EXCEPT ![swap].originals[p] = Nothing]
       \/ /\ D.nested /\ Originals(D) \subseteq Installable
          /\ dirs' = [dirs EXCEPT ![swap].nested = FALSE]
    /\ entry' = IF Originals(dirs'[swap]) = {} /\ ~dirs'[swap].nested
                THEN "none" ELSE "originals"
    /\ UNCHANGED <<active, open, pc, why, swap, at, refused, User, History>>

CleanMarks ==
    /\ Removing("recovery")
    /\ \E p \in Marked(D) : dirs' = [dirs EXCEPT ![swap].marks[p] = "none"]
    /\ entry' = IF Marked(dirs'[swap]) = {} THEN "none" ELSE "recovery"
    /\ UNCHANGED <<active, open, pc, why, swap, at, refused, User, History>>

After == IF why = "install" THEN "idle" ELSE IF why = "abort" THEN "reopen" ELSE "boot"

CleanDir ==
    /\ Cleaning /\ [D EXCEPT !.exists = FALSE] = NoDir
    /\ dirs' = [dirs EXCEPT ![swap] = NoDir]
    /\ Go(After, 0)
    /\ UNCHANGED <<active, open, refused, User, History>>

\* The rollback of an abort is done: the library is opened again.
Reopen ==
    /\ pc = "reopen"
    /\ open' = TRUE
    /\ Go("idle", 0)
    /\ UNCHANGED <<disk, refused, User, History>>

-----------------------------------------------------------------------------
(* Starting the app: recover_interrupted_backup_installs, then the         *)
(* database is opened.                                                     *)

Start ==
    /\ pc = "down"
    /\ refused' = FALSE
    /\ pc' = "boot" /\ why' = "start" /\ entry' = "none"
    /\ UNCHANGED <<disk, open, swap, at, User, History>>

Waiting == {s \in Swap : dirs[s].exists}

BootRecover ==
    /\ pc = "boot"
    /\ \E s \in Waiting :
        /\ \A t \in Waiting : rank[s] <= rank[t]
        /\ swap' = s
    /\ pc' = "recover" /\ at' = 1
    /\ UNCHANGED <<disk, open, why, entry, refused, User, History>>

BootOpen ==
    /\ pc = "boot" /\ Waiting = {}
    /\ open' = TRUE
    /\ Go("idle", 0)
    /\ UNCHANGED <<disk, refused, User, History>>

-----------------------------------------------------------------------------
(* Errors and crashes.                                                     *)

Installing == {"create", "begin", "move", "install", "verify", "commit", "attach"}

\* The phase that a removal which stops here leaves in a directory.
Tear == torn' = IF Cleaning /\ D # [NoDir EXCEPT !.exists = TRUE]
                THEN torn \cup {D.phase} ELSE torn

\* abort_backup_install: undo what was recorded, or just remove the directory.
Abort ==
    /\ pc \in Installing
    /\ pc' = IF ~D.exists THEN "reopen" ELSE IF D.phase = "none" THEN "clean" ELSE "recover"
    /\ why' = "abort" /\ at' = 1
    /\ UNCHANGED <<swap, entry, torn>>

\* An error elsewhere: a failed cleanup is ignored, a failed rollback leaves the
\* app without its database, a failed start ends it.
GiveUp ==
    /\ pc \in {"recover", "clean", "reopen", "boot"}
    /\ pc' = IF why = "install" THEN "idle" ELSE IF why = "abort" THEN "detached" ELSE "down"
    /\ entry' = "none"
    /\ UNCHANGED <<why, swap, at>>
    /\ Tear

Fail ==
    /\ fails < MaxFails /\ fails' = fails + 1
    /\ Abort \/ GiveUp
    /\ UNCHANGED <<disk, rank, staged, open, imports, refused, committed, beside>>

Crash ==
    /\ pc \notin {"idle", "detached", "down"}
    /\ fails < MaxFails /\ fails' = fails + 1
    /\ pc' = "down" /\ open' = FALSE
    /\ UNCHANGED <<disk, rank, staged, why, swap, at, entry, imports, refused,
                   committed, beside>>
    /\ Tear

\* The user closes the app.
Quit ==
    /\ pc \in {"idle", "detached"}
    /\ pc' = "down" /\ open' = FALSE
    /\ UNCHANGED <<disk, why, swap, at, entry, refused, User, History>>

-----------------------------------------------------------------------------
Step ==
    \/ CreateDir \/ BeginMoving \/ MoveOut \/ BeginInstalling \/ MoveIn
    \/ BeginVerifying \/ Verify \/ Commit \/ Attach
    \/ RecoverUnphased \/ MoveBack \/ UndoMark \/ UndoAbsent \/ UndoRestored
    \/ UndoRemove \/ UndoRestore \/ Recovered
    \/ CleanPhase \/ CleanOriginals \/ CleanMarks \/ CleanDir
    \/ Reopen \/ BootRecover \/ BootOpen

Next == Import \/ Start \/ Step \/ Fail \/ Crash \/ Quit

Spec == Init /\ [][Next]_vars

\* A running operation goes on, and an app that is down is started again.
Fairness == WF_vars(Step) /\ WF_vars(Start)

FairSpec == Spec /\ Fairness

-----------------------------------------------------------------------------
(* Properties.                                                             *)

\* The types; a directory that is not there is empty.
TypeOK ==
    /\ active \in [Path -> File]
    /\ dirs \in [Swap -> Dir]
    /\ \A s \in Swap : dirs[s].exists \/ dirs[s] = NoDir
    /\ rank \in [Swap -> Swap] /\ staged \subseteq Installable
    /\ {open, refused, beside} \subseteq BOOLEAN
    /\ pc \in {"idle", "detached", "down", "boot", "reopen", "recover", "clean"}
                 \cup Installing
    /\ pc \in {"move", "install", "recover"} => at \in 1 .. Count + 1
    /\ at \in 0 .. Count + 1 /\ swap \in Swap \cup {0}
    /\ why \in {"none", "install", "abort", "start"}
    /\ entry \in {"none", "originals", "recovery"}
    /\ imports \in 0..MaxImports /\ fails \in 0..MaxFails
    /\ current \in Library /\ has \in [Library -> SUBSET Path]
    /\ torn \subseteq Phases

\* The active files are those of the library committed last, and no others.
Whole == \A p \in Path : active[p] = IF p \in has[current] THEN current ELSE Nothing

\* The code's rollback and replay hold as long as no cleanup stopped after an
\* undone installation, and no import began beside an unfinished one.
Undisturbed == torn \cap Undoing = {} /\ ~beside

\* All or nothing.  The user never works on a mixture of two libraries: when the
\* database is open, the files are those of the last commit, wherever an import
\* and the recoveries after it were interrupted.
AllOrNothing == Undisturbed /\ open => Whole

\* No file of the library in force ever leaves the disk: it is active, or an
\* original in a swap directory.
NothingDestroyed ==
    Undisturbed =>
        \A p \in has[current] :
            \/ active[p] = current
            \/ \E s \in Swap : dirs[s].originals[p] = current

\* The recovery gives up only where there is nothing left to recover.
RefusalIsHarmless == Undisturbed /\ refused /\ pc = "down" => Whole

\* The app comes back after every crash, unless the recovery refuses.
ComesBack == pc = "down" ~> open \/ refused
=============================================================================
