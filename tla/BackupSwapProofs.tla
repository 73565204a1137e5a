--------------------------- MODULE BackupSwapProofs ---------------------------
(***************************************************************************)
(* Theorems about BackupSwap, for every number of paths, of imports and of *)
(* interruptions; the last part is about Startup, which composes it.       *)
(***************************************************************************)
EXTENDS BackupSwap, Startup, FiniteSetTheorems, TLAPS

-----------------------------------------------------------------------------
(* The inductive invariant: where the file of every path is, in each phase *)
(* of the swap directory at hand.  It is kept as long as the rollbacks are *)
(* undisturbed.                                                            *)

\* The file that the library in force has at a path.
Expected(p) == IF p \in has[current] THEN current ELSE Nothing

\* Path p was not touched, or was given back.
Kept(p) == active[p] = Expected(p) /\ D.originals[p] = Nothing

\* The file of path p was moved out; its replacement may be there.
Swapped(p) == /\ D.originals[p] = Expected(p)
              /\ active[p] \in {Nothing, Brought(swap)}

MovedOut(p) == D.originals[p] = Expected(p) /\ active[p] = Nothing

\* Path p in an installation that is being undone: its mark tells the truth.
Looked(p) ==
    \/ D.marks[p] = "none" /\ Swapped(p)
    \/ /\ D.marks[p] = "original" /\ Expected(p) # Nothing
       /\ Swapped(p) \/ Kept(p)
    \/ /\ D.marks[p] = "absent" /\ Expected(p) = Nothing
       /\ Swapped(p)

Unmarked == \A p \in Path : D.marks[p] = "none"

\* What the recorded phase says of the paths.
PhaseInv ==
    /\ D.phase \in {"none", "committed"} => Whole
    /\ D.phase = "moving_originals" =>
            Unmarked /\ \A p \in Path : Kept(p) \/ MovedOut(p)
    /\ D.phase \in Undoing /\ pc # "clean" => \A p \in Path : Looked(p)

\* What the step of an installation or recovery knows beyond that.
StepInv ==
    /\ pc = "create" => D = NoDir
    /\ pc = "begin" => /\ D.phase = "none" /\ Unmarked
                       /\ \A p \in Path : D.originals[p] = Nothing
    /\ pc = "move" => /\ D.phase = "moving_originals"
                      /\ \A p \in Path : IF p < at THEN MovedOut(p) ELSE Kept(p)
    /\ pc = "install" => D.phase = "installing" /\ Unmarked
    /\ pc \in {"verify", "commit"} => D.phase = "verifying" /\ Unmarked
    /\ pc = "attach" => D.phase = "committed"
    /\ pc = "recover" /\ D.phase \in Undoing \cup {"moving_originals"} =>
            \A p \in Path : p < at => Kept(p)
    /\ pc = "clean" /\ D.phase \in Undoing \cup {"moving_originals"} =>
            \A p \in Path : Kept(p)
    /\ pc = "reopen" => D = NoDir
    /\ pc = "idle" \/ (pc = "clean" /\ why = "install") =>
            D.phase \in {"none", "committed"}

\* One directory at most, and a closed library until all is well.
Good ==
    /\ \A s \in Swap : s # swap => dirs[s] = NoDir
    /\ swap = 0 => Whole
    /\ swap \in Swap => PhaseInv /\ StepInv
    /\ open => pc = "idle" \/ (pc = "clean" /\ why = "install")
    /\ refused => /\ pc \in {"down", "detached"} /\ Whole
                  /\ swap \in Swap /\ D.exists

\* The step has a directory to work on, except before and after one.
Placed ==
    /\ swap = 0 => pc \in {"idle", "down", "boot"}
    /\ pc \in {"recover", "clean"} \cup (Installing \ {"create"}) => D.exists
    /\ pc \in Installing => why = "install"
    /\ pc \in {"recover", "reopen"} => why \in {"abort", "start"}
    /\ pc = "boot" => why = "start"
    /\ pc = "clean" => why # "none"

IInv ==
    /\ TypeOK
    /\ Placed
    /\ Undisturbed => Good

-----------------------------------------------------------------------------
(* Types.                                                                  *)

\* What the constants say of the sets made of them.
LEMMA Sets ==
    /\ Count \in Nat /\ Installed \in 1..Count
    /\ Installable \subseteq Path /\ Path \subseteq 1 .. Count + 1
    /\ MaxImports \in Nat /\ MaxFails \in Nat
    /\ 0 \notin Swap /\ NoDir \in Dir /\ ~NoDir.exists /\ NoDir.phase = "none"
    /\ 0 \in File /\ Library \subseteq File /\ Library \subseteq Nat
    /\ \A s \in Swap : Brought(s) \in Library /\ Brought(s) # 0
    /\ 0 \notin Library
BY ConstantsAssumption DEF Installable, Path, Swap, NoDir, Dir, Phases, Undoing,
   File, Library, Nothing, Brought

\* The types by the part of the state they are about.
DiskOK == /\ active \in [Path -> File]
          /\ dirs \in [Swap -> Dir]
          /\ \A s \in Swap : dirs[s].exists \/ dirs[s] = NoDir
ControlOK ==
    /\ pc \in {"idle", "detached", "down", "boot", "reopen", "recover", "clean"}
                 \cup Installing
    /\ pc \in {"move", "install", "recover"} => at \in 1 .. Count + 1
    /\ at \in 0 .. Count + 1 /\ swap \in Swap \cup {0}
    /\ why \in {"none", "install", "abort", "start"}
    /\ entry \in {"none", "originals", "recovery"}
UserOK == /\ rank \in [Swap -> Swap] /\ staged \subseteq Installable
          /\ imports \in 0..MaxImports /\ fails \in 0..MaxFails
FlagsOK == {open, refused, beside} \subseteq BOOLEAN
CommitOK == /\ current \in Library /\ has \in [Library -> SUBSET Path]
            /\ torn \subseteq Phases

\* The parts make the whole.
LEMMA TypeParts ==
    TypeOK <=> DiskOK /\ ControlOK /\ UserOK /\ FlagsOK /\ CommitOK
BY DEF TypeOK, DiskOK, ControlOK, UserOK, FlagsOK, CommitOK

\* Only the directory at hand changes, and it stays one.
LEMMA DirUpdate ==
    ASSUME DiskOK, swap \in Swap, NEW d \in Dir, d.exists \/ d = NoDir,
           dirs' = [dirs EXCEPT ![swap] = d]
    PROVE  /\ dirs' \in [Swap -> Dir]
           /\ \A s \in Swap : dirs'[s].exists \/ dirs'[s] = NoDir
           /\ dirs'[swap] = d
           /\ \A s \in Swap : s # swap => dirs'[s] = dirs[s]
BY DEF DiskOK

\* The directory at hand is one.
LEMMA AtHand ==
    ASSUME DiskOK, swap \in Swap
    PROVE  D \in Dir /\ (D.exists \/ D = NoDir)
BY DEF DiskOK, D

-----------------------------------------------------------------------------
(* What every step does to the directory at hand.                          *)

\* The step leaves the directory at hand as d, and the others alone.
To(d) == /\ swap \in Swap /\ swap' = swap
         /\ D' = d
         /\ \A s \in Swap : s # swap => dirs'[s] = dirs[s]
         /\ DiskOK'

\* How the directory at hand is written.
LEMMA Written ==
    ASSUME DiskOK, swap \in Swap, swap' = swap, active' \in [Path -> File],
           NEW d \in Dir, d.exists \/ d = NoDir,
           dirs' = [dirs EXCEPT ![swap] = d]
    PROVE  To(d)
BY DirUpdate DEF To, D, DiskOK

\* A phase is recorded, or its file removed.
LEMMA RecordedPhase ==
    ASSUME TypeOK, Placed, D.exists, swap \in Swap, swap' = swap, active' = active,
           NEW x \in Phases, dirs' = [dirs EXCEPT ![swap].phase = x]
    PROVE  To([D EXCEPT !.phase = x])
<1> DEFINE d == [D EXCEPT !.phase = x]
<1>1. DiskOK /\ D \in Dir
  BY TypeParts, AtHand
<1>2. d \in Dir /\ d.exists
  BY <1>1 DEF Dir
<1>3. dirs' = [dirs EXCEPT ![swap] = d]
  BY <1>1 DEF D, DiskOK
<1>4. active' \in [Path -> File]
  BY <1>1 DEF DiskOK
<1> QED BY <1>1, <1>2, <1>3, <1>4, Written

\* Where there is work in a directory.
LEMMA AtDir ==
    ASSUME TypeOK, Placed, pc \in {"recover", "clean"} \cup Installing
    PROVE  /\ swap \in Swap /\ D \in Dir /\ DiskOK
           /\ pc # "create" => D.exists
BY TypeParts, AtHand DEF Placed, ControlOK, Installing

\* The new directory is empty.
LEMMA CreateDirTo ==
    ASSUME TypeOK, Placed, CreateDir  PROVE To([D EXCEPT !.exists = TRUE])
<1> DEFINE d == [D EXCEPT !.exists = TRUE]
<1>1. swap \in Swap /\ D \in Dir /\ DiskOK
  BY AtDir DEF CreateDir, Installing
<1>2. d \in Dir /\ d.exists
  BY <1>1 DEF Dir
<1>3. dirs' = [dirs EXCEPT ![swap] = d]
  BY <1>1 DEF D, DiskOK, CreateDir
<1>4. active' \in [Path -> File] /\ swap' = swap
  BY <1>1 DEF DiskOK, CreateDir, Go
<1> QED BY <1>1, <1>2, <1>3, <1>4, Written

\* The first phase.
LEMMA BeginMovingTo ==
    ASSUME TypeOK, Placed, BeginMoving
    PROVE  To([D EXCEPT !.phase = "moving_originals"])
BY AtDir, RecordedPhase DEF BeginMoving, Installing, Record, Go, Phases

\* The second phase.
LEMMA BeginInstallingTo ==
    ASSUME TypeOK, Placed, BeginInstalling
    PROVE  To([D EXCEPT !.phase = "installing"])
BY AtDir, RecordedPhase DEF BeginInstalling, Installing, Record, Go, Phases, Undoing

\* The third phase.
LEMMA BeginVerifyingTo ==
    ASSUME TypeOK, Placed, BeginVerifying
    PROVE  To([D EXCEPT !.phase = "verifying"])
BY AtDir, RecordedPhase DEF BeginVerifying, Installing, Record, Go, Phases, Undoing

\* The last phase.
LEMMA CommitTo ==
    ASSUME TypeOK, Placed, Commit  PROVE To([D EXCEPT !.phase = "committed"])
BY AtDir, RecordedPhase DEF Commit, Installing, Record, Go, Phases

\* The removal of the phase file.
LEMMA CleanPhaseTo ==
    ASSUME TypeOK, Placed, CleanPhase  PROVE To([D EXCEPT !.phase = "none"])
BY AtDir, RecordedPhase DEF CleanPhase, Removing, Cleaning, control, Phases

\* What is moved out: the file, to its place in the directory.
LEMMA MoveOutTo ==
    ASSUME TypeOK, Placed, MoveOut, active[at] # Nothing
    PROVE  /\ To([D EXCEPT !.originals[at] = active[at],
                           !.nested = @ \/ at \notin Installable])
           /\ active' = [active EXCEPT ![at] = Nothing]
<1> DEFINE d == [D EXCEPT !.originals[at] = active[at],
                          !.nested = @ \/ at \notin Installable]
<1>1. swap \in Swap /\ D \in Dir /\ DiskOK /\ D.exists
  BY AtDir DEF MoveOut, Installing
<1>2. at \in Path /\ active[at] \in File /\ Nothing \in File
  BY <1>1 DEF MoveOut, DiskOK, File
<1>3. d \in Dir /\ d.exists
  BY <1>1, <1>2 DEF Dir
<1>4. dirs' = [dirs EXCEPT ![swap] = d]
  BY <1>1, <1>2 DEF D, DiskOK, MoveOut
<1>5. /\ active' \in [Path -> File] /\ swap' = swap
      /\ active' = [active EXCEPT ![at] = Nothing]
  BY <1>1, <1>2 DEF DiskOK, MoveOut, Go
<1> QED BY <1>1, <1>3, <1>4, <1>5, Written

\* An original goes back to its place.
LEMMA GivenBack ==
    ASSUME TypeOK, Placed, pc = "recover", at \in Path, swap' = swap,
           active' = [active EXCEPT ![at] = D.originals[at]],
           dirs' = [dirs EXCEPT ![swap].originals[at] = Nothing]
    PROVE  To([D EXCEPT !.originals[at] = Nothing])
<1> DEFINE d == [D EXCEPT !.originals[at] = Nothing]
<1>1. swap \in Swap /\ D \in Dir /\ DiskOK /\ D.exists
  BY AtDir
<1>2. D.originals[at] \in File /\ Nothing \in File
  BY <1>1 DEF Dir, File
<1>3. d \in Dir /\ d.exists
  BY <1>1, <1>2 DEF Dir
<1>4. dirs' = [dirs EXCEPT ![swap] = d]
  BY <1>1, <1>2 DEF D, DiskOK
<1>5. active' \in [Path -> File]
  BY <1>1, <1>2 DEF DiskOK
<1> QED BY <1>1, <1>3, <1>4, <1>5, Written

\* A mark is made.
LEMMA UndoMarkTo ==
    ASSUME TypeOK, Placed, UndoMark
    PROVE  To([D EXCEPT !.marks[at] = Mark(D, at)])
<1> DEFINE d == [D EXCEPT !.marks[at] = Mark(D, at)]
<1>1. swap \in Swap /\ D \in Dir /\ DiskOK /\ D.exists
  BY AtDir DEF UndoMark, Undo
<1>2. at \in Path /\ Mark(D, at) \in {"none", "original", "absent"}
  BY DEF UndoMark, Undo, Mark
<1>3. d \in Dir /\ d.exists
  BY <1>1, <1>2 DEF Dir
<1>4. dirs' = [dirs EXCEPT ![swap] = d]
  BY <1>1, <1>2 DEF D, DiskOK, UndoMark
<1>5. active' \in [Path -> File] /\ swap' = swap
  BY <1>1 DEF DiskOK, UndoMark, control
<1> QED BY <1>1, <1>3, <1>4, <1>5, Written

\* A removal takes one original, or their empty subdirectory.
LEMMA CleanOriginalsTo ==
    ASSUME TypeOK, Placed, CleanOriginals
    PROVE  \/ \E p \in Path : To([D EXCEPT !.originals[p] = Nothing])
           \/ To([D EXCEPT !.nested = FALSE])
<1>1. swap \in Swap /\ D \in Dir /\ DiskOK /\ D.exists
  BY AtDir DEF CleanOriginals, Removing, Cleaning
<1>2. active' \in [Path -> File] /\ swap' = swap
  BY <1>1 DEF DiskOK, CleanOriginals
<1>3. ASSUME NEW p \in Path, dirs' = [dirs EXCEPT ![swap].originals[p] = Nothing]
      PROVE  To([D EXCEPT !.originals[p] = Nothing])
  <2> DEFINE d == [D EXCEPT !.originals[p] = Nothing]
  <2>1. d \in Dir /\ d.exists
    BY <1>1 DEF Dir, File
  <2>2. dirs' = [dirs EXCEPT ![swap] = d]
    BY <1>1, <1>3 DEF D, DiskOK
  <2> QED BY <1>1, <1>2, <2>1, <2>2, Written
<1>4. ASSUME dirs' = [dirs EXCEPT ![swap].nested = FALSE]
      PROVE  To([D EXCEPT !.nested = FALSE])
  <2> DEFINE d == [D EXCEPT !.nested = FALSE]
  <2>1. d \in Dir /\ d.exists
    BY <1>1 DEF Dir
  <2>2. dirs' = [dirs EXCEPT ![swap] = d]
    BY <1>1, <1>4 DEF D, DiskOK
  <2> QED BY <1>1, <1>2, <2>1, <2>2, Written
<1> QED BY <1>3, <1>4 DEF CleanOriginals, Originals

\* A removal takes one mark.
LEMMA CleanMarksTo ==
    ASSUME TypeOK, Placed, CleanMarks
    PROVE  \E p \in Path : To([D EXCEPT !.marks[p] = "none"])
<1>1. swap \in Swap /\ D \in Dir /\ DiskOK /\ D.exists
  BY AtDir DEF CleanMarks, Removing, Cleaning
<1>2. active' \in [Path -> File] /\ swap' = swap
  BY <1>1 DEF DiskOK, CleanMarks
<1>3. PICK p \in Path : dirs' = [dirs EXCEPT ![swap].marks[p] = "none"]
  BY DEF CleanMarks, Marked
<1> DEFINE d == [D EXCEPT !.marks[p] = "none"]
<1>4. d \in Dir /\ d.exists
  BY <1>1 DEF Dir
<1>5. dirs' = [dirs EXCEPT ![swap] = d]
  BY <1>1, <1>3 DEF D, DiskOK
<1> QED BY <1>1, <1>2, <1>4, <1>5, Written

\* The empty directory goes.
LEMMA CleanDirTo ==
    ASSUME TypeOK, Placed, CleanDir  PROVE To(NoDir)
<1>1. swap \in Swap /\ DiskOK
  BY AtDir DEF CleanDir, Cleaning
<1>2. active' \in [Path -> File] /\ swap' = swap /\ dirs' = [dirs EXCEPT ![swap] = NoDir]
  BY <1>1 DEF DiskOK, CleanDir, Go
<1> QED BY <1>1, <1>2, Sets, Written

-----------------------------------------------------------------------------
(* Every step keeps the types.                                             *)

\* The user's part: what is prepared, and the bounds.
LEMMA UserStep ==
    ASSUME UserOK, ControlOK, Next  PROVE UserOK'
<1>1. CASE Import
  <2>1. MaxImports \in Nat /\ imports \in 0..MaxImports /\ imports < MaxImports
    BY <1>1, Sets DEF Import, UserOK
  <2>2. imports' \in 0..MaxImports /\ fails' = fails /\ rank' = rank
    BY <1>1, <2>1 DEF Import
  <2>3. staged' \subseteq Installable
    BY <1>1 DEF Import
  <2>4. rank \in [Swap -> Swap] /\ fails \in 0..MaxFails
    BY DEF UserOK
  <2>5. rank' \in [Swap -> Swap] /\ fails' \in 0..MaxFails
    BY <2>2, <2>4
  <2> QED BY <2>2, <2>3, <2>5 DEF UserOK
<1>2. CASE Fail \/ Crash
  <2>1. /\ MaxFails \in Nat /\ fails \in 0..MaxFails /\ fails < MaxFails
        /\ fails' = fails + 1
    BY <1>2, Sets DEF Fail, Crash, UserOK
  <2>2. rank' = rank /\ staged' = staged /\ imports' = imports
    BY <1>2 DEF Fail, Crash
  <2>3. fails' \in 0..MaxFails
    BY <2>1
  <2> QED BY <2>2, <2>3 DEF UserOK
<1>3. CASE UNCHANGED User
  BY <1>3 DEF User, UserOK
<1> QED
  BY <1>1, <1>2, <1>3 DEF Next, Step, Start, Quit, CreateDir, BeginMoving, MoveOut,
     BeginInstalling, MoveIn, BeginVerifying, Verify, Commit, Attach,
     RecoverUnphased, MoveBack, UndoMark, UndoAbsent, UndoRestored, UndoRemove,
     UndoRestore, Recovered, CleanPhase, CleanOriginals, CleanMarks, CleanDir,
     Reopen, BootRecover, BootOpen

\* The flags.
LEMMA FlagsStep ==
    ASSUME FlagsOK, Next  PROVE FlagsOK'
<1>1. {open', refused', beside'} \subseteq BOOLEAN
  BY DEF FlagsOK, Next, Step, Import, Start, Fail, Abort, GiveUp, Crash, Quit, CreateDir,
     BeginMoving, MoveOut, BeginInstalling, MoveIn, BeginVerifying, Verify, Commit,
     Attach, RecoverUnphased, MoveBack, UndoMark, UndoAbsent, UndoRestored,
     UndoRemove, UndoRestore, Recovered, CleanPhase, CleanOriginals, CleanMarks,
     CleanDir, Reopen, BootRecover, BootOpen, Refuse, History
<1> QED BY <1>1 DEF FlagsOK

\* The history of what was committed and torn.
LEMMA CommitStep ==
    ASSUME TypeOK, Placed, Next  PROVE CommitOK'
<1>a. CommitOK /\ DiskOK /\ ControlOK
  BY TypeParts
<1>1. CASE Commit
  <2>1. /\ Brought(swap) \in Library
        /\ {p \in Path : active[p] = Brought(swap)} \subseteq Path
    BY <1>1, <1>a, Sets DEF Commit, Placed, ControlOK
  <2> QED BY <1>1, <1>a, <2>1 DEF Commit, CommitOK
<1>2. CASE Fail \/ Crash
  <2>1. Tear => torn' \subseteq Phases
    <3>1. CASE pc = "clean"
      BY <3>1, <1>a, AtHand DEF Tear, CommitOK, Dir, Placed, ControlOK
    <3> QED BY <3>1, <1>a DEF Tear, Cleaning, CommitOK
  <2> QED BY <1>2, <1>a, <2>1 DEF Fail, Crash, Abort, GiveUp, committed, CommitOK
<1>3. CASE UNCHANGED committed /\ UNCHANGED torn
  BY <1>3, <1>a DEF committed, CommitOK
<1> QED
  BY <1>1, <1>2, <1>3
       DEF Next, Step, Import, Start, Quit, CreateDir, BeginMoving, MoveOut,
     BeginInstalling, MoveIn, BeginVerifying, Verify, Attach,
     RecoverUnphased, MoveBack, UndoMark, UndoAbsent, UndoRestored, UndoRemove,
     UndoRestore, Recovered, CleanPhase, CleanOriginals, CleanMarks, CleanDir,
     Reopen, BootRecover, BootOpen, History

\* Where the operation is.
LEMMA ControlStep ==
    ASSUME TypeOK, Next  PROVE ControlOK'
<1>1. ControlOK /\ imports + 1 \in Nat /\ (imports < MaxImports => imports + 1 \in Swap)
      /\ Count \in Nat /\ Installable \subseteq Path /\ Path = 1..Count
  BY Sets DEF TypeOK, ControlOK, Swap, Path
<1>2. CASE Import \/ Start \/ Fail \/ Crash \/ Quit
  BY <1>1, <1>2 DEF ControlOK, Import, Start, Fail, Abort, GiveUp, Crash, Quit, Installing
<1>3. CASE CreateDir \/ BeginMoving \/ MoveOut \/ BeginInstalling \/ MoveIn
           \/ BeginVerifying \/ Verify \/ Commit \/ Attach
  BY <1>1, <1>3 DEF ControlOK, CreateDir, BeginMoving, MoveOut, BeginInstalling, MoveIn,
     BeginVerifying, Verify, Commit, Attach, Go, Installing
<1>4. CASE RecoverUnphased \/ MoveBack \/ UndoMark \/ UndoAbsent \/ UndoRestored
           \/ UndoRemove \/ UndoRestore \/ Recovered
  BY <1>1, <1>4 DEF ControlOK, RecoverUnphased, MoveBack, UndoMark, UndoAbsent,
     UndoRestored, UndoRemove, UndoRestore, Recovered, Refuse, Undo, Go, control,
     Installing
<1>5. CASE CleanPhase \/ CleanOriginals \/ CleanMarks \/ CleanDir
           \/ Reopen \/ BootRecover \/ BootOpen
  BY <1>1, <1>5 DEF ControlOK, CleanPhase, CleanOriginals, CleanMarks, CleanDir,
     Reopen, BootRecover, BootOpen, Removing, Cleaning, After, Waiting, Go, control,
     Installing
<1> QED BY <1>2, <1>3, <1>4, <1>5 DEF Next, Step

\* A directory is there until it is removed.
LEMMA DiskStep ==
    ASSUME TypeOK, Placed, Next
    PROVE  /\ DiskOK'
           /\ pc \in {"recover", "clean"} \cup (Installing \ {"create"})
                 => D.exists /\ (CleanDir \/ D'.exists)
<1>1. DiskOK
  BY TypeParts
<1>2. CASE CreateDir
  BY <1>2, CreateDirTo, AtDir DEF To, CreateDir, Dir, D, Installing
<1>3. CASE BeginMoving \/ BeginInstalling \/ BeginVerifying \/ Commit \/ CleanPhase
  BY <1>3, BeginMovingTo, BeginInstallingTo, BeginVerifyingTo, CommitTo, CleanPhaseTo, AtDir
     DEF To, BeginMoving, BeginInstalling, BeginVerifying, Commit, CleanPhase, Removing,
     Cleaning, Dir, Installing
<1>4. CASE MoveOut
  <2>1. CASE active[at] = Nothing
    BY <1>1, <1>4, <2>1, AtDir DEF MoveOut, disk, Go, D, DiskOK, Installing
  <2>2. CASE active[at] # Nothing
    BY <1>4, <2>2, MoveOutTo, AtDir DEF MoveOut, To, Dir, Installing
  <2> QED BY <2>1, <2>2
<1>5. CASE MoveBack
  <2>1. CASE UNCHANGED disk
    BY <1>1, <1>5, <2>1, AtDir DEF MoveBack, Refuse, disk, Go, D, DiskOK, Installing
  <2>2. CASE dirs' = [dirs EXCEPT ![swap].originals[at] = Nothing]
             /\ active' = [active EXCEPT ![at] = D.originals[at]] /\ swap' = swap
    BY <1>5, <2>2, GivenBack, AtDir DEF MoveBack, To, Dir, Installing
  <2> QED BY <1>5, <2>1, <2>2 DEF MoveBack, Refuse, Go, disk
<1>6. CASE UndoRestore
  BY <1>6, GivenBack, AtDir DEF UndoRestore, Undo, Go, To, Dir, Installing
<1>7. CASE UndoMark
  BY <1>7, UndoMarkTo, AtDir DEF UndoMark, Undo, To, Dir, Installing
<1>8. CASE CleanOriginals
  BY <1>8, CleanOriginalsTo, AtDir
       DEF CleanOriginals, Removing, Cleaning, To, Dir, Installing
<1>9. CASE CleanMarks
  BY <1>9, CleanMarksTo, AtDir DEF CleanMarks, Removing, Cleaning, To, Dir, Installing
<1>10. CASE CleanDir
  BY <1>10, CleanDirTo, AtDir DEF CleanDir, Cleaning, To, Installing
<1>11. CASE MoveIn \/ Verify
  <2>1. \A p \in Path : active[p] \in File
    BY <1>1 DEF DiskOK
  <2>2. swap \in Swap /\ Brought(swap) \in File /\ Installable \subseteq Path /\ D.exists
    BY <1>11, AtDir, Sets DEF MoveIn, Verify, Installing
  <2>3. active' \in [Path -> File]
    BY <1>1, <1>11, <2>1, <2>2 DEF MoveIn, Verify, DiskOK
  <2> QED BY <1>1, <1>11, <2>2, <2>3 DEF MoveIn, Verify, Go, DiskOK, D
<1>12. CASE UndoAbsent \/ UndoRemove
  <2>1. Nothing \in File /\ D.exists
    BY <1>12, AtDir DEF File, UndoAbsent, UndoRemove, Undo
  <2>2. active' \in [Path -> File]
    BY <1>1, <1>12, <2>1 DEF UndoAbsent, UndoRemove, DiskOK
  <2> QED BY <1>1, <1>12, <2>1, <2>2
       DEF UndoAbsent, UndoRemove, Undo, Go, control, DiskOK, D
<1>13. CASE Attach \/ RecoverUnphased \/ UndoRestored \/ Recovered \/ Fail \/ Crash
  <2>1. dirs' = dirs /\ active' = active /\ swap' = swap
    BY <1>13 DEF Attach, RecoverUnphased, UndoRestored, Recovered, Fail, Crash, Abort,
       GiveUp, Refuse, Go, disk
  <2> QED BY <1>1, <2>1, AtDir DEF DiskOK, D, Installing, Attach,
        RecoverUnphased, UndoRestored, Recovered, Undo, Fail, Abort, GiveUp, Crash
<1>14. CASE Import \/ Start \/ Quit \/ Reopen \/ BootRecover \/ BootOpen
  BY <1>1, <1>14 DEF Import, Start, Quit, Reopen, BootRecover, BootOpen, disk, DiskOK,
     Installing, Go
<1> QED BY <1>2, <1>3, <1>4, <1>5, <1>6, <1>7, <1>8, <1>9, <1>10, <1>11, <1>12, <1>13, <1>14
       DEF Next, Step

\* Every step that needs a directory finds one.
LEMMA PlacedStep ==
    ASSUME TypeOK, Placed, Next  PROVE Placed'
<1>1. /\ ControlOK /\ (swap # 0 => swap \in Swap) /\ 0 \notin Swap
      /\ imports \in Nat /\ imports + 1 # 0
      /\ why \in {"none", "install", "abort", "start"}
  BY TypeParts, Sets DEF ControlOK, UserOK
<1>2. swap' = 0 => pc' \in {"idle", "down", "boot"}
  BY <1>1 DEF Next, Step, Import, Start, Fail, Abort, GiveUp, Crash, Quit, CreateDir,
     BeginMoving, MoveOut, BeginInstalling, MoveIn, BeginVerifying, Verify, Commit,
     Attach, RecoverUnphased, MoveBack, UndoMark, UndoAbsent, UndoRestored, Undo,
     UndoRemove, UndoRestore, Recovered, CleanPhase, CleanOriginals, CleanMarks,
     CleanDir, Reopen, BootRecover, BootOpen, Refuse, Go, control, Removing, Cleaning,
     Installing, Placed, Waiting, After
<1>3. pc' \in {"recover", "clean"} \cup (Installing \ {"create"}) => D'.exists
  <2>1. CASE CreateDir
    BY <2>1, CreateDirTo, AtDir DEF To, CreateDir, Dir, Installing
  <2>2. CASE CleanDir
    BY <2>2 DEF CleanDir, Go, After, Installing
  <2>3. CASE Import \/ Start \/ Crash \/ Quit \/ Reopen \/ BootOpen
    BY <2>3 DEF Import, Start, Crash, Quit, Reopen, BootOpen, Go, Installing
  <2>4. CASE BootRecover
    BY <2>4 DEF BootRecover, Waiting, disk, D, Installing
  <2>5. CASE Fail
    <3>1. D' = D
      BY <2>5 DEF Fail, Abort, GiveUp, disk, D
    <3> QED BY <2>5, <3>1 DEF Fail, Abort, GiveUp, Installing
  <2>6. CASE pc \in {"recover", "clean"} \cup (Installing \ {"create"}) /\ ~CleanDir
    BY <2>6, DiskStep
  <2> QED BY <2>1, <2>2, <2>3, <2>4, <2>5, <2>6 DEF Next, Step,
     BeginMoving, MoveOut, BeginInstalling, MoveIn, BeginVerifying, Verify, Commit,
     Attach, RecoverUnphased, MoveBack, UndoMark, UndoAbsent, UndoRestored, Undo,
     UndoRemove, UndoRestore, Recovered, CleanPhase, CleanOriginals, CleanMarks,
     Removing, Cleaning, Installing
<1>4. /\ pc' \in Installing => why' = "install"
      /\ pc' \in {"recover", "reopen"} => why' \in {"abort", "start"}
      /\ pc' = "boot" => why' = "start"
      /\ pc' = "clean" => why' # "none"
  BY <1>1 DEF Next, Step, Import, Start, Fail, Abort, GiveUp, Crash, Quit, CreateDir,
     BeginMoving, MoveOut, BeginInstalling, MoveIn, BeginVerifying, Verify, Commit,
     Attach, RecoverUnphased, MoveBack, UndoMark, UndoAbsent, UndoRestored, Undo,
     UndoRemove, UndoRestore, Recovered, CleanPhase, CleanOriginals, CleanMarks,
     CleanDir, Reopen, BootRecover, BootOpen, Refuse, Go, control, Removing, Cleaning,
     Installing, Placed, Waiting, After
<1> QED BY <1>2, <1>3, <1>4 DEF Placed

-----------------------------------------------------------------------------
(* Every step keeps the rest of the invariant, unless it disturbs.         *)

\* What is disturbed stays disturbed.
LEMMA UndisturbedStep ==
    ASSUME TypeOK, Next, Undisturbed'  PROVE Undisturbed
<1>1. torn' = torn \/ torn \subseteq torn'
  BY DEF Next, Step, Import, Start, Fail, Abort, GiveUp, Tear, Crash, Quit, CreateDir,
     BeginMoving, MoveOut, BeginInstalling, MoveIn, BeginVerifying, Verify, Commit,
     Attach, RecoverUnphased, MoveBack, UndoMark, UndoAbsent, UndoRestored,
     UndoRemove, UndoRestore, Recovered, CleanPhase, CleanOriginals, CleanMarks,
     CleanDir, Reopen, BootRecover, BootOpen, History
<1>2. CASE Import
  <2>1. beside => beside'
    BY <1>2 DEF Import
  <2> QED BY <1>1, <2>1 DEF Undisturbed
<1>3. CASE beside' = beside
  BY <1>1, <1>3 DEF Undisturbed
<1> QED
  BY <1>2, <1>3 DEF Next, Step, Start, Fail, Crash, Quit, CreateDir,
     BeginMoving, MoveOut, BeginInstalling, MoveIn, BeginVerifying, Verify, Commit,
     Attach, RecoverUnphased, MoveBack, UndoMark, UndoAbsent, UndoRestored,
     UndoRemove, UndoRestore, Recovered, CleanPhase, CleanOriginals, CleanMarks,
     CleanDir, Reopen, BootRecover, BootOpen, History

\* Steps that leave the disk alone.
LEMMA Unmoved ==
    ASSUME dirs' = dirs, active' = active, swap' = swap, current' = current, has' = has
    PROVE  /\ D' = D /\ (Whole <=> Whole')
           /\ \A p \in Path : /\ Kept(p)' <=> Kept(p)
                              /\ MovedOut(p)' <=> MovedOut(p)
                              /\ Looked(p)' <=> Looked(p)
           /\ Unmarked' <=> Unmarked
BY DEF D, Whole, Kept, MovedOut, Looked, Unmarked, Expected, Swapped

\* The steps that leave the disk alone.
LEMMA QuietGood ==
    ASSUME TypeOK, Placed, Good, Undisturbed',
           \/ Attach \/ Reopen \/ Start \/ Quit \/ Crash \/ RecoverUnphased
           \/ UndoRestored \/ Recovered \/ BootRecover \/ BootOpen \/ Fail
    PROVE  Good'
<1> USE DEF Good, PhaseInv, StepInv, disk, Go, History, committed, Installing,
            Undoing, Placed
<1>1. CASE Attach
  BY <1>1, Unmoved DEF Attach
<1>1a. CASE Start \/ Quit
  BY <1>1a, Unmoved DEF Start, Quit
<1>2. CASE Reopen
  <2>1. swap # 0 => swap \in Swap
    BY Sets DEF TypeOK
  <2>2. swap \in Swap => D.phase = "none" /\ Whole
    BY <1>2, Sets DEF Reopen
  <2> QED BY <1>2, <2>1, <2>2, Unmoved DEF Reopen
<1>3. CASE Crash
  <2>1. D.phase \in Undoing => pc # "clean"
    <3>1. Cleaning => torn' = IF D # [NoDir EXCEPT !.exists = TRUE] THEN torn \cup {D.phase} ELSE torn
      BY <1>3 DEF Crash, Tear
    <3>2. [NoDir EXCEPT !.exists = TRUE].phase = "none"
      BY DEF NoDir
    <3> QED BY <3>1, <3>2 DEF Cleaning, Undisturbed
  <2> QED BY <1>3, <2>1, Unmoved DEF Crash
<1>4. CASE RecoverUnphased
  <2>1. swap \in Swap /\ D.exists
    BY <1>4, AtDir DEF RecoverUnphased
  <2> QED BY <1>4, <2>1, Unmoved DEF RecoverUnphased, Refuse
<1>5. CASE UndoRestored
  <2>1. swap \in Swap /\ at \in Path /\ Path = 1..Count /\ Count \in Nat
    BY <1>5, AtDir, Sets DEF UndoRestored, Undo, Path
  <2>2. Looked(at) /\ D.marks[at] = "original" /\ D.originals[at] = Nothing
    BY <1>5, <2>1 DEF UndoRestored, Undo
  <2>3. Kept(at) /\ active[at] # Nothing
    BY <2>2 DEF Looked, Swapped, Kept
  <2>4. \A p \in Path : p < at + 1 => Kept(p)
    BY <1>5, <2>1, <2>3 DEF UndoRestored, Undo
  <2> QED BY <1>5, <2>3, <2>4, Unmoved DEF UndoRestored, Undo, Refuse
<1>6. CASE Recovered
  <2>1. at \notin Path => \A p \in Path : p < at
    BY <1>6, Sets DEF Recovered, TypeOK, Path
  <2> QED BY <1>6, <2>1, Unmoved DEF Recovered
<1>7. CASE BootRecover
  <2>1. swap' = swap /\ swap \in Swap /\ at' = 1
    BY <1>7, Sets DEF BootRecover, Waiting, TypeOK
  <2>2. \A p \in Path : ~(p < 1)
    BY Sets DEF Path
  <2> QED BY <1>7, <2>1, <2>2, Unmoved DEF BootRecover
<1>8. CASE BootOpen
  <2>1. \A s \in Swap : dirs[s] = NoDir
    BY <1>8 DEF BootOpen, Waiting, TypeOK
  <2>2. swap \in Swap => D.phase = "none" /\ Whole
    BY <2>1, Sets DEF D
  <2> QED BY <1>8, <2>2, Unmoved DEF BootOpen
<1>9. CASE Fail
  <2>1. CASE Abort
    <3>1. swap \in Swap /\ (D.exists \/ D = NoDir)
      BY <2>1, TypeParts, AtDir, AtHand DEF Abort
    <3>2. \A p \in Path : ~(p < 1)
      BY Sets DEF Path
    <3>3. /\ swap' = swap /\ dirs' = dirs /\ active' = active /\ current' = current
          /\ has' = has
          /\ open' = open /\ refused' = refused /\ why' = "abort" /\ at' = 1
          /\ pc' = IF ~D.exists THEN "reopen"
                   ELSE IF D.phase = "none" THEN "clean" ELSE "recover"
      BY <1>9, <2>1 DEF Fail, Abort
    <3>4. ~open /\ ~refused
      BY <2>1 DEF Abort
    <3>5. CASE pc' = "reopen"
      BY <3>1, <3>3, <3>4, <3>5, Unmoved
    <3>6. CASE pc' = "clean"
      BY <2>1, <3>1, <3>3, <3>4, <3>6, Unmoved DEF Abort
    <3>7. CASE pc' = "recover"
      BY <2>1, <3>1, <3>2, <3>3, <3>4, <3>7, Unmoved DEF Abort
    <3> QED BY <3>3, <3>5, <3>6, <3>7
  <2>2. CASE GiveUp
    <3>1. /\ swap' = swap /\ dirs' = dirs /\ active' = active /\ current' = current
          /\ has' = has /\ open' = open /\ refused' = refused /\ why' = why /\ at' = at
          /\ pc \in {"recover", "clean", "reopen", "boot"}
          /\ pc' = IF why = "install" THEN "idle"
                   ELSE IF why = "abort" THEN "detached" ELSE "down"
      BY <1>9, <2>2 DEF Fail, GiveUp
    <3>2. pc = "clean" => D.phase \notin Undoing
      BY <2>2 DEF GiveUp, Tear, NoDir, Undisturbed, Cleaning
    <3>3. D' = D /\ (Whole <=> Whole') /\ (Unmarked' <=> Unmarked)
      BY <3>1, Unmoved
    <3>4. \A p \in Path : /\ Kept(p)' <=> Kept(p)
                          /\ MovedOut(p)' <=> MovedOut(p)
                          /\ Looked(p)' <=> Looked(p)
      BY <3>1, Unmoved
    <3> QED BY <3>1, <3>2, <3>3, <3>4
  <2> QED BY <1>9, <2>1, <2>2 DEF Fail
<1> QED BY <1>1, <1>1a, <1>2, <1>3, <1>4, <1>5, <1>6, <1>7, <1>8, <1>9

\* What a recorded phase leaves as it was.
LEMMA RecordedParts ==
    ASSUME TypeOK, NEW x \in Phases, To([D EXCEPT !.phase = x])
    PROVE  /\ D'.phase = x /\ D'.originals = D.originals /\ D'.marks = D.marks
           /\ D'.exists = D.exists
           /\ swap \in Swap /\ swap' = swap
           /\ \A s \in Swap : s # swap => dirs'[s] = dirs[s]
<1>1. D \in Dir
  BY TypeParts, AtHand DEF To
<1> QED BY <1>1 DEF To, Dir

\* The steps that record or remove a phase.
LEMMA RecordGood ==
    ASSUME TypeOK, Placed, Good,
           BeginMoving \/ BeginInstalling \/ BeginVerifying \/ Commit \/ CleanPhase
    PROVE  Good'
<1> USE DEF Good, StepInv
<1>1. CASE BeginMoving
  <2>1. D'.phase = "moving_originals" /\ D'.originals = D.originals /\ D'.marks = D.marks
        /\ swap \in Swap /\ swap' = swap /\ \A s \in Swap : s # swap => dirs'[s] = dirs[s]
    BY <1>1, BeginMovingTo, RecordedParts DEF Phases
  <2>2. /\ pc = "begin" /\ pc' = "move" /\ at' = 1 /\ active' = active
        /\ UNCHANGED <<open, refused, current, has>>
    BY <1>1 DEF BeginMoving, Go, History, committed
  <2>3. Unmarked' /\ \A p \in Path : Kept(p)' /\ ~(p < 1)
    BY <2>1, <2>2, Sets DEF PhaseInv, Unmarked, Kept, Whole, Expected, Path
  <2> QED BY <2>1, <2>2, <2>3, Sets DEF PhaseInv, Undoing
<1>2. CASE BeginInstalling
  <2>1. D'.phase = "installing" /\ D'.originals = D.originals /\ D'.marks = D.marks
        /\ swap \in Swap /\ swap' = swap /\ \A s \in Swap : s # swap => dirs'[s] = dirs[s]
    BY <1>2, BeginInstallingTo, RecordedParts DEF Phases, Undoing
  <2>2. /\ pc = "move" /\ pc' = "install" /\ active' = active /\ at \notin Path
        /\ UNCHANGED <<open, refused, current, has>>
    BY <1>2 DEF BeginInstalling, Go, History, committed
  <2>3. \A p \in Path : p < at
    BY <2>2, Sets DEF TypeOK, Path
  <2>4. Unmarked' /\ \A p \in Path : Looked(p)'
    BY <2>1, <2>2, <2>3 DEF PhaseInv, Unmarked, MovedOut, Looked, Swapped, Expected
  <2> QED BY <2>1, <2>2, <2>4, Sets DEF PhaseInv, Undoing
<1>3. CASE BeginVerifying
  <2>1. D'.phase = "verifying" /\ D'.originals = D.originals /\ D'.marks = D.marks
        /\ swap \in Swap /\ swap' = swap /\ \A s \in Swap : s # swap => dirs'[s] = dirs[s]
    BY <1>3, BeginVerifyingTo, RecordedParts DEF Phases, Undoing
  <2>2. /\ pc = "install" /\ pc' = "verify" /\ active' = active
        /\ UNCHANGED <<open, refused, current, has>>
    BY <1>3 DEF BeginVerifying, Go, History, committed
  <2>3. Unmarked' /\ \A p \in Path : Looked(p)'
    BY <2>1, <2>2 DEF PhaseInv, Undoing, Unmarked, Looked, Swapped, Kept, Expected
  <2> QED BY <2>1, <2>2, <2>3, Sets DEF PhaseInv, Undoing
<1>4. CASE Commit
  <2>1. D'.phase = "committed" /\ D'.marks = D.marks
        /\ swap \in Swap /\ swap' = swap /\ \A s \in Swap : s # swap => dirs'[s] = dirs[s]
    BY <1>4, CommitTo, RecordedParts DEF Phases
  <2>2. /\ pc = "commit" /\ pc' = "attach" /\ active' = active
        /\ UNCHANGED <<open, refused>>
    BY <1>4 DEF Commit, Go, User
  <2>3. Whole'
    <3>1. /\ current' = Brought(swap)
          /\ has'[Brought(swap)] = {p \in Path : active[p] = Brought(swap)}
      BY <1>4, <2>1, Sets DEF Commit, TypeOK
    <3>2. \A p \in Path : active[p] \in {Nothing, Brought(swap)}
      BY <2>1, <2>2 DEF PhaseInv, Undoing, Unmarked, Looked, Swapped
    <3> QED BY <2>2, <3>1, <3>2 DEF Whole
  <2> QED BY <2>1, <2>2, <2>3, Sets DEF PhaseInv, Undoing
<1>5. CASE CleanPhase
  <2>1. D'.phase = "none" /\ D'.marks = D.marks
        /\ swap \in Swap /\ swap' = swap /\ \A s \in Swap : s # swap => dirs'[s] = dirs[s]
    BY <1>5, CleanPhaseTo, RecordedParts DEF Phases
  <2>2. /\ pc = "clean" /\ pc' = pc /\ why' = why /\ active' = active
        /\ UNCHANGED <<open, refused, current, has>> /\ D.phase # "none"
    BY <1>5 DEF CleanPhase, Removing, Cleaning, control, History, committed
  <2>3. D.phase \in Phases
    BY <2>1, TypeParts, AtHand DEF Dir
  <2>4. Whole'
    BY <2>1, <2>2, <2>3 DEF PhaseInv, Phases, Whole, Kept, Expected
  <2> QED BY <2>1, <2>2, <2>4, Sets DEF PhaseInv, Undoing
<1> QED BY <1>1, <1>2, <1>3, <1>4, <1>5

\* An import that finds no directory begins with a whole library.
LEMMA ImportGood ==
    ASSUME TypeOK, Placed, Good, Undisturbed', Import
    PROVE  Good'
<1>1. \A s \in Swap : dirs'[s] = NoDir /\ dirs[s] = NoDir
  BY DEF Import, Undisturbed, TypeOK, disk
<1>2. swap' \in Swap /\ swap' # 0 /\ (swap # 0 => swap \in Swap)
  BY Sets DEF Import, TypeOK, Swap
<1>3. D' = NoDir /\ (swap \in Swap => D = NoDir)
  BY <1>1, <1>2 DEF D
<1>4. Whole
  BY <1>2, <1>3, Sets DEF Good, PhaseInv
<1>5. Whole' /\ open' = FALSE /\ pc' = "create" /\ refused' = refused
  BY <1>4 DEF Import, Whole, disk, committed
<1>6. ~refused
  BY <1>3, Sets DEF Good
<1> QED BY <1>1, <1>2, <1>3, <1>5, <1>6, Sets DEF Good, PhaseInv, StepInv, Undoing

\* The steps of an installation that move files.
LEMMA MoveGood ==
    ASSUME TypeOK, Placed, Good,
           CreateDir \/ MoveOut \/ MoveIn \/ Verify
    PROVE  Good'
<1> USE DEF Good, StepInv
<1>1. CASE CreateDir
  <2>1. /\ swap \in Swap /\ swap' = swap /\ \A s \in Swap : s # swap => dirs'[s] = dirs[s]
        /\ D = NoDir /\ D' = [D EXCEPT !.exists = TRUE]
    BY <1>1, CreateDirTo DEF To, CreateDir
  <2>2. D'.phase = "none" /\ D'.originals = NoDir.originals /\ D'.marks = NoDir.marks
    BY <2>1, Sets DEF Dir
  <2>3. /\ pc = "create" /\ pc' = "begin"
        /\ UNCHANGED <<active, open, refused, current, has>>
    BY <1>1 DEF CreateDir, Go, History, committed
  <2>4. Whole'
    BY <2>1, <2>3, Sets DEF PhaseInv, Whole
  <2>5. Unmarked' /\ \A p \in Path : D'.originals[p] = Nothing
    BY <2>2 DEF Unmarked, NoDir
  <2> QED BY <2>1, <2>2, <2>3, <2>4, <2>5 DEF PhaseInv, Undoing
<1>2. CASE MoveOut
  <2>1. /\ pc = "move" /\ pc' = "move" /\ at \in Path /\ at' = at + 1
        /\ UNCHANGED <<open, refused, current, has, swap>>
        /\ swap \in Swap /\ Path = 1..Count /\ Count \in Nat
    BY <1>2, AtDir, Sets DEF MoveOut, Go, History, committed, Installing, Path
  <2>2. CASE active[at] = Nothing
    <3>1. UNCHANGED <<active, dirs>>
      BY <1>2, <2>2 DEF MoveOut, disk
    <3>2. MovedOut(at)
      BY <2>1, <2>2 DEF Kept, MovedOut
    <3> QED BY <2>1, <3>1, <3>2, Unmoved DEF PhaseInv, Undoing
  <2>3. CASE active[at] # Nothing
    <3>1. /\ D' = [D EXCEPT !.originals[at] = active[at],
                            !.nested = @ \/ at \notin Installable]
          /\ active' = [active EXCEPT ![at] = Nothing]
          /\ \A s \in Swap : s # swap => dirs'[s] = dirs[s]
          /\ D \in Dir /\ active \in [Path -> File]
      BY <1>2, <2>1, <2>3, MoveOutTo, AtHand, TypeParts DEF To, DiskOK
    <3>2. /\ D'.phase = D.phase /\ D'.marks = D.marks
          /\ \A p \in Path : D'.originals[p] = IF p = at THEN active[at] ELSE D.originals[p]
          /\ \A p \in Path : active'[p] = IF p = at THEN Nothing ELSE active[p]
      BY <2>1, <3>1 DEF Dir
    <3>3. Kept(at) /\ D.phase = "moving_originals"
      BY <2>1
    <3>4. \A p \in Path : IF p < at' THEN MovedOut(p)' ELSE Kept(p)'
      BY <2>1, <3>2, <3>3 DEF Kept, MovedOut, Expected
    <3>5. Unmarked'
      BY <2>1, <3>2 DEF PhaseInv, Unmarked
    <3> QED BY <2>1, <3>1, <3>2, <3>3, <3>4, <3>5, Sets DEF PhaseInv, Undoing
  <2> QED BY <2>2, <2>3
<1>3. CASE MoveIn \/ Verify
  <2>1. /\ (pc = "install" /\ pc' = "install") \/ (pc = "verify" /\ pc' = "commit")
        /\ UNCHANGED <<open, refused, current, has, swap, dirs>>
        /\ swap \in Swap
    BY <1>3, AtDir DEF MoveIn, Verify, Go, History, committed, Installing
  <2>2. D' = D /\ D.phase \in Undoing /\ Unmarked
    BY <2>1 DEF D, Undoing
  <2>3. \A p \in Path : active'[p] \in {active[p], Brought(swap)}
    BY <1>3 DEF MoveIn, Verify, TypeOK
  <2>4. \A p \in Path : D.marks[p] = "none" /\ Swapped(p)
    BY <2>1, <2>2 DEF PhaseInv, Undoing, Unmarked, Looked
  <2>5. Unmarked' /\ \A p \in Path : Looked(p)'
    BY <2>1, <2>2, <2>3, <2>4 DEF Unmarked, Looked, Swapped, Expected
  <2> QED BY <2>1, <2>2, <2>5, Sets DEF PhaseInv, Undoing
<1> QED BY <1>1, <1>2, <1>3

\* The steps of a recovery.
LEMMA UndoGood ==
    ASSUME TypeOK, Placed, Good,
           MoveBack \/ UndoMark \/ UndoAbsent \/ UndoRemove \/ UndoRestore
    PROVE  Good'
<1> USE DEF Good, StepInv
<1>1. /\ pc = "recover" /\ at \in Path
      /\ UNCHANGED <<open, current, has, swap>>
      /\ swap \in Swap /\ 0 \notin Swap /\ D \in Dir /\ active \in [Path -> File]
      /\ Path = 1..Count /\ Count \in Nat /\ ~open /\ ~refused
  BY AtDir, Sets DEF MoveBack, UndoMark, UndoAbsent, UndoRemove, UndoRestore, Undo,
     Refuse, Go, control, History, committed, Path, TypeOK
<1>2. CASE MoveBack
  <2>1. D.phase = "moving_originals" /\ Unmarked /\ (Kept(at) \/ MovedOut(at))
    BY <1>1, <1>2 DEF MoveBack, PhaseInv
  <2>2. CASE D.originals[at] = Nothing
    <3>1. Kept(at)
      BY <2>1, <2>2 DEF Kept, MovedOut
    <3>2. UNCHANGED <<active, dirs, refused>> /\ pc' = "recover" /\ at' = at + 1
      BY <1>2, <2>2 DEF MoveBack, Go, disk
    <3> QED BY <1>1, <2>1, <3>1, <3>2, Unmoved DEF PhaseInv, Undoing
  <2>3. CASE D.originals[at] # Nothing
    <3>1. MovedOut(at)
      BY <2>1, <2>3 DEF Kept
    <3>2. /\ active' = [active EXCEPT ![at] = D.originals[at]]
          /\ dirs' = [dirs EXCEPT ![swap].originals[at] = Nothing]
          /\ UNCHANGED refused /\ pc' = "recover" /\ at' = at + 1
      BY <1>2, <2>3, <3>1 DEF MoveBack, Go, MovedOut
    <3>3. /\ D' = [D EXCEPT !.originals[at] = Nothing]
          /\ \A s \in Swap : s # swap => dirs'[s] = dirs[s]
      BY <1>1, <3>2, GivenBack DEF To
    <3>4. /\ D'.phase = D.phase /\ D'.marks = D.marks
          /\ \A p \in Path : D'.originals[p] = IF p = at THEN Nothing ELSE D.originals[p]
          /\ \A p \in Path : active'[p] = IF p = at THEN D.originals[at] ELSE active[p]
      BY <1>1, <3>2, <3>3 DEF Dir
    <3>5. Unmarked' /\ \A p \in Path : /\ p = at => Kept(p)'
                                       /\ Kept(p) => Kept(p)'
                                       /\ MovedOut(p) => MovedOut(p)' \/ Kept(p)'
      BY <1>1, <2>1, <3>1, <3>4 DEF Kept, MovedOut, Expected, Unmarked
    <3> QED BY <1>1, <2>1, <3>2, <3>3, <3>4, <3>5 DEF PhaseInv, Undoing
  <2> QED BY <2>2, <2>3
<1>3. CASE UndoMark
  <2>1. /\ UNCHANGED <<active, pc, at, refused>> /\ D.phase \in Undoing
        /\ D.marks[at] = "none"
        /\ D' = [D EXCEPT !.marks[at] = Mark(D, at)]
        /\ \A s \in Swap : s # swap => dirs'[s] = dirs[s]
    BY <1>3, UndoMarkTo DEF UndoMark, Undo, control, To
  <2>2. /\ D'.phase = D.phase /\ D'.originals = D.originals
        /\ \A p \in Path : D'.marks[p] = IF p = at THEN Mark(D, at) ELSE D.marks[p]
    BY <1>1, <2>1 DEF Dir
  <2>3. Swapped(at) /\ \A p \in Path : Looked(p)
    BY <1>1, <2>1 DEF PhaseInv, Looked
  <2>4. \A p \in Path : Looked(p)' /\ (Kept(p) => Kept(p)')
    BY <1>1, <2>1, <2>2, <2>3 DEF Looked, Swapped, Kept, Mark, Expected
  <2> QED BY <1>1, <2>1, <2>2, <2>4 DEF PhaseInv, Undoing
<1>4. CASE UndoAbsent \/ UndoRemove
  <2>1. /\ UNCHANGED <<dirs, refused>> /\ D' = D /\ D.phase \in Undoing /\ pc' = "recover"
        /\ \A p \in Path : active'[p] = IF p = at THEN Nothing ELSE active[p]
    BY <1>1, <1>4 DEF UndoAbsent, UndoRemove, Undo, control, Go, D
  <2>2. \A p \in Path : Looked(p)
    BY <1>1, <2>1 DEF PhaseInv
  <2>3. CASE UndoAbsent
    <3>1. D.marks[at] = "absent" /\ at' = at + 1
      BY <2>3 DEF UndoAbsent, Go
    <3>2. Expected(at) = Nothing /\ D.originals[at] = Nothing
      BY <1>1, <2>2, <3>1 DEF Looked, Swapped
    <3>3. \A p \in Path : Looked(p)' /\ (p < at' => Kept(p)')
      BY <1>1, <2>1, <2>2, <3>1, <3>2 DEF Looked, Swapped, Kept, Expected
    <3> QED BY <1>1, <2>1, <3>3 DEF PhaseInv, Undoing
  <2>4. CASE UndoRemove
    <3>1. D.marks[at] = "original" /\ D.originals[at] # Nothing /\ at' = at
      BY <2>4 DEF UndoRemove, control
    <3>2. Swapped(at)
      BY <1>1, <2>2, <3>1 DEF Looked, Kept
    <3>3. \A p \in Path : Looked(p)' /\ (p < at => Kept(p)')
      BY <1>1, <2>1, <2>2, <3>1, <3>2 DEF Looked, Swapped, Kept, Expected
    <3> QED BY <1>1, <2>1, <3>1, <3>3 DEF PhaseInv, Undoing
  <2> QED BY <1>4, <2>3, <2>4
<1>5. CASE UndoRestore
  <2>1. /\ active' = [active EXCEPT ![at] = D.originals[at]]
        /\ dirs' = [dirs EXCEPT ![swap].originals[at] = Nothing]
        /\ UNCHANGED refused /\ pc' = "recover" /\ at' = at + 1
        /\ D.phase \in Undoing /\ D.marks[at] = "original"
        /\ D.originals[at] # Nothing /\ active[at] = Nothing
    BY <1>5 DEF UndoRestore, Undo, Go
  <2>2. /\ D' = [D EXCEPT !.originals[at] = Nothing]
        /\ \A s \in Swap : s # swap => dirs'[s] = dirs[s]
    BY <1>1, <2>1, GivenBack DEF To
  <2>3. /\ D'.phase = D.phase /\ D'.marks = D.marks
        /\ \A p \in Path : D'.originals[p] = IF p = at THEN Nothing ELSE D.originals[p]
        /\ \A p \in Path : active'[p] = IF p = at THEN D.originals[at] ELSE active[p]
    BY <1>1, <2>1, <2>2 DEF Dir
  <2>4. D.originals[at] = Expected(at) /\ \A p \in Path : Looked(p)
    BY <1>1, <2>1 DEF PhaseInv, Looked, Swapped, Kept
  <2>5. \A p \in Path : Looked(p)' /\ (p < at' => Kept(p)')
    BY <1>1, <2>1, <2>3, <2>4 DEF Looked, Swapped, Kept, Expected
  <2> QED BY <1>1, <2>1, <2>2, <2>3, <2>5 DEF PhaseInv, Undoing
<1> QED BY <1>2, <1>3, <1>4, <1>5

\* The steps of a removal.
LEMMA CleanGood ==
    ASSUME TypeOK, Placed, Good, CleanOriginals \/ CleanMarks \/ CleanDir
    PROVE  Good'
<1> USE DEF Good, StepInv
<1>1. /\ pc = "clean" /\ UNCHANGED <<active, open, refused, current, has, swap>>
      /\ swap \in Swap /\ 0 \notin Swap /\ D \in Dir /\ ~refused
  BY AtDir, Sets DEF CleanOriginals, CleanMarks, CleanDir, Removing, Cleaning, Go,
     History, committed
<1>2. CASE CleanOriginals
  <2>1. /\ D'.phase = D.phase /\ D'.marks = D.marks
        /\ \A p \in Path : D'.originals[p] \in {Nothing, D.originals[p]}
        /\ \A s \in Swap : s # swap => dirs'[s] = dirs[s]
    BY <1>1, <1>2, CleanOriginalsTo DEF To, Dir
  <2>2. pc' = pc /\ why' = why
    BY <1>2 DEF CleanOriginals
  <2>3. (Unmarked => Unmarked') /\ \A p \in Path : Kept(p) => Kept(p)'
    BY <1>1, <2>1 DEF Kept, Expected, Unmarked
  <2>4. Whole => Whole'
    BY <1>1 DEF Whole
  <2> QED BY <1>1, <2>1, <2>2, <2>3, <2>4 DEF PhaseInv, Undoing
<1>3. CASE CleanMarks
  <2>1. /\ D'.phase = D.phase /\ D'.originals = D.originals
        /\ \A p \in Path : D'.marks[p] \in {"none", D.marks[p]}
        /\ \A s \in Swap : s # swap => dirs'[s] = dirs[s]
    BY <1>1, <1>3, CleanMarksTo DEF To, Dir
  <2>2. pc' = pc /\ why' = why
    BY <1>3 DEF CleanMarks
  <2>3. (Unmarked => Unmarked') /\ \A p \in Path : Kept(p) => Kept(p)'
    BY <1>1, <2>1 DEF Kept, Expected, Unmarked
  <2>4. Whole => Whole'
    BY <1>1 DEF Whole
  <2> QED BY <1>1, <2>1, <2>2, <2>3, <2>4 DEF PhaseInv, Undoing
<1>4. CASE CleanDir
  <2>1. D' = NoDir /\ \A s \in Swap : s # swap => dirs'[s] = dirs[s]
    BY <1>4, CleanDirTo DEF To
  <2>2. D.phase = "none" /\ Whole'
    <3>1. D.phase = NoDir.phase
      BY <1>1, <1>4 DEF CleanDir, Dir
    <3> QED BY <1>1, <3>1, Sets DEF PhaseInv, Whole
  <2>3. /\ why = "install" => pc' = "idle"
        /\ pc' \in {"idle", "reopen", "boot"}
    BY <1>4 DEF CleanDir, Go, After
  <2> QED BY <1>1, <2>1, <2>2, <2>3, Sets DEF PhaseInv, Undoing
<1> QED BY <1>2, <1>3, <1>4

-----------------------------------------------------------------------------
(* The theorems.                                                           *)

\* The first state is good: one library, no directory.
LEMMA InitInv == Init => IInv
<1> SUFFICES ASSUME Init  PROVE IInv
  OBVIOUS
<1>a. PICK P \in SUBSET Path :
        /\ active = [p \in Path |-> IF p \in P THEN 1 ELSE Nothing]
        /\ has = [l \in Library |-> IF l = 1 THEN P ELSE {}]
  BY DEF Init
<1>b. 1 \in Library /\ 1 \in File /\ Nothing \in File
  BY Sets DEF Library, File
<1>1. TypeOK
  <2>1. active \in [Path -> File] /\ has \in [Library -> SUBSET Path]
    BY <1>a, <1>b
  <2>2. dirs \in [Swap -> Dir] /\ \A s \in Swap : dirs[s] = NoDir
    BY Sets DEF Init
  <2>3. at \in 0 .. Count + 1 /\ imports \in 0..MaxImports /\ fails \in 0..MaxFails
    BY Sets DEF Init
  <2> QED BY <1>b, <2>1, <2>2, <2>3 DEF Init, TypeOK
<1>2. Whole
  BY <1>a, <1>b DEF Init, Whole
<1> QED BY <1>1, <1>2, Sets DEF IInv, Placed, Good, Init, Installing

\* Every step keeps the invariant.
LEMMA NextInv == IInv /\ [Next]_vars => IInv'
<1> SUFFICES ASSUME IInv, [Next]_vars  PROVE IInv'
  OBVIOUS
<1>1. CASE Next
  <2>1. TypeOK' /\ Placed'
    BY <1>1, TypeParts, DiskStep, ControlStep, UserStep, FlagsStep, CommitStep, PlacedStep
       DEF IInv, TypeOK, DiskOK, ControlOK, UserOK, FlagsOK, CommitOK
  <2>2. Undisturbed' => Good'
    BY <1>1, UndisturbedStep, QuietGood, RecordGood, ImportGood, MoveGood, UndoGood,
       CleanGood DEF IInv, Next, Step
  <2> QED BY <2>1, <2>2 DEF IInv
<1>2. CASE UNCHANGED vars
  BY <1>2 DEF vars, disk, control, committed, IInv, TypeOK, Placed, Undisturbed, Good,
     PhaseInv, StepInv, Unmarked, Looked, Swapped, Kept, MovedOut, Expected, Whole, D
<1> QED BY <1>1, <1>2

\* In every reachable state the files are where the phase of the swap
\* directory says they are, unless a rollback was disturbed.
THEOREM Invariance == Spec => []IInv
BY InitInv, NextInv, PTL DEF Spec

\* Whatever is imported and interrupted, every variable keeps its type, and a
\* swap directory that is gone leaves nothing behind.
THEOREM TypeCorrect == Spec => []TypeOK
<1>1. IInv => TypeOK
  BY DEF IInv
<1> QED BY <1>1, Invariance, PTL

\* An import is all or nothing for the user, for any number of paths, imports,
\* errors and crashes.
THEOREM AtomicInstall == Spec => []AllOrNothing
<1>1. IInv => AllOrNothing
  <2> SUFFICES ASSUME IInv, Undisturbed, open  PROVE Whole
    BY DEF AllOrNothing
  <2>1. Good /\ (swap # 0 => swap \in Swap)
    BY DEF IInv, TypeOK
  <2> QED BY <2>1 DEF Good, PhaseInv, StepInv
<1> QED BY <1>1, Invariance, PTL

\* No file of the library in force is destroyed by an import or a recovery.
THEOREM OriginalsSurvive == Spec => []NothingDestroyed
<1>1. IInv => NothingDestroyed
  <2> SUFFICES ASSUME IInv, Undisturbed, NEW p \in has[current]
               PROVE  \/ active[p] = current
                      \/ \E s \in Swap : dirs[s].originals[p] = current
    BY DEF NothingDestroyed
  <2>1. Good /\ (swap # 0 => swap \in Swap) /\ p \in Path /\ Expected(p) = current
    BY DEF IInv, TypeOK, Expected
  <2>2. CASE Whole
    BY <2>1, <2>2 DEF Whole
  <2>3. CASE swap \in Swap /\ (Kept(p) \/ Swapped(p) \/ MovedOut(p))
    BY <2>1, <2>3 DEF Kept, Swapped, MovedOut, D
  <2>4. CASE swap \in Swap
    <3>1. D.phase \in Phases
      BY <2>4, TypeParts, AtHand DEF IInv, Dir
    <3>2. CASE D.phase \in Undoing
      BY <2>1, <2>3, <2>4, <3>2 DEF Good, PhaseInv, StepInv, Looked
    <3> QED BY <2>1, <2>2, <2>3, <2>4, <3>1, <3>2 DEF Good, PhaseInv, Phases
  <2> QED BY <2>1, <2>2, <2>4 DEF Good
<1> QED BY <1>1, Invariance, PTL

\* A recovery that refuses has nothing to recover.
THEOREM HarmlessRefusal == Spec => []RefusalIsHarmless
<1>1. IInv => RefusalIsHarmless
  BY DEF IInv, RefusalIsHarmless, Good
<1> QED BY <1>1, Invariance, PTL

-----------------------------------------------------------------------------
(***************************************************************************)
(* The starts, imports and recoveries (Startup) for which the swap above   *)
(* is one step: for any libraries and backups that the releases of the app *)
(* can have left, and any number of imports, answers and crashes.          *)
(***************************************************************************)

\* A bundle, whatever its versions are.
Shaped(b) ==
    /\ DOMAIN b = DOMAIN Absent
    /\ \A m \in b.media \cup b.mainMedia : DOMAIN m = {"id", "title", "variant", "type", "uid"}
    /\ \A s \in b.stones : DOMAIN s = {"id", "title", "media", "what", "uid"}
    /\ \A s, q \in b.stones : s.id = q.id => s = q

\* What a migration leaves alone.
Same(b, c) == /\ c.files = b.files /\ c.main = b.main /\ c.shared = b.shared
              /\ c.mainMedia = b.mainMedia /\ c.chose = b.chose /\ c.before = b.before

\* What a migration may change of the rows that a user chose.
Follows(b, c) ==
    /\ \A m \in b.media : \E n \in c.media :
            n.uid = m.uid /\ n.title = m.title /\ n.variant \in {m.variant, Trim(m.variant)}
    /\ \A n \in c.media : \E m \in b.media : n.uid = m.uid
    /\ \A x \in c.stones : \E s \in b.stones : x.id = s.id
    /\ \A s \in b.stones : s.media \in Uids(b) =>
            \E x \in c.stones : x.id = s.id /\ x.media = s.media

Through(b, c) == Shaped(c) /\ Same(b, c) /\ Follows(b, c)

\* A variant is trimmed once.
LEMMA TrimTwice == ASSUME NEW v PROVE Trim(Trim(v)) = Trim(v)
  BY DEF Trim

\* What was followed is followed further.
LEMMA Further ==
    ASSUME NEW a, NEW b, NEW c, Through(a, b), Through(b, c)
    PROVE  Through(a, c)
<1>1. Shaped(c) /\ Same(a, c)
  BY DEF Through, Same
<1>2. ASSUME NEW m \in a.media
      PROVE  \E n \in c.media : n.uid = m.uid /\ n.title = m.title
                                /\ n.variant \in {m.variant, Trim(m.variant)}
  <2>1. PICK k \in b.media : k.uid = m.uid /\ k.title = m.title
                             /\ k.variant \in {m.variant, Trim(m.variant)}
    BY DEF Through, Follows
  <2>2. PICK n \in c.media : n.uid = k.uid /\ n.title = k.title
                             /\ n.variant \in {k.variant, Trim(k.variant)}
    BY DEF Through, Follows
  <2> QED BY <2>1, <2>2, TrimTwice
<1>3. \A n \in c.media : \E m \in a.media : n.uid = m.uid
  BY DEF Through, Follows
<1>4. \A x \in c.stones : \E s \in a.stones : x.id = s.id
  BY DEF Through, Follows
<1>5. ASSUME NEW s \in a.stones, s.media \in Uids(a)
      PROVE  \E x \in c.stones : x.id = s.id /\ x.media = s.media
  <2>1. PICK y \in b.stones : y.id = s.id /\ y.media = s.media
    BY <1>5 DEF Through, Follows
  <2>2. y.media \in Uids(b)
    BY <1>5, <2>1 DEF Through, Follows, Uids
  <2> QED BY <2>1, <2>2 DEF Through, Follows
<1> QED BY <1>1, <1>2, <1>3, <1>4, <1>5 DEF Through, Follows

\* Each step of the migration is followed: version 5,
LEMMA TypedThrough == ASSUME NEW b, Shaped(b) PROVE Through(b, Typed(b))
<1> DEFINE c == Typed(b)
<1>1. /\ c.media = {[m EXCEPT !.type = DefaultType(m)] : m \in b.media}
      /\ c.stones = b.stones /\ DOMAIN c = DOMAIN b /\ Same(b, c)
  BY DEF Typed, Shaped, Same, Absent
<1>2. \A m \in b.media : LET n == [m EXCEPT !.type = DefaultType(m)]
                         IN  DOMAIN n = DOMAIN m /\ n.uid = m.uid /\ n.title = m.title /\ n.variant = m.variant
  BY DEF Shaped
<1> HIDE DEF c
<1>3. Shaped(c)
  BY <1>1, <1>2 DEF Shaped, Same
<1>4. Follows(b, c)
  BY <1>1, <1>2 DEF Follows
<1> QED BY <1>1, <1>3, <1>4 DEF Through, c

\* version 6 in its three parts,
LEMMA TrimmedThrough == ASSUME NEW b, Shaped(b) PROVE Through(b, Trimmed(b))
<1> DEFINE c == Trimmed(b)
<1>1. /\ c.media = {[m EXCEPT !.variant = Trim(m.variant)] : m \in b.media}
      /\ c.stones = b.stones /\ DOMAIN c = DOMAIN b /\ Same(b, c)
  BY DEF Trimmed, Shaped, Same, Absent
<1>2. \A m \in b.media : LET n == [m EXCEPT !.variant = Trim(m.variant)]
                         IN  DOMAIN n = DOMAIN m /\ n.uid = m.uid /\ n.title = m.title
                             /\ n.variant = Trim(m.variant)
  BY DEF Shaped
<1> HIDE DEF c
<1>3. Shaped(c)
  BY <1>1, <1>2 DEF Shaped, Same
<1>4. Follows(b, c)
  BY <1>1, <1>2 DEF Follows
<1> QED BY <1>1, <1>3, <1>4 DEF Through, c

\* A milestone that has its entry is not repaired.
LEMMA RepairedThrough ==
    ASSUME NEW b, Shaped(b)
    PROVE  /\ Through(b, Repaired(b)) /\ Repaired(b).media = b.media
           /\ \A s \in b.stones : ~Repairable(b, s) => s \in Repaired(b).stones
<1> DEFINE c == Repaired(b)
           F(s) == IF Repairable(b, s) THEN LinkedByTitle(b, s) ELSE s
<1>1. /\ c.media = b.media /\ DOMAIN c = DOMAIN b /\ Same(b, c)
      /\ c.stones = {F(s) : s \in b.stones}
  BY DEF Repaired, Shaped, Same, Absent
<1>2. \A s \in b.stones : DOMAIN F(s) = DOMAIN s /\ F(s).id = s.id
  BY DEF Shaped, LinkedByTitle
<1>3. \A s \in b.stones : ~Repairable(b, s) => F(s) = s
  OBVIOUS
<1>4. \A s \in b.stones : s.media \in Uids(b) => F(s) = s
  BY DEF Repairable, Broken
<1> HIDE DEF c, F
<1>5. Shaped(c)
  <2>1. \A x, y \in c.stones : x.id = y.id => x = y
    <3> TAKE x, y \in c.stones
    <3>1. PICK s \in b.stones, q \in b.stones : x = F(s) /\ y = F(q)
      BY <1>1
    <3> QED BY <1>2, <3>1 DEF Shaped
  <2>2. \A x \in c.stones : DOMAIN x = {"id", "title", "media", "what", "uid"}
    BY <1>1, <1>2 DEF Shaped
  <2> QED BY <1>1, <2>1, <2>2 DEF Shaped, Same
<1>6. Follows(b, c)
  <2>1. \A x \in c.stones : \E s \in b.stones : x.id = s.id
    BY <1>1, <1>2
  <2>2. \A s \in b.stones : s.media \in Uids(b) => s \in c.stones
    BY <1>1, <1>4
  <2> QED BY <1>1, <2>1, <2>2 DEF Follows
<1>7. \A s \in b.stones : ~Repairable(b, s) => s \in c.stones
  BY <1>1, <1>3
<1> QED BY <1>1, <1>5, <1>6, <1>7 DEF Through, c

LEMMA IdentifiedThrough == ASSUME NEW b, Shaped(b) PROVE Through(b, Identified(b))
<1> DEFINE t == Trimmed(b)
           c == Repaired(t)
           d == Identified(b)
           F(s) == [s EXCEPT !.title = TitleOf(c, s.media)]
<1>1. Through(b, c)
  <2>1. Through(b, t)
    BY TrimmedThrough
  <2>2. Through(t, c)
    BY <2>1, RepairedThrough DEF Through
  <2> HIDE DEF t, c
  <2> QED BY <2>1, <2>2, Further
<1>2. d = [c EXCEPT !.stones = {F(s) : s \in c.stones}]
  BY DEF Identified
<1> HIDE DEF t, c, d
<1>3. Shaped(c)
  BY <1>1 DEF Through
<1>4. /\ d.stones = {F(s) : s \in c.stones}
      /\ d.media = c.media /\ DOMAIN d = DOMAIN c /\ Same(c, d)
  BY <1>2, <1>3 DEF Shaped, Same, Absent
<1>5. \A s \in c.stones : DOMAIN F(s) = DOMAIN s /\ F(s).id = s.id /\ F(s).media = s.media
  BY <1>3 DEF Shaped
<1> HIDE DEF F
<1>6. Shaped(d)
  <2>1. \A x, y \in d.stones : x.id = y.id => x = y
    <3> TAKE x, y \in d.stones
    <3>1. PICK s \in c.stones, q \in c.stones : x = F(s) /\ y = F(q)
      BY <1>4
    <3> QED BY <1>3, <1>5, <3>1 DEF Shaped
  <2>2. \A x \in d.stones : DOMAIN x = {"id", "title", "media", "what", "uid"}
    BY <1>3, <1>4, <1>5 DEF Shaped
  <2> QED BY <1>3, <1>4, <2>1, <2>2 DEF Shaped, Same
<1>7. Follows(c, d)
  BY <1>4, <1>5 DEF Follows
<1>8. Through(c, d)
  BY <1>4, <1>6, <1>7 DEF Through
<1> QED BY <1>1, <1>8, Further DEF d

\* and version 7.
LEMMA RecordedThrough == ASSUME NEW b, Shaped(b) PROVE Through(b, Recorded(b))
<1> DEFINE c == Recorded(b)
           F(s) == IF s.uid = NoUid THEN NamedStone(b, s) ELSE s
<1>1. /\ c.stones = {F(s) : s \in b.stones}
      /\ c.media = b.media /\ DOMAIN c = DOMAIN b /\ Same(b, c)
  BY DEF Recorded, Shaped, Same, Absent
<1>2. \A s \in b.stones : DOMAIN F(s) = DOMAIN s /\ F(s).id = s.id /\ F(s).media = s.media
  BY DEF Shaped, NamedStone
<1> HIDE DEF c, F
<1>3. Shaped(c)
  <2>1. \A x, y \in c.stones : x.id = y.id => x = y
    <3> TAKE x, y \in c.stones
    <3>1. PICK s \in b.stones, q \in b.stones : x = F(s) /\ y = F(q)
      BY <1>1
    <3> QED BY <1>2, <3>1 DEF Shaped
  <2>2. \A x \in c.stones : DOMAIN x = {"id", "title", "media", "what", "uid"}
    BY <1>1, <1>2 DEF Shaped
  <2> QED BY <1>1, <2>1, <2>2 DEF Shaped, Same
<1>4. Follows(b, c)
  BY <1>1, <1>2 DEF Follows
<1> QED BY <1>1, <1>3, <1>4 DEF Through, c

-----------------------------------------------------------------------------
(* What brings a bundle to have identifiers.                               *)

\* As Same, but for the media of the profile that become shared.
Sharing(b, c) == c.files = b.files /\ c.main = b.main /\ c.shared = b.shared
                 /\ c.chose = b.chose /\ c.before = b.before

\* The media become shared,
LEMMA SharedShape ==
    ASSUME NEW b, Shaped(b)
    PROVE  Shaped(Shared(b)) /\ Sharing(b, Shared(b)) /\ Shared(b).mainMedia = {}
<1> DEFINE c == Shared(b)
<1>1. /\ c.media = b.media \cup {AsShared(r) : r \in Copied(b)} /\ c.mainMedia = {}
      /\ c.stones = b.stones /\ DOMAIN c = DOMAIN b /\ Sharing(b, c)
  BY DEF Shared, Shaped, Sharing, Absent
<1>2. \A r \in Copied(b) : DOMAIN AsShared(r) = {"id", "title", "variant", "type", "uid"}
  BY DEF Shaped, Copied, AsShared
<1> HIDE DEF c
<1>3. \A m \in c.media \cup c.mainMedia : DOMAIN m = {"id", "title", "variant", "type", "uid"}
  BY <1>1, <1>2 DEF Shaped
<1> QED BY <1>1, <1>3 DEF Shaped, c

\* and each of them gets an identifier.
LEMMA FoundedShape ==
    ASSUME NEW b, Shaped(b)
    PROVE  /\ Shaped(Founded(b)) /\ Same(b, Founded(b))
           /\ NoUid \notin Uids(Founded(b))
<1> DEFINE G(m) == IF m.uid = NoUid THEN AsShared(m) ELSE m
           d == [b EXCEPT !.media = {G(m) : m \in b.media}]
           F(s) == IF s.media = NoUid THEN LinkedByTitle(d, s) ELSE s
           c == Founded(b)
<1>1. c = [d EXCEPT !.stones = {F(s) : s \in d.stones}]
  BY DEF Founded, Shaped, Absent
<1>2. d.media = {G(m) : m \in b.media} /\ d.stones = b.stones /\ DOMAIN d = DOMAIN b /\ Same(b, d)
  BY DEF Shaped, Same, Absent
<1>3. \A s \in b.stones : DOMAIN F(s) = DOMAIN s /\ F(s).id = s.id
  BY DEF Shaped, LinkedByTitle
<1>4. \A m \in b.media : DOMAIN G(m) = DOMAIN m /\ G(m).uid # NoUid
  BY DEF Shaped, AsShared, TitleUid, NoUid
<1> HIDE DEF c, F, G, d
<1>5. /\ c.stones = {F(s) : s \in b.stones} /\ c.media = {G(m) : m \in b.media}
      /\ DOMAIN c = DOMAIN b /\ Same(b, c)
  BY <1>1, <1>2 DEF Shaped, Same, Absent
<1>6. \A x, y \in c.stones : x.id = y.id => x = y
  <2> TAKE x, y \in c.stones
  <2>1. PICK s \in b.stones, q \in b.stones : x = F(s) /\ y = F(q)
    BY <1>5
  <2> QED BY <1>3, <2>1 DEF Shaped
<1>7. \A x \in c.stones : DOMAIN x = {"id", "title", "media", "what", "uid"}
  BY <1>3, <1>5 DEF Shaped
<1>8. \A m \in c.media \cup c.mainMedia : DOMAIN m = {"id", "title", "variant", "type", "uid"}
  BY <1>4, <1>5 DEF Shaped, Same
<1>9. NoUid \notin Uids(c)
  BY <1>4, <1>5 DEF Uids
<1> QED BY <1>5, <1>6, <1>7, <1>8, <1>9 DEF Shaped, c

\* Two versions that are one.
LEMMA AtShape ==
    ASSUME NEW b, Shaped(b), NEW v
    PROVE  LET c == At(b, v)
           IN  /\ Shaped(c) /\ c.files = b.files /\ c.main = v /\ c.shared = v
               /\ c.media = b.media /\ c.stones = b.stones /\ c.mainMedia = b.mainMedia
               /\ c.chose = b.chose /\ c.before = b.before
  BY DEF At, Shaped, Absent

\* A migration blanks no identifier,
LEMMA ThroughUids ==
    ASSUME NEW b, NEW c, Through(b, c), NoUid \notin Uids(b)
    PROVE  NoUid \notin Uids(c)
  BY DEF Through, Follows, Uids

\* and one from before the versions leaves none blank.
LEMMA CurrentShape ==
    ASSUME NEW b, Shaped(b)
    PROVE  LET c == Current(b)
           IN  /\ Shaped(c) /\ c.main = Latest /\ c.shared = Latest
               /\ c.mainMedia = {} /\ NoUid \notin Uids(c) /\ c.before = b.before
<1> DEFINE s == Shared(b)
           f == Founded(s)
           t == Typed(f)
           i == Identified(t)
           r == Recorded(i)
<1>1. Shaped(s) /\ Sharing(b, s) /\ s.mainMedia = {}
  BY SharedShape
<1>2. Shaped(f) /\ Same(s, f) /\ NoUid \notin Uids(f)
  BY <1>1, FoundedShape
<1>3. Through(f, t)
  BY <1>2, TypedThrough
<1>4. Through(t, i)
  BY <1>3, IdentifiedThrough DEF Through
<1>5. Through(i, r)
  BY <1>4, RecordedThrough DEF Through
<1>6. Current(b) = At(r, Latest)
  BY DEF Current, Renewed
<1> HIDE DEF s, f, t, i, r
<1>7. Through(f, r)
  BY <1>3, <1>4, <1>5, Further
<1>8. /\ Shaped(r) /\ r.mainMedia = {} /\ r.before = b.before
      /\ NoUid \notin Uids(r)
  BY <1>1, <1>2, <1>7, ThroughUids DEF Through, Same, Sharing
<1> QED BY <1>6, <1>8, AtShape DEF Uids

-----------------------------------------------------------------------------
(* What a recovery left stands.                                            *)

\* The choice r for milestone s, as the next version will find it.
Stands(b, r, s) ==
    /\ Held(b, r, s)
    /\ r.kind = "attach" => r.uid \in Uids(b)

\* A bundle that a recovery wrote: its plan was answered, and the answers stand.
Sound(b) ==
    b.before # {} =>
        /\ b.files = {"user", "shared"} /\ b.main = b.shared /\ b.main \in 2 .. Latest
        /\ \A rows \in b.before : Answered(b.chose) = Groups(rows)
        /\ \A r \in b.chose : \A s \in r.group.stones : Stands(b, r, s)

Fine(b) == WellFormed(b) /\ Sound(b)

\* The parts of being well formed.
LEMMA Shape ==
    ASSUME NEW b
    PROVE  WellFormed(b) <=>
              /\ Shaped(b) /\ b.main \in Nat /\ b.shared \in Nat
              /\ b.main > 0 => b.mainMedia = {}
              /\ b.shared > 1 => NoUid \notin Uids(b)
  BY DEF WellFormed, Shaped

\* A migration lets an answer stand.
LEMMA StandsThrough ==
    ASSUME NEW b, NEW c, Through(b, c), NEW r, NEW s, Stands(b, r, s)
    PROVE  Stands(c, r, s)
<1>1. CASE r.kind = "discard"
  BY <1>1 DEF Stands, Held, Through, Follows
<1>2. CASE r.kind = "attach"
  <2>1. PICK x \in b.stones : x.id = s /\ x.media = r.uid
    BY <1>2 DEF Stands, Held
  <2>2. r.uid \in Uids(b) /\ r.uid \in Uids(c)
    BY <1>2 DEF Stands, Through, Follows, Uids
  <2>3. \E y \in c.stones : y.id = s /\ y.media = r.uid
    BY <2>1, <2>2 DEF Through, Follows
  <2> QED BY <1>2, <2>2, <2>3 DEF Stands, Held
<1>3. CASE r.kind \notin {"discard", "attach"}
  <2>1. PICK x \in b.stones, m \in b.media :
            /\ x.id = s /\ x.media = m.uid
            /\ m.title = r.group.title /\ m.variant = Trim(r.variant)
    BY <1>3 DEF Stands, Held
  <2>2. PICK n \in c.media : n.uid = m.uid /\ n.title = m.title
                             /\ n.variant \in {m.variant, Trim(m.variant)}
    BY DEF Through, Follows
  <2>3. n.variant = Trim(r.variant)
    BY <2>1, <2>2, TrimTwice
  <2>4. x.media \in Uids(b)
    BY <2>1 DEF Uids
  <2>5. \E y \in c.stones : y.id = s /\ y.media = n.uid
    BY <2>1, <2>2, <2>4 DEF Through, Follows
  <2> QED BY <1>3, <2>1, <2>2, <2>3, <2>5 DEF Stands, Held
<1> QED BY <1>1, <1>2, <1>3

\* A migration that is followed, stamped with a version, is fine.
LEMMA FineThrough ==
    ASSUME NEW b, Fine(b), b.main = b.shared, b.main \in 1 .. Latest - 1,
           NEW c, Shaped(c), Same(b, c), NoUid \notin Uids(c),
           b.main > 1 => Through(b, c)
    PROVE  Fine(At(c, b.main + 1))
<1> DEFINE d == At(c, b.main + 1)
<1>1. /\ Shaped(d) /\ d.files = c.files /\ d.main = b.main + 1 /\ d.shared = b.main + 1
      /\ d.media = c.media /\ d.stones = c.stones /\ d.mainMedia = c.mainMedia
      /\ d.chose = c.chose /\ d.before = c.before
  BY AtShape
<1> HIDE DEF d
<1>2. b.mainMedia = {} /\ Sound(b) /\ b.main \in Nat
  BY Shape DEF Fine, Latest
<1>3. WellFormed(d)
  BY <1>1, <1>2, Shape DEF Same, Uids
<1>4. Sound(d)
  <2> SUFFICES ASSUME d.before # {}
               PROVE  /\ d.files = {"user", "shared"} /\ d.main = d.shared /\ d.main \in 2 .. Latest
                      /\ \A rows \in d.before : Answered(d.chose) = Groups(rows)
                      /\ \A r \in d.chose : \A s \in r.group.stones : Stands(d, r, s)
    BY DEF Sound
  <2>1. /\ b.before # {} /\ b.main > 1 /\ b.files = {"user", "shared"}
        /\ \A rows \in b.before : Answered(b.chose) = Groups(rows)
        /\ \A r \in b.chose : \A s \in r.group.stones : Stands(b, r, s)
    BY <1>1, <1>2 DEF Same, Sound
  <2>2. Through(b, c)
    BY <2>1
  <2>3. \A r \in b.chose : \A s \in r.group.stones : Stands(c, r, s)
    BY <2>1, <2>2, StandsThrough
  <2>4. \A r, s : Stands(c, r, s) => Stands(d, r, s)
    BY <1>1 DEF Stands, Held, Uids
  <2> QED BY <1>1, <2>1, <2>3, <2>4 DEF Same, Latest
<1> QED BY <1>3, <1>4 DEF Fine, d

\* Every registered migration is one.
LEMMA SteppedFine ==
    ASSUME NEW b, Fine(b), b.main = b.shared, b.main \in 1 .. Latest - 1
    PROVE  Fine(Stepped(b))
<1>1. Shaped(b) /\ (b.main > 1 => NoUid \notin Uids(b))
  BY Shape DEF Fine
<1>2. CASE b.main = 1
  <2> DEFINE c == Founded(b)
  <2>1. Stepped(b) = At(c, b.main + 1)
    BY <1>2 DEF Stepped
  <2>2. Shaped(c) /\ Same(b, c) /\ NoUid \notin Uids(c)
    BY <1>1, FoundedShape
  <2>3. b.main > 1 => Through(b, c)
    BY <1>2
  <2> HIDE DEF c
  <2> QED BY <2>1, <2>2, <2>3, FineThrough
<1>3. CASE b.main = 4
  <2> DEFINE c == Typed(b)
  <2>1. Stepped(b) = At(c, b.main + 1)
    BY <1>3 DEF Stepped
  <2>3. Through(b, c)
    BY <1>1, TypedThrough
  <2>2. Shaped(c) /\ Same(b, c) /\ NoUid \notin Uids(c)
    BY <1>1, <1>3, <2>3, ThroughUids DEF Through
  <2> HIDE DEF c
  <2> QED BY <2>1, <2>2, <2>3, FineThrough
<1>4. CASE b.main = 5
  <2> DEFINE c == Identified(b)
  <2>1. Stepped(b) = At(c, b.main + 1)
    BY <1>4 DEF Stepped
  <2>3. Through(b, c)
    BY <1>1, IdentifiedThrough
  <2>2. Shaped(c) /\ Same(b, c) /\ NoUid \notin Uids(c)
    BY <1>1, <1>4, <2>3, ThroughUids DEF Through
  <2> HIDE DEF c
  <2> QED BY <2>1, <2>2, <2>3, FineThrough
<1>5. CASE b.main = 6
  <2> DEFINE c == Recorded(b)
  <2>1. Stepped(b) = At(c, b.main + 1)
    BY <1>5 DEF Stepped
  <2>3. Through(b, c)
    BY <1>1, RecordedThrough
  <2>2. Shaped(c) /\ Same(b, c) /\ NoUid \notin Uids(c)
    BY <1>1, <1>5, <2>3, ThroughUids DEF Through
  <2> HIDE DEF c
  <2> QED BY <2>1, <2>2, <2>3, FineThrough
<1>6. CASE b.main \notin {1, 4, 5, 6}
  <2>1. Stepped(b) = At(b, b.main + 1)
    BY <1>6 DEF Stepped
  <2>2. Through(b, b)
    BY <1>1 DEF Through, Same, Follows
  <2> QED BY <1>1, <1>6, <2>1, <2>2, FineThrough DEF Through, Latest
<1> QED BY <1>2, <1>3, <1>4, <1>5, <1>6

\* A step goes to the next version, and no further.
LEMMA SteppedIs ==
    ASSUME NEW b, Shaped(b)
    PROVE  LET c == Stepped(b)
           IN  c.before = b.before /\ c.main = b.main + 1 /\ c.shared = b.main + 1
<1>1. PICK d : Stepped(b) = At(d, b.main + 1) /\ Shaped(d) /\ d.before = b.before
  <2>1. CASE b.main = 1
    BY <2>1, FoundedShape DEF Stepped, Same
  <2>2. CASE b.main = 4
    BY <2>2, TypedThrough DEF Stepped, Through, Same
  <2>3. CASE b.main = 5
    BY <2>3, IdentifiedThrough DEF Stepped, Through, Same
  <2>4. CASE b.main = 6
    BY <2>4, RecordedThrough DEF Stepped, Through, Same
  <2>5. CASE b.main \notin {1, 4, 5, 6}
    BY <2>5 DEF Stepped
  <2> QED BY <2>1, <2>2, <2>3, <2>4, <2>5
<1> QED BY <1>1, AtShape

-----------------------------------------------------------------------------
(* What a recovery commits is what was chosen.                             *)

\* What an answer may say.
Kinds(rs) == \A r \in rs : r.kind \in {"discard", "attach", "create"}

\* The group of a milestone.
GroupOf(b, x) == [title |-> x.title,
                  stones |-> {y.id : y \in {z \in Broken(b) : z.title = x.title}}]

\* A milestone of a group is there, has lost its entry, and no title says which it was.
LEMMA OfAGroup ==
    ASSUME NEW b, NEW g \in Groups(b), NEW s \in g.stones
    PROVE  \E x \in Broken(b) :
              /\ x.id = s /\ x.title = g.title /\ Cardinality(Titled(b, x.title)) # 1
              /\ g = GroupOf(b, x)
<1> DEFINE T == {y.title : y \in {z \in Broken(b) : Cardinality(Titled(b, z.title)) # 1}}
           G(t) == [title |-> t, stones |-> {y.id : y \in {z \in Broken(b) : z.title = t}}]
<1>1. PICK t \in T : g = G(t)
  <2>1. g \in {G(t) : t \in T}
    BY DEF Groups
  <2> HIDE DEF G, T
  <2> QED BY <2>1
<1>2. PICK x \in Broken(b) : x.id = s /\ x.title = t
  BY <1>1
<1>3. Cardinality(Titled(b, t)) # 1
  BY <1>1
<1>4. \A S : Cardinality(S) = Cardinality(S)
  BY DEF Cardinality, Cardinality
<1>5. g = GroupOf(b, x)
  BY <1>1, <1>2 DEF GroupOf
<1>6. g.title = x.title
  BY <1>5 DEF GroupOf
<1> QED BY <1>2, <1>3, <1>4, <1>5, <1>6

\* It is in no other group, so one answer is about it.
LEMMA OneAnswer ==
    ASSUME NEW b, Shaped(b), NEW rs, OnePerGroup(rs), Answered(rs) = Groups(b),
           NEW r \in rs, NEW q \in rs, NEW s, s \in r.group.stones, s \in q.group.stones
    PROVE  r = q
<1>1. r.group \in Groups(b) /\ q.group \in Groups(b)
  BY DEF Answered
<1>2. PICK x \in Broken(b) : x.id = s /\ r.group = GroupOf(b, x)
  BY <1>1, OfAGroup
<1>3. PICK y \in Broken(b) : y.id = s /\ q.group = GroupOf(b, y)
  BY <1>1, OfAGroup
<1>4. x = y
  BY <1>2, <1>3 DEF Shaped, Broken
<1>5. r.group = q.group
  BY <1>2, <1>3, <1>4
<1> QED BY <1>5 DEF OnePerGroup

\* The rows that a recovery began with had the groups that were shown.
LEMMA SameGroups ==
    ASSUME NEW b, b.mainMedia = {}
    PROVE  Groups(Rows(b)) = Groups(b)
<1>1. Rows(b).media = b.media /\ Rows(b).stones = b.stones
  BY DEF Rows
<1>2. Broken(Rows(b)) = Broken(b)
  BY <1>1 DEF Broken, Uids
<1>3. \A u : Titled(Rows(b), u) = Titled(b, u)
  BY <1>1 DEF Titled
<1> QED BY <1>2, <1>3 DEF Groups

\* So each milestone becomes what the answer about it says.
LEMMA ResolvedFine ==
    ASSUME NEW b, Fine(b), HasPlan(b), NEW rs, Kinds(rs), OnePerGroup(rs),
           Answered(rs) = Groups(b), CanResolve(b, rs)
    PROVE  LET d == Resolved(b, rs)
           IN  Fine(d) /\ d.before = {Rows(b)}
<1> DEFINE c == Repaired(b)
           d == Resolved(b, rs)
           F(s) == Settle(b, rs, s)
           New == {NewMedia(r) : r \in Of(rs, "create")}
<1>1. /\ Shaped(b) /\ b.mainMedia = {} /\ NoUid \notin Uids(b)
      /\ b.files = {"user", "shared"} /\ b.main = b.shared /\ b.main \in 2 .. Latest
      /\ b.main \in Nat
  BY Shape DEF Fine, HasPlan, Latest
<1>2. /\ Shaped(c) /\ Same(b, c) /\ c.media = b.media
      /\ \A s \in b.stones : ~Repairable(b, s) => s \in c.stones
  BY <1>1, RepairedThrough DEF Through
<1>3. /\ d.media = c.media \cup New
      /\ d.stones = {F(s) : s \in {x \in c.stones : x.id \notin Discarded(rs)}}
      /\ d.chose = rs /\ d.before = {Rows(b)} /\ DOMAIN d = DOMAIN c
      /\ d.files = c.files /\ d.main = c.main /\ d.shared = c.shared /\ d.mainMedia = c.mainMedia
  <2> HIDE DEF c
  <2>1. DOMAIN c = DOMAIN Absent
    BY <1>2 DEF Shaped
  <2>2. d = [c EXCEPT !.media = @ \cup New,
                      !.stones = {F(s) : s \in {x \in @ : x.id \notin Discarded(rs)}},
                      !.gave = @ \cup Discarded(rs), !.chose = rs, !.before = {Rows(b)}]
    BY DEF Resolved, c
  <2> HIDE DEF d, F, New
  <2> QED BY <2>1, <2>2 DEF Absent
<1>4. \A s \in c.stones : DOMAIN F(s) = DOMAIN s /\ F(s).id = s.id
  BY <1>2 DEF Settle, Shaped
<1>5. \A m \in New : /\ DOMAIN m = {"id", "title", "variant", "type", "uid"}
                      /\ m.uid # NoUid
  BY DEF NewMedia, NewUid, NoUid
<1>6. ASSUME NEW r \in rs, NEW s \in r.group.stones
      PROVE  \E x \in c.stones : x.id = s
  <2>1. r.group \in Groups(b)
    BY DEF Answered
  <2>2. PICK x \in Broken(b) : x.id = s /\ Cardinality(Titled(b, x.title)) # 1
    BY <2>1, OfAGroup
  <2>3. ~Repairable(b, x)
    <3>1. Cardinality(Titled(b, x.title)) = Cardinality(Titled(b, x.title))
      BY DEF Cardinality, Cardinality
    <3> QED BY <2>2, <3>1 DEF Repairable
  <2> QED BY <1>2, <2>2, <2>3 DEF Broken
<1>7. Groups(Rows(b)) = Groups(b)
  BY <1>1, SameGroups
<1> HIDE DEF c, d, F
<1>8. Shaped(d)
  <2>1. \A x, y \in d.stones : x.id = y.id => x = y
    <3> TAKE x, y \in d.stones
    <3>1. PICK s \in c.stones, q \in c.stones : x = F(s) /\ y = F(q)
      BY <1>3
    <3> QED BY <1>2, <1>4, <3>1 DEF Shaped
  <2>2. \A x \in d.stones : DOMAIN x = {"id", "title", "media", "what", "uid"}
    BY <1>2, <1>3, <1>4 DEF Shaped
  <2>3. \A m \in d.media \cup d.mainMedia : DOMAIN m = {"id", "title", "variant", "type", "uid"}
    BY <1>2, <1>3, <1>5 DEF Shaped
  <2> QED BY <1>2, <1>3, <2>1, <2>2, <2>3 DEF Shaped
<1>9. WellFormed(d)
  <2>1. NoUid \notin Uids(d)
    BY <1>1, <1>2, <1>3, <1>5 DEF Uids
  <2> QED BY <1>1, <1>2, <1>3, <1>8, <2>1, Shape DEF Same
<1>10. ASSUME NEW r \in rs, NEW s \in r.group.stones PROVE Stands(d, r, s)
  <2>1. PICK x \in c.stones : x.id = s
    BY <1>6
  <2>2. \A q \in rs : s \in q.group.stones => q = r
    BY <1>1, OneAnswer
  <2>3. CASE r.kind = "discard"
    <3>1. s \in Discarded(rs)
      BY <2>3 DEF Discarded, Of
    <3>2. s \notin {y.id : y \in d.stones}
      BY <1>3, <1>4, <3>1
    <3> QED BY <2>3, <3>2 DEF Stands, Held
  <2>4. ASSUME r.kind # "discard" PROVE F(x) \in d.stones /\ F(x).id = s
    <3>1. s \notin Discarded(rs)
      BY <2>2, <2>4 DEF Discarded, Of
    <3> QED BY <1>3, <1>4, <2>1, <3>1
  <2>5. CASE r.kind = "attach"
    <3>1. /\ \E q \in Of(rs, "attach") : x.id \in q.group.stones
          /\ \A q \in Of(rs, "attach") : x.id \in q.group.stones => q = r
      BY <2>1, <2>2, <2>5 DEF Of
    <3>2. (CHOOSE q \in Of(rs, "attach") : x.id \in q.group.stones) = r
      BY <3>1
    <3>3. F(x) = [x EXCEPT !.media = r.uid, !.title = TitleOf(b, r.uid)]
      BY <3>1, <3>2 DEF F, Settle
    <3>4. F(x).media = r.uid
      BY <1>2, <3>3 DEF Shaped
    <3>5. r.uid \in Uids(d)
      BY <1>2, <1>3, <2>5 DEF CanResolve, Uids
    <3> QED BY <2>4, <2>5, <3>4, <3>5 DEF Stands, Held
  <2>6. CASE r.kind = "create"
    <3>1. /\ ~\E q \in Of(rs, "attach") : x.id \in q.group.stones
          /\ \E q \in Of(rs, "create") : x.id \in q.group.stones
          /\ \A q \in Of(rs, "create") : x.id \in q.group.stones => q = r
      BY <2>1, <2>2, <2>6 DEF Of
    <3>2. (CHOOSE q \in Of(rs, "create") : x.id \in q.group.stones) = r
      BY <3>1
    <3>3. F(x) = [x EXCEPT !.media = NewUid(r)]
      BY <3>1, <3>2 DEF F, Settle
    <3>4. F(x).media = NewUid(r)
      BY <1>2, <3>3 DEF Shaped
    <3>5. NewMedia(r) \in d.media
      BY <1>3, <2>6 DEF Of
    <3>6. /\ NewMedia(r).uid = NewUid(r) /\ NewMedia(r).title = r.group.title
          /\ NewMedia(r).variant = Trim(r.variant)
      BY DEF NewMedia
    <3> QED BY <2>4, <2>6, <3>4, <3>5, <3>6 DEF Stands, Held
  <2> QED BY <2>3, <2>5, <2>6 DEF Kinds
<1>11. Sound(d)
  BY <1>1, <1>2, <1>3, <1>7, <1>10 DEF Sound, Same
<1> QED BY <1>3, <1>9, <1>11 DEF Fine, d

-----------------------------------------------------------------------------
(* The inductive invariant of a start.                                     *)

\* Every bundle is fine; only those a user works on can come from a recovery.
DbInv ==
    /\ db = [d \in Dirs |-> db[d]]
    /\ \A d \in Dirs : Fine(db[d])
    /\ db["incoming"].before = {} /\ db["fallback"].before = {}

\* The bundle that is being opened, and where its safety backup is.
Place == IF dir = "active" THEN "app" ELSE "staged"
PathInv ==
    /\ step \in {"off", "idle", "opening", "stepping", "checking", "opened", "installing",
                 "failed", "committing"}
    /\ step \notin {"off", "idle"} =>
            /\ dir \in {"active", "incoming", "staged"}
            /\ cause \in {"start", "profile", "import", "apply"}
            /\ cause \in {"start", "profile"} => dir = "active"
            /\ cause = "apply" => dir # "incoming"
            /\ cause = "import" => dir = "incoming"
    /\ step = "stepping" => db[dir].main = db[dir].shared /\ db[dir].main > 0
    /\ step = "installing" => dir # "active"
    /\ mode = "recovery" => session.dir \in {"active", "staged"}

\* What is being committed answers the plan of the bundle at hand, which was backed up.
AnswerInv ==
    /\ \A a \in answers : Kinds(a.resolutions)
    /\ step = "committing" =>
            /\ cause = "apply" /\ HasPlan(db[dir]) /\ Kinds(choice)
            /\ OnePerGroup(choice) /\ Answered(choice) = Groups(db[dir])
            /\ \E x \in safety : x.place = Place /\ x.rows = Rows(db[dir])

\* The rows a recovery began with are in a backup, and with the app when it matters.
Safe(rows, places) == \E x \in safety : x.place \in places /\ x.rows = rows
SafetyInv ==
    /\ \A x \in safety : DOMAIN x = {"place", "rows"}
    /\ \A rows \in db["active"].before : Safe(rows, {"app"})
    /\ \A rows \in db["staged"].before : Safe(rows, {"app", "staged"})
    /\ step = "installing" => \A rows \in db[dir].before : Safe(rows, {"app"})

BootInv == DbInv /\ PathInv /\ AnswerInv /\ SafetyInv

\* An empty directory, and a bundle that no recovery touched.
LEMMA AbsentFine == Fine(Absent) /\ Absent.before = {}
<1>1. Absent.before = {} /\ Absent.media = {} /\ Absent.mainMedia = {}
      /\ Absent.stones = {} /\ Absent.main = 0 /\ Absent.shared = 0
  BY DEF Absent
<1> QED BY <1>1 DEF Fine, WellFormed, Sound, Uids

LEMMA FreshFine ==
    ASSUME NEW b, WellFormed(b), b.before = {}
    PROVE  Fine(b)
  BY DEF Fine, Sound

\* Each directory holds a library that the releases of the app can have left.
LEMMA BootInit == ASSUME Released, StartupInit PROVE BootInv
<1>1. PICK l \in Libraries :
        db = [d \in Dirs |-> CASE d = "active" -> l.active
                                    [] d = "fallback" -> l.fallback
                                    [] OTHER -> Absent]
  BY DEF StartupInit
<1>2. /\ db["active"] = l.active /\ db["fallback"] = l.fallback
      /\ db["incoming"] = Absent /\ db["staged"] = Absent
  BY <1>1 DEF Dirs
<1>3. Fine(l.active) /\ Fine(l.fallback) /\ l.active.before = {} /\ l.fallback.before = {}
  BY FreshFine DEF Released
<1>4. DbInv
  BY <1>1, <1>2, <1>3, AbsentFine DEF DbInv, Dirs
<1> QED BY <1>2, <1>3, <1>4, AbsentFine
        DEF StartupInit, BootInv, PathInv, AnswerInv, SafetyInv, None

\* A write to the bundle at hand.
LEMMA WrittenFine ==
    ASSUME DbInv, NEW d \in Dirs, NEW b, Fine(b), db' = [db EXCEPT ![d] = b],
           d \in {"incoming", "fallback"} => b.before = {}
    PROVE  DbInv' /\ db'[d] = b /\ \A e \in Dirs \ {d} : db'[e] = db[e]
<1>1. db'[d] = b /\ \A e \in Dirs \ {d} : db'[e] = db[e]
  BY DEF DbInv
<1>2. db' = [e \in Dirs |-> db'[e]]
  BY DEF DbInv
<1>3. \A e \in Dirs : Fine(db'[e])
  BY <1>1 DEF DbInv
<1> QED BY <1>1, <1>2, <1>3 DEF DbInv, Dirs

\* A migration keeps the bundle fine and what its recovery began with.
LEMMA Migrates ==
    ASSUME BootInv, Migrate, db' # db
    PROVE  \E b : /\ db' = [db EXCEPT ![dir] = b] /\ Fine(b) /\ b.before = db[dir].before
                  /\ step' \in {"stepping", "checking"}
                  /\ step' = "stepping" => b.main = b.shared /\ b.main > 0
<1>1. dir \in Dirs /\ Fine(db[dir]) /\ Shaped(db[dir]) /\ WellFormed(db[dir])
  <2>1. dir \in Dirs
    BY DEF BootInv, PathInv, Migrate, Create, Renew, Restamp, Begin,
        RefuseFuture, StepUp, Arrive, Check, Dirs
  <2> QED BY <2>1, Shape DEF BootInv, DbInv, Fine
<1> DEFINE b == db[dir]
<1>2. CASE Create
  <2>1. /\ db' = [db EXCEPT ![dir] = At(b, Latest)] /\ step' = "checking"
        /\ b.main = 0 /\ b.mainMedia = {} /\ b.media = {}
    BY <1>2 DEF Create, Write, Goes, Fresh, B
  <2>2. b.before = {}
    BY <1>1, <2>1 DEF Fine, Sound
  <2>3. LET c == At(b, Latest) IN WellFormed(c) /\ c.before = {}
    BY <1>1, <2>1, <2>2, AtShape, Shape DEF Latest, Uids
  <2> QED BY <2>1, <2>2, <2>3, FreshFine
<1>3. CASE Renew
  <2>1. /\ db' = [db EXCEPT ![dir] = Current(b)] /\ step' = "checking"
        /\ Unversioned(b) \/ Mixed(b)
    BY <1>3 DEF Renew, Write, Goes, Fails, B
  <2>2. b.before = {}
    BY <1>1, <2>1 DEF Fine, Sound, Unversioned, Mixed
  <2>3. LET c == Current(b) IN WellFormed(c) /\ c.before = {}
    BY <1>1, <2>2, CurrentShape, Shape DEF Latest
  <2> QED BY <2>1, <2>2, <2>3, FreshFine
<1>4. CASE Restamp
  <2>1. /\ db' = [db EXCEPT ![dir] = At(b, Latest)] /\ step' = "checking"
        /\ Mixed(b) /\ ~Predates(b)
    BY <1>4 DEF Restamp, Write, Goes, Fails, B
  <2>2. b.before = {} /\ b.mainMedia = {} /\ b.shared > 1
    BY <1>1, <2>1, Shape DEF Fine, Sound, Mixed, Predates
  <2>3. LET c == At(b, Latest) IN WellFormed(c) /\ c.before = {}
    BY <1>1, <2>2, AtShape, Shape DEF Latest, Uids
  <2> QED BY <2>1, <2>2, <2>3, FreshFine
<1>5. CASE StepUp
  <2>1. /\ db' = [db EXCEPT ![dir] = Stepped(b)] /\ step' = "stepping" /\ step = "stepping"
        /\ b.main < Latest
    BY <1>5 DEF StepUp, Write, Goes, Fails, B
  <2>2. b.main = b.shared /\ b.main \in 1 .. Latest - 1
    BY <1>1, <2>1, Shape DEF BootInv, PathInv, Latest
  <2>3. Fine(Stepped(b))
    BY <1>1, <2>2, SteppedFine
  <2>4. LET c == Stepped(b) IN c.before = b.before /\ c.main = b.main + 1 /\ c.shared = b.main + 1
    BY <1>1, <2>2, SteppedIs
  <2>5. PICK c : c = Stepped(b)
    OBVIOUS
  <2>6. c.main = c.shared /\ c.main > 0 /\ c.before = b.before /\ Fine(c)
    BY <2>2, <2>3, <2>4, <2>5 DEF Latest
  <2> QED BY <2>1, <2>5, <2>6
<1>6. CASE Begin \/ RefuseFuture \/ Arrive \/ Check
  BY <1>6 DEF Begin, RefuseFuture, Arrive, Check, Fails
<1> QED BY <1>2, <1>3, <1>4, <1>5, <1>6 DEF Migrate

\* Each action keeps the invariant.
LEMMA MigrateStep == ASSUME BootInv, Migrate PROVE BootInv'
<1>1. /\ UNCHANGED <<mode, session, dir, cause, choice, answers, safety>>
      /\ step \in {"opening", "stepping", "checking"}
  BY DEF Migrate, Create, Renew, Restamp, Begin, RefuseFuture, StepUp,
      Arrive, Check, Fails, Goes, users
<1>2. dir \in {"active", "incoming", "staged"} /\ dir \in Dirs
  BY <1>1 DEF BootInv, PathInv, Dirs
<1>3. CASE db' = db
  <2>1. /\ step' \in {"stepping", "checking", "opened", "failed"}
        /\ step' = "stepping" /\ step # "stepping" => Versioned(db[dir])
    BY <1>3, <1>1 DEF Migrate, Create, Renew, Restamp, Begin, RefuseFuture, StepUp,
      Arrive, Check, Fails, Goes, B
  <2>2. WellFormed(db[dir])
    BY <1>2 DEF BootInv, DbInv, Fine
  <2>3. step' = "stepping" => db[dir].main = db[dir].shared /\ db[dir].main > 0
    <3>1. db[dir].main \in Nat
      BY <2>2, Shape
    <3> QED BY <2>1, <3>1 DEF BootInv, PathInv, Versioned
  <2> QED BY <1>1, <1>2, <1>3, <2>1, <2>3
          DEF BootInv, DbInv, PathInv, AnswerInv, SafetyInv, Safe, Place
<1>4. CASE db' # db
  <2>1. PICK b : /\ db' = [db EXCEPT ![dir] = b] /\ Fine(b) /\ b.before = db[dir].before
                 /\ step' \in {"stepping", "checking"}
                 /\ step' = "stepping" => b.main = b.shared /\ b.main > 0
    BY <1>4, Migrates
  <2>2. DbInv' /\ db'[dir] = b /\ \A e \in Dirs \ {dir} : db'[e] = db[e]
    <3>1. dir \in {"incoming", "fallback"} => b.before = {}
      BY <2>1 DEF BootInv, DbInv
    <3> QED BY <1>2, <2>1, <3>1, WrittenFine DEF BootInv
  <2>3. \A e \in Dirs : db'[e].before = db[e].before
    BY <2>1, <2>2
  <2>4. SafetyInv'
    BY <1>1, <2>1, <2>3 DEF BootInv, SafetyInv, Safe, Dirs
  <2> QED BY <1>1, <1>2, <2>1, <2>2, <2>4 DEF BootInv, PathInv, AnswerInv
<1> QED BY <1>3, <1>4

LEMMA StartStep == ASSUME BootInv, StartApp PROVE BootInv'
  BY DEF BootInv, DbInv, PathInv, AnswerInv, SafetyInv, Safe, StartApp, Open, users, None

LEMMA OpenedStep == ASSUME BootInv, Opened PROVE BootInv'
<1>1. UNCHANGED <<db, answers>> /\ step = "opened"
  BY DEF Opened
<1>2. CASE dir = "active"
  <2>1. mode' = "ready" /\ step' = "idle" /\ safety' = safety
    BY <1>2 DEF Opened, Rest
  <2> QED BY <1>1, <2>1 DEF BootInv, DbInv, PathInv, AnswerInv, SafetyInv, Safe
<1>3. CASE dir # "active"
  <2>1. step' = "installing" /\ UNCHANGED <<mode, session, dir, cause>>
        /\ safety' = safety \cup {[x EXCEPT !.place = "app"] : x \in {y \in safety : y.place = dir}}
    BY <1>3 DEF Opened, Preserved
  <2>2. \A x \in safety : /\ DOMAIN [x EXCEPT !.place = "app"] = {"place", "rows"}
                           /\ [x EXCEPT !.place = "app"].place = "app"
                           /\ [x EXCEPT !.place = "app"].rows = x.rows
    BY DEF BootInv, SafetyInv
  <2>3. dir \in {"incoming", "staged"}
    BY <1>1, <1>3 DEF BootInv, PathInv
  <2>4. \A rows \in db[dir].before : \E x \in safety' : x.place = "app" /\ x.rows = rows
    <3> TAKE rows \in db[dir].before
    <3>1. dir = "staged"
      BY <2>3 DEF BootInv, DbInv
    <3>2. PICK x \in safety : x.place \in {"app", "staged"} /\ x.rows = rows
      BY <3>1 DEF BootInv, SafetyInv, Safe
    <3> QED BY <2>1, <2>2, <3>1, <3>2
  <2>5. SafetyInv'
    <3>1. \A x \in safety' : DOMAIN x = {"place", "rows"}
      BY <2>1, <2>2 DEF BootInv, SafetyInv
    <3>2. safety \subseteq safety'
      BY <2>1
    <3> QED BY <1>1, <2>1, <2>4, <3>1, <3>2 DEF BootInv, SafetyInv, Safe
  <2> QED BY <1>1, <1>3, <2>1, <2>5 DEF BootInv, DbInv, PathInv, AnswerInv
<1> QED BY <1>2, <1>3

LEMMA InstallStep == ASSUME BootInv, Install PROVE BootInv'
<1>1. /\ UNCHANGED <<answers, safety>> /\ step = "installing" /\ step' = "idle"
      /\ mode' = "ready" \/ UNCHANGED <<mode, session>>
      /\ dir \in {"incoming", "staged"}
  BY DEF Install, Rest, users, BootInv, PathInv
<1>2. PICK d1 : /\ d1 = [db EXCEPT ![dir] = Absent]
                /\ db' = [d1 EXCEPT !["active"] = db[dir]] \/ db' = d1
  BY DEF Install, Closed, B
<1>3. /\ DOMAIN db' = Dirs /\ db' = [e \in Dirs |-> db'[e]]
      /\ db'[dir] = Absent
      /\ \A e \in Dirs \ {dir, "active"} : db'[e] = db[e]
      /\ db'["active"] \in {db["active"], db[dir]}
  BY <1>1, <1>2 DEF BootInv, DbInv, Dirs
<1>4. DbInv'
  BY <1>1, <1>3, AbsentFine DEF BootInv, DbInv, Dirs
<1>5. SafetyInv'
  <2>1. \A rows \in db'["active"].before : Safe(rows, {"app"})
    BY <1>1, <1>3 DEF BootInv, SafetyInv
  <2>2. \A rows \in db'["staged"].before : Safe(rows, {"app", "staged"})
    BY <1>1, <1>3, AbsentFine DEF BootInv, SafetyInv, Dirs
  <2> QED BY <1>1, <2>1, <2>2 DEF BootInv, SafetyInv, Safe
<1> QED BY <1>1, <1>4, <1>5 DEF BootInv, PathInv, AnswerInv

LEMMA FailedStep == ASSUME BootInv, Failed PROVE BootInv'
<1>1. UNCHANGED <<answers, safety>> /\ step = "failed" /\ step' = "idle"
  BY DEF Failed, Rest, users
<1>2. mode' = "recovery" => session'.dir \in {"active", "staged"}
  BY <1>1 DEF Failed, Rest, Plan, BootInv, PathInv
<1>3. \/ db' = db
      \/ cause = "import" /\ db' = [db EXCEPT !["incoming"] = Absent]
      \/ cause = "import" /\ db' = [[db EXCEPT !["incoming"] = Absent] EXCEPT !["staged"] = db[dir]]
  <2>1. CASE cause = "import"
    <3>1. dir = "incoming"
      BY <1>1, <2>1 DEF BootInv, PathInv
    <3> QED BY <2>1, <3>1 DEF Failed, Closed, B
  <2>2. CASE cause # "import"
    BY <1>1, <2>2 DEF Failed, BootInv, PathInv
  <2> QED BY <2>1, <2>2
<1>4. DbInv' /\ SafetyInv'
  <2>1. CASE db' = db
    BY <1>1, <2>1 DEF BootInv, DbInv, SafetyInv, Safe
  <2>2. CASE db' # db
    <3>1. /\ db["incoming"].before = {} /\ Fine(db["incoming"])
          /\ cause = "import" /\ dir = "incoming"
      BY <1>1, <1>3, <2>2 DEF BootInv, DbInv, PathInv, Dirs
    <3>2. /\ db' = [e \in Dirs |-> db'[e]] /\ db'["incoming"] = Absent
          /\ db'["staged"] \in {db["staged"], db["incoming"]}
          /\ \A e \in Dirs \ {"incoming", "staged"} : db'[e] = db[e]
      BY <1>3, <2>2, <3>1 DEF BootInv, DbInv, Dirs
    <3>3. DbInv'
      BY <3>1, <3>2, AbsentFine DEF BootInv, DbInv, Dirs
    <3>4. SafetyInv'
      BY <1>1, <3>1, <3>2 DEF BootInv, SafetyInv, Safe, Dirs
    <3> QED BY <3>3, <3>4
  <2> QED BY <2>1, <2>2
<1> QED BY <1>1, <1>2, <1>4 DEF BootInv, PathInv, AnswerInv

LEMMA ResolveStep == ASSUME BootInv, CommitChoice PROVE BootInv'
<1>1. /\ UNCHANGED <<mode, session, dir, cause, choice, answers, safety>>
      /\ step = "committing" /\ step' \in {"opening", "failed"}
  BY DEF CommitChoice, Goes, Fails, users
<1>2. dir \in {"active", "staged"} /\ dir \in Dirs
  BY <1>1 DEF BootInv, PathInv, AnswerInv, Dirs
<1>3. CASE db' = db
  BY <1>1, <1>3 DEF BootInv, DbInv, PathInv, AnswerInv, SafetyInv, Safe
<1>4. CASE db' # db
  <2> DEFINE b == Resolved(db[dir], choice)
  <2>1. db' = [db EXCEPT ![dir] = b] /\ CanResolve(db[dir], choice)
    BY <1>4 DEF CommitChoice, Write, Fails, B
  <2>2. Fine(b) /\ b.before = {Rows(db[dir])}
    <3>1. Fine(db[dir])
      BY <1>2 DEF BootInv, DbInv
    <3> QED BY <1>1, <2>1, <3>1, ResolvedFine DEF BootInv, AnswerInv
  <2> HIDE DEF b
  <2>3. DbInv' /\ db'[dir] = b /\ \A e \in Dirs \ {dir} : db'[e] = db[e]
    BY <1>2, <2>1, <2>2, WrittenFine DEF BootInv
  <2>4. PICK x \in safety : x.place = Place /\ x.rows = Rows(db[dir])
    BY <1>1 DEF BootInv, AnswerInv
  <2>5. SafetyInv'
    <3>1. CASE dir = "active"
      <4>1. \A rows \in db'["active"].before : Safe(rows, {"app"})
        BY <2>2, <2>3, <2>4, <3>1 DEF Safe, Place
      <4>2. db'["staged"] = db["staged"]
        BY <2>3, <3>1 DEF Dirs
      <4> QED BY <1>1, <4>1, <4>2 DEF BootInv, SafetyInv, Safe
    <3>2. CASE dir = "staged"
      <4>1. \A rows \in db'["staged"].before : Safe(rows, {"app", "staged"})
        BY <2>2, <2>3, <2>4, <3>2 DEF Safe, Place
      <4>2. db'["active"] = db["active"]
        BY <2>3, <3>2 DEF Dirs
      <4> QED BY <1>1, <4>1, <4>2 DEF BootInv, SafetyInv, Safe
    <3> QED BY <1>2, <3>1, <3>2
  <2> QED BY <1>1, <1>2, <2>3, <2>5 DEF BootInv, PathInv, AnswerInv
<1> QED BY <1>3, <1>4

LEMMA ProfileStep == ASSUME BootInv, InitializeUser PROVE BootInv'
<1>1. /\ UNCHANGED <<mode, session, answers, safety>> /\ step = "idle" /\ step' = "opening"
      /\ dir' = "active" /\ cause' = "profile" /\ "user" \notin db["active"].files
      /\ db' = [db EXCEPT !["active"] = WithUser(db["active"], db["fallback"])]
  BY DEF InitializeUser, Idle, Open, users
<1> DEFINE b == db["active"]
           f == db["fallback"]
           c == WithUser(b, f)
<1>2. /\ Shaped(b) /\ Shaped(f) /\ WellFormed(b) /\ WellFormed(f) /\ Fine(b)
  BY Shape DEF BootInv, DbInv, Fine, Dirs
<1>3. b.before = {}
  BY <1>1, <1>2 DEF Fine, Sound
<1>4. /\ DOMAIN c = DOMAIN b /\ c.media = b.media /\ c.mainMedia = f.mainMedia
      /\ c.stones = f.stones /\ c.main = f.main /\ c.shared = b.shared /\ c.before = b.before
  <2> HIDE DEF b, f
  <2> QED BY <1>2 DEF WithUser, Shaped, Absent
<1>5. WellFormed(c) /\ c.before = {}
  <2> HIDE DEF b, f, c
  <2>1. Shaped(c)
    BY <1>2, <1>4 DEF Shaped
  <2> QED BY <1>2, <1>3, <1>4, <2>1, Shape DEF Uids
<1>6. Fine(c)
  BY <1>5, FreshFine
<1> HIDE DEF c
<1>7. DbInv' /\ db'["active"] = c /\ \A e \in Dirs \ {"active"} : db'[e] = db[e]
  BY <1>1, <1>6, WrittenFine DEF BootInv, Dirs, c
<1>8. SafetyInv'
  BY <1>1, <1>5, <1>7 DEF BootInv, SafetyInv, Safe, Dirs
<1> QED BY <1>1, <1>7, <1>8 DEF BootInv, PathInv, AnswerInv

LEMMA ImportStep ==
    ASSUME Released, BootInv, AdmitImport \/ BeginImport
    PROVE  BootInv'
<1>1. CASE AdmitImport
  BY <1>1 DEF AdmitImport, route, BootInv, DbInv, PathInv, AnswerInv, SafetyInv, Safe, Place
<1>2. CASE BeginImport
  <2>1. PICK b \in Backups : db' = [db EXCEPT !["incoming"] = b]
    BY <1>2 DEF BeginImport
  <2>2. /\ UNCHANGED <<mode, session, answers, safety>> /\ step = "idle" /\ step' = "opening"
        /\ dir' = "incoming" /\ cause' = "import"
    BY <1>2 DEF BeginImport, Idle, Open
  <2>3. Fine(b) /\ b.before = {}
    BY FreshFine DEF Released
  <2>4. DbInv' /\ \A e \in Dirs \ {"incoming"} : db'[e] = db[e]
    BY <2>1, <2>3, WrittenFine DEF BootInv, Dirs
  <2>5. SafetyInv'
    BY <2>2, <2>4 DEF BootInv, SafetyInv, Safe, Dirs
  <2> QED BY <2>2, <2>4, <2>5 DEF BootInv, PathInv, AnswerInv
<1> QED BY <1>1, <1>2

LEMMA SendStep == ASSUME BootInv, Send PROVE BootInv'
<1>1. UNCHANGED <<db, mode, session, step, dir, cause, choice, safety>>
  BY DEF Send, route
<1>2. \A a \in answers' : Kinds(a.resolutions)
  <2>1. PICK rs \in Tries(db[session.dir]) :
            answers' = answers \cup {[token |-> session.token, resolutions |-> rs]}
    BY DEF Send
  <2>2. rs \subseteq Resolutions(db[session.dir])
    BY DEF Tries, kSubset
  <2>3. Kinds(rs)
    BY <2>2 DEF Kinds, Resolutions
  <2> QED BY <2>1, <2>3 DEF BootInv, AnswerInv
<1> QED BY <1>1, <1>2 DEF BootInv, DbInv, PathInv, AnswerInv, SafetyInv, Safe, Place

LEMMA ApplyStep == ASSUME BootInv, NEW a \in answers, Apply(a) PROVE BootInv'
<1> DEFINE d == session.dir
           x == [place |-> IF d = "active" THEN "app" ELSE "staged", rows |-> Rows(db[d])]
<1>1. /\ UNCHANGED <<db, mode, session>> /\ step = "idle" /\ step' = "committing"
      /\ dir' = d /\ cause' = "apply" /\ choice' = a.resolutions /\ mode = "recovery"
      /\ answers' = answers \ {a} /\ safety' = safety \cup {x}
  BY DEF Apply, Idle, Taken
<1>2. /\ HasPlan(db[d]) /\ OnePerGroup(a.resolutions)
      /\ Answered(a.resolutions) = Groups(db[d])
  BY DEF Apply, Acceptable, Complete
<1>3. d \in {"active", "staged"}
  BY <1>1 DEF BootInv, PathInv
<1>4. x \in safety' /\ x.place = (IF d = "active" THEN "app" ELSE "staged")
      /\ x.rows = Rows(db[d]) /\ DOMAIN x = {"place", "rows"}
  BY <1>1
<1> HIDE DEF x
<1>5. AnswerInv'
  BY <1>1, <1>2, <1>4 DEF BootInv, AnswerInv, Place
<1>6. SafetyInv'
  BY <1>1, <1>4 DEF BootInv, SafetyInv, Safe
<1> QED BY <1>1, <1>3, <1>5, <1>6 DEF BootInv, DbInv, PathInv

LEMMA RejectStep == ASSUME BootInv, NEW a \in answers, Reject(a) PROVE BootInv'
<1>1. /\ UNCHANGED <<db, mode, step, dir, cause, choice, safety>> /\ step = "idle"
      /\ answers' = answers \ {a} /\ session'.dir = session.dir
  BY DEF Reject, Idle, Taken, Plan
<1> QED BY <1>1 DEF BootInv, DbInv, PathInv, AnswerInv, SafetyInv, Safe

LEMMA CrashStep == ASSUME BootInv, Killed PROVE BootInv'
<1>1. /\ db' = [[db EXCEPT !["incoming"] = Absent] EXCEPT !["staged"] = Absent]
      /\ safety' = {x \in safety : x.place = "app"} /\ answers' = {}
      /\ step' = "off" /\ mode' = "none"
  BY DEF Killed, None
<1>2. /\ db' = [e \in Dirs |-> db'[e]] /\ db'["incoming"] = Absent
      /\ db'["staged"] = Absent
      /\ db'["active"] = db["active"] /\ db'["fallback"] = db["fallback"]
  BY <1>1 DEF BootInv, DbInv, Dirs
<1>3. DbInv'
  BY <1>2, AbsentFine DEF BootInv, DbInv, Dirs
<1>4. SafetyInv'
  BY <1>1, <1>2, AbsentFine DEF BootInv, SafetyInv, Safe
<1> QED BY <1>1, <1>3, <1>4 DEF BootInv, PathInv, AnswerInv

LEMMA BootNext == ASSUME Released, BootInv, [StartupNext]_startupVars PROVE BootInv'
<1>1. CASE UNCHANGED startupVars
  BY <1>1 DEF startupVars, BootInv, DbInv, PathInv, AnswerInv, SafetyInv, Safe, Place
<1>2. CASE System
  BY <1>2, StartStep, MigrateStep, OpenedStep, InstallStep, FailedStep, ResolveStep DEF System
<1>3. CASE UserActs
  BY <1>3, ProfileStep, ImportStep, SendStep DEF UserActs
<1>4. CASE Answer
  BY <1>4, ApplyStep, RejectStep DEF Answer
<1>5. CASE Killed
  BY <1>5, CrashStep
<1> QED BY <1>1, <1>2, <1>3, <1>4, <1>5 DEF StartupNext

\* A recovery leaves what its user chose for every milestone it was about, and the app
\* keeps a backup of what it was made from, wherever a start, an import or the process
\* is cut short (database_recovery.rs apply_database_recovery).
THEOREM RecoveriesAreSound == StartupSpec => []RecoveryIsSound
<1>0. Released
  BY StartupAssumption
<1>1. StartupInit => BootInv
  BY <1>0, BootInit
<1>2. BootInv /\ [StartupNext]_startupVars => BootInv'
  BY <1>0, BootNext
<1>3. BootInv => RecoveryIsSound
  <2> SUFFICES ASSUME BootInv PROVE RecoveredAsChosen /\ SafetyFirst
    BY DEF RecoveryIsSound
  <2>1. RecoveredAsChosen
    BY DEF RecoveredAsChosen, BootInv, DbInv, Fine, Sound, Stands
  <2>2. SafetyFirst
    BY DEF SafetyFirst, BootInv, SafetyInv, Safe
  <2> QED BY <2>1, <2>2
<1> QED BY <1>1, <1>2, <1>3, PTL DEF StartupSpec

-----------------------------------------------------------------------------
(* What a start, an import or a recovery does to the rows.                 *)

\* The columns of an activity.
Logged(b) == \A l \in b.logs : DOMAIN l = {"id", "media", "type", "what", "uid"}

\* What is not lost from one bundle to the next.
Carries(b, c) ==
    /\ c.files = b.files /\ c.was = b.was /\ b.gave \subseteq c.gave
    /\ Logged(c)
    /\ \A m \in b.media \cup b.mainMedia : \E n \in c.media \cup c.mainMedia :
            n.id = m.id /\ n.title = m.title
    /\ \A m \in b.media : m.uid # NoUid => m.uid \in Uids(c)
    /\ \A l \in b.logs : \E q \in c.logs : q.id = l.id /\ q.media = l.media /\ q.what = l.what
    /\ \A q \in c.logs : \E l \in b.logs : q.media = l.media
    /\ \A s \in b.stones :
            \/ s.id \in c.gave
            \/ \E q \in c.stones :
                  /\ q.id = s.id /\ q.what = s.what
                  /\ s.media \in Uids(b) \ {NoUid} => q.media = s.media

\* What is carried twice is carried.
LEMMA CarriedOn ==
    ASSUME NEW a, NEW b, NEW c, Carries(a, b), Carries(b, c)
    PROVE  Carries(a, c)
<1>1. \A m \in a.media \cup a.mainMedia : \E n \in c.media \cup c.mainMedia :
            n.id = m.id /\ n.title = m.title
  <2> TAKE m \in a.media \cup a.mainMedia
  <2>1. PICK k \in b.media \cup b.mainMedia : k.id = m.id /\ k.title = m.title
    BY DEF Carries
  <2>2. PICK n \in c.media \cup c.mainMedia : n.id = k.id /\ n.title = k.title
    BY DEF Carries
  <2> QED BY <2>1, <2>2
<1>2. \A m \in a.media : m.uid # NoUid => m.uid \in Uids(c)
  <2> TAKE m \in a.media
  <2> HAVE m.uid # NoUid
  <2>1. PICK k \in b.media : k.uid = m.uid
    BY DEF Carries, Uids
  <2> QED BY <2>1 DEF Carries
<1>3. \A l \in a.logs : \E q \in c.logs : q.id = l.id /\ q.media = l.media /\ q.what = l.what
  <2> TAKE l \in a.logs
  <2>1. PICK k \in b.logs : k.id = l.id /\ k.media = l.media /\ k.what = l.what
    BY DEF Carries
  <2> QED BY <2>1 DEF Carries
<1>4. \A q \in c.logs : \E l \in a.logs : q.media = l.media
  <2> TAKE q \in c.logs
  <2>1. PICK k \in b.logs : q.media = k.media
    BY DEF Carries
  <2> QED BY <2>1 DEF Carries
<1>5. ASSUME NEW s \in a.stones, s.id \notin c.gave
      PROVE  \E q \in c.stones :
                /\ q.id = s.id /\ q.what = s.what
                /\ s.media \in Uids(a) \ {NoUid} => q.media = s.media
  <2>1. s.id \notin b.gave
    BY <1>5 DEF Carries
  <2>2. PICK k \in b.stones : /\ k.id = s.id /\ k.what = s.what
                              /\ s.media \in Uids(a) \ {NoUid} => k.media = s.media
    BY <2>1 DEF Carries
  <2>3. PICK q \in c.stones : /\ q.id = k.id /\ q.what = k.what
                              /\ k.media \in Uids(b) \ {NoUid} => q.media = k.media
    BY <1>5, <2>2 DEF Carries
  <2>4. s.media \in Uids(a) \ {NoUid} => s.media \in Uids(b) \ {NoUid}
    BY DEF Carries, Uids
  <2> QED BY <2>2, <2>3, <2>4
<1> QED BY <1>1, <1>2, <1>3, <1>4, <1>5 DEF Carries

\* A bundle that has everything it had at first, and the rows it is to make shared in order.
Intact(b) ==
    /\ Logged(b)
    /\ \A r \in b.mainMedia : r.uid = NoUid
    /\ \A r, q \in b.mainMedia : r.id = q.id => r = q
    /\ \A r \in b.mainMedia, m \in b.media : m.id = r.id => m.title = r.title
    /\ Keeps(b, b.was)
    /\ \A m \in b.was.media : m.uid # NoUid => m.uid \in Uids(b)

LEMMA IntactCarried ==
    ASSUME NEW b, Intact(b), NEW c, Carries(b, c), c.mainMedia = {}
    PROVE  Intact(c)
<1>1. Rows(b).media = b.media \cup b.mainMedia /\ Rows(c).media = c.media \cup c.mainMedia
  BY DEF Rows
<1>2. \A m \in c.was.media : \E n \in Rows(c).media : n.id = m.id /\ n.title = m.title
  <2> TAKE m \in c.was.media
  <2>1. PICK k \in b.media \cup b.mainMedia : k.id = m.id /\ k.title = m.title
    BY <1>1 DEF Intact, Keeps, Carries
  <2> QED BY <1>1, <2>1 DEF Carries
<1>3. \A l \in c.was.logs : \E q \in c.logs : q.id = l.id /\ q.media = l.media /\ q.what = l.what
  <2> TAKE l \in c.was.logs
  <2>1. PICK k \in b.logs : k.id = l.id /\ k.media = l.media /\ k.what = l.what
    BY DEF Intact, Keeps, Carries
  <2> QED BY <2>1 DEF Carries
<1>4. \A m \in c.was.media : m.uid # NoUid => m.uid \in Uids(b) /\ m.uid \in Uids(c)
  BY DEF Intact, Carries, Uids
<1>5. ASSUME NEW s \in c.was.stones, s.id \notin c.gave
      PROVE  \E q \in c.stones :
                /\ q.id = s.id /\ q.what = s.what
                /\ s.media \in {m.uid : m \in c.was.media} \ {NoUid} => q.media = s.media
  <2>1. s.id \notin b.gave /\ s \in b.was.stones /\ c.was = b.was
    BY <1>5 DEF Carries
  <2>2. PICK k \in b.stones :
            /\ k.id = s.id /\ k.what = s.what
            /\ s.media \in {m.uid : m \in c.was.media} \ {NoUid} => k.media = s.media
    BY <2>1 DEF Intact, Keeps
  <2>3. PICK q \in c.stones : /\ q.id = k.id /\ q.what = k.what
                              /\ k.media \in Uids(b) \ {NoUid} => q.media = k.media
    BY <1>5, <2>2 DEF Carries
  <2> QED BY <1>4, <2>2, <2>3
<1>6. Keeps(c, c.was)
  BY <1>2, <1>3, <1>5 DEF Keeps
<1> QED BY <1>4, <1>6 DEF Intact, Carries

\* An activity keeps its entry, so none is left without one.
LEMMA DanglingCarried ==
    ASSUME NEW b, NEW c, Carries(b, c), b.mainMedia = {}, c.mainMedia = {}, Dangling(b) = {}
    PROVE  Dangling(c) = {}
<1> SUFFICES ASSUME NEW q \in c.logs PROVE \E n \in c.media : n.id = q.media
  BY DEF Dangling
<1>1. PICK l \in b.logs : q.media = l.media
  BY DEF Carries
<1>2. PICK m \in b.media : m.id = l.media
  BY DEF Dangling
<1>3. PICK n \in c.media : n.id = m.id
  BY DEF Carries
<1> QED BY <1>1, <1>2, <1>3

\* Nothing to share is nothing more.
LEMMA SharedAlready ==
    ASSUME NEW b, Shaped(b), b.mainMedia = {}
    PROVE  Dangling(Shared(b)) = Dangling(b)
<1>1. /\ Shared(b).media = b.media \cup {AsShared(r) : r \in Copied(b)}
      /\ Shared(b).logs = b.logs
  BY DEF Shared, Shaped, Absent
<1>2. Copied(b) = {}
  BY DEF Copied
<1> QED BY <1>1, <1>2 DEF Dangling

\* The same rows under other versions.
LEMMA AtCarries ==
    ASSUME NEW b, Shaped(b), Logged(b), NEW v
    PROVE  Carries(b, At(b, v)) /\ At(b, v).mainMedia = b.mainMedia
<1> DEFINE c == At(b, v)
<1>1. /\ c.files = b.files /\ c.was = b.was /\ c.gave = b.gave /\ c.logs = b.logs
      /\ c.media = b.media /\ c.mainMedia = b.mainMedia /\ c.stones = b.stones
  BY DEF At, Shaped, Absent
<1> HIDE DEF c
<1>2. Carries(b, c)
  BY <1>1 DEF Carries, Uids, Logged
<1> QED BY <1>1, <1>2 DEF c

\* The profile's own entries become shared, and none is taken for another.
LEMMA SharedCarries ==
    ASSUME NEW b, Shaped(b), Intact(b), CanShare(b)
    PROVE  Carries(b, Shared(b))
<1> DEFINE c == Shared(b)
<1>1. /\ c.media = b.media \cup {AsShared(r) : r \in Copied(b)} /\ c.mainMedia = {}
      /\ c.files = b.files /\ c.was = b.was /\ c.gave = b.gave /\ c.logs = b.logs
      /\ c.stones = b.stones
  BY DEF Shared, Shaped, Absent
<1> HIDE DEF c
<1>2. ASSUME NEW r \in b.mainMedia
      PROVE  \E n \in c.media : n.id = r.id /\ n.title = r.title
  <2>1. PICK m \in b.media \cup Copied(b) : m.id = r.id
    BY DEF CanShare
  <2>2. CASE m \in b.media
    BY <1>1, <2>1, <2>2 DEF Intact
  <2>3. CASE m \in Copied(b)
    <3>1. m = r
      BY <2>1, <2>3 DEF Intact, Copied
    <3>2. AsShared(r).id = r.id /\ AsShared(r).title = r.title
      BY DEF AsShared, Shaped
    <3> QED BY <1>1, <2>3, <3>1, <3>2
  <2> QED BY <2>1, <2>2, <2>3
<1>3. Carries(b, c)
  BY <1>1, <1>2 DEF Carries, Intact, Logged, Uids
<1> QED BY <1>3 DEF c

\* An identifier is given to what has none.
LEMMA FoundedCarries ==
    ASSUME NEW b, Shaped(b), Logged(b)
    PROVE  Carries(b, Founded(b))
<1> DEFINE G(m) == IF m.uid = NoUid THEN AsShared(m) ELSE m
           d == [b EXCEPT !.media = {G(m) : m \in b.media}]
           F(s) == IF s.media = NoUid THEN LinkedByTitle(d, s) ELSE s
           c == Founded(b)
<1>1. c = [d EXCEPT !.stones = {F(s) : s \in d.stones}]
  BY DEF Founded, Shaped, Absent
<1>2. /\ d.media = {G(m) : m \in b.media} /\ d.stones = b.stones /\ DOMAIN d = DOMAIN b
      /\ d.files = b.files /\ d.was = b.was /\ d.gave = b.gave /\ d.logs = b.logs
      /\ d.mainMedia = b.mainMedia
  BY DEF Shaped, Absent
<1>3. \A s \in b.stones : /\ F(s).id = s.id /\ F(s).what = s.what
                          /\ s.media # NoUid => F(s).media = s.media
  BY DEF Shaped, LinkedByTitle
<1>4. \A m \in b.media : /\ G(m).id = m.id /\ G(m).title = m.title
                         /\ m.uid # NoUid => G(m).uid = m.uid
  BY DEF Shaped, AsShared
<1> HIDE DEF c, F, G, d
<1>5. /\ c.stones = {F(s) : s \in b.stones} /\ c.media = {G(m) : m \in b.media}
      /\ c.files = b.files /\ c.was = b.was /\ c.gave = b.gave /\ c.logs = b.logs
      /\ c.mainMedia = b.mainMedia
  BY <1>1, <1>2 DEF Shaped, Absent
<1>6. \A s \in b.stones : \E q \in c.stones :
            /\ q.id = s.id /\ q.what = s.what
            /\ s.media \in Uids(b) \ {NoUid} => q.media = s.media
  BY <1>3, <1>5
<1>7. \A m \in b.media : \E n \in c.media : /\ n.id = m.id /\ n.title = m.title
                                            /\ m.uid # NoUid => n.uid = m.uid
  BY <1>4, <1>5
<1>8. Carries(b, c)
  BY <1>5, <1>6, <1>7 DEF Carries, Logged, Uids
<1> QED BY <1>8 DEF c

\* An activity gets a type,
LEMMA TypedCarries ==
    ASSUME NEW b, Shaped(b), Logged(b)
    PROVE  Carries(b, Typed(b))
<1> DEFINE G(m) == [m EXCEPT !.type = DefaultType(m)]
           d == [b EXCEPT !.media = {G(m) : m \in b.media}]
           F(l) == IF l.type = Blank THEN [l EXCEPT !.type = TypeOf(d, l)] ELSE l
           c == Typed(b)
<1>1. c = [d EXCEPT !.logs = {F(l) : l \in d.logs}]
  BY DEF Typed, Shaped, Absent
<1>2. /\ d.media = {G(m) : m \in b.media} /\ d.stones = b.stones /\ DOMAIN d = DOMAIN b
      /\ d.files = b.files /\ d.was = b.was /\ d.gave = b.gave /\ d.logs = b.logs
      /\ d.mainMedia = b.mainMedia
  BY DEF Shaped, Absent
<1>3. \A l \in b.logs : /\ DOMAIN F(l) = {"id", "media", "type", "what", "uid"}
                        /\ F(l).id = l.id /\ F(l).media = l.media /\ F(l).what = l.what
  BY DEF Logged
<1>4. \A m \in b.media : G(m).id = m.id /\ G(m).title = m.title /\ G(m).uid = m.uid
  BY DEF Shaped
<1> HIDE DEF c, F, G, d
<1>5. /\ c.logs = {F(l) : l \in b.logs} /\ c.media = {G(m) : m \in b.media}
      /\ c.files = b.files /\ c.was = b.was /\ c.gave = b.gave /\ c.stones = b.stones
      /\ c.mainMedia = b.mainMedia
  BY <1>1, <1>2 DEF Shaped, Absent
<1>6. \A m \in b.media : \E n \in c.media : n.id = m.id /\ n.title = m.title /\ n.uid = m.uid
  BY <1>4, <1>5
<1>7. /\ \A l \in b.logs : \E q \in c.logs : q.id = l.id /\ q.media = l.media /\ q.what = l.what
      /\ \A q \in c.logs : \E l \in b.logs : q.media = l.media
      /\ Logged(c)
  BY <1>3, <1>5 DEF Logged
<1>8. Carries(b, c)
  BY <1>5, <1>6, <1>7 DEF Carries, Uids
<1> QED BY <1>8 DEF c

\* a milestone without an entry the one of its title,
LEMMA RepairedCarries ==
    ASSUME NEW b, Shaped(b), Logged(b)
    PROVE  LET c == Repaired(b)
           IN  /\ Carries(b, c) /\ Shaped(c) /\ Logged(c)
               /\ c.media = b.media /\ c.mainMedia = b.mainMedia
               /\ c.logs = b.logs /\ c.gave = b.gave
               /\ \A s \in b.stones : \E q \in c.stones :
                      /\ q.id = s.id /\ q.what = s.what
                      /\ s.media \in Uids(b) => q.media = s.media
<1> DEFINE F(s) == IF Repairable(b, s) THEN LinkedByTitle(b, s) ELSE s
           c == Repaired(b)
<1>1. /\ c.stones = {F(s) : s \in b.stones} /\ c.media = b.media
      /\ c.files = b.files /\ c.was = b.was /\ c.gave = b.gave /\ c.logs = b.logs
      /\ c.mainMedia = b.mainMedia
  BY DEF Repaired, Shaped, Absent
<1>2. \A s \in b.stones : /\ F(s).id = s.id /\ F(s).what = s.what
                          /\ s.media \in Uids(b) => F(s).media = s.media
  BY DEF Shaped, LinkedByTitle, Repairable, Broken
<1>3. Shaped(c)
  BY RepairedThrough DEF Through
<1> HIDE DEF c, F
<1>4. \A s \in b.stones : \E q \in c.stones : /\ q.id = s.id /\ q.what = s.what
                                              /\ s.media \in Uids(b) => q.media = s.media
  BY <1>1, <1>2
<1>5. Carries(b, c) /\ Logged(c)
  BY <1>1, <1>4 DEF Carries, Logged, Uids
<1> QED BY <1>1, <1>3, <1>4, <1>5 DEF c

LEMMA TrimmedCarries ==
    ASSUME NEW b, Shaped(b), Logged(b)
    PROVE  Carries(b, Trimmed(b)) /\ Trimmed(b).mainMedia = b.mainMedia
<1> DEFINE G(m) == [m EXCEPT !.variant = Trim(m.variant)]
           c == Trimmed(b)
<1>1. /\ c.media = {G(m) : m \in b.media} /\ c.stones = b.stones
      /\ c.files = b.files /\ c.was = b.was /\ c.gave = b.gave /\ c.logs = b.logs
      /\ c.mainMedia = b.mainMedia
  BY DEF Trimmed, Shaped, Absent
<1>2. \A m \in b.media : G(m).id = m.id /\ G(m).title = m.title /\ G(m).uid = m.uid
  BY DEF Shaped
<1> HIDE DEF c, G
<1>3. \A m \in b.media : \E n \in c.media : n.id = m.id /\ n.title = m.title /\ n.uid = m.uid
  BY <1>1, <1>2
<1>4. Carries(b, c)
  BY <1>1, <1>3 DEF Carries, Logged, Uids
<1> QED BY <1>1, <1>4 DEF c

LEMMA IdentifiedCarries ==
    ASSUME NEW b, Shaped(b), Logged(b)
    PROVE  Carries(b, Identified(b)) /\ Identified(b).mainMedia = b.mainMedia
<1> DEFINE t == Trimmed(b)
           c == Repaired(t)
           d == Identified(b)
           F(s) == [s EXCEPT !.title = TitleOf(c, s.media)]
<1>1. Shaped(t) /\ Carries(b, t) /\ Logged(t) /\ t.mainMedia = b.mainMedia
  <2>1. Shaped(t)
    BY TrimmedThrough DEF Through
  <2>2. Carries(b, t) /\ t.mainMedia = b.mainMedia
    BY TrimmedCarries
  <2> QED BY <2>1, <2>2 DEF Carries
<1>2. Carries(b, c) /\ Shaped(c) /\ Logged(c) /\ c.mainMedia = b.mainMedia
  <2> HIDE DEF t
  <2>1. Carries(t, c) /\ Shaped(c) /\ Logged(c) /\ c.mainMedia = t.mainMedia
    BY <1>1, RepairedCarries
  <2> HIDE DEF c
  <2> QED BY <1>1, <2>1, CarriedOn
<1>3. d = [c EXCEPT !.stones = {F(s) : s \in c.stones}]
  BY DEF Identified
<1> HIDE DEF t, c, d
<1>4. /\ d.stones = {F(s) : s \in c.stones} /\ d.media = c.media
      /\ d.files = c.files /\ d.was = c.was /\ d.gave = c.gave /\ d.logs = c.logs
      /\ d.mainMedia = c.mainMedia
  BY <1>2, <1>3 DEF Shaped, Absent
<1>5. \A s \in c.stones : F(s).id = s.id /\ F(s).what = s.what /\ F(s).media = s.media
  BY <1>2 DEF Shaped
<1> HIDE DEF F
<1>6. Carries(c, d)
  BY <1>2, <1>4, <1>5 DEF Carries, Logged, Uids
<1>7. Carries(b, d)
  BY <1>2, <1>6, CarriedOn
<1> QED BY <1>2, <1>4, <1>7 DEF d

\* and a record an identifier of its own.
LEMMA RecordedCarries ==
    ASSUME NEW b, Shaped(b), Logged(b)
    PROVE  Carries(b, Recorded(b)) /\ Recorded(b).mainMedia = b.mainMedia
<1> DEFINE G(l) == IF l.uid = NoUid THEN NamedLog(b, l) ELSE l
           F(s) == IF s.uid = NoUid THEN NamedStone(b, s) ELSE s
           c == Recorded(b)
<1>1. /\ c.logs = {G(l) : l \in b.logs} /\ c.stones = {F(s) : s \in b.stones}
      /\ c.media = b.media /\ c.files = b.files /\ c.was = b.was /\ c.gave = b.gave
      /\ c.mainMedia = b.mainMedia
  BY DEF Recorded, Shaped, Absent
<1>2. \A s \in b.stones : F(s).id = s.id /\ F(s).what = s.what /\ F(s).media = s.media
  BY DEF Shaped, NamedStone
<1>3. \A l \in b.logs : /\ DOMAIN G(l) = {"id", "media", "type", "what", "uid"}
                        /\ G(l).id = l.id /\ G(l).media = l.media /\ G(l).what = l.what
  BY DEF Logged, NamedLog
<1> HIDE DEF c, F, G
<1>4. \A s \in b.stones : \E q \in c.stones : q.id = s.id /\ q.what = s.what /\ q.media = s.media
  BY <1>1, <1>2
<1>5. /\ \A l \in b.logs : \E q \in c.logs : q.id = l.id /\ q.media = l.media /\ q.what = l.what
      /\ \A q \in c.logs : \E l \in b.logs : q.media = l.media
      /\ Logged(c)
  BY <1>1, <1>3 DEF Logged
<1>6. Carries(b, c)
  BY <1>1, <1>4, <1>5 DEF Carries, Uids
<1> QED BY <1>1, <1>6 DEF c

\* So every migration carries on what there is,
LEMMA SteppedCarries ==
    ASSUME NEW b, Shaped(b), Logged(b), b.mainMedia = {}
    PROVE  Carries(b, Stepped(b)) /\ Stepped(b).mainMedia = {}
<1>1. PICK d : /\ Stepped(b) = At(d, b.main + 1) /\ Shaped(d) /\ Logged(d)
               /\ Carries(b, d) /\ d.mainMedia = {}
  <2>1. CASE b.main = 1
    BY <2>1, FoundedShape, FoundedCarries DEF Stepped, Same, Carries
  <2>2. CASE b.main = 4
    BY <2>2, TypedThrough, TypedCarries DEF Stepped, Through, Same, Carries
  <2>3. CASE b.main = 5
    <3>1. Stepped(b) = At(Identified(b), b.main + 1)
      BY <2>3 DEF Stepped
    <3>2. Shaped(Identified(b)) /\ Carries(b, Identified(b)) /\ Identified(b).mainMedia = {}
      BY <2>3, IdentifiedThrough, IdentifiedCarries DEF Through
    <3> QED BY <3>1, <3>2 DEF Carries
  <2>4. CASE b.main = 6
    <3>1. Stepped(b) = At(Recorded(b), b.main + 1)
      BY <2>4 DEF Stepped
    <3>2. Shaped(Recorded(b)) /\ Carries(b, Recorded(b)) /\ Recorded(b).mainMedia = {}
      BY <2>4, RecordedThrough, RecordedCarries DEF Through
    <3> QED BY <3>1, <3>2 DEF Carries
  <2>5. CASE b.main \notin {1, 4, 5, 6}
    <3>1. Stepped(b) = At(b, b.main + 1)
      BY <2>5 DEF Stepped
    <3>2. Carries(b, b)
      BY DEF Carries, Uids
    <3> QED BY <3>1, <3>2
  <2> QED BY <2>1, <2>2, <2>3, <2>4, <2>5
<1>2. Carries(d, At(d, b.main + 1)) /\ At(d, b.main + 1).mainMedia = {}
  BY <1>1, AtCarries
<1> QED BY <1>1, <1>2, CarriedOn

\* the whole of them too,
LEMMA CurrentCarries ==
    ASSUME NEW b, Shaped(b), Intact(b), CanShare(b)
    PROVE  Carries(b, Current(b)) /\ Current(b).mainMedia = {}
<1> DEFINE s == Shared(b)
           f == Founded(s)
           t == Typed(f)
           i == Identified(t)
           r == Recorded(i)
<1>1. Carries(b, s) /\ Shaped(s) /\ Logged(s)
  BY SharedCarries, SharedShape DEF Carries
<1>2. Carries(s, f) /\ Shaped(f) /\ Logged(f)
  BY <1>1, FoundedCarries, FoundedShape DEF Carries
<1>3. Carries(f, t) /\ Shaped(t) /\ Logged(t)
  BY <1>2, TypedCarries, TypedThrough DEF Carries, Through
<1>4. Carries(t, i) /\ Shaped(i) /\ Logged(i)
  BY <1>3, IdentifiedCarries, IdentifiedThrough DEF Carries, Through
<1>5. Carries(i, r) /\ Shaped(r) /\ Logged(r)
  BY <1>4, RecordedCarries, RecordedThrough DEF Carries, Through
<1>6. Current(b) = At(r, Latest)
  BY DEF Current, Renewed
<1>7. Current(b).mainMedia = {}
  BY CurrentShape
<1> HIDE DEF s, f, t, i, r
<1>8. Carries(r, Current(b))
  BY <1>5, <1>6, AtCarries
<1>9. Carries(b, f)
  BY <1>1, <1>2, CarriedOn
<1>10. Carries(b, i)
  BY <1>3, <1>4, <1>9, CarriedOn
<1> QED BY <1>5, <1>7, <1>8, <1>10, CarriedOn

\* and a recovery: what has its entry is in no group that an answer is about.
LEMMA ResolvedCarries ==
    ASSUME NEW b, Shaped(b), Logged(b), b.mainMedia = {},
           NEW rs, Answered(rs) = Groups(b)
    PROVE  Carries(b, Resolved(b, rs)) /\ Resolved(b, rs).mainMedia = {}
<1> DEFINE c == Repaired(b)
           d == Resolved(b, rs)
           F(s) == Settle(b, rs, s)
           New == {NewMedia(r) : r \in Of(rs, "create")}
<1>1. /\ Carries(b, c) /\ Shaped(c) /\ Logged(c) /\ c.media = b.media /\ c.mainMedia = {}
      /\ c.logs = b.logs /\ c.gave = b.gave
      /\ \A s \in b.stones : \E q \in c.stones : /\ q.id = s.id /\ q.what = s.what
                                                 /\ s.media \in Uids(b) => q.media = s.media
  BY RepairedCarries
<1>2. /\ d.media = c.media \cup New /\ d.mainMedia = {} /\ d.logs = c.logs
      /\ d.files = c.files /\ d.was = c.was /\ d.gave = c.gave \cup Discarded(rs)
      /\ d.stones = {F(s) : s \in {x \in c.stones : x.id \notin Discarded(rs)}}
  <2> HIDE DEF c
  <2>1. DOMAIN c = DOMAIN Absent
    BY <1>1 DEF Shaped
  <2>2. d = [c EXCEPT !.media = @ \cup New,
                      !.stones = {F(s) : s \in {x \in @ : x.id \notin Discarded(rs)}},
                      !.gave = @ \cup Discarded(rs), !.chose = rs, !.before = {Rows(b)}]
    BY DEF Resolved, c
  <2> HIDE DEF d, F, New
  <2> QED BY <1>1, <2>1, <2>2 DEF Absent
<1>3. \A s \in c.stones : F(s).id = s.id /\ F(s).what = s.what
  BY <1>1 DEF Settle, Shaped
<1>4. ASSUME NEW s \in b.stones, s.media \in Uids(b), NEW q, q.id = s.id
      PROVE  q.id \notin Discarded(rs) /\ F(q) = q
  <2>1. \A r \in rs : q.id \notin r.group.stones
    <3> SUFFICES ASSUME NEW r \in rs, q.id \in r.group.stones PROVE FALSE
      OBVIOUS
    <3>1. r.group \in Groups(b)
      BY DEF Answered
    <3>2. PICK x \in Broken(b) : x.id = s.id
      BY <1>4, <3>1, OfAGroup
    <3> QED BY <1>4, <3>2 DEF Shaped, Broken
  <2> QED BY <2>1 DEF Discarded, Of, Settle
<1> HIDE DEF c, d, F, New
<1>5. ASSUME NEW s \in b.stones, s.id \notin d.gave
      PROVE  \E q \in d.stones :
                /\ q.id = s.id /\ q.what = s.what
                /\ s.media \in Uids(b) \ {NoUid} => q.media = s.media
  <2>1. PICK q \in c.stones : /\ q.id = s.id /\ q.what = s.what
                              /\ s.media \in Uids(b) => q.media = s.media
    BY <1>1
  <2>2. F(q) \in d.stones /\ F(q).id = s.id /\ F(q).what = s.what
    BY <1>2, <1>3, <1>5, <2>1
  <2>3. s.media \in Uids(b) => F(q).media = s.media
    BY <1>4, <2>1
  <2> QED BY <2>2, <2>3
<1>6. Carries(b, d)
  BY <1>1, <1>2, <1>5 DEF Carries, Logged, Uids
<1> QED BY <1>2, <1>6 DEF d

-----------------------------------------------------------------------------
(* The inductive invariant of the rows, beside BootInv.                    *)

\* Every bundle has what it had at first; a library without a profile is as it was;
\* what is opened has a user database, and is migrated only if all its activities
\* have their entries.
RowsInv ==
    /\ \A d \in Dirs : Intact(db[d])
    /\ \E l \in Libraries : /\ db["fallback"] = l.fallback
                            /\ "user" \notin db["active"].files => db["active"] = l.active
    /\ step \notin {"off", "idle"} => "user" \in db[dir].files
    /\ step = "stepping" => Dangling(db[dir]) = {}

\* What the releases left is intact.
LEMMA UntangledIntact ==
    ASSUME NEW b, WellFormed(b), Untangled(b)
    PROVE  Intact(b)
<1>1. /\ Rows(b).media = b.media \cup b.mainMedia
      /\ Rows(b).logs = b.logs /\ Rows(b).stones = b.stones
  BY DEF Rows
<1>2. Keeps(b, b.was)
  BY <1>1 DEF Keeps, Untangled
<1>3. \A m \in b.was.media : m.uid # NoUid => m.uid \in Uids(b)
  BY <1>1 DEF Untangled, Uids
<1> QED BY <1>2, <1>3 DEF Untangled, Intact, Logged

LEMMA AbsentIntact == Intact(Absent)
<1>1. /\ Absent.media = {} /\ Absent.mainMedia = {} /\ Absent.logs = {}
      /\ Absent.was.media = {} /\ Absent.was.logs = {} /\ Absent.was.stones = {}
  BY DEF Absent, Rows
<1> QED BY <1>1 DEF Intact, Logged, Keeps

\* A bundle that comes to a directory.
LEMMA WrittenIntact ==
    ASSUME BootInv, RowsInv, NEW d \in Dirs, NEW b, Intact(b),
           db' = [db EXCEPT ![d] = b], d # "fallback",
           d = "active" => "user" \in b.files,
           step' \notin {"off", "idle"} =>
                dir' \in Dirs /\ "user" \in (IF dir' = d THEN b ELSE db[dir']).files,
           step' = "stepping" => dir' = d /\ Dangling(b) = {}
    PROVE  RowsInv'
<1>1. db'[d] = b /\ \A e \in Dirs \ {d} : db'[e] = db[e]
  BY DEF BootInv, DbInv
<1>2. \A e \in Dirs : Intact(db'[e])
  BY <1>1 DEF RowsInv
<1>3. PICK l \in Libraries : /\ db["fallback"] = l.fallback
                             /\ "user" \notin db["active"].files => db["active"] = l.active
  BY DEF RowsInv
<1>4. db'["fallback"] = l.fallback /\ ("user" \notin db'["active"].files => db'["active"] = l.active)
  BY <1>1, <1>3 DEF Dirs
<1> QED BY <1>1, <1>2, <1>4 DEF RowsInv

\* A migration carries on, and takes the versions of a bundle up only if none of its
\* activities lacks an entry.
LEMMA MigrateCarries ==
    ASSUME BootInv, RowsInv, Migrate, db' # db
    PROVE  LET b == db[dir]
           IN  \E c : /\ db' = [db EXCEPT ![dir] = c] /\ Carries(b, c) /\ c.mainMedia = {}
                      /\ Dangling(Shared(b)) = {}
                      /\ step' = "stepping" => Dangling(c) = {}
<1> DEFINE b == db[dir]
<1>1. /\ dir \in Dirs /\ Shaped(b) /\ WellFormed(b) /\ Intact(b) /\ Logged(b)
  <2>1. dir \in Dirs
    BY DEF BootInv, PathInv, Migrate, Create, Renew, Restamp, Begin,
        RefuseFuture, StepUp, Arrive, Check, Dirs
  <2> QED BY <2>1, Shape DEF BootInv, DbInv, Fine, RowsInv, Intact
<1>2. CASE Create
  <2>1. /\ db' = [db EXCEPT ![dir] = At(b, Latest)] /\ step' = "checking"
        /\ b.mainMedia = {} /\ b.logs = {}
    BY <1>2 DEF Create, Write, Goes, Fresh, B
  <2>2. Dangling(b) = {}
    BY <2>1 DEF Dangling
  <2> QED BY <1>1, <2>1, <2>2, AtCarries, SharedAlready
<1>3. CASE Renew
  <2>1. /\ db' = [db EXCEPT ![dir] = Current(b)] /\ step' = "checking" /\ CanRenew(b)
    BY <1>3 DEF Renew, Write, Goes, Fails, B
  <2> QED BY <1>1, <2>1, CurrentCarries DEF CanRenew
<1>4. CASE Restamp
  <2>1. /\ db' = [db EXCEPT ![dir] = At(b, Latest)] /\ step' = "checking"
        /\ ~Predates(b) /\ Dangling(b) = {}
    BY <1>4 DEF Restamp, Write, Goes, Fails, B
  <2>2. b.mainMedia = {}
    BY <2>1 DEF Predates
  <2> QED BY <1>1, <2>1, <2>2, AtCarries, SharedAlready
<1>5. CASE StepUp
  <2>1. db' = [db EXCEPT ![dir] = Stepped(b)] /\ step = "stepping"
    BY <1>5 DEF StepUp, Write, Goes, Fails, B
  <2>2. b.mainMedia = {} /\ Dangling(b) = {}
    BY <1>1, <2>1, Shape DEF BootInv, PathInv, RowsInv
  <2>3. Carries(b, Stepped(b)) /\ Stepped(b).mainMedia = {}
    BY <1>1, <2>2, SteppedCarries
  <2>4. PICK c : c = Stepped(b)
    OBVIOUS
  <2>5. Dangling(c) = {}
    BY <2>2, <2>3, <2>4, DanglingCarried
  <2> QED BY <1>1, <2>1, <2>2, <2>3, <2>4, <2>5, SharedAlready
<1>6. CASE Begin \/ RefuseFuture \/ Arrive \/ Check
  BY <1>6 DEF Begin, RefuseFuture, Arrive, Check, Fails
<1> QED BY <1>2, <1>3, <1>4, <1>5, <1>6 DEF Migrate

\* Each action keeps it.
LEMMA RowsMigrate == ASSUME BootInv, RowsInv, Migrate PROVE RowsInv'
<1>1. dir' = dir /\ step \in {"opening", "stepping", "checking"}
  BY DEF Migrate, Create, Renew, Restamp, Begin, RefuseFuture, StepUp,
      Arrive, Check, Fails, Goes
<1>2. dir \in Dirs /\ dir # "fallback" /\ "user" \in db[dir].files
  BY <1>1 DEF BootInv, PathInv, RowsInv, Dirs
<1>3. CASE db' = db
  <2>1. step' = "stepping" => Dangling(db[dir]) = {}
    BY <1>3 DEF RowsInv, Migrate, Create, Renew, Restamp, Begin, RefuseFuture,
      StepUp, Arrive, Check, Fails, Goes, B
  <2> QED BY <1>1, <1>2, <1>3, <2>1 DEF RowsInv
<1>4. CASE db' # db
  <2>1. PICK c : /\ db' = [db EXCEPT ![dir] = c] /\ Carries(db[dir], c) /\ c.mainMedia = {}
                 /\ step' = "stepping" => Dangling(c) = {}
    BY <1>4, MigrateCarries
  <2>2. Intact(c) /\ c.files = db[dir].files
    BY <1>2, <2>1, IntactCarried DEF RowsInv, Carries
  <2> QED BY <1>1, <1>2, <2>1, <2>2, WrittenIntact
<1> QED BY <1>3, <1>4

LEMMA RowsOpened ==
    ASSUME BootInv, RowsInv, StartApp \/ Opened
    PROVE  RowsInv'
<1>1. CASE StartApp
  BY <1>1 DEF RowsInv, StartApp, Open
<1>2. CASE Opened
  BY <1>2 DEF RowsInv, Opened, Rest
<1> QED BY <1>1, <1>2

\* A directory becomes empty, and what was in it may come to another.
LEMMA RowsMoved ==
    ASSUME BootInv, RowsInv, Install \/ Failed
    PROVE  RowsInv'
<1>1. step' = "idle" /\ step \in {"installing", "failed"}
  BY DEF Install, Failed, Rest
<1>2. dir \in {"active", "incoming", "staged"} /\ "user" \in db[dir].files
  BY <1>1 DEF BootInv, PathInv, RowsInv
<1>3. /\ \A e \in Dirs : db'[e] \in {db[e], Absent, db[dir]}
      /\ db'["active"] \in {db["active"], db[dir]} /\ db'["fallback"] = db["fallback"]
  <2>1. CASE Install
    <3>1. dir \in {"incoming", "staged"}
      BY <1>2, <2>1 DEF Install, BootInv, PathInv
    <3>2. PICK d1 : /\ d1 = [db EXCEPT ![dir] = Absent]
                    /\ db' = [d1 EXCEPT !["active"] = db[dir]] \/ db' = d1
      BY <2>1 DEF Install, Closed, B
    <3> QED BY <3>1, <3>2 DEF BootInv, DbInv, Dirs
  <2>2. CASE Failed
    <3>1. \/ db' = db
          \/ db' = [db EXCEPT !["incoming"] = Absent]
          \/ db' = [[db EXCEPT !["incoming"] = Absent] EXCEPT !["staged"] = db[dir]]
      BY <2>2 DEF Failed, Closed, B
    <3> QED BY <3>1 DEF BootInv, DbInv, Dirs
  <2> QED BY <2>1, <2>2
<1>4. \A e \in Dirs : Intact(db'[e])
  BY <1>2, <1>3, AbsentIntact DEF RowsInv, Dirs
<1> QED BY <1>1, <1>2, <1>3, <1>4 DEF RowsInv

LEMMA RowsResolved == ASSUME BootInv, RowsInv, CommitChoice PROVE RowsInv'
<1>1. dir' = dir /\ step = "committing" /\ step' \in {"opening", "failed"}
  BY DEF CommitChoice, Goes, Fails
<1>2. /\ dir \in {"active", "staged"} /\ dir \in Dirs /\ "user" \in db[dir].files
      /\ HasPlan(db[dir]) /\ Answered(choice) = Groups(db[dir])
  BY <1>1 DEF BootInv, PathInv, AnswerInv, RowsInv, Dirs
<1>3. CASE db' = db
  BY <1>1, <1>3 DEF RowsInv
<1>4. CASE db' # db
  <2> DEFINE b == db[dir]
             c == Resolved(b, choice)
  <2>1. db' = [db EXCEPT ![dir] = c]
    BY <1>4 DEF CommitChoice, Write, Fails, B
  <2>2. Shaped(b) /\ Intact(b) /\ Logged(b) /\ b.mainMedia = {}
    BY <1>2, Shape DEF BootInv, DbInv, Fine, RowsInv, Intact, HasPlan, Latest
  <2>3. Carries(b, c) /\ c.mainMedia = {}
    BY <1>2, <2>2, ResolvedCarries
  <2> HIDE DEF c
  <2>4. Intact(c) /\ c.files = b.files
    BY <2>2, <2>3, IntactCarried DEF Carries
  <2> QED BY <1>1, <1>2, <2>1, <2>4, WrittenIntact
<1> QED BY <1>3, <1>4

\* A profile begins with what the one before it left.
LEMMA RowsProfile ==
    ASSUME Released, AllUntangled, BootInv, RowsInv, InitializeUser
    PROVE  RowsInv'
<1> DEFINE b == db["active"]
           f == db["fallback"]
           c == WithUser(b, f)
<1>1. /\ db' = [db EXCEPT !["active"] = c] /\ step' = "opening" /\ dir' = "active"
      /\ "user" \notin b.files
  BY DEF InitializeUser, Open
<1>2. PICK l \in Libraries : b = l.active /\ f = l.fallback
  BY <1>1 DEF RowsInv
<1>3. Untangled(c)
  BY <1>1, <1>2 DEF AllUntangled
<1>4. Shaped(b) /\ WellFormed(b) /\ WellFormed(f)
  BY Shape DEF BootInv, DbInv, Fine, Dirs
<1>5. "user" \in c.files
  <2> HIDE DEF b, f
  <2> QED BY <1>4 DEF WithUser, Shaped, Absent
<1>6. Intact(c)
  <2>1. BootInv'
    BY ProfileStep
  <2>2. WellFormed(c)
    <3>1. db'["active"] = c
      BY <1>1 DEF BootInv, DbInv, Dirs
    <3> HIDE DEF c
    <3> QED BY <2>1, <3>1 DEF BootInv, DbInv, Fine, Dirs
  <2> HIDE DEF c
  <2> QED BY <1>3, <2>2, UntangledIntact
<1> HIDE DEF c
<1> QED BY <1>1, <1>5, <1>6, WrittenIntact DEF Dirs

LEMMA RowsImport ==
    ASSUME Released, AllUntangled, BootInv, RowsInv, AdmitImport \/ BeginImport
    PROVE  RowsInv'
<1>1. CASE AdmitImport
  BY <1>1 DEF AdmitImport, route, RowsInv
<1>2. CASE BeginImport
  <2>1. PICK b \in Backups : db' = [db EXCEPT !["incoming"] = b]
    BY <1>2 DEF BeginImport
  <2>2. step' = "opening" /\ dir' = "incoming"
    BY <1>2 DEF BeginImport, Open
  <2>3. Intact(b) /\ "user" \in b.files
    BY UntangledIntact DEF Released, AllUntangled
  <2> QED BY <2>1, <2>2, <2>3, WrittenIntact DEF Dirs
<1> QED BY <1>1, <1>2

LEMMA RowsAnswered ==
    ASSUME BootInv, RowsInv, Send \/ Answer
    PROVE  RowsInv'
<1>1. CASE Send
  BY <1>1 DEF Send, route, RowsInv
<1>2. ASSUME NEW a \in answers, Apply(a) PROVE RowsInv'
  <2>1. /\ db' = db /\ step' = "committing" /\ dir' = session.dir
        /\ HasPlan(db[session.dir])
    BY <1>2 DEF Apply, Acceptable
  <2> QED BY <2>1 DEF RowsInv, HasPlan
<1>3. ASSUME NEW a \in answers, Reject(a) PROVE RowsInv'
  BY <1>3 DEF Reject, RowsInv
<1> QED BY <1>1, <1>2, <1>3 DEF Answer

LEMMA RowsCrash == ASSUME BootInv, RowsInv, Killed PROVE RowsInv'
<1>1. /\ db' = [[db EXCEPT !["incoming"] = Absent] EXCEPT !["staged"] = Absent]
      /\ step' = "off"
  BY DEF Killed
<1>2. /\ db'["incoming"] = Absent /\ db'["staged"] = Absent
      /\ db'["active"] = db["active"] /\ db'["fallback"] = db["fallback"]
  BY <1>1 DEF BootInv, DbInv, Dirs
<1> QED BY <1>1, <1>2, AbsentIntact DEF RowsInv, Dirs

LEMMA RowsInit == ASSUME Released, AllUntangled, StartupInit PROVE RowsInv
<1>1. PICK l \in Libraries :
        db = [d \in Dirs |-> CASE d = "active" -> l.active
                                    [] d = "fallback" -> l.fallback
                                    [] OTHER -> Absent]
  BY DEF StartupInit
<1>2. /\ db["active"] = l.active /\ db["fallback"] = l.fallback
      /\ db["incoming"] = Absent /\ db["staged"] = Absent
  BY <1>1 DEF Dirs
<1>3. Intact(l.active) /\ Intact(l.fallback)
  BY UntangledIntact DEF Released, AllUntangled
<1> QED BY <1>2, <1>3, AbsentIntact DEF StartupInit, RowsInv, Dirs

LEMMA RowsNext ==
    ASSUME Released, AllUntangled, BootInv, RowsInv, [StartupNext]_startupVars
    PROVE  RowsInv'
<1>1. CASE UNCHANGED startupVars
  BY <1>1 DEF startupVars, RowsInv
<1>2. CASE System
  BY <1>2, RowsOpened, RowsMigrate, RowsMoved, RowsResolved DEF System
<1>3. CASE UserActs \/ Answer
  BY <1>3, RowsProfile, RowsImport, RowsAnswered DEF UserActs
<1>4. CASE Killed
  BY <1>4, RowsCrash
<1> QED BY <1>1, <1>2, <1>3, <1>4 DEF StartupNext

\* Only a migration writes to a bundle that is being opened.
LEMMA WholeOrNot ==
    ASSUME BootInv, RowsInv, [StartupNext]_startupVars
    PROVE  RefusedWhole
<1> SUFFICES ASSUME step \in {"opening", "stepping", "checking"}, dir' = dir,
                    Dangling(Shared(db[dir])) # {}
             PROVE  db' = db
  BY DEF RefusedWhole, B
<1>1. CASE Migrate
  BY <1>1, MigrateCarries
<1>2. ~Killed
  BY DEF Killed, None, BootInv, PathInv
<1>3. CASE AdmitImport \/ Send
  BY <1>3 DEF AdmitImport, Send
<1>4. ~(StartApp \/ Opened \/ Install \/ Failed \/ CommitChoice)
  BY DEF StartApp, Opened, Install, Failed, CommitChoice
<1>5. ~(InitializeUser \/ BeginImport \/ Answer)
  BY DEF InitializeUser, BeginImport, Answer, Apply, Reject, Idle
<1>6. CASE UNCHANGED startupVars
  BY <1>6 DEF startupVars
<1> QED BY <1>1, <1>2, <1>3, <1>4, <1>5, <1>6 DEF StartupNext, System, UserActs

\* Whatever is migrated, by whatever path and however often it is cut short, keeps its
\* entries, its activities and every milestone nobody gave up; and a bundle with an
\* activity of no entry is refused before any version is committed (db.rs migrate_schema).
THEOREM NothingIsDropped == StartupSpec => NothingDropped
<1>0. Released /\ AllUntangled
  BY StartupAssumption, UntangledAssumption
<1>1. StartupInit => BootInv /\ RowsInv
  BY <1>0, BootInit, RowsInit
<1>2. BootInv /\ RowsInv /\ [StartupNext]_startupVars => BootInv' /\ RowsInv'
  BY <1>0, BootNext, RowsNext
<1>3. RowsInv' => RowsKept'
  BY DEF RowsInv, Intact, RowsKept
<1>4. BootInv /\ RowsInv /\ [StartupNext]_startupVars => [RowsKept' /\ RefusedWhole]_startupVars
  BY <1>2, <1>3, WholeOrNot
<1> QED BY <1>1, <1>2, <1>4, PTL DEF StartupSpec, NothingDropped

-----------------------------------------------------------------------------
(* The identifiers of records.                                             *)

\* Rows with numbers of their own have the places 0, 1, ... in the order of these.
LEMMA Ranks ==
    ASSUME NEW S, IsFiniteSet(S), \A r \in S : r.id \in Nat,
           \A r, q \in S : r.id = q.id => r = q
    PROVE  /\ \A r \in S : Cardinality({q \in S : q.id < r.id}) \in 0 .. Cardinality(S) - 1
           /\ \A i \in 0 .. Cardinality(S) - 1 :
                \E r \in S : Cardinality({q \in S : q.id < r.id}) = i
<1> DEFINE Below(r) == {q \in S : q.id < r.id}
           g == [r \in S |-> Cardinality(Below(r))]
           n == Cardinality(S)
<1>1. n \in Nat
  BY FS_CardinalityType
<1>2. ASSUME NEW r \in S
      PROVE  /\ IsFiniteSet(Below(r)) /\ Cardinality(Below(r)) \in Nat /\ Cardinality(Below(r)) < n
  <2>1. Below(r) \in SUBSET S /\ Below(r) # S
    OBVIOUS
  <2> HIDE DEF Below
  <2>2. IsFiniteSet(Below(r)) /\ Cardinality(Below(r)) <= n /\ Cardinality(Below(r)) # n
    BY <2>1, FS_Subset
  <2> QED BY <1>1, <2>2, FS_CardinalityType
<1>3. g \in [S -> 0 .. n - 1]
  <2> HIDE DEF Below, n
  <2>1. \A r \in S : Cardinality(Below(r)) \in 0 .. n - 1
    BY <1>1, <1>2
  <2> QED BY <2>1
<1>4. ASSUME NEW r \in S, NEW q \in S, r.id < q.id PROVE g[r] # g[q]
  <2>1. Below(r) \subseteq Below(q) /\ r \in Below(q) /\ r \notin Below(r)
    BY <1>4
  <2> HIDE DEF Below
  <2>2. IsFiniteSet(Below(q)) /\ Below(r) \in SUBSET Below(q) /\ Below(r) # Below(q)
    BY <1>2, <2>1
  <2>3. Cardinality(Below(r)) # Cardinality(Below(q))
    BY <2>2, FS_Subset
  <2> QED BY <2>3
<1>5. \A r, q \in S : g[r] = g[q] => r = q
  <2> SUFFICES ASSUME NEW r \in S, NEW q \in S, g[r] = g[q] PROVE r = q
    OBVIOUS
  <2>1. r.id \in Nat /\ q.id \in Nat /\ ~(r.id < q.id) /\ ~(q.id < r.id)
    BY <1>4
  <2> QED BY <2>1
<1> HIDE DEF g, n
<1>6. g \in Injection(S, 0 .. n - 1)
  BY <1>3, <1>5 DEF Injection, IsInjective
<1>7. IsFiniteSet(0 .. n - 1) /\ Cardinality(0 .. n - 1) = n
  BY <1>1, FS_Interval
<1>8. g \in Surjection(S, 0 .. n - 1)
  BY <1>6, <1>7, FS_Injection DEF n
<1>9. \A i \in 0 .. n - 1 : \E r \in S : g[r] = i
  BY <1>8 DEF Surjection
<1> QED BY <1>1, <1>3, <1>9 DEF g, n

\* So records that are named by what they say and their place among those that say the
\* same have the names that the loader of an old snapshot gives.
Distinct(rows) == \A r, q \in rows : r.id = q.id => r = q
OwnNumbers(rows) == /\ IsFiniteSet({r.id : r \in rows}) /\ {r.id : r \in rows} \subseteq Nat
                    /\ Distinct(rows)
Names(rows, key, about, name) ==
    /\ DOMAIN key = rows
    /\ \A r \in rows : name[r] =
            RecordUid(about, key[r], Occurrence(r, {q \in rows : key[q] = key[r]}))
LEMMA NamedAsLoaded ==
    ASSUME NEW rows, OwnNumbers(rows), NEW key, NEW about, NEW name, Names(rows, key, about, name)
    PROVE  /\ \A r \in rows : name[r] \in Loaded(key, about)
           /\ \A u \in Loaded(key, about) : \E r \in rows : name[r] = u
<1> DEFINE S(r) == {q \in rows : key[q] = key[r]}
           place(r) == Cardinality({q \in S(r) : q.id < r.id})
           top(r) == Cardinality(S(r)) - 1
<1>1. \A T : Cardinality(T) = Cardinality(T)
  BY DEF Cardinality, Cardinality
<1>2. IsFiniteSet(rows)
  <2> DEFINE f == [r \in rows |-> r.id]
  <2>1. f \in Injection(rows, {r.id : r \in rows})
    BY DEF Injection, IsInjective, OwnNumbers, Distinct
  <2> HIDE DEF f
  <2> QED BY <2>1, FS_Injection DEF OwnNumbers
<1>3. ASSUME NEW r \in rows
      PROVE  /\ \A q \in S(r) : Cardinality({x \in S(r) : x.id < q.id}) \in 0 .. top(r)
             /\ \A i \in 0 .. top(r) :
                    \E q \in S(r) : Cardinality({x \in S(r) : x.id < q.id}) = i
  <2>1. /\ S(r) \subseteq rows /\ \A q \in S(r) : q.id \in Nat
        /\ \A x, q \in S(r) : x.id = q.id => x = q
    BY DEF OwnNumbers, Distinct
  <2>2. IsFiniteSet(S(r))
    BY <1>2, <2>1, FS_Subset
  <2> HIDE DEF S, place
  <2> QED BY <2>1, <2>2, Ranks
<1>4. \A r \in rows : name[r] = RecordUid(about, key[r], place(r))
  BY <1>1 DEF Occurrence, Names
<1>5. Loaded(key, about) =
        UNION {{RecordUid(about, key[q], i) : i \in 0 .. top(q)} : q \in rows}
  <2>1. DOMAIN key = rows
    BY DEF Names
  <2> QED BY <1>1, <2>1 DEF Loaded
<1>6. \A r \in rows : \A q \in S(r) : q \in rows /\ S(q) = S(r) /\ key[q] = key[r]
  OBVIOUS
<1>7. \A r \in rows : r \in S(r)
  OBVIOUS
<1>8. \A r \in rows : \A q \in S(r) : place(q) = Cardinality({x \in S(r) : x.id < q.id})
  BY <1>6
<1> HIDE DEF S, place, top
<1>9. \A r \in rows : place(r) \in 0 .. top(r)
  BY <1>3, <1>7, <1>8
<1>10. \A r \in rows : \A i \in 0 .. top(r) : \E q \in S(r) : place(q) = i
  BY <1>3, <1>8
<1>11. \A r \in rows : name[r] \in Loaded(key, about)
  BY <1>4, <1>5, <1>9
<1>12. ASSUME NEW u \in Loaded(key, about) PROVE \E r \in rows : name[r] = u
  <2>1. PICK q \in rows : \E i \in 0 .. top(q) : u = RecordUid(about, key[q], i)
    BY <1>5
  <2>2. PICK i \in 0 .. top(q) : u = RecordUid(about, key[q], i)
    BY <2>1
  <2>3. PICK r \in S(q) : place(r) = i
    BY <1>10
  <2> QED BY <1>4, <1>6, <2>2, <2>3
<1> QED BY <1>11, <1>12

\* No row is new, and rows that had a number of their own keep it.
Listed(b, c) ==
    /\ \A q \in c.logs : \E l \in b.logs : q.id = l.id
    /\ \A x \in c.stones : \E s \in b.stones : x.id = s.id
    /\ Distinct(b.logs) => Distinct(c.logs)

\* Before version 7 no record has an identifier.
Unnamed(b) == /\ \A l \in b.logs : l.uid = NoUid
              /\ \A s \in b.stones : s.uid = NoUid

LEMMA ListedOn ==
    ASSUME NEW a, NEW b, NEW c, Listed(a, b), Listed(b, c)
    PROVE  Listed(a, c)
<1>1. \A q \in c.logs : \E l \in a.logs : q.id = l.id
  <2> TAKE q \in c.logs
  <2>1. PICK k \in b.logs : q.id = k.id
    BY DEF Listed
  <2> QED BY <2>1 DEF Listed
<1>2. \A x \in c.stones : \E s \in a.stones : x.id = s.id
  <2> TAKE x \in c.stones
  <2>1. PICK k \in b.stones : x.id = k.id
    BY DEF Listed
  <2> QED BY <2>1 DEF Listed
<1> QED BY <1>1, <1>2 DEF Listed

\* The same rows are.
LEMMA ListedSame ==
    ASSUME NEW b, NEW c, c.logs = b.logs, c.stones = b.stones
    PROVE  Listed(b, c) /\ (Unnamed(b) => Unnamed(c))
  BY DEF Listed, Unnamed

LEMMA FoundedListed ==
    ASSUME NEW b, Shaped(b)
    PROVE  Listed(b, Founded(b)) /\ (Unnamed(b) => Unnamed(Founded(b)))
<1> DEFINE G(m) == IF m.uid = NoUid THEN AsShared(m) ELSE m
           d == [b EXCEPT !.media = {G(m) : m \in b.media}]
           F(s) == IF s.media = NoUid THEN LinkedByTitle(d, s) ELSE s
           c == Founded(b)
<1>1. c = [d EXCEPT !.stones = {F(s) : s \in d.stones}]
  BY DEF Founded, Shaped, Absent
<1>2. d.stones = b.stones /\ d.logs = b.logs /\ DOMAIN d = DOMAIN b
  BY DEF Shaped, Absent
<1>3. \A s \in b.stones : F(s).id = s.id /\ F(s).uid = s.uid
  BY DEF Shaped, LinkedByTitle
<1> HIDE DEF c, F, G, d
<1>4. c.stones = {F(s) : s \in b.stones} /\ c.logs = b.logs
  BY <1>1, <1>2 DEF Shaped, Absent
<1>5. \A x \in c.stones : \E s \in b.stones : x.id = s.id /\ x.uid = s.uid
  BY <1>3, <1>4
<1>6. Listed(b, c) /\ (Unnamed(b) => Unnamed(c))
  BY <1>4, <1>5 DEF Listed, Unnamed
<1> QED BY <1>6 DEF c

LEMMA TypedListed ==
    ASSUME NEW b, Shaped(b), Logged(b)
    PROVE  Listed(b, Typed(b)) /\ (Unnamed(b) => Unnamed(Typed(b)))
<1> DEFINE G(m) == [m EXCEPT !.type = DefaultType(m)]
           d == [b EXCEPT !.media = {G(m) : m \in b.media}]
           F(l) == IF l.type = Blank THEN [l EXCEPT !.type = TypeOf(d, l)] ELSE l
           c == Typed(b)
<1>1. c = [d EXCEPT !.logs = {F(l) : l \in d.logs}]
  BY DEF Typed, Shaped, Absent
<1>2. d.stones = b.stones /\ d.logs = b.logs /\ DOMAIN d = DOMAIN b
  BY DEF Shaped, Absent
<1>3. \A l \in b.logs : F(l).id = l.id /\ F(l).uid = l.uid
  BY DEF Logged
<1> HIDE DEF c, F, G, d
<1>4. c.logs = {F(l) : l \in b.logs} /\ c.stones = b.stones
  BY <1>1, <1>2 DEF Shaped, Absent
<1>5. Distinct(b.logs) => Distinct(c.logs)
  <2> SUFFICES ASSUME Distinct(b.logs), NEW x \in c.logs, NEW y \in c.logs, x.id = y.id PROVE x = y
    BY DEF Distinct
  <2>1. PICK l \in b.logs, q \in b.logs : x = F(l) /\ y = F(q)
    BY <1>4
  <2> QED BY <1>3, <2>1 DEF Distinct
<1>6. \A x \in c.logs : \E l \in b.logs : x.id = l.id /\ x.uid = l.uid
  BY <1>3, <1>4
<1>7. Listed(b, c) /\ (Unnamed(b) => Unnamed(c))
  BY <1>4, <1>5, <1>6 DEF Listed, Unnamed
<1> QED BY <1>7 DEF c

LEMMA RepairedListed ==
    ASSUME NEW b, Shaped(b)
    PROVE  Listed(b, Repaired(b)) /\ (Unnamed(b) => Unnamed(Repaired(b)))
<1> DEFINE F(s) == IF Repairable(b, s) THEN LinkedByTitle(b, s) ELSE s
           c == Repaired(b)
<1>1. c.stones = {F(s) : s \in b.stones} /\ c.logs = b.logs
  BY DEF Repaired, Shaped, Absent
<1>2. \A s \in b.stones : F(s).id = s.id /\ F(s).uid = s.uid
  BY DEF Shaped, LinkedByTitle
<1> HIDE DEF c, F
<1>3. \A x \in c.stones : \E s \in b.stones : x.id = s.id /\ x.uid = s.uid
  BY <1>1, <1>2
<1>4. Listed(b, c) /\ (Unnamed(b) => Unnamed(c))
  BY <1>1, <1>3 DEF Listed, Unnamed
<1> QED BY <1>4 DEF c

LEMMA IdentifiedListed ==
    ASSUME NEW b, Shaped(b)
    PROVE  Listed(b, Identified(b)) /\ (Unnamed(b) => Unnamed(Identified(b)))
<1> DEFINE t == Trimmed(b)
           c == Repaired(t)
           d == Identified(b)
           F(s) == [s EXCEPT !.title = TitleOf(c, s.media)]
<1>1. Shaped(t) /\ t.logs = b.logs /\ t.stones = b.stones
  <2>1. Shaped(t)
    BY TrimmedThrough DEF Through
  <2> QED BY <2>1 DEF Trimmed, Shaped, Absent
<1>2. d = [c EXCEPT !.stones = {F(s) : s \in c.stones}]
  BY DEF Identified
<1> HIDE DEF t
<1>3. Shaped(c) /\ Listed(t, c) /\ (Unnamed(t) => Unnamed(c))
  BY <1>1, RepairedListed, RepairedThrough DEF Through
<1> HIDE DEF c, d
<1>4. d.stones = {F(s) : s \in c.stones} /\ d.logs = c.logs
  BY <1>2, <1>3 DEF Shaped, Absent
<1>5. \A s \in c.stones : F(s).id = s.id /\ F(s).uid = s.uid
  BY <1>3 DEF Shaped
<1> HIDE DEF F
<1>6. \A x \in d.stones : \E s \in c.stones : x.id = s.id /\ x.uid = s.uid
  BY <1>4, <1>5
<1>7. Listed(c, d) /\ (Unnamed(c) => Unnamed(d))
  BY <1>4, <1>6 DEF Listed, Unnamed
<1>8. Listed(b, t) /\ (Unnamed(b) => Unnamed(t))
  BY <1>1, ListedSame
<1>9. Listed(b, d) /\ (Unnamed(b) => Unnamed(d))
  BY <1>3, <1>7, <1>8, ListedOn
<1> QED BY <1>9 DEF d

LEMMA RecordedListed ==
    ASSUME NEW b, Shaped(b), Logged(b)
    PROVE  LET c == Recorded(b)
           IN  /\ Listed(b, c)
               /\ c.logs = {IF l.uid = NoUid THEN NamedLog(b, l) ELSE l : l \in b.logs}
               /\ c.stones = {IF s.uid = NoUid THEN NamedStone(b, s) ELSE s : s \in b.stones}
<1> DEFINE G(l) == IF l.uid = NoUid THEN NamedLog(b, l) ELSE l
           F(s) == IF s.uid = NoUid THEN NamedStone(b, s) ELSE s
           c == Recorded(b)
<1>1. c.logs = {G(l) : l \in b.logs} /\ c.stones = {F(s) : s \in b.stones}
  BY DEF Recorded, Shaped, Absent
<1>2. \A s \in b.stones : F(s).id = s.id
  BY DEF Shaped, NamedStone
<1>3. \A l \in b.logs : G(l).id = l.id
  BY DEF Logged, NamedLog
<1> HIDE DEF c, F, G
<1>4. Distinct(b.logs) => Distinct(c.logs)
  <2> SUFFICES ASSUME Distinct(b.logs), NEW x \in c.logs, NEW y \in c.logs, x.id = y.id PROVE x = y
    BY DEF Distinct
  <2>1. PICK l \in b.logs, q \in b.logs : x = G(l) /\ y = G(q)
    BY <1>1
  <2> QED BY <1>3, <2>1 DEF Distinct
<1>5. Listed(b, c)
  BY <1>1, <1>2, <1>3, <1>4 DEF Listed
<1> QED BY <1>1, <1>5 DEF c, F, G

LEMMA AtListed ==
    ASSUME NEW b, Shaped(b), NEW v
    PROVE  LET c == At(b, v)
           IN  c.logs = b.logs /\ c.stones = b.stones /\ c.main = v
  BY DEF At, Shaped, Absent

\* What a migration does to the numbers and the identifiers.
LEMMA SteppedListed ==
    ASSUME NEW b, Shaped(b), Logged(b)
    PROVE  LET c == Stepped(b)
           IN  /\ Listed(b, c) /\ c.main = b.main + 1
               /\ b.main # 6 /\ Unnamed(b) => Unnamed(c)
<1>1. PICK d : /\ Stepped(b) = At(d, b.main + 1) /\ Shaped(d)
               /\ Listed(b, d) /\ (b.main # 6 /\ Unnamed(b) => Unnamed(d))
  <2>1. CASE b.main = 1
    BY <2>1, FoundedShape, FoundedListed DEF Stepped
  <2>2. CASE b.main = 4
    BY <2>2, TypedThrough, TypedListed DEF Stepped, Through
  <2>3. CASE b.main = 5
    BY <2>3, IdentifiedThrough, IdentifiedListed DEF Stepped, Through
  <2>4. CASE b.main = 6
    <3>1. Shaped(Recorded(b))
      BY RecordedThrough DEF Through
    <3>2. Stepped(b) = At(Recorded(b), b.main + 1)
      BY <2>4 DEF Stepped
    <3> QED BY <2>4, <3>1, <3>2, RecordedListed
  <2>5. CASE b.main \notin {1, 4, 5, 6}
    BY <2>5, ListedSame DEF Stepped
  <2> QED BY <2>1, <2>2, <2>3, <2>4, <2>5
<1>2. PICK c : c = At(d, b.main + 1)
  OBVIOUS
<1>3. c.logs = d.logs /\ c.stones = d.stones /\ c.main = b.main + 1
  BY <1>1, <1>2, AtListed
<1>4. Listed(d, c) /\ (Unnamed(d) => Unnamed(c))
  BY <1>3, ListedSame
<1>5. Listed(b, c)
  BY <1>1, <1>4, ListedOn
<1> QED BY <1>1, <1>2, <1>3, <1>4, <1>5

LEMMA CurrentListed ==
    ASSUME NEW b, Shaped(b), Logged(b)
    PROVE  Listed(b, Current(b)) /\ Current(b).main = Latest
<1> DEFINE s == Shared(b)
           f == Founded(s)
           t == Typed(f)
           i == Identified(t)
           r == Recorded(i)
<1>1. Shaped(s) /\ s.logs = b.logs /\ s.stones = b.stones
  <2>1. Shaped(s)
    BY SharedShape
  <2> QED BY <2>1 DEF Shared, Shaped, Absent
<1>2. Listed(b, s) /\ Logged(s)
  BY <1>1, ListedSame DEF Logged
<1>3. Current(b) = At(r, Latest)
  BY DEF Current, Renewed
<1> HIDE DEF s
<1>4. Listed(s, f) /\ Shaped(f) /\ Logged(f)
  BY <1>1, <1>2, FoundedListed, FoundedShape, FoundedCarries DEF Carries
<1> HIDE DEF f
<1>5. Listed(f, t) /\ Shaped(t) /\ Logged(t)
  BY <1>4, TypedListed, TypedThrough, TypedCarries DEF Carries, Through
<1> HIDE DEF t
<1>6. Listed(t, i) /\ Shaped(i) /\ Logged(i)
  BY <1>5, IdentifiedListed, IdentifiedThrough, IdentifiedCarries DEF Carries, Through
<1> HIDE DEF i
<1>7. Listed(i, r) /\ Shaped(r)
  BY <1>6, RecordedListed, RecordedThrough DEF Through
<1> HIDE DEF r
<1>8. PICK c : c = At(r, Latest)
  OBVIOUS
<1>9. c.logs = r.logs /\ c.stones = r.stones /\ c.main = Latest
  BY <1>7, <1>8, AtListed
<1>10. Listed(r, c)
  BY <1>9, ListedSame
<1>11. Listed(b, f)
  BY <1>2, <1>4, ListedOn
<1>12. Listed(b, i)
  BY <1>5, <1>6, <1>11, ListedOn
<1>13. Listed(b, c)
  BY <1>7, <1>10, <1>12, ListedOn
<1> QED BY <1>3, <1>8, <1>9, <1>13

LEMMA ResolvedListed ==
    ASSUME NEW b, Shaped(b), NEW rs
    PROVE  LET d == Resolved(b, rs)
           IN  Listed(b, d) /\ d.main = b.main /\ (Unnamed(b) => Unnamed(d))
<1> DEFINE c == Repaired(b)
           d == Resolved(b, rs)
           F(s) == Settle(b, rs, s)
           New == {NewMedia(r) : r \in Of(rs, "create")}
<1>1. Shaped(c) /\ Listed(b, c) /\ (Unnamed(b) => Unnamed(c)) /\ c.main = b.main
  BY RepairedListed, RepairedThrough DEF Through, Same
<1>2. /\ d.logs = c.logs /\ d.main = c.main
      /\ d.stones = {F(s) : s \in {x \in c.stones : x.id \notin Discarded(rs)}}
  <2> HIDE DEF c
  <2>1. DOMAIN c = DOMAIN Absent
    BY <1>1 DEF Shaped
  <2>2. d = [c EXCEPT !.media = @ \cup New,
                      !.stones = {F(s) : s \in {x \in @ : x.id \notin Discarded(rs)}},
                      !.gave = @ \cup Discarded(rs), !.chose = rs, !.before = {Rows(b)}]
    BY DEF Resolved, c
  <2> HIDE DEF d, F, New
  <2> QED BY <2>1, <2>2 DEF Absent
<1>3. \A s \in c.stones : F(s).id = s.id /\ F(s).uid = s.uid
  BY <1>1 DEF Settle, Shaped
<1> HIDE DEF c, d, F, New
<1>4. \A x \in d.stones : \E s \in c.stones : x.id = s.id /\ x.uid = s.uid
  BY <1>2, <1>3
<1>5. Listed(c, d) /\ (Unnamed(c) => Unnamed(d))
  BY <1>2, <1>4 DEF Listed, Unnamed
<1>6. Listed(b, d)
  BY <1>1, <1>5, ListedOn
<1> QED BY <1>1, <1>2, <1>5, <1>6 DEF d

\* In every directory, records have numbers of their own, and no identifiers before
\* version 7.
Counted(b) ==
    /\ OwnNumbers(b.logs)
    /\ IsFiniteSet({s.id : s \in b.stones}) /\ {s.id : s \in b.stones} \subseteq Nat
    /\ b.main < 7 => Unnamed(b)
NumberInv == \A d \in Dirs : Counted(db[d])

LEMMA CountedNumbered == ASSUME NEW b PROVE Numbered(b) => Counted(b)
<1>1. \A S : IsFiniteSet(S) = IsFiniteSet(S)
  BY DEF IsFiniteSet, IsFiniteSet
<1> QED BY <1>1 DEF Numbered, Counted, OwnNumbers, Distinct, Unnamed

LEMMA CountedAbsent == Counted(Absent)
<1>1. Absent.logs = {} /\ Absent.stones = {}
  BY DEF Absent
<1>2. {l.id : l \in Absent.logs} = {} /\ {s.id : s \in Absent.stones} = {}
  BY <1>1
<1> QED BY <1>1, <1>2, FS_EmptySet DEF Counted, OwnNumbers, Distinct, Unnamed

LEMMA CountedListed ==
    ASSUME NEW b, Counted(b), NEW c, Listed(b, c), c.main < 7 => Unnamed(c)
    PROVE  Counted(c)
<1>1. {l.id : l \in c.logs} \subseteq {l.id : l \in b.logs}
  BY DEF Listed
<1>2. {s.id : s \in c.stones} \subseteq {s.id : s \in b.stones}
  BY DEF Listed
<1>3. IsFiniteSet({l.id : l \in c.logs}) /\ IsFiniteSet({s.id : s \in c.stones})
  BY <1>1, <1>2, FS_Subset DEF Counted, OwnNumbers
<1> QED BY <1>1, <1>2, <1>3 DEF Counted, OwnNumbers, Listed

LEMMA NumberWritten ==
    ASSUME BootInv, NumberInv, NEW d \in Dirs, NEW b, Counted(b), db' = [db EXCEPT ![d] = b]
    PROVE  NumberInv'
<1>1. \A e \in Dirs : db'[e] = IF e = d THEN b ELSE db[e]
  BY DEF BootInv, DbInv
<1> QED BY <1>1 DEF NumberInv

LEMMA NumberNext ==
    ASSUME AllNumbered, BootInv, RowsInv, NumberInv, [StartupNext]_startupVars
    PROVE  NumberInv'
<1>1. CASE db' = db
  BY <1>1 DEF NumberInv
<1>2. CASE Migrate /\ db' # db
  <2> DEFINE b == db[dir]
  <2>1. dir \in Dirs
    BY <1>2 DEF BootInv, PathInv, Migrate, Create, Renew, Restamp, Begin,
        RefuseFuture, StepUp, Arrive, Check, Dirs
  <2>2. Shaped(b) /\ Logged(b) /\ Counted(b) /\ b.main \in Nat
    BY <2>1, Shape DEF BootInv, DbInv, Fine, RowsInv, Intact, NumberInv
  <2>3. PICK c : /\ db' = [db EXCEPT ![dir] = c] /\ Listed(b, c)
                 /\ c.main < 7 => Unnamed(c)
    <3>1. CASE Create \/ Restamp
      <4>1. db' = [db EXCEPT ![dir] = At(b, Latest)]
        BY <1>2, <3>1 DEF Create, Restamp, Write, Fails, B
      <4>2. PICK c : c = At(b, Latest)
        OBVIOUS
      <4>3. c.logs = b.logs /\ c.stones = b.stones /\ c.main = 8
        BY <2>2, <4>2, AtListed DEF Latest
      <4>4. Listed(b, c)
        BY <4>3, ListedSame
      <4>5. db' = [db EXCEPT ![dir] = c] /\ (c.main < 7 => Unnamed(c))
        BY <4>1, <4>2, <4>3
      <4> QED BY <4>4, <4>5
    <3>2. CASE Renew
      <4>1. db' = [db EXCEPT ![dir] = Current(b)]
        BY <1>2, <3>2 DEF Renew, Write, Fails, B
      <4>2. PICK c : c = Current(b)
        OBVIOUS
      <4>3. Listed(b, c) /\ c.main = 8
        BY <2>2, <4>2, CurrentListed DEF Latest
      <4>4. db' = [db EXCEPT ![dir] = c] /\ (c.main < 7 => Unnamed(c))
        BY <4>1, <4>2, <4>3
      <4> QED BY <4>3, <4>4
    <3>3. CASE StepUp
      <4>1. db' = [db EXCEPT ![dir] = Stepped(b)]
        BY <1>2, <3>3 DEF StepUp, Write, Fails, B
      <4>2. PICK c : c = Stepped(b)
        OBVIOUS
      <4>3. Listed(b, c) /\ c.main = b.main + 1 /\ (b.main # 6 /\ Unnamed(b) => Unnamed(c))
        BY <2>2, <4>2, SteppedListed
      <4>4. c.main < 7 => Unnamed(c)
        BY <2>2, <4>3 DEF Counted
      <4> QED BY <4>1, <4>2, <4>3, <4>4
    <3>4. CASE Begin \/ RefuseFuture \/ Arrive \/ Check
      BY <1>2, <3>4 DEF Begin, RefuseFuture, Arrive, Check, Fails
    <3> QED BY <1>2, <3>1, <3>2, <3>3, <3>4 DEF Migrate
  <2>4. Counted(c)
    BY <2>2, <2>3, CountedListed
  <2> QED BY <2>1, <2>3, <2>4, NumberWritten
<1>3. CASE CommitChoice /\ db' # db
  <2> DEFINE b == db[dir]
             c == Resolved(b, choice)
  <2>1. db' = [db EXCEPT ![dir] = c] /\ dir \in Dirs
    BY <1>3 DEF CommitChoice, Write, Fails, B, BootInv, PathInv, Dirs
  <2>2. Shaped(b) /\ Counted(b)
    BY <2>1, Shape DEF BootInv, DbInv, Fine, NumberInv
  <2>3. Listed(b, c) /\ c.main = b.main /\ (Unnamed(b) => Unnamed(c))
    BY <2>2, ResolvedListed
  <2> HIDE DEF c
  <2>4. Counted(c)
    BY <2>2, <2>3, CountedListed DEF Counted
  <2> QED BY <2>1, <2>4, NumberWritten
<1>4. CASE InitializeUser
  <2> DEFINE b == db["active"]
             f == db["fallback"]
             c == WithUser(b, f)
  <2>1. db' = [db EXCEPT !["active"] = c]
    BY <1>4 DEF InitializeUser
  <2>2. Shaped(b) /\ Counted(f)
    BY Shape DEF BootInv, DbInv, Fine, NumberInv, Dirs
  <2>3. c.logs = f.logs /\ c.stones = f.stones /\ c.main = f.main
    <3> HIDE DEF b, f
    <3> QED BY <2>2 DEF WithUser, Shaped, Absent
  <2> HIDE DEF c
  <2>4. Listed(f, c) /\ (Unnamed(f) => Unnamed(c))
    BY <2>3, ListedSame
  <2>5. Counted(c)
    BY <2>2, <2>3, <2>4, CountedListed DEF Counted
  <2> QED BY <2>1, <2>5, NumberWritten DEF Dirs
<1>5. CASE BeginImport
  <2>1. PICK b \in Backups : db' = [db EXCEPT !["incoming"] = b]
    BY <1>5 DEF BeginImport
  <2>2. Counted(b)
    BY CountedNumbered DEF AllNumbered
  <2> QED BY <2>1, <2>2, NumberWritten DEF Dirs
<1>6. CASE Install \/ Failed \/ Killed
  <2>1. \A e \in Dirs : db'[e] \in {db[e], Absent} \cup {db[d] : d \in Dirs}
    <3>1. CASE Install
      <4>1. dir \in Dirs
        BY <3>1 DEF Install, BootInv, PathInv, Dirs
      <4>2. PICK d1 : /\ d1 = [db EXCEPT ![dir] = Absent]
                      /\ db' = [d1 EXCEPT !["active"] = db[dir]] \/ db' = d1
        BY <3>1 DEF Install, Closed, B
      <4> QED BY <4>1, <4>2 DEF BootInv, DbInv, Dirs
    <3>2. CASE Failed
      <4>1. dir \in Dirs
        BY <3>2 DEF Failed, BootInv, PathInv, Dirs
      <4>2. \/ db' = db
            \/ db' = [db EXCEPT !["incoming"] = Absent]
            \/ db' = [[db EXCEPT !["incoming"] = Absent] EXCEPT !["staged"] = db[dir]]
        BY <3>2 DEF Failed, Closed, B
      <4> QED BY <4>1, <4>2 DEF BootInv, DbInv, Dirs
    <3>3. CASE Killed
      <4>1. db' = [[db EXCEPT !["incoming"] = Absent] EXCEPT !["staged"] = Absent]
        BY <3>3 DEF Killed
      <4> QED BY <4>1 DEF BootInv, DbInv, Dirs
    <3> QED BY <1>6, <3>1, <3>2, <3>3
  <2> QED BY <2>1, CountedAbsent DEF NumberInv
<1>7. CASE StartApp \/ Opened \/ AdmitImport \/ Send \/ Answer \/ UNCHANGED startupVars
  BY <1>1, <1>7 DEF StartApp, Opened, AdmitImport, Send, Answer, Apply,
      Reject, startupVars
<1> QED BY <1>1, <1>2, <1>3, <1>4, <1>5, <1>6, <1>7 DEF StartupNext, System, UserActs

LEMMA NumberInit == ASSUME AllNumbered, StartupInit PROVE NumberInv
<1>1. PICK l \in Libraries :
        db = [d \in Dirs |-> CASE d = "active" -> l.active
                                    [] d = "fallback" -> l.fallback
                                    [] OTHER -> Absent]
  BY DEF StartupInit
<1>2. /\ db["active"] = l.active /\ db["fallback"] = l.fallback
      /\ db["incoming"] = Absent /\ db["staged"] = Absent
  BY <1>1 DEF Dirs
<1>3. Counted(l.active) /\ Counted(l.fallback)
  BY CountedNumbered DEF AllNumbered
<1> QED BY <1>2, <1>3, CountedAbsent DEF NumberInv, Dirs

\* The migration to version 7 names the records as the loader does.
LEMMA NamedAtSeven ==
    ASSUME BootInv, RowsInv, NumberInv, [StartupNext]_startupVars,
           step = "stepping", db[dir].main = 6, db'[dir].main = 7
    PROVE  LET b == db[dir]
           IN  /\ {l.uid : l \in db'[dir].logs}
                    = Loaded([l \in b.logs |-> LogKey(b, l)], "activity")
               /\ {s.uid : s \in db'[dir].stones}
                    = Loaded([s \in b.stones |-> StoneKey(s)], "milestone")
<1> DEFINE b == db[dir]
           c == Recorded(b)
           lkey == [l \in b.logs |-> LogKey(b, l)]
           skey == [s \in b.stones |-> StoneKey(s)]
           lname == [l \in b.logs |-> NamedLog(b, l).uid]
           sname == [s \in b.stones |-> NamedStone(b, s).uid]
<1>1. dir \in Dirs /\ Shaped(b) /\ Logged(b) /\ Counted(b) /\ Unnamed(b)
  <2>1. dir \in Dirs
    BY DEF BootInv, PathInv, Dirs
  <2>2. Shaped(b) /\ Logged(b) /\ Counted(b)
    BY <2>1, Shape DEF BootInv, DbInv, Fine, RowsInv, Intact, NumberInv
  <2> QED BY <2>1, <2>2 DEF Counted
<1>2. db' = [db EXCEPT ![dir] = Stepped(b)]
  <2>1. db' # db
    OBVIOUS
  <2>2. ~Killed
    <3> SUFFICES ASSUME Killed PROVE FALSE
      OBVIOUS
    <3>1. db' = [[db EXCEPT !["incoming"] = Absent] EXCEPT !["staged"] = Absent]
      BY DEF Killed
    <3>2. db'[dir] \in {db[dir], Absent}
      BY <1>1, <3>1 DEF BootInv, DbInv, Dirs
    <3>3. Absent.main = 0
      BY DEF Absent
    <3> QED BY <3>2, <3>3
  <2>3. ~(AdmitImport \/ Send \/ UNCHANGED startupVars)
    BY <2>1 DEF AdmitImport, Send, startupVars
  <2>4. ~(StartApp \/ Opened \/ Install \/ Failed \/ CommitChoice)
    BY DEF StartApp, Opened, Install, Failed, CommitChoice
  <2>5. ~(InitializeUser \/ BeginImport \/ Answer)
    BY DEF InitializeUser, BeginImport, Answer, Apply, Reject, Idle
  <2>6. Migrate
    BY <2>2, <2>3, <2>4, <2>5 DEF StartupNext, System, UserActs
  <2>7. StepUp
    BY <2>1, <2>6 DEF Migrate, Create, Renew, Restamp, Begin, RefuseFuture,
        Arrive, Check, Fails
  <2> QED BY <2>1, <2>7 DEF StepUp, Write, Fails, B
<1>3. db'[dir].logs = c.logs /\ db'[dir].stones = c.stones
  <2>1. Shaped(c)
    BY <1>1, RecordedThrough DEF Through
  <2>2. db'[dir] = At(c, 7)
    <3>1. Stepped(b) = At(c, 7)
      BY DEF Stepped
    <3> HIDE DEF b, c
    <3> QED BY <1>1, <1>2, <3>1 DEF BootInv, DbInv
  <2> HIDE DEF c
  <2> QED BY <2>1, <2>2, AtListed
<1>4. /\ c.logs = {NamedLog(b, l) : l \in b.logs}
      /\ c.stones = {NamedStone(b, s) : s \in b.stones}
  <2>1. /\ c.logs = {IF l.uid = NoUid THEN NamedLog(b, l) ELSE l : l \in b.logs}
        /\ c.stones = {IF s.uid = NoUid THEN NamedStone(b, s) ELSE s : s \in b.stones}
    BY <1>1, RecordedListed
  <2> QED BY <1>1, <2>1 DEF Unnamed
<1>5. {l.uid : l \in c.logs} = {lname[l] : l \in b.logs}
  BY <1>4
<1>6. {s.uid : s \in c.stones} = {sname[s] : s \in b.stones}
  BY <1>4
<1>7. Names(b.logs, lkey, "activity", lname)
  <2> SUFFICES ASSUME NEW l \in b.logs
               PROVE  lname[l] = RecordUid("activity", lkey[l],
                                     Occurrence(l, {q \in b.logs : lkey[q] = lkey[l]}))
    BY DEF Names
  <2>1. {q \in b.logs : q.uid = NoUid /\ LogKey(b, q) = LogKey(b, l)}
            = {q \in b.logs : lkey[q] = lkey[l]}
    BY <1>1 DEF Unnamed
  <2> QED BY <1>1, <2>1 DEF NamedLog, Logged
<1>8. Names(b.stones, skey, "milestone", sname)
  <2> SUFFICES ASSUME NEW s \in b.stones
               PROVE  sname[s] = RecordUid("milestone", skey[s],
                                     Occurrence(s, {q \in b.stones : skey[q] = skey[s]}))
    BY DEF Names
  <2>1. {q \in b.stones : q.uid = NoUid /\ StoneKey(q) = StoneKey(s)}
            = {q \in b.stones : skey[q] = skey[s]}
    BY <1>1 DEF Unnamed
  <2> QED BY <1>1, <2>1 DEF NamedStone, Shaped
<1>9. OwnNumbers(b.logs) /\ OwnNumbers(b.stones)
  BY <1>1 DEF Counted, OwnNumbers, Distinct, Shaped
<1> HIDE DEF lkey, skey, lname, sname, c, b
<1>10. {lname[l] : l \in b.logs} = Loaded(lkey, "activity")
  <2>1. /\ \A l \in b.logs : lname[l] \in Loaded(lkey, "activity")
        /\ \A u \in Loaded(lkey, "activity") : \E l \in b.logs : lname[l] = u
    BY <1>7, <1>9, NamedAsLoaded
  <2> QED BY <2>1
<1>11. {sname[s] : s \in b.stones} = Loaded(skey, "milestone")
  <2>1. /\ \A s \in b.stones : sname[s] \in Loaded(skey, "milestone")
        /\ \A u \in Loaded(skey, "milestone") : \E s \in b.stones : sname[s] = u
    BY <1>8, <1>9, NamedAsLoaded
  <2> QED BY <2>1
<1> QED BY <1>3, <1>5, <1>6, <1>10, <1>11 DEF lkey, skey, b

\* The identifiers that the migration to version 7 gives to records are those the loader
\* of an old snapshot gives to the same records (db.rs, and sync_snapshot.rs of the same
\* names), however many records say the same.
THEOREM IdentifiersAgree == StartupSpec => UidsAgree
<1>0. Released /\ AllUntangled /\ AllNumbered
  BY StartupAssumption, UntangledAssumption, NumberedAssumption
<1>1. StartupInit => BootInv /\ RowsInv /\ NumberInv
  BY <1>0, BootInit, RowsInit, NumberInit
<1>2. BootInv /\ RowsInv /\ NumberInv /\ [StartupNext]_startupVars => BootInv' /\ RowsInv' /\ NumberInv'
  BY <1>0, BootNext, RowsNext, NumberNext
<1>3. BootInv /\ RowsInv /\ NumberInv /\ [StartupNext]_startupVars =>
        [step = "stepping" /\ B.main = 6 /\ db'[dir].main = 7 =>
            /\ {l.uid : l \in db'[dir].logs}
                  = Loaded([l \in B.logs |-> LogKey(B, l)], "activity")
            /\ {s.uid : s \in db'[dir].stones}
                  = Loaded([s \in B.stones |-> StoneKey(s)], "milestone")]_startupVars
  BY NamedAtSeven DEF B
<1> QED BY <1>1, <1>2, <1>3, PTL DEF StartupSpec, UidsAgree
=============================================================================
