--------------------------- MODULE RemoteRegister ---------------------------
(***************************************************************************)
(* What the cloud manifest of one sync profile promises: a register that   *)
(* holds the newest published snapshot and that is only ever replaced by a *)
(* snapshot derived from the one it holds.  A publisher that has not seen  *)
(* the current head cannot commit.  DriveManifest implements it over       *)
(* Google Drive files, which offer no such register by themselves.         *)
(***************************************************************************)
EXTENDS Naturals

CONSTANT Snap       \* snapshot ids, positive numbers

Manifest == [gen : Nat \ {0}, snap : Snap, parent : Snap \cup {0}]

VARIABLE head       \* the manifest in force

Init == head \in [gen : {1}, snap : Snap, parent : {0}]

\* Replace the head by its successor, naming the head it was built from.
Commit(s) == head' = [gen |-> head.gen + 1, snap |-> s, parent |-> head.snap]

Next == \E s \in Snap \ {head.snap} : Commit(s)

Spec == Init /\ [][Next]_head
=============================================================================
