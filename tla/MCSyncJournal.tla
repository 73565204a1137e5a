---------------------------- MODULE MCSyncJournal ----------------------------
(* Small instances of SyncJournal.                                         *)
EXTENDS SyncJournal, TLC

\* Items and values are interchangeable.
MCSymmetry == Permutations(Item) \cup Permutations(Val)

MCResolve == {"sync", "resolve"}
MCAll == {"sync", "resolve", "replace", "force"}
=============================================================================
