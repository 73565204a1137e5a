------------------------------ MODULE ThreeWay ------------------------------
(***************************************************************************)
(* The three-way merge of one value (sync_merge.rs): b is the value in the *)
(* base, l the local one, r the one of the incoming snapshot.              *)
(***************************************************************************)

Clash_IgnoreBase(b, l, r) == l # r

\* Both sides changed the value, and differently.
Clash(b, l, r) == l # b /\ r # b /\ l # r

Merged_KeepLocal(b, l, r) == l

\* merge_scalar_field, merge_extra_data_entry, merge_profile_picture: the side
\* that changed wins, the local one if both did.
Merged(b, l, r) == IF l = b THEN r ELSE l
=============================================================================
