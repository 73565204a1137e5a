------------------------------ MODULE MCCovers ------------------------------
(* Two entries and the covers they may share. *)
EXTENDS Covers
CONSTANTS u1, u2, h1, h2
=============================================================================
