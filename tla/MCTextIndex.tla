---------------------------- MODULE MCTextIndex ----------------------------
(* Three or four documents in pages of two, for TLC.                       *)
EXTENDS TextIndex
=============================================================================
