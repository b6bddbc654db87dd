----------------------------- MODULE MCBspGraph -----------------------------
(* Two vertices and two workers, for TLC.                                  *)
EXTENDS BspGraph

CONSTANTS v1, v2, w1, w2
=============================================================================
