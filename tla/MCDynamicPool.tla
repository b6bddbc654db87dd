--------------------------- MODULE MCDynamicPool ---------------------------
(* One dynamic stage with two tokens, for TLC.                             *)
EXTENDS DynamicPool

CONSTANTS w1, w2

Channels == 0..1
=============================================================================
