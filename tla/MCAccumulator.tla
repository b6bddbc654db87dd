--------------------------- MODULE MCAccumulator ---------------------------
(* Three goroutines, one of which calls Set, for TLC.                      *)
EXTENDS Accumulator

CONSTANTS t1, t2, t3
=============================================================================
