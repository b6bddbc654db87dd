----------------------------- MODULE MCPipeline -----------------------------
(* Instances of Pipeline for TLC.                                          *)
EXTENDS Pipeline, TLC

CONSTANTS w1, w2, w3

\* A pool of two workers, then a FIFO: stages 0 and 1.
PoolThenFifo == w1 :> 0 @@ w2 :> 0 @@ w3 :> 1

Channels == 0..NumStages
=============================================================================
