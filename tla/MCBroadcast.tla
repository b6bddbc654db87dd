---------------------------- MODULE MCBroadcast ----------------------------
(* A broadcast stage with two branches, for TLC.                           *)
EXTENDS Broadcast, TLC

CONSTANTS w0, w1

Channels == 0..3
Branches == 0 :> w0 @@ 1 :> w1
=============================================================================
