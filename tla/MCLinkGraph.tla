---------------------------- MODULE MCLinkGraph ----------------------------
(* Two updaters and a reader for TLC.                                      *)
EXTENDS LinkIterators, TLC

CONSTANTS a, b, u1, u2

\* UUIDs at the ends of partitions and next to them.
MCTokens == {<<7, 14>>}

\* Updaters are interchangeable.
UpdaterSymmetry == Permutations({u1, u2})
=============================================================================
