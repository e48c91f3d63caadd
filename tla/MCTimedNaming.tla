--------------------------- MODULE MCTimedNaming ----------------------------
(* Small instances of TimedNaming.                                          *)
EXTENDS TimedNaming, TLC

\* No boot is special: unique ids and delays are drawn in Init, for every boot
\* from the same sets.
NodeSymmetry == Permutations(Node)
=============================================================================
