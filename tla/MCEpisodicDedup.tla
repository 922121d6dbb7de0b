--------------------------- MODULE MCEpisodicDedup ---------------------------
(***************************************************************************)
(* Values for the constants of EpisodicDedup.                              *)
(***************************************************************************)
EXTENDS EpisodicDedup, TLC

MCSeverities == {"critical", "high"}

\* Alerts differ by nothing but what happens to them.
AlertSymmetry == Permutations(Alerts)
=============================================================================
