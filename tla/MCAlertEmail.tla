---------------------------- MODULE MCAlertEmail ----------------------------
(***************************************************************************)
(* Instances of AlertEmail for TLC.                                        *)
(***************************************************************************)
EXTENDS AlertEmail, TLC

CONSTANTS c1, c2, p1, p2, p3

MCSymmetry == Permutations(Passes) \cup Permutations(Payments)
=============================================================================
