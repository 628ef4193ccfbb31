--------------------------- MODULE MCClaimLedger ----------------------------
(***************************************************************************)
(* Instances of ClaimLedger for TLC.                                       *)
(***************************************************************************)
EXTENDS ClaimLedger, TLC

MCSymmetry == Permutations(Claims) \cup Permutations(Tenants) \cup Permutations(Runs)
=============================================================================
