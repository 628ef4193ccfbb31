-------------------------- MODULE MCVaultRegistry ---------------------------
(***************************************************************************)
(* Instances of VaultRegistry for TLC.                                     *)
(***************************************************************************)
EXTENDS VaultRegistry, TLC

MCSymmetry ==
    Permutations(Tins) \cup Permutations(Addresses) \cup Permutations(Rows)
        \cup Permutations(Keys) \cup Permutations(Requests)
=============================================================================
