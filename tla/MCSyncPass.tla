----------------------------- MODULE MCSyncPass -----------------------------
(***************************************************************************)
(* Instances of SyncPass for TLC.                                          *)
(***************************************************************************)
EXTENDS SyncPass, TLC

CONSTANTS w1, w2, w3, t1, t2

\* The first two wallets are of one tin.
MCPairTin == [w \in Wallets |-> IF w = w3 THEN t2 ELSE t1]
MCPlaceOf == [w \in Wallets |-> CASE w = w1 -> 1 [] w = w2 -> 2 [] OTHER -> 3]

MCSymmetry == Permutations(Calls)
=============================================================================
