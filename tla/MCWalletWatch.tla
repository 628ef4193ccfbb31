---------------------------- MODULE MCWalletWatch ----------------------------
(***************************************************************************)
(* Instances of WalletWatch for TLC.                                       *)
(***************************************************************************)
EXTENDS WalletWatch, TLC

CONSTANTS w1, w2, r1, r2, r3, r4

\* Blocks 2 and 3 share a second.  r1 lies in block 2, the other rows in block 4; the
\* empty block between them is where a read cut before block 4 starts again.
MCBlockTime == [b \in 0 .. 4 |-> <<0, 1, 2, 2, 3>>[b + 1]]
MCBlockOf == [r \in Rows |-> IF r = r1 THEN 2 ELSE 4]
\* Every row in a block of its own, r2 between the other two.
MCSpreadBlocks == [r \in Rows |-> CASE r = r1 -> 1 [] r = r2 -> 2 [] OTHER -> 4]
MCPlaceOf == [r \in Rows |-> CASE r = r1 -> 1 [] r = r2 -> 2 [] r = r3 -> 3 [] OTHER -> 4]

MCOneListing == [r \in Rows |-> 1]
\* The last row is in the second listing.
MCTwoListings == [r \in Rows |-> IF r = r3 THEN 2 ELSE 1]

MCOneWallet == [r \in Rows |-> {w1}]
\* r2 is a transfer between the tin's two wallets.
MCTwoWallets == [r \in Rows |-> CASE r = r1 -> {w1} [] r = r2 -> {w1, w2} [] OTHER -> {w2}]

MCSymmetry == Permutations(Passes)

MCRegisteredAt == [w \in Wallets |-> 1]
\* The same chain two seconds later, and a registration after an overlap of two seconds.
MCLaterBlocks == [b \in 0 .. 4 |-> <<0, 2, 3, 3, 4>>[b + 1]]
MCRegisteredLater == [w \in Wallets |-> 2]

MCNoPairs == [w \in Wallets |-> None]
=============================================================================
