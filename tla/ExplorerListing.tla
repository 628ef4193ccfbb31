--------------------------- MODULE ExplorerListing ---------------------------
(***************************************************************************)
(* The chain and the block explorer, as the Agent Vault watcher reads them *)
(* (src/lib/agentVault/explorer.ts, transfers.ts).  Neither is in the      *)
(* repository: what is here is what the code relies on.                    *)
(*                                                                         *)
(* A chain is a sequence of blocks with times that never decrease.  A row  *)
(* of an account listing lies in one block, at one place of the listing's  *)
(* order, belongs to one of the listings the watcher reads, and shows up   *)
(* under every wallet of the tin that is on one of its two sides.          *)
(***************************************************************************)
EXTENDS Integers, FiniteSets

CONSTANTS
    Wallets,        \* the tin's own wallets
    Rows,           \* every row the explorer will ever list for them
    Movements,      \* the rows that are transfers (not failed, not of value zero, ...)
    MaxBlock,       \* blocks are 0..MaxBlock
    BlockTime,      \* the second a block was mined
    BlockOf,        \* the block of a row
    PlaceOf,        \* the place of a row in the listing's order, oldest first
    ListingCount,   \* EXPLORER_ACTIONS.length
    ListingOf,      \* the listing a row is in
    SidesOf,        \* the tin's wallets on a side of the row
    PageSize,       \* rows per page
    MaxPages        \* pages per read

Blocks == 0 .. MaxBlock
Listings == 1 .. ListingCount

ASSUME ChainAssumption ==
    /\ MaxBlock \in Nat
    /\ BlockTime \in [Blocks -> Nat]
    /\ BlockTime[0] = 0
    /\ \A b, c \in Blocks : b <= c => BlockTime[b] <= BlockTime[c]

ASSUME ListingAssumption ==
    /\ IsFiniteSet(Rows)
    /\ Movements \subseteq Rows
    /\ BlockOf \in [Rows -> Blocks]
    /\ PlaceOf \in [Rows -> Nat]
    /\ \A r, q \in Rows : PlaceOf[r] = PlaceOf[q] => r = q
    /\ \A r, q \in Rows : BlockOf[r] < BlockOf[q] => PlaceOf[r] < PlaceOf[q]
    /\ ListingCount \in Nat \ {0}
    /\ ListingOf \in [Rows -> Listings]
    /\ SidesOf \in [Rows -> SUBSET Wallets]

ASSUME PagingAssumption ==
    /\ PageSize \in Nat \ {0}
    /\ MaxPages \in Nat \ {0}

TimeOf(r) == BlockTime[BlockOf[r]]

\* The block mined at or before second s (blockAt): the newest one that is not later.
IsBlockAt(b, s) ==
    /\ BlockTime[b] <= s
    /\ \A c \in Blocks : b < c => s < BlockTime[c]

\* The rows of one listing of one wallet between two blocks, among the indexed ones.
Listed(indexed, w, l, first, last) ==
    {r \in indexed : /\ w \in SidesOf[r]
                     /\ ListingOf[r] = l
                     /\ BlockOf[r] \in first .. last}

\* How many rows of the listing V come before r.
Rank(r, V) == Cardinality({q \in V : PlaceOf[q] < PlaceOf[r]})

\* Page k of the listing V: the explorer pages by offset, so page k holds the
\* rows at places (k-1)*PageSize .. k*PageSize - 1 of V as it stands now.
PageRows(V, k) ==
    {r \in V : (k - 1) * PageSize <= Rank(r, V) /\ Rank(r, V) < k * PageSize}

\* The page came back with fewer rows than asked for: the listing ends on it.
ShortPage(V, k) == Cardinality(V) < k * PageSize
=============================================================================
