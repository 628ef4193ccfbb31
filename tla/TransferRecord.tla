--------------------------- MODULE TransferRecord ---------------------------
(***************************************************************************)
(* What the Agent Vault's watcher promises, without how it reads a chain:  *)
(* a record of transfers that only grows, where each transfer is written   *)
(* once and only when it is old enough not to be undone; and, per wallet,  *)
(* a claim "every transfer up to this second has been read" that is made   *)
(* only when it is true (src/lib/agentVault/watcher.ts and watchState.ts,  *)
(* their headers).                                                         *)
(***************************************************************************)
EXTENDS Integers

CONSTANTS
    Wallets,
    Transfers,      \* the transfers that happen
    At,             \* the second a transfer happened
    Owed(_),        \* the transfers a wallet's record owes its owner
    Lag,            \* how old a transfer must be before it is written
    None            \* no claim yet

VARIABLES
    now,
    recorded,       \* the transfers in the record
    through         \* per wallet, the second up to which the record is claimed complete

vars == <<now, recorded, through>>

Init ==
    /\ now \in Nat
    /\ recorded = {}
    /\ through = [w \in Wallets |-> None]

Pass ==
    /\ now' \in Nat /\ now' > now
    /\ UNCHANGED <<recorded, through>>

Record(t) ==
    /\ t \notin recorded
    /\ At[t] + Lag <= now
    /\ recorded' = recorded \cup {t}
    /\ UNCHANGED <<now, through>>

\* The claim may be made anew at an earlier second: that only costs a longer read.
Claim(w) ==
    /\ through' = [through EXCEPT ![w] = through'[w]]
    /\ through'[w] \in Nat
    /\ \A t \in Owed(w) : At[t] <= through'[w] => t \in recorded
    /\ UNCHANGED <<now, recorded>>

Next ==
    \/ Pass
    \/ \E t \in Transfers : Record(t)
    \/ \E w \in Wallets : Claim(w)

Spec == Init /\ [][Next]_vars

\* At every moment each claim is true.
ClaimsTrue ==
    \A w \in Wallets :
        through[w] # None => \A t \in Owed(w) : At[t] <= through[w] => t \in recorded
=============================================================================
