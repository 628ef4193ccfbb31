----------------------------- MODULE VaultPlan ------------------------------
(***************************************************************************)
(* What the registry of the Agent Vault promises one account: agents, each *)
(* admitted once, and places under them (an own wallet or a destination:   *)
(* one address, once), never more than the account's plan has, and none    *)
(* under an agent that was removed.                                        *)
(***************************************************************************)
EXTENDS Integers, FiniteSets

CONSTANTS
    Tins,           \* the agents there can be
    Addresses,      \* the addresses there can be
    BotCap,         \* PlanLimits.bots
    AddressCap,     \* PlanLimits.addresses, over all the agents
    WalletCap       \* PlanLimits.walletsPerBot

Kinds == {"wallet", "destination"}
Places == Kinds \X Tins \X Addresses

VARIABLES
    agents,         \* the live agents
    retired,        \* the removed ones
    places          \* the live places

planVars == <<agents, retired, places>>

\* The places of S that count toward the cap a new place of this kind under t has to meet.
Counted(S, kind, t) ==
    {p \in S : p[1] = kind /\ (kind = "wallet" => p[2] = t)}

CapOf(kind) == IF kind = "wallet" THEN WalletCap ELSE AddressCap

PlanInit == agents = {} /\ retired = {} /\ places = {}

Admit(t) ==
    /\ t \notin agents \cup retired
    /\ Cardinality(agents) < BotCap
    /\ agents' = agents \cup {t}
    /\ UNCHANGED <<retired, places>>

Retire(t) ==
    /\ t \in agents
    /\ agents' = agents \ {t}
    /\ retired' = retired \cup {t}
    /\ places' = {p \in places : p[2] # t}

TakePlace(kind, t, a) ==
    /\ t \in agents
    /\ <<kind, t, a>> \notin places
    /\ Cardinality(Counted(places, kind, t)) < CapOf(kind)
    /\ places' = places \cup {<<kind, t, a>>}
    /\ UNCHANGED <<agents, retired>>

LeavePlace(p) ==
    /\ p \in places
    /\ places' = places \ {p}
    /\ UNCHANGED <<agents, retired>>

PlanNext ==
    \/ \E t \in Tins : Admit(t) \/ Retire(t)
    \/ \E kind \in Kinds, t \in Tins, a \in Addresses : TakePlace(kind, t, a)
    \/ \E p \in places : LeavePlace(p)

PlanSpec == PlanInit /\ [][PlanNext]_planVars
-----------------------------------------------------------------------------
\* Safety: the account holds no more than its plan has, and every place is under a live
\* agent (the caps of entitlements.ts, COUNTED_DESTINATIONS of store.ts).
WithinPlan ==
    /\ Cardinality(agents) <= BotCap
    /\ \A p \in places : p[2] \in agents
    /\ \A kind \in Kinds, t \in Tins : Cardinality(Counted(places, kind, t)) <= CapOf(kind)
=============================================================================
