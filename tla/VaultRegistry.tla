--------------------------- MODULE VaultRegistry ----------------------------
(***************************************************************************)
(* One account's agents, own wallets and destinations: the tables and      *)
(* statements of src/lib/agentVault/store.ts, the requests of vault.ts     *)
(* that run them, the trust a check gives a destination (trustPolicy.ts)   *)
(* and the minute's budget of checks (checkBudget.ts).                     *)
(*                                                                         *)
(* Requests run at once; between two awaits of one, any other may act.  A  *)
(* batch of statements (the account's advisory lock and what follows it)   *)
(* is one step.  What a screening answers is arbitrary each time, so it    *)
(* does not matter here whether the answer was fresh or remembered.        *)
(***************************************************************************)
EXTENDS Integers, FiniteSets

CONSTANTS
    Tins, Addresses, BotCap, AddressCap, WalletCap,     \* as in VaultPlan
    Rows,           \* row ids of agent_wallets and agent_destinations (random UUIDs)
    Keys,           \* the account's active agent keys
    Labels,         \* the names an agent can be given
    Requests,       \* the requests that can be running at once
    MaxChecks,      \* CHECKS_PER_WINDOW
    MaxWindows,     \* bound: the windows of the budget
    None

ASSUME RegistryAssumption ==
    /\ IsFiniteSet(Tins)
    /\ IsFiniteSet(Addresses)
    /\ IsFiniteSet(Rows)
    /\ BotCap \in Nat
    /\ AddressCap \in Nat
    /\ WalletCap \in Nat
    /\ MaxChecks \in Nat
    /\ MaxWindows \in Nat \ {0}
    /\ None \notin Keys \cup Labels \cup Tins

VARIABLES
    tin,        \* agent_tins, by id
    row,        \* agent_wallets and agent_destinations, by id
    req,        \* the requests: their local variables
    window,     \* the number of the budget's window the clock is in
    budget,     \* the account's entry in the budget: its window and what was taken
    made        \* history: the checks made, by the window they were paid in

vars == <<tin, row, req, window, budget, made>>

Kinds == {"wallet", "destination"}
Places == Kinds \X Tins \X Addresses
NoPlace == <<>>

UnbornTin == [state |-> "unborn", label |-> None, key |-> None]
UnbornRow == [state |-> "unborn", place |-> NoPlace, trust |-> "pending", readout |-> "none"]

\* deleted_at is set and the row stays: nothing reads what it held again.
RemovedTin == [UnbornTin EXCEPT !.state = "removed"]
RemovedRow == [UnbornRow EXCEPT !.state = "removed"]

\* pc: what the request does next.  `todo`: addresses still to insert.  `rows`: rows whose
\* check is still to be recorded.  `flagged`: those that were flagged when they were read.
Idle == [pc |-> "idle", tin |-> None, label |-> None, key |-> None, kind |-> "destination",
         todo |-> {}, rows |-> {}, flagged |-> {}, full |-> FALSE,
         charged |-> 0, spentAt |-> 0]

LiveTins == {t \in Tins : tin[t].state = "live"}
RemovedTins == {t \in Tins : tin[t].state = "removed"}
LiveRows == {r \in Rows : row[r].state = "live"}

\* The partial unique index agent_tins_live_key, and the one on live places.
KeyHeldBy(k) == {t \in LiveTins : k # None /\ tin[t].key = k}
PlaceHeldBy(p) == {r \in LiveRows : row[r].place = p}

\* COUNTED_DESTINATIONS, and the count of one agent's wallets.
CountedRows(kind, t) ==
    {r \in LiveRows :
        /\ row[r].place[1] = kind
        /\ kind = "wallet" => row[r].place[2] = t
        /\ kind = "destination" => row[r].place[2] \in LiveTins}

CapOf(kind) == IF kind = "wallet" THEN WalletCap ELSE AddressCap

Init ==
    /\ tin = [t \in Tins |-> UnbornTin]
    /\ row = [r \in Rows |-> UnbornRow]
    /\ req = [q \in Requests |-> Idle]
    /\ window = 1
    /\ budget = [opened |-> 0, used |-> 0]
    /\ made = [w \in 1 .. MaxWindows |-> 0]
-----------------------------------------------------------------------------
(* The budget of checks: spend and refund. *)

\* The entry after its window was looked at: a window that has passed is opened anew.
Opened == [opened |-> window, used |-> IF budget.opened = window THEN budget.used ELSE 0]

\* A plausible bug: an off-by-one.
FitsOneMore(n) == Opened.used + n <= MaxChecks + 1

Fits(n) == Opened.used + n <= MaxChecks

Spent(n) == IF n = 0 THEN budget
            ELSE IF Fits(n) THEN [Opened EXCEPT !.used = @ + n] ELSE Opened

\* A plausible bug: what is given back lands in whatever window is open.
RefundedAnywhere(n, spentAt) == [budget EXCEPT !.used = IF @ > n THEN @ - n ELSE 0]

\* What was not used goes back only to the window it was taken from.
Refunded(n, spentAt) ==
    IF budget.opened = spentAt THEN [budget EXCEPT !.used = IF @ > n THEN @ - n ELSE 0]
    ELSE budget

NextWindow ==
    /\ window < MaxWindows
    /\ window' = window + 1
    /\ UNCHANGED <<tin, row, req, budget, made>>
-----------------------------------------------------------------------------
(* Agents: createTin, renameOrRelinkTin, removeTin. *)

\* checkKeyLinkable: no other live agent holds the key.
Linkable(k, t) == KeyHeldBy(k) \subseteq {t}

\* createTin up to the insert.
StartCreate(q, l, k) ==
    /\ req[q].pc = "idle"
    /\ Linkable(k, None)
    /\ req' = [req EXCEPT ![q] = [Idle EXCEPT !.pc = "create", !.label = l, !.key = k]]
    /\ UNCHANGED <<tin, row, window, budget, made>>

\* A plausible bug: no unique index refuses a key that was linked meanwhile.
InsertTinAnyKey(q, t) ==
    LET s == req[q]
    IN  /\ s.pc = "create"
        /\ tin[t].state = "unborn"
        /\ IF Cardinality(LiveTins) < BotCap
           THEN tin' = [tin EXCEPT ![t] = [state |-> "live", label |-> s.label, key |-> s.key]]
           ELSE UNCHANGED tin
        /\ req' = [req EXCEPT ![q] = Idle]
        /\ UNCHANGED <<row, window, budget, made>>

\* insertTinWithinCap: lock, count and insert in one transaction; over the limit, or a key
\* that was linked meanwhile, writes nothing.
InsertTin(q, t) ==
    LET s == req[q]
    IN  /\ s.pc = "create"
        /\ tin[t].state = "unborn"
        /\ IF KeyHeldBy(s.key) = {} /\ Cardinality(LiveTins) < BotCap
           THEN tin' = [tin EXCEPT ![t] = [state |-> "live", label |-> s.label, key |-> s.key]]
           ELSE UNCHANGED tin
        /\ req' = [req EXCEPT ![q] = Idle]
        /\ UNCHANGED <<row, window, budget, made>>

\* renameOrRelinkTin up to the update.  The agent is read, and what the request does not
\* give is taken from what was read: l or k is None for a field left out.
StartRename(q, t, l) ==
    /\ req[q].pc = "idle"
    /\ t \in LiveTins
    /\ req' = [req EXCEPT ![q] = [Idle EXCEPT !.pc = "rename", !.tin = t,
                                              !.label = l, !.key = tin[t].key]]
    /\ UNCHANGED <<tin, row, window, budget, made>>

StartRelink(q, t, k) ==
    /\ req[q].pc = "idle"
    /\ t \in LiveTins
    /\ Linkable(k, t)
    /\ req' = [req EXCEPT ![q] = [Idle EXCEPT !.pc = "relink", !.tin = t,
                                              !.label = tin[t].label, !.key = k]]
    /\ UNCHANGED <<tin, row, window, budget, made>>

\* updateTin: both columns of the live agent, or nothing when it is gone or the key taken.
UpdateTin(q) ==
    LET s == req[q]
    IN  /\ s.pc \in {"rename", "relink"}
        /\ IF s.tin \in LiveTins /\ KeyHeldBy(s.key) \subseteq {s.tin}
           THEN tin' = [tin EXCEPT ![s.tin].label = s.label, ![s.tin].key = s.key]
           ELSE UNCHANGED tin
        /\ req' = [req EXCEPT ![q] = Idle]
        /\ UNCHANGED <<row, window, budget, made>>

\* A plausible bug: the agent's own wallets are left as they are.
RemoveTinNotWallets(t) ==
    /\ t \in LiveTins
    /\ tin' = [tin EXCEPT ![t] = RemovedTin]
    /\ row' = [r \in Rows |->
                IF r \in LiveRows /\ row[r].place[2] = t /\ row[r].place[1] = "destination"
                THEN RemovedRow ELSE row[r]]
    /\ UNCHANGED <<req, window, budget, made>>

\* softDeleteTin: the agent and everything live under it, in one transaction.
RemoveTin(t) ==
    /\ t \in LiveTins
    /\ tin' = [tin EXCEPT ![t] = RemovedTin]
    /\ row' = [r \in Rows |->
                IF r \in LiveRows /\ row[r].place[2] = t
                THEN RemovedRow ELSE row[r]]
    /\ UNCHANGED <<req, window, budget, made>>
-----------------------------------------------------------------------------
(* Own wallets and destinations: addWallet, addDestinations, removals. *)

StartAddWallet(q, t, a) ==
    /\ req[q].pc = "idle"
    /\ t \in LiveTins
    /\ req' = [req EXCEPT ![q] =
                [Idle EXCEPT !.pc = "insert", !.tin = t, !.kind = "wallet", !.todo = {a}]]
    /\ UNCHANGED <<tin, row, window, budget, made>>

\* addDestinations up to its inserts: the checks the paste will start are paid for first.
\* Over the budget the request is refused, and the window has been looked at all the same.
StartPaste(q, t, A, trust) ==
    LET n == IF trust THEN Cardinality(A) ELSE 0
    IN  /\ req[q].pc = "idle"
        /\ t \in LiveTins
        /\ budget' = Spent(n)
        /\ req' = IF n > 0 /\ ~Fits(n) THEN req
                  ELSE [req EXCEPT ![q] =
                        [Idle EXCEPT !.pc = "insert", !.tin = t, !.todo = A,
                                     !.charged = n, !.spentAt = IF n > 0 THEN window ELSE 0]]
        /\ UNCHANGED <<tin, row, window, made>>

\* insertWalletWithinCap and insertDestinationWithinCap when the row is written: behind the
\* account's lock, under a live agent, below the cap, and no live row has the place.
InsertPlace(q, a, r) ==
    LET s == req[q]
        p == <<s.kind, s.tin, a>>
    IN  /\ s.pc = "insert"
        /\ a \in s.todo
        /\ ~s.full
        /\ s.tin \in LiveTins
        /\ PlaceHeldBy(p) = {}
        /\ Cardinality(CountedRows(s.kind, s.tin)) < CapOf(s.kind)
        /\ row[r].state = "unborn"
        /\ row' = [row EXCEPT ![r] = [UnbornRow EXCEPT !.state = "live", !.place = p]]
        /\ req' = [req EXCEPT ![q].todo = @ \ {a}, ![q].rows = @ \cup {r}]
        /\ UNCHANGED <<tin, window, budget, made>>

\* The same when nothing is written: the place is held, or the plan is full, and then no
\* later address of the paste is tried.
SkipPlace(q, a) ==
    LET s == req[q]
        held == PlaceHeldBy(<<s.kind, s.tin, a>>) # {}
        over == Cardinality(CountedRows(s.kind, s.tin)) >= CapOf(s.kind)
    IN  /\ s.pc = "insert"
        /\ a \in s.todo
        /\ held \/ s.full \/ (s.tin \in LiveTins /\ over)
        /\ req' = [req EXCEPT ![q].todo = @ \ {a}, ![q].full = @ \/ ~held]
        /\ UNCHANGED <<tin, row, window, budget, made>>

\* The agent was removed meanwhile: everything charged is given back.
NoTin(q) ==
    LET s == req[q]
    IN  /\ s.pc = "insert"
        /\ s.todo # {}
        /\ ~s.full
        /\ s.tin \notin LiveTins
        /\ budget' = IF s.charged > 0 THEN Refunded(s.charged, s.spentAt) ELSE budget
        /\ req' = [req EXCEPT ![q] = Idle]
        /\ UNCHANGED <<tin, row, window, made>>

\* The inserts are done: what is not checked is given back, and the added rows are checked.
EndInserts(q) ==
    LET s == req[q]
        n == Cardinality(s.rows)
    IN  /\ s.pc = "insert"
        /\ s.todo = {}
        /\ budget' = IF s.charged > n THEN Refunded(s.charged - n, s.spentAt) ELSE budget
        /\ IF s.charged > 0 /\ n > 0
           THEN /\ made' = [made EXCEPT ![s.spentAt] = @ + n]
                /\ req' = [req EXCEPT ![q] = [Idle EXCEPT !.pc = "record", !.rows = s.rows]]
           ELSE /\ req' = [req EXCEPT ![q] = Idle]
                /\ UNCHANGED made
        /\ UNCHANGED <<tin, row, window>>

\* softDeleteWallet and softDeleteDestination.
RemovePlace(r) ==
    /\ r \in LiveRows
    /\ row' = [row EXCEPT ![r] = RemovedRow]
    /\ UNCHANGED <<tin, req, window, budget, made>>
-----------------------------------------------------------------------------
(* Checks: trustDestinations, nextTrustStatus, recordTrust. *)

\* trustDestinations up to its answers: the rows are read, with the trust they have then.
StartRecheck(q, t, R) ==
    LET n == Cardinality(R)
    IN  /\ req[q].pc = "idle"
        /\ t \in LiveTins
        /\ R # {}
        /\ \A r \in R : row[r].place[1] = "destination" /\ row[r].place[2] = t
        /\ budget' = Spent(n)
        /\ IF Fits(n)
           THEN /\ made' = [made EXCEPT ![window] = @ + n]
                /\ req' = [req EXCEPT ![q] =
                            [Idle EXCEPT !.pc = "record", !.rows = R,
                                         !.flagged = {r \in R : row[r].trust = "flagged"}]]
           ELSE UNCHANGED <<made, req>>
        /\ UNCHANGED <<tin, row, window>>

Results == {"pass", "fail", "limited"}

\* nextTrustStatus: the status a destination takes, given the one that was read.
NextTrust(wasFlagged, result) ==
    CASE result = "fail" \/ wasFlagged -> "flagged"
      [] result = "pass" /\ ~wasFlagged -> "trusted"
      [] OTHER -> "pending"

\* A plausible bug: the statement has no ratchet of its own.
WrittenNoRatchet(r, status) == row[r].state = "live"

\* recordTrust's condition: a live row, and nothing but a flag over a flag.
Written(r, status) ==
    row[r].state = "live" /\ (status = "flagged" \/ row[r].trust # "flagged")

\* A plausible bug: the readout of a flagged row is replaced by the later answer.
RecordTrustAlways(q, r, result) ==
    LET s == req[q]
        status == NextTrust(r \in s.flagged, result)
        left == s.rows \ {r}
    IN  /\ s.pc = "record"
        /\ r \in s.rows
        /\ row' = IF Written(r, status)
                  THEN [row EXCEPT ![r].trust = status, ![r].readout = result]
                  ELSE row
        /\ req' = [req EXCEPT ![q] = IF left = {} THEN Idle ELSE [s EXCEPT !.rows = left]]
        /\ UNCHANGED <<tin, window, budget, made>>

\* The answer about one row is recorded, unless the row was read flagged and the answer is
\* no failure: then it stays as it is, readout and all.
RecordTrust(q, r, result) ==
    LET s == req[q]
        status == NextTrust(r \in s.flagged, result)
        kept == r \in s.flagged /\ result # "fail"
        left == s.rows \ {r}
    IN  /\ s.pc = "record"
        /\ r \in s.rows
        /\ row' = IF ~kept /\ Written(r, status)
                  THEN [row EXCEPT ![r].trust = status, ![r].readout = result]
                  ELSE row
        /\ req' = [req EXCEPT ![q] = IF left = {} THEN Idle ELSE [s EXCEPT !.rows = left]]
        /\ UNCHANGED <<tin, window, budget, made>>

\* A request that throws ends where it stands; what it paid is not given back.
RequestFails(q) ==
    /\ req[q].pc # "idle"
    /\ req' = [req EXCEPT ![q] = Idle]
    /\ UNCHANGED <<tin, row, window, budget, made>>
-----------------------------------------------------------------------------
AgentStep(q) ==
    \/ \E l \in Labels, k \in Keys \cup {None} : StartCreate(q, l, k)
    \/ \E t \in Tins : InsertTin(q, t)
    \/ \E t \in Tins, l \in Labels : StartRename(q, t, l)
    \/ \E t \in Tins, k \in Keys \cup {None} : StartRelink(q, t, k)
    \/ UpdateTin(q)

PlaceStep(q) ==
    \/ \E t \in Tins, a \in Addresses : StartAddWallet(q, t, a)
    \/ \E t \in Tins, A \in SUBSET Addresses \ {{}}, trust \in BOOLEAN : StartPaste(q, t, A, trust)
    \/ \E a \in req[q].todo, r \in Rows : InsertPlace(q, a, r)
    \/ \E a \in req[q].todo : SkipPlace(q, a)
    \/ NoTin(q)
    \/ EndInserts(q)

CheckStep(q) ==
    \/ \E t \in Tins, R \in SUBSET LiveRows : StartRecheck(q, t, R)
    \/ \E r \in req[q].rows, result \in Results : RecordTrust(q, r, result)

Next ==
    \/ NextWindow
    \/ \E t \in Tins : RemoveTin(t)
    \/ \E r \in Rows : RemovePlace(r)
    \/ \E q \in Requests : AgentStep(q) \/ PlaceStep(q) \/ CheckStep(q) \/ RequestFails(q)

Spec == Init /\ [][Next]_vars
-----------------------------------------------------------------------------
TinRecord ==
    [state : {"unborn", "live", "removed"}, label : Labels \cup {None}, key : Keys \cup {None}]

RowRecord ==
    [state : {"unborn", "live", "removed"}, place : Places \cup {NoPlace},
     trust : {"trusted", "flagged", "pending"}, readout : Results \cup {"none"}]

RequestRecord ==
    [pc : {"idle", "create", "rename", "relink", "insert", "record"},
     tin : Tins \cup {None}, label : Labels \cup {None}, key : Keys \cup {None},
     kind : Kinds, todo : SUBSET Addresses, rows : SUBSET Rows, flagged : SUBSET Rows,
     full : BOOLEAN, charged : Nat, spentAt : 0 .. MaxWindows]

TypeOK ==
    /\ tin \in [Tins -> TinRecord]
    /\ row \in [Rows -> RowRecord]
    /\ \A r \in LiveRows : row[r].place \in Places
    /\ req \in [Requests -> RequestRecord]
    /\ window \in 1 .. MaxWindows
    /\ budget \in [opened : 0 .. MaxWindows, used : 0 .. MaxChecks]
    /\ made \in [1 .. MaxWindows -> Nat]

Plan == INSTANCE VaultPlan WITH
            agents <- LiveTins, retired <- RemovedTins,
            places <- {row[r].place : r \in LiveRows}

\* The registry implements VaultPlan: whatever requests run at once, an agent is admitted
\* and a place taken only below the caps, removing an agent removes what is under it in the
\* same step, and nothing else moves (store.ts: "any number of requests at once can never
\* fill more slots than the plan has").
KeepsPlan == Plan!PlanSpec

\* Safety: the account's rows are within its plan and none is live under a removed agent.
PlanHeld == Plan!WithinPlan

\* Safety: one key is one live agent, and one place is one live row, whatever the requests
\* read before they wrote (the partial unique indexes of store.ts).
OneHolder ==
    /\ \A t, u \in LiveTins : tin[t].key = tin[u].key /\ tin[t].key # None => t = u
    /\ \A r, s \in LiveRows : row[r].place = row[s].place => r = s

\* Safety: what a destination shows is what its stored readout says: trusted only over a
\* passing one, flagged only over a failing one, whichever checks raced (vault.ts: "nothing
\* is trusted without a stored passing readout", "the reasons it was flagged stay on record").
TrustHasReadout ==
    \A r \in Rows :
        /\ row[r].trust = "trusted" => row[r].readout = "pass"
        /\ row[r].trust = "flagged" <=> row[r].readout = "fail"

\* Action: no step lifts a flag, not even a check that began before the flag was set or
\* that read another row's state (recordTrust's ratchet).
FlagStays ==
    [][\A r \in Rows :
        row[r].trust = "flagged" /\ row'[r].state = "live" => row'[r].trust = "flagged"]_vars

\* Safety: the checks paid for in one window and made, however late, are within its budget:
\* refunds of slow requests buy no room in a window they were not taken from (checkBudget.ts).
BudgetHeld == \A w \in 1 .. MaxWindows : made[w] <= MaxChecks

\* Action: an update that gives only a name leaves the linked key alone (vault.ts: "A field
\* left undefined is left alone").
RenameLeavesKey ==
    [][\A q \in Requests :
        req[q].pc = "rename" /\ req'[q].pc = "idle" =>
            \A t \in Tins : tin'[t].key = tin[t].key]_vars
=============================================================================
