----------------------------- MODULE WalletWatch -----------------------------
(***************************************************************************)
(* One tin's wallets read by the Agent Vault watcher: runTinPass,          *)
(* watchWallet and scanAction of src/lib/agentVault/watcher.ts, with the   *)
(* cursor table of watchState.ts and the append-only ledger of events.ts.  *)
(*                                                                         *)
(* A pass is one run of runTinPass: the daily job, the owner's button or   *)
(* the live page, so several run at once.  It takes a copy of the cursor   *)
(* table, then reads wallet after wallet: the listings page by page, each  *)
(* transfer into the ledger, then the wallet's cursor.  Between two awaits *)
(* anything else may happen: a row indexed late, another pass's write, the *)
(* deadline, the end of the process.                                       *)
(***************************************************************************)
EXTENDS ExplorerListing, Sequences

CONSTANTS
    Passes,         \* the passes that can be running at once
    RegisteredAt,   \* the second a wallet was registered
    OldestPair,     \* its oldest pair cursor from the old scheme, or None
    Lag,            \* CONFIRMATION_LAG_S: how old a block must be to be read
    Overlap,        \* CURSOR_OVERLAP_S: how far back a completed read starts the next one
    IndexDelay,     \* how long after its block the explorer may list a row
    MaxTime,        \* bound: the clock stops here
    MaxFaults       \* bound: outages, failed writes, deadlines and crashes

None == -1

ASSUME WatchAssumption ==
    /\ Wallets # {}
    /\ RegisteredAt \in [Wallets -> Nat]
    /\ OldestPair \in [Wallets -> Nat \cup {None}]
    /\ Lag \in Nat
    /\ Overlap \in Nat
    /\ IndexDelay \in Nat
    /\ MaxTime \in Nat
    /\ MaxFaults \in Nat
    /\ \A w \in Wallets : Overlap <= RegisteredAt[w]  \* times are seconds since 1970

VARIABLES
    now,        \* the clock, in seconds
    indexed,    \* the rows the explorer lists by now
    ledger,     \* the transaction events written
    cursor,     \* agent_wallet_cursors: through_at per wallet, None when there is no row
    pass,       \* the passes
    faults      \* how many faults have happened

vars == <<now, indexed, ledger, cursor, pass, faults>>

\* A movement's name: the row, and how many identical rows came before it in the same
\* read (the end of the `leg`; the hash and the rest of the leg are the row's own).
Event == [row : Rows, ordinal : Nat]

Endings == {"complete", "page_limit", "explorer_unavailable", "deadline", "dense_block"}
Reasons == (Endings \ {"complete"}) \cup {"none", "too_new", "write_failed"}
Statuses == {"none", "idle", "partial", "unavailable", "failed", "complete"}

Max2(a, b) == IF a >= b THEN a ELSE b
Min2(a, b) == IF a <= b THEN a ELSE b

\* Where a wallet's read starts, given a copy of the cursor table (walletStartMs).
WalletStart(w, seen) ==
    Max2(RegisteredAt[w], IF seen[w] # None THEN seen[w] ELSE OldestPair[w])

NoRows == [r \in Rows |-> 0]

IdlePass ==
    [pc |-> "idle", seen |-> [w \in Wallets |-> None], todo |-> {}, late |-> FALSE,
     wallet |-> CHOOSE w \in Wallets : TRUE, from |-> 0, horizon |-> 0, first |-> 0,
     last |-> 0, listing |-> 1, page |-> 1, got |-> NoRows, ends |-> << >>,
     reached |-> None, work |-> {}, event |-> {}, status |-> "none", reason |-> "none"]

\* The pass has ended its wallet with this report and goes on to the next one.
Reported(s, status, reason) ==
    [IdlePass EXCEPT !.pc = "choose", !.seen = s.seen, !.todo = s.todo \ {s.wallet},
                     !.late = s.late, !.wallet = s.wallet, !.ends = s.ends,
                     !.status = status, !.reason = reason]
-----------------------------------------------------------------------------
(* Reading one listing: scanAction. *)

RowsRead(got) == {r \in Rows : got[r] > 0}

CutBlock(R) ==
    CHOOSE b \in Blocks : /\ \E r \in R : BlockOf[r] = b
                          /\ \A r \in R : BlockOf[r] <= b

\* A read that ended early keeps only the blocks it read whole: all but its last.
KeptRows(R, complete) ==
    IF complete THEN R ELSE {r \in R : BlockOf[r] < CutBlock(R)}

\* A mutant: the ordinals go on from what the ledger holds, not from none in this read.
EventsOfCountingLedger(w, kept, got) ==
    {e \in [row : kept \cap Movements, ordinal : 0 .. Cardinality(Rows)] :
        /\ e.ordinal = Cardinality({d \in ledger : d.row = e.row})
        /\ RegisteredAt[w] <= TimeOf(e.row)}

\* The transfers to write for these rows: the movements since the registration, each
\* as often as its row was read (normalizeTransfers, and the first test of the write loop).
EventsOf(w, kept, got) ==
    {e \in [row : kept \cap Movements, ordinal : 0 .. Cardinality(Rows)] :
        /\ e.ordinal < got[e.row]
        /\ RegisteredAt[w] <= TimeOf(e.row)}

\* A mutant: the cut block counts as read.
ReachedInCutBlock(s, got, ended) ==
    LET R == RowsRead(got)
    IN  IF ended = "complete" THEN s.horizon - Overlap
        ELSE IF KeptRows(R, FALSE) = {} THEN None
        ELSE BlockTime[CutBlock(R)]

\* A mutant: a complete read claims everything up to the horizon.
ReachedInNoOverlap(s, got, ended) ==
    LET R == RowsRead(got)
    IN  IF ended = "complete" THEN s.horizon
        ELSE IF KeptRows(R, FALSE) = {} THEN None
        ELSE BlockTime[CutBlock(R)] - 1

\* The second every transfer of the listing was read up to; None when the read got nowhere.
ReachedIn(s, got, ended) ==
    LET R == RowsRead(got)
    IN  IF ended = "complete" THEN s.horizon - Overlap
        ELSE IF KeptRows(R, FALSE) = {} THEN None
        ELSE BlockTime[CutBlock(R)] - 1

\* A read of full pages that kept nothing met a block it cannot read whole.
EndingOf(got, ended) ==
    IF ended = "page_limit" /\ KeptRows(RowsRead(got), FALSE) = {} THEN "dense_block" ELSE ended

\* The pass s with its current listing read as `got` and ended for the reason `ended`.
ListingClosed(s, got, ended) ==
    LET kept == KeptRows(RowsRead(got), ended = "complete")
        at == ReachedIn(s, got, ended)
    IN  [s EXCEPT !.work = @ \cup EventsOf(s.wallet, kept, got),
                  !.reached = IF @ = None \/ at = None THEN None ELSE Min2(@, at),
                  !.ends = Append(@, EndingOf(got, ended)),
                  !.listing = @ + 1,
                  !.page = 1,
                  !.got = NoRows,
                  !.pc = IF s.listing = ListingCount THEN "record" ELSE "scan"]

\* The reason of the first listing that did not run to its end.
FirstShortfall(ends) ==
    ends[CHOOSE i \in DOMAIN ends :
            ends[i] # "complete" /\ \A j \in 1 .. i - 1 : ends[j] = "complete"]

AllComplete(ends) == \A i \in DOMAIN ends : ends[i] = "complete"
-----------------------------------------------------------------------------
Init ==
    /\ now = 0
    /\ indexed = {}
    /\ ledger = {}
    /\ cursor = [w \in Wallets |-> None]
    /\ pass = [p \in Passes |-> IdlePass]
    /\ faults = 0

\* The clock.  A row is listed at the latest IndexDelay after its block.
Tick ==
    /\ now < MaxTime
    /\ \A r \in Rows : TimeOf(r) + IndexDelay <= now => r \in indexed
    /\ now' = now + 1
    /\ UNCHANGED <<indexed, ledger, cursor, pass, faults>>

\* The explorer lists a row of a block that has been mined.
Index(r) ==
    /\ r \notin indexed
    /\ TimeOf(r) <= now
    /\ indexed' = indexed \cup {r}
    /\ UNCHANGED <<now, ledger, cursor, pass, faults>>

\* runTinPass begins: the tin's wallets and a copy of their cursors.
StartPass(p) ==
    /\ pass[p].pc = "idle"
    /\ pass' = [pass EXCEPT ![p] =
                    [IdlePass EXCEPT !.pc = "choose", !.seen = cursor,
                                     !.todo = {w \in Wallets : RegisteredAt[w] <= now}]]
    /\ UNCHANGED <<now, indexed, ledger, cursor, faults>>

EndPass(p) ==
    /\ pass[p].pc = "choose"
    /\ pass[p].todo = {}
    /\ pass' = [pass EXCEPT ![p] = IdlePass]
    /\ UNCHANGED <<now, indexed, ledger, cursor, faults>>

\* A mutant: the newest blocks are read too.
TakeWalletNoLag(p, w) ==
    LET s == [pass[p] EXCEPT !.wallet = w, !.ends = << >>]
        from == WalletStart(w, s.seen)
    IN  /\ s.pc = "choose"
        /\ w \in s.todo
        /\ ~s.late
        /\ from < now
        /\ \E first, last \in Blocks :
              /\ IsBlockAt(first, from)
              /\ IsBlockAt(last, now)
              /\ pass' = [pass EXCEPT ![p] =
                      [s EXCEPT !.pc = "scan", !.from = from, !.horizon = now,
                                !.first = first, !.last = last, !.reached = now,
                                !.status = "none", !.reason = "none"]]
        /\ UNCHANGED <<now, indexed, ledger, cursor, faults>>

\* The next wallet of the pass, which ends at once when the deadline has come or when
\* nothing of it is old enough, and is read from its start to the horizon otherwise.
TakeWallet(p, w) ==
    LET s == [pass[p] EXCEPT !.wallet = w, !.ends = << >>]
        from == WalletStart(w, s.seen)
        horizon == now - Lag
    IN  /\ s.pc = "choose"
        /\ w \in s.todo
        /\ \/ /\ s.late
              /\ pass' = [pass EXCEPT ![p] = Reported(s, "partial", "deadline")]
           \/ /\ ~s.late
              /\ from >= horizon
              /\ pass' = [pass EXCEPT ![p] = Reported(s, "idle", "too_new")]
           \/ /\ ~s.late
              /\ from < horizon
              /\ \E first, last \in Blocks :
                    /\ IsBlockAt(first, from)
                    /\ IsBlockAt(last, horizon)
                    /\ pass' = [pass EXCEPT ![p] =
                            [s EXCEPT !.pc = "scan", !.from = from, !.horizon = horizon,
                                      !.first = first, !.last = last, !.reached = horizon,
                                      !.status = "none", !.reason = "none"]]
        /\ UNCHANGED <<now, indexed, ledger, cursor, faults>>

\* A mutant: one page more than MaxPages.
ReadPageOneMore(p) ==
    LET s == pass[p]
        V == Listed(indexed, s.wallet, s.listing, s.first, s.last)
        got == [r \in Rows |-> s.got[r] + (IF r \in PageRows(V, s.page) THEN 1 ELSE 0)]
    IN  /\ s.pc = "scan"
        /\ ~s.late
        /\ pass' = [pass EXCEPT ![p] =
                CASE ShortPage(V, s.page) -> ListingClosed(s, got, "complete")
                  [] ~ShortPage(V, s.page) /\ s.page > MaxPages -> ListingClosed(s, got, "page_limit")
                  [] ~ShortPage(V, s.page) /\ s.page <= MaxPages -> [s EXCEPT !.got = got, !.page = @ + 1]]
        /\ UNCHANGED <<now, indexed, ledger, cursor, faults>>

\* One page of the listing, as the explorer has it now.
ReadPage(p) ==
    LET s == pass[p]
        V == Listed(indexed, s.wallet, s.listing, s.first, s.last)
        got == [r \in Rows |-> s.got[r] + (IF r \in PageRows(V, s.page) THEN 1 ELSE 0)]
    IN  /\ s.pc = "scan"
        /\ ~s.late
        /\ pass' = [pass EXCEPT ![p] =
                CASE ShortPage(V, s.page) -> ListingClosed(s, got, "complete")
                  [] ~ShortPage(V, s.page) /\ s.page = MaxPages -> ListingClosed(s, got, "page_limit")
                  [] ~ShortPage(V, s.page) /\ s.page # MaxPages -> [s EXCEPT !.got = got, !.page = @ + 1]]
        /\ UNCHANGED <<now, indexed, ledger, cursor, faults>>

\* The deadline has come before the next page: the listing is cut where it is.
CutListing(p) ==
    LET s == pass[p]
    IN  /\ s.pc = "scan"
        /\ s.late
        /\ pass' = [pass EXCEPT ![p] = ListingClosed(s, s.got, "deadline")]
        /\ UNCHANGED <<now, indexed, ledger, cursor, faults>>

\* The next transfer, oldest first: already in the ledger, or to be written.
TakeTransfer(p, e) ==
    LET s == pass[p]
    IN  /\ s.pc = "record"
        /\ e \in s.work
        /\ \A d \in s.work : TimeOf(e.row) <= TimeOf(d.row)
        /\ pass' = [pass EXCEPT ![p] =
                IF e \in ledger
                THEN [s EXCEPT !.work = @ \ {e}]
                ELSE [s EXCEPT !.work = @ \ {e}, !.event = {e}, !.pc = "write"]]
        /\ UNCHANGED <<now, indexed, ledger, cursor, faults>>

\* insertTransactionEvent: INSERT ... ON CONFLICT (id) DO NOTHING.
WriteTransfer(p) ==
    LET s == pass[p]
    IN  /\ s.pc = "write"
        /\ ledger' = ledger \cup s.event
        /\ pass' = [pass EXCEPT ![p].event = {}, ![p].pc = "record"]
        /\ UNCHANGED <<now, indexed, cursor, faults>>

\* Every transfer is written, but some listing got nowhere: the cursor stays.
EndUnmoved(p) ==
    LET s == pass[p]
        why == FirstShortfall(s.ends)
    IN  /\ s.pc = "record"
        /\ s.work = {}
        /\ s.reached = None
        /\ pass' = [pass EXCEPT ![p] =
                Reported(s, IF why = "deadline" THEN "partial" ELSE "unavailable", why)]
        /\ UNCHANGED <<now, indexed, ledger, cursor, faults>>

\* A mutant: the cursor is written before the transfers are.
AdvanceCursorFirst(p) ==
    LET s == pass[p]
    IN  /\ s.pc = "record"
        /\ s.reached # None
        /\ cursor' = [cursor EXCEPT ![s.wallet] = Max2(@, s.reached)]
        /\ pass' = [pass EXCEPT ![p] =
                IF s.work = {} THEN Reported(s, "complete", "none") ELSE s]
        /\ UNCHANGED <<now, indexed, ledger, faults>>

\* A mutant: the statement names the tin and forgets the wallet.
AdvanceCursorOfTin(p) ==
    LET s == pass[p]
    IN  /\ s.pc = "record"
        /\ s.work = {}
        /\ s.reached # None
        /\ cursor' = [w \in Wallets |-> s.reached]
        /\ pass' = [pass EXCEPT ![p] = Reported(s, "complete", "none")]
        /\ UNCHANGED <<now, indexed, ledger, faults>>

\* A mutant: a read that was cut leaves the cursor where it was.
AdvanceCursorOfComplete(p) ==
    LET s == pass[p]
    IN  /\ s.pc = "record"
        /\ s.work = {}
        /\ s.reached # None
        /\ cursor' = [cursor EXCEPT ![s.wallet] =
                IF AllComplete(s.ends) THEN Max2(@, s.reached) ELSE @]
        /\ pass' = [pass EXCEPT ![p] =
                IF AllComplete(s.ends) THEN Reported(s, "complete", "none")
                ELSE Reported(s, "partial", FirstShortfall(s.ends))]
        /\ UNCHANGED <<now, indexed, ledger, faults>>

\* The wallet's read is written, and it got somewhere.
Advances(s) == s.pc = "record" /\ s.work = {} /\ s.reached # None

\* The cursor table after advanceWalletCursor: the later of this read and of the copy
\* taken at the start.
Advanced(s) ==
    [cursor EXCEPT ![s.wallet] =
        Max2(s.reached, IF s.seen[s.wallet] = None THEN 0 ELSE s.seen[s.wallet])]

AdvanceCursor(p) ==
    LET s == pass[p]
    IN  /\ Advances(s)
        /\ cursor' = Advanced(s)
        /\ pass' = [pass EXCEPT ![p] =
                IF AllComplete(s.ends) THEN Reported(s, "complete", "none")
                ELSE Reported(s, "partial", FirstShortfall(s.ends))]
        /\ UNCHANGED <<now, indexed, ledger, faults>>
-----------------------------------------------------------------------------
(* Faults. *)

Fault == faults < MaxFaults /\ faults' = faults + 1

\* The explorer answers null, to a block lookup or to a page.
ExplorerFails(p) ==
    LET s == pass[p]
    IN  /\ Fault
        /\ \/ \E w \in s.todo :
                /\ s.pc = "choose"
                /\ ~s.late
                /\ WalletStart(w, s.seen) < now - Lag
                /\ pass' = [pass EXCEPT ![p] =
                        Reported([s EXCEPT !.wallet = w, !.ends = <<"explorer_unavailable">>],
                                 "unavailable", "explorer_unavailable")]
           \/ /\ s.pc = "scan"
              /\ ~s.late
              /\ pass' = [pass EXCEPT ![p] = ListingClosed(s, s.got, "explorer_unavailable")]
        /\ UNCHANGED <<now, indexed, ledger, cursor>>

\* A statement of the wallet's read throws: the wallet is `failed`, the pass goes on.
\* What was lost may be its answer only, after the row was written.
DatabaseFails(p) ==
    LET s == pass[p]
    IN  /\ Fault
        /\ s.pc \in {"record", "write"}
        /\ \/ ledger' \in {ledger, ledger \cup s.event} /\ UNCHANGED cursor
           \/ Advances(s) /\ cursor' = Advanced(s) /\ UNCHANGED ledger
        /\ pass' = [pass EXCEPT ![p] = Reported(s, "failed", "write_failed")]
        /\ UNCHANGED <<now, indexed>>

DeadlineComes(p) ==
    /\ Fault
    /\ pass[p].pc # "idle"
    /\ ~pass[p].late
    /\ pass' = [pass EXCEPT ![p].late = TRUE]
    /\ UNCHANGED <<now, indexed, ledger, cursor>>

\* The process ends: the pass is forgotten, what it wrote stays.
Crash(p) ==
    /\ Fault
    /\ pass[p].pc # "idle"
    /\ pass' = [pass EXCEPT ![p] = IdlePass]
    /\ UNCHANGED <<now, indexed, ledger, cursor>>

PassStep(p) ==
    \/ StartPass(p)
    \/ EndPass(p)
    \/ \E w \in Wallets : TakeWallet(p, w)
    \/ ReadPage(p)
    \/ CutListing(p)
    \/ \E e \in pass[p].work : TakeTransfer(p, e)
    \/ WriteTransfer(p)
    \/ EndUnmoved(p)
    \/ AdvanceCursor(p)

FaultStep(p) ==
    \/ ExplorerFails(p)
    \/ DatabaseFails(p)
    \/ DeadlineComes(p)
    \/ Crash(p)

Next ==
    \/ Tick
    \/ \E r \in Rows : Index(r)
    \/ \E p \in Passes : PassStep(p) \/ FaultStep(p)

Spec == Init /\ [][Next]_vars

\* The clock runs, every row is listed in the end, passes keep being started (the daily
\* job) and a running one takes its next step.
FairSpec ==
    /\ Spec
    /\ WF_vars(Tick)
    /\ \A r \in Rows : WF_vars(Index(r))
    /\ \A p \in Passes : WF_vars(PassStep(p))
-----------------------------------------------------------------------------
(* Properties. *)

Movement(r) == [row |-> r, ordinal |-> 0]

\* The transfers a wallet's record owes its owner: its movements after the moment its
\* first read starts from.
Owed(w) ==
    {r \in Movements : /\ w \in SidesOf[r]
                       /\ Max2(RegisteredAt[w], OldestPair[w]) < TimeOf(r)}

\* The ledger holds, for wallet w, every owed transfer up to second s.
RecordedThrough(w, s) == \A r \in Owed(w) : TimeOf(r) <= s => Movement(r) \in ledger

PassRecord ==
    [pc : {"idle", "choose", "scan", "record", "write"},
     seen : [Wallets -> Nat \cup {None}],      \* the copy of the cursor table
     todo : SUBSET Wallets,                    \* the wallets still to read
     late : BOOLEAN,                           \* the deadline has come
     wallet : Wallets,                         \* the wallet being read, or read last
     from : Nat, horizon : Nat,                \* from its start to the newest second to read
     first : Blocks, last : Blocks,            \* the same as blocks
     listing : 1 .. ListingCount + 1,
     page : 1 .. MaxPages,
     got : [Rows -> Nat],                      \* how often each row of the listing was read
     ends : Seq(Endings),                      \* how the listings read so far ended
     reached : Nat \cup {None},                \* how far the read got; None when it got nowhere
     work : SUBSET Event,                      \* the transfers still to write
     event : SUBSET Event,                     \* the transfer being written
     status : Statuses, reason : Reasons]      \* the wallet's report

TypeOK ==
    /\ now \in 0 .. MaxTime
    /\ indexed \subseteq Rows
    /\ ledger \subseteq Event
    /\ cursor \in [Wallets -> Nat \cup {None}]
    /\ pass \in [Passes -> PassRecord]
    /\ faults \in 0 .. MaxFaults

\* A cursor never claims more than was written: whatever passes overlap, are cut, fail
\* or die, every transfer of the wallet up to its cursor is in the ledger, so the next
\* read, which starts there, leaves nothing out (watchState.ts: "every transfer of this
\* wallet up to this time has been read").
CursorTrue == \A w \in Wallets : cursor[w] # None => RecordedThrough(w, cursor[w])

\* A movement is written once, however often, by however many passes and from however
\* many of the tin's own wallets its row is read (watcher.ts: "a movement is written once").
WrittenOnce == \A e \in ledger : e.ordinal = 0

\* Only a transfer old enough to be safe from a reorganization is written, only since the
\* registration of a wallet on one of its sides (watcher.ts: "The newest few minutes are
\* never read", "Only the wallet's own history, from its registration").
RecordedConfirmed ==
    \A e \in ledger :
        /\ e.row \in Movements
        /\ TimeOf(e.row) + Lag <= now
        /\ \E w \in SidesOf[e.row] : RegisteredAt[w] <= TimeOf(e.row)

\* A cursor only ever moves forward (watchState.ts: "an older pass finishing late cannot
\* move one back").
CursorForward == [][\A w \in Wallets : cursor'[w] >= cursor[w]]_vars

\* A wallet whose read the deadline cut is reported as cut by it, so that the day's pass
\* reads on from its cursor (syncPass.ts: "cut by a call's deadline: not done").
DeadlineCutReported ==
    \A p \in Passes :
        /\ pass[p].status \in {"partial", "unavailable"}
        /\ \E i \in DOMAIN pass[p].ends : pass[p].ends[i] = "deadline"
        => pass[p].status = "partial" /\ pass[p].reason = "deadline"

\* Every transfer a wallet is owed reaches the ledger once it is old enough.
OwedRecorded ==
    \A w \in Wallets : \A r \in Owed(w) :
        TimeOf(r) + Lag <= MaxTime => <>(Movement(r) \in ledger)

OwedEvents(w) == {Movement(r) : r \in Owed(w)}
MovementEvents == {Movement(r) : r \in Movements}

\* What the watcher promises, and how its state stands for it.
Promise == INSTANCE TransferRecord WITH
    Transfers <- MovementEvents,
    At <- [e \in MovementEvents |-> TimeOf(e.row)],
    Owed <- OwedEvents,
    recorded <- ledger,
    through <- cursor

\* The watcher implements the promise: it writes a transfer once and when it is old
\* enough, never removes one, and claims only what is true.
KeepsPromise == Promise!Spec
=============================================================================
