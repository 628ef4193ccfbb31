------------------------------ MODULE SyncPass ------------------------------
(***************************************************************************)
(* The day's read of the chain in as many calls as it takes: runSyncCall   *)
(* of src/lib/agentVault/syncPass.ts and its table agent_wallet_reads.     *)
(*                                                                         *)
(* A call lists the wallets the day has not read yet, least recently read  *)
(* first, reads them tin by tin until its deadline, and keeps one row per  *)
(* wallet: the day it was last read in, when, how that ended, and how many *)
(* transfers the day's pass recorded.  A read itself is WalletWatch; here  *)
(* it is how it ends and how many transfers it writes.  Calls may overlap: *)
(* the workflow stops waiting after ten minutes, the call does not stop    *)
(* with it, and the workflow may be started again by hand.                 *)
(***************************************************************************)
EXTENDS Integers, FiniteSets

CONSTANTS
    Wallets,        \* the agents' wallets of every account
    First,          \* those of them that are registered at the start
    TinOf,          \* the tin of a wallet
    PlaceOf,        \* its place among wallets read at the same moment (account, tin, age, id)
    MaxDue,         \* MAX_DUE_ROWS: the most wallets one call lists
    Calls,          \* the calls that can be running at once
    Regular,        \* the job runs each day, ends before midnight, and its deadline leaves
                    \* time for a wallet
    MaxDay,         \* bound: the days are 0..MaxDay
    MaxCalls,       \* bound: calls begun per day (the workflow's max_calls)
    MaxGone,        \* bound: wallets removed
    MaxNew,         \* bound: transfers waiting to be read, per wallet
    MaxFaults       \* bound: failed statements and crashes

None == -1
Days == 0 .. MaxDay

ASSUME SyncAssumption ==
    /\ IsFiniteSet(Wallets)
    /\ First \subseteq Wallets
    /\ PlaceOf \in [Wallets -> Nat]
    /\ \A v, w \in Wallets : PlaceOf[v] = PlaceOf[w] => v = w
    /\ MaxDue \in Nat \ {0}
    /\ Regular \in BOOLEAN
    /\ MaxDay \in Nat
    /\ MaxCalls \in Nat
    /\ MaxGone \in Nat
    /\ MaxNew \in Nat
    /\ MaxFaults \in Nat

VARIABLES
    day,        \* the UTC date
    live,       \* the wallets that are registered, with their tin
    born,       \* the wallets that have been registered, removed ones included
    unread,     \* per wallet, the transfers on the chain that the ledger does not hold
    reads,      \* agent_wallet_reads
    call,       \* the calls
    calls,      \* how many calls the day has begun
    wrote,      \* per wallet and day, the transfers that day's calls wrote
    done,       \* the days a call has answered `done` for
    left,       \* history: the wallets registered since the day's last answer of `done`, and
                \* those another call had listed and not marked when it was given
    faults      \* how many faults have happened

vars == <<day, live, born, unread, reads, call, calls, wrote, done, left, faults>>

\* How a read ends a wallet for the day; `idle` counts as complete.
Finished == {"complete", "partial", "unavailable", "failed"}

NoRow == [day |-> None, at |-> 0, status |-> "none", recorded |-> 0]
NoReport == [status |-> "none", recorded |-> 0]

\* A mutant: a read that stopped at the page limit is repeated within the day.
IsDueWhenPartial(row, d) == row.day # d \/ row.status \in {"cut", "partial"}

\* The wallet has no finished read in the pass of day d (DUE).
IsDue(row, d) == row.day # d \/ row.status = "cut"

DueWallets(d) == {w \in live : IsDue(reads[w], d)}

\* v goes before w in a listing of the table `seen`: read longer ago, never read first.
GoesBefore(seen, v, w) ==
    \/ seen[v].at < seen[w].at
    \/ seen[v].at = seen[w].at /\ PlaceOf[v] < PlaceOf[w]

FirstOf(seen, S) == CHOOSE v \in S : \A w \in S \ {v} : GoesBefore(seen, v, w)

\* The wallets a call lists: of the due ones, the first MaxDue.
ListDueWallets(d) ==
    LET due == DueWallets(d)
    IN  {w \in due : Cardinality({v \in due : GoesBefore(reads, v, w)}) < MaxDue}

\* The wallets at the front of the list that share a tin, read in one tin pass.
FirstGroup(seen, S) ==
    LET f == FirstOf(seen, S)
    IN  {w \in S : /\ TinOf[w] = TinOf[f]
                   /\ \A v \in S : GoesBefore(seen, v, w) => TinOf[v] = TinOf[f]}

\* Mutants: nothing is carried; a cut of another day is carried; no row reads as null.
CarriedNothing(seen, w, d) == 0
CarriedOfAnyDay(seen, w, d) == IF seen[w].status = "cut" THEN seen[w].recorded ELSE 0
CarriedOrNull(seen, w, d) ==
    IF seen[w].day = d /\ seen[w].status = "cut" THEN seen[w].recorded ELSE None

\* What the pass had recorded of a listed wallet before a deadline cut its read.
Carried(seen, w, d) ==
    IF seen[w].day = d /\ seen[w].status = "cut" THEN seen[w].recorded ELSE 0

\* What a call has listed and not marked.
Listed(s) == s.todo \cup s.toRead \cup s.toMark

IdleCall ==
    [pc |-> "idle", day |-> None, seen |-> [w \in Wallets |-> NoRow], todo |-> {},
     toRead |-> {}, toMark |-> {}, report |-> [w \in Wallets |-> NoReport],
     late |-> FALSE, ended |-> FALSE]
-----------------------------------------------------------------------------
Init ==
    /\ day = 0
    /\ live = First
    /\ born = First
    /\ unread = [w \in Wallets |-> 0]
    /\ reads = [w \in Wallets |-> NoRow]
    /\ call = [c \in Calls |-> IdleCall]
    /\ calls = 0
    /\ wrote = [w \in Wallets |-> [d \in Days |-> 0]]
    /\ done = {}
    /\ left = {}
    /\ faults = 0

(* The world around the job. *)

NewDay ==
    /\ day < MaxDay
    /\ Regular => calls > 0 /\ \A c \in Calls : call[c].pc = "idle"
    /\ day' = day + 1
    /\ calls' = 0
    /\ UNCHANGED <<live, born, unread, reads, call, wrote, done, left, faults>>

\* A transfer becomes old enough to be read.
NewTransfer(w) ==
    /\ w \in born
    /\ unread[w] < MaxNew
    /\ unread' = [unread EXCEPT ![w] = @ + 1]
    /\ UNCHANGED <<day, live, born, reads, call, calls, wrote, done, left, faults>>

\* The owner's button or the live page reads the wallet.
OwnerReads(w) ==
    /\ unread[w] > 0
    /\ unread' = [unread EXCEPT ![w] = 0]
    /\ UNCHANGED <<day, live, born, reads, call, calls, wrote, done, left, faults>>

\* The wallet is removed, by itself or with its tin.
Remove(w) ==
    /\ w \in live
    /\ Cardinality(born \ live) < MaxGone
    /\ live' = live \ {w}
    /\ UNCHANGED <<day, born, unread, reads, call, calls, wrote, done, left, faults>>

\* A wallet is registered: it has no row, so the day is not over for it.
Register(w) ==
    /\ w \notin born
    /\ live' = live \cup {w}
    /\ born' = born \cup {w}
    /\ left' = left \cup {w}
    /\ UNCHANGED <<day, unread, reads, call, calls, wrote, done, faults>>
-----------------------------------------------------------------------------
(* One call: runSyncCall. *)

StartCall(c) ==
    /\ call[c].pc = "idle"
    /\ calls < MaxCalls
    /\ calls' = calls + 1
    /\ call' = [call EXCEPT ![c] =
            [IdleCall EXCEPT !.pc = "next", !.day = day, !.seen = reads,
                             !.todo = ListDueWallets(day)]]
    /\ UNCHANGED <<day, live, born, unread, reads, wrote, done, left, faults>>

\* The next tin's wallets: those that are still registered when its pass begins.
TakeGroup(c) ==
    LET s == call[c]
        group == FirstGroup(s.seen, s.todo)
    IN  /\ s.pc = "next"
        /\ s.todo # {}
        /\ ~s.late
        /\ call' = [call EXCEPT ![c] =
                [s EXCEPT !.pc = "read", !.todo = @ \ group, !.toRead = group \cap live]]
        /\ UNCHANGED <<day, live, born, unread, reads, calls, wrote, done, left, faults>>

\* The tin pass has ended the next wallet: it wrote n transfers of it and reports
\* `recorded` of them; `late` says whether the deadline has come.
WalletRead(c, w, n, status, recorded, late) ==
    LET s == call[c]
    IN  /\ s.pc = "read"
        /\ w \in s.toRead
        /\ w = FirstOf(s.seen, s.toRead)
        /\ n <= unread[w]
        /\ unread' = [unread EXCEPT ![w] = @ - n]
        /\ wrote' = [wrote EXCEPT ![w][s.day] = @ + n]
        /\ call' = [call EXCEPT ![c] =
                [s EXCEPT !.toRead = @ \ {w},
                          !.toMark = @ \cup {w},
                          !.report[w] = [status |-> status, recorded |-> recorded],
                          !.late = late,
                          !.ended = @ \/ status # "cut"]]
        /\ UNCHANGED <<day, live, born, reads, calls, done, left>>

\* The wallet is read to its end, or as far as the explorer answers.
ReadWallet(c, w) ==
    /\ ~call[c].late
    /\ \/ WalletRead(c, w, unread[w], "complete", unread[w], FALSE)
       \/ \E n \in 0 .. unread[w], status \in {"partial", "unavailable"} :
              WalletRead(c, w, n, status, n, FALSE)
    /\ UNCHANGED faults

\* The deadline comes while the wallet is read, or has come before it is begun.
CutWallet(c, w) ==
    /\ \/ call[c].late /\ WalletRead(c, w, 0, "cut", 0, TRUE)
       \/ /\ ~call[c].late
          /\ Regular => call[c].ended
          /\ \E n \in 0 .. unread[w] : WalletRead(c, w, n, "cut", n, TRUE)
    /\ UNCHANGED faults

\* The deadline comes between two wallets.
DeadlineComes(c) ==
    /\ call[c].pc \in {"next", "read"}
    /\ ~call[c].late
    /\ Regular => call[c].ended
    /\ call' = [call EXCEPT ![c].late = TRUE]
    /\ UNCHANGED <<day, live, born, unread, reads, calls, wrote, done, left, faults>>

\* The tin pass is over; the rows of its wallets are written one by one after it.
EndGroup(c) ==
    /\ call[c].pc = "read"
    /\ call[c].toRead = {}
    /\ call' = [call EXCEPT ![c].pc = IF call[c].toMark = {} THEN "next" ELSE "mark"]
    /\ UNCHANGED <<day, live, born, unread, reads, calls, wrote, done, left, faults>>

\* A moment after every read_at in the table.
NextMoment ==
    CHOOSE t \in {reads[w].at + 1 : w \in Wallets} : \A w \in Wallets : reads[w].at < t

\* A mutant: a finished read keeps the wallet's place too.
MarkedInPlace(row, d, status, recorded) ==
    [day |-> d, status |-> status, recorded |-> recorded, at |-> row.at]

\* The row of a read that ended: one a deadline cut keeps the wallet's place in the order.
Marked(row, d, status, recorded) ==
    [day |-> d, status |-> status, recorded |-> recorded,
     at |-> IF status = "cut" THEN row.at ELSE NextMoment]

\* A mutant: the count is added to what the row holds.
MarkWalletAdding(c, w) ==
    LET s == call[c]
        r == s.report[w]
    IN  /\ s.pc = "mark"
        /\ w \in s.toMark
        /\ w = FirstOf(s.seen, s.toMark)
        /\ reads' = [reads EXCEPT ![w] =
                Marked(@, s.day, r.status,
                       (IF @.day = s.day THEN @.recorded ELSE 0)
                           + Carried(s.seen, w, s.day) + r.recorded)]
        /\ call' = [call EXCEPT ![c].toMark = @ \ {w},
                                ![c].report[w] = NoReport,
                                ![c].pc = IF s.toMark = {w} THEN "next" ELSE "mark"]
        /\ UNCHANGED <<day, live, born, unread, calls, wrote, done, left, faults>>

\* markWalletRead, for the next wallet of the tin.
MarkWallet(c, w) ==
    LET s == call[c]
        r == s.report[w]
    IN  /\ s.pc = "mark"
        /\ w \in s.toMark
        /\ w = FirstOf(s.seen, s.toMark)
        /\ reads' = [reads EXCEPT ![w] =
                Marked(@, s.day, r.status, Carried(s.seen, w, s.day) + r.recorded)]
        /\ call' = [call EXCEPT ![c].toMark = @ \ {w},
                                ![c].report[w] = NoReport,
                                ![c].pc = IF s.toMark = {w} THEN "next" ELSE "mark"]
        /\ UNCHANGED <<day, live, born, unread, calls, wrote, done, left, faults>>

\* A mutant: the call is done when its list is.
AnswerWhenListed(c) ==
    LET s == call[c]
    IN  /\ s.pc = "next"
        /\ s.todo = {} \/ s.late
        /\ done' = IF s.todo = {} THEN done \cup {s.day} ELSE done
        /\ left' = IF s.todo = {} /\ s.day = day
                   THEN UNION {Listed(call[e]) : e \in Calls \ {c}} ELSE left
        /\ call' = [call EXCEPT ![c] = IdleCall]
        /\ UNCHANGED <<day, live, born, unread, reads, calls, wrote, faults>>

\* The list is read, or the deadline has come: the call counts what is left and answers.
Answer(c) ==
    LET s == call[c]
    IN  /\ s.pc = "next"
        /\ s.todo = {} \/ s.late
        /\ done' = IF DueWallets(s.day) = {} THEN done \cup {s.day} ELSE done
        /\ left' = IF DueWallets(s.day) = {} /\ s.day = day
                   THEN UNION {Listed(call[e]) : e \in Calls \ {c}} ELSE left
        /\ call' = [call EXCEPT ![c] = IdleCall]
        /\ UNCHANGED <<day, live, born, unread, reads, calls, wrote, faults>>
-----------------------------------------------------------------------------
(* Faults. *)

Fault == faults < MaxFaults /\ faults' = faults + 1

\* A statement of a wallet's read throws: its report counts nothing of what was written.
ReadFails(c, w) ==
    /\ Fault
    /\ ~call[c].late
    /\ \E n \in 0 .. unread[w] : WalletRead(c, w, n, "failed", 0, FALSE)

\* The tin pass cannot begin: every listed wallet of the tin has failed for the day.
TinFails(c) ==
    LET s == call[c]
        group == FirstGroup(s.seen, s.todo)
    IN  /\ Fault
        /\ s.pc = "next"
        /\ s.todo # {}
        /\ ~s.late
        /\ call' = [call EXCEPT ![c] =
                [s EXCEPT !.pc = "mark", !.todo = @ \ group, !.toMark = group,
                          !.report = [w \in Wallets |->
                              IF w \in group THEN [status |-> "failed", recorded |-> 0]
                              ELSE NoReport]]]
        /\ UNCHANGED <<day, live, born, unread, reads, calls, wrote, done, left>>

\* The process ends, or a statement of the call itself throws.
Crash(c) ==
    /\ Fault
    /\ call[c].pc # "idle"
    /\ call' = [call EXCEPT ![c] = IdleCall]
    /\ UNCHANGED <<day, live, born, unread, reads, calls, wrote, done, left>>

WorldStep(w) == NewTransfer(w) \/ OwnerReads(w) \/ Remove(w) \/ Register(w)

CallStep(c) ==
    \/ StartCall(c)
    \/ TakeGroup(c)
    \/ \E w \in Wallets : ReadWallet(c, w) \/ CutWallet(c, w) \/ MarkWallet(c, w)
    \/ EndGroup(c)
    \/ Answer(c)

FaultStep(c) ==
    \/ \E w \in Wallets : ReadFails(c, w)
    \/ TinFails(c)
    \/ Crash(c)

Next ==
    \/ NewDay
    \/ \E w \in Wallets : WorldStep(w)
    \/ \E c \in Calls : CallStep(c) \/ DeadlineComes(c) \/ FaultStep(c)

Spec == Init /\ [][Next]_vars

\* The job is started every day and a running call takes its next step.
FairSpec ==
    /\ Spec
    /\ WF_vars(NewDay)
    /\ \A c \in Calls : WF_vars(CallStep(c))
-----------------------------------------------------------------------------
(* Properties. *)

ReadStatuses == Finished \cup {"cut"}

CallRecord ==
    [pc : {"idle", "next", "read", "mark"},
     day : Days \cup {None},
     seen : [Wallets -> [day : Days \cup {None}, at : Nat,
                         status : ReadStatuses \cup {"none"}, recorded : Nat]],
     todo : SUBSET Wallets,         \* listed and not begun
     toRead : SUBSET Wallets,       \* of the tin being read, not read yet
     toMark : SUBSET Wallets,       \* of the tin being read, read and not marked yet
     report : [Wallets -> [status : ReadStatuses \cup {"none"}, recorded : Nat]],
     late : BOOLEAN,                \* the call's deadline has come
     ended : BOOLEAN]               \* the call has read some wallet to an end

TypeOK ==
    /\ day \in Days
    /\ live \subseteq born
    /\ born \subseteq Wallets
    /\ unread \in [Wallets -> 0 .. MaxNew]
    /\ reads \in [Wallets -> [day : Days \cup {None}, at : Nat,
                              status : ReadStatuses \cup {"none"}, recorded : Nat]]
    /\ call \in [Calls -> CallRecord]
    /\ calls \in 0 .. MaxCalls
    /\ wrote \in [Wallets -> [Days -> Nat]]
    /\ done \subseteq Days
    /\ left \subseteq Wallets
    /\ faults \in 0 .. MaxFaults

AllIdle == \A c \in Calls : call[c].pc = "idle"

\* The row of a wallet counts what the day's calls wrote of it, over as many cuts as there
\* were (syncPass.ts: "how many transfers it newly recorded in the pass").
RecordedExact ==
    AllIdle => \A w \in Wallets :
        reads[w].day # None => reads[w].recorded = wrote[w][reads[w].day]

\* However calls overlap, fail or die, and whatever a cut read carries over, no transfer is
\* counted twice in a day's pass.
NeverOvercounted ==
    \A w \in Wallets :
        reads[w].day # None => reads[w].recorded <= wrote[w][reads[w].day]

\* A wallet whose read has ended in the day's pass is not read in it again (syncPass.ts:
\* "Every wallet is read once in a pass before any is read twice").
FinishedStays ==
    [][\A w \in Wallets :
        reads[w].day = day /\ reads[w].status \in Finished /\ day' = day
            => reads'[w] = reads[w]]_vars

\* Once a call has answered `done`, nothing of the day is left to read but the wallets that
\* are registered after it and those that another call, still running, had listed before it
\* and marks after it (syncPass.ts: "True when this pass has no wallet left to read").
DoneStays == day \in done => DueWallets(day) \subseteq left

\* The order starves no wallet: even when a day has time for one wallet only, each one's
\* read comes to an end.
EveryWalletRead ==
    \A w \in Wallets : <>(w \notin live \/ reads[w].status \in Finished)
=============================================================================
