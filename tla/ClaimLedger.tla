---------------------------- MODULE ClaimLedger -----------------------------
(***************************************************************************)
(* The financing claims of one receivable: addClaim, dischargeClaim,       *)
(* addExtension, markUnpaid, reverifyReceivable, settleReceivable and      *)
(* deleteReceivable of src/lib/receivablesRegistry.ts, and the lapse of    *)
(* receivables/aging.ts.                                                   *)
(*                                                                         *)
(* A claim may take what the others leave of the face value.  One its      *)
(* lender has not touched for LapseAfter days counts no more, and counts   *)
(* again with the next dated update.  Every call reads first and writes    *)
(* in a later statement, so discharges, updates, a settlement, the         *)
(* withdrawal of the record and the days come in between.                  *)
(***************************************************************************)
EXTENDS Integers, FiniteSets, FiniteSetsExt

CONSTANTS
    Claims,         \* the claims that can be recorded
    Tenants,        \* the lenders
    Face,           \* the receivable's face value
    Amounts,        \* the amounts claimed
    LapseAfter,     \* LAPSE_AFTER_DAYS
    Runs,           \* the calls that can be under way at once
    MaxDay,         \* bound: the days
    None

ASSUME LedgerAssumption ==
    /\ IsFiniteSet(Claims)
    /\ Face \in Nat
    /\ Amounts \subseteq Nat \ {0}
    /\ LapseAfter \in Nat \ {0}
    /\ MaxDay \in Nat
    /\ None \notin Tenants \cup Claims \cup Runs

VARIABLES
    day,
    record,     \* the row of receivables: deleted_at, and whose settlement is kept
    claim,      \* receivable_claims, with the last touch of each
    run,        \* the calls: their local variables
    early       \* history: of the calls under way at the withdrawal, those that still are

vars == <<day, record, claim, run, early>>

\* `touched`: the latest of created_at, affirmed_at, the status events and the lender's own
\* re-verifications.  `over`: exceeds_headroom is signed into the claim.  `release`: the call
\* whose discharge is kept.  `missed`, `overtaken`: history; a claim that found room was
\* recorded while this one was lapsed; another was inserted between its sum and its insert.
NoClaim == [status |-> "none", by |-> None, amount |-> 0, over |-> FALSE, affirmed |-> FALSE,
            touched |-> 0, release |-> None, missed |-> FALSE, overtaken |-> FALSE]

\* `settled`: the record was settled when the call read it.  `missed`: history, the lapsed
\* claims its sum left out.
IdleRun == [pc |-> "idle", by |-> None, claim |-> None, amount |-> 0, forced |-> FALSE,
            at |-> 0, settled |-> FALSE, missed |-> {}, overtaken |-> FALSE]

Init ==
    /\ day = 0
    /\ record = [withdrawn |-> FALSE, settled |-> None]
    /\ claim = [c \in Claims |-> NoClaim]
    /\ run = [r \in Runs |-> IdleRun]
    /\ early = {}

Active(c) == claim[c].status = "active"

\* A mutant: a claim lapses a day early.
LapsesEarly(touched, d) == d - touched >= LapseAfter - 1

\* agingStateOf: LAPSE_AFTER_DAYS without a touch.
Lapses(touched, d) == d - touched >= LapseAfter

\* claimAgingByClaimId: a settled receivable makes every claim 'settled', never lapsed.
Lapsed(c, settled) == ~settled /\ Lapses(claim[c].touched, day)

\* encumberedClaimSum, of a record that was read with its settlement.
Encumbered(settled) ==
    MapThenSumSet(LAMBDA c : claim[c].amount, {c \in Claims : Active(c) /\ ~Lapsed(c, settled)})

\* History: the claims that LAPSE_AFTER_DAYS without a touch keep out of a call's sum.
Asleep(r) ==
    {c \in Claims : Active(c) /\ ~run[r].settled /\ day - claim[c].touched >= LapseAfter}

Done(r) ==
    /\ run' = [run EXCEPT ![r] = IdleRun]
    /\ early' = early \ {r}

Begin(r, pc, by, c, at) ==
    run' = [run EXCEPT ![r] = [IdleRun EXCEPT !.pc = pc, !.by = by, !.claim = c, !.at = at]]

NewDay ==
    /\ day < MaxDay
    /\ day' = day + 1
    /\ UNCHANGED <<record, claim, run, early>>
-----------------------------------------------------------------------------
(* addClaim. *)

\* A mutant: addClaim reads a withdrawn record too.
CallAddClaimAnyRecord(r, t, n, forced) ==
    /\ run[r].pc = "idle"
    /\ run' = [run EXCEPT ![r] = [IdleRun EXCEPT !.pc = "sum", !.by = t, !.amount = n,
                                                 !.forced = forced,
                                                 !.settled = record.settled # None]]
    /\ UNCHANGED <<day, record, claim, early>>

\* It reads the live record.  Two of these at once may both fit the same headroom, a gap its
\* comment documents.
CallAddClaim(r, t, n, forced) ==
    /\ run[r].pc = "idle"
    /\ ~record.withdrawn
    /\ run' = [run EXCEPT ![r] = [IdleRun EXCEPT !.pc = "sum", !.by = t, !.amount = n,
                                                 !.forced = forced,
                                                 !.settled = record.settled # None]]
    /\ UNCHANGED <<day, record, claim, early>>

\* The headroom, by the settlement the call had read: past it the claim must say it knows.
SumClaims(r) ==
    LET fits == run[r].amount <= Face - Encumbered(run[r].settled)
    IN  /\ run[r].pc = "sum"
        /\ IF fits \/ run[r].forced
           THEN /\ run' = [run EXCEPT ![r] = [@ EXCEPT !.pc = "insert", !.forced = ~fits,
                                                       !.missed = Asleep(r)]]
                /\ UNCHANGED early
           ELSE Done(r)
        /\ UNCHANGED <<day, record, claim>>

\* The diligence gate (no debtor has confirmed, and the lender has not accepted to answer for
\* it), or the duplicate check with a caller that accepts warnings.
RefuseClaim(r) ==
    /\ run[r].pc \in {"sum", "insert"}
    /\ Done(r)
    /\ UNCHANGED <<day, record, claim>>

\* The claim that a call's INSERT records: the code that was raised and acknowledged is signed
\* into it.
NewClaim(r) ==
    [NoClaim EXCEPT !.status = "active", !.by = run[r].by, !.amount = run[r].amount,
                    !.over = run[r].forced, !.touched = day, !.overtaken = run[r].overtaken]

\* The INSERT.
InsertClaim(r, c) ==
    /\ run[r].pc = "insert"
    /\ claim[c].status = "none"
    /\ claim' = [d \in Claims |->
            IF d = c THEN NewClaim(r)
            ELSE [claim[d] EXCEPT !.missed = @ \/ /\ d \in run[r].missed
                                                  /\ Active(d)
                                                  /\ ~run[r].forced
                                                  /\ ~run[r].overtaken]]
    /\ run' = [s \in Runs |->
            IF s = r THEN IdleRun
            ELSE [run[s] EXCEPT !.overtaken = @ \/ run[s].pc = "insert"]]
    /\ early' = early \ {r}
    /\ UNCHANGED <<day, record>>
-----------------------------------------------------------------------------
(* A lender's own claim. *)

\* dischargeClaim reads it; the record may be withdrawn.
CallDischarge(r, c) ==
    /\ run[r].pc = "idle"
    /\ Active(c)
    /\ Begin(r, "discharge", None, c, 0)
    /\ UNCHANGED <<day, record, claim, early>>

\* A mutant: the update writes a status nothing else knows.
DischargedReleased(r) == [NoClaim EXCEPT !.status = "released", !.release = r]

\* Of a discharged claim nothing else is read any more: its later touches are left out.
Discharged(r) == [NoClaim EXCEPT !.status = "discharged", !.release = r]

\* A mutant: the update does not look at the status.
WriteDischargeAlways(r) ==
    /\ run[r].pc = "discharge"
    /\ claim' = [claim EXCEPT ![run[r].claim] = Discharged(r)]
    /\ Done(r)
    /\ UNCHANGED <<day, record>>

\* The guarded update: a discharge that landed first is the one that is kept.
WriteDischarge(r) ==
    LET c == run[r].claim
    IN  /\ run[r].pc = "discharge"
        /\ claim' = IF Active(c) THEN [claim EXCEPT ![c] = Discharged(r)] ELSE claim
        /\ Done(r)
        /\ UNCHANGED <<day, record>>

\* readOwnClaimForUpdate: the claim is active and its record live.
CallEvent(r, c) ==
    /\ run[r].pc = "idle"
    /\ Active(c)
    /\ ~record.withdrawn
    /\ Begin(r, "touch", None, c, day)
    /\ UNCHANGED <<day, record, claim, early>>

\* reverifyReceivable, by anyone who has the ID: the record is live.
CallReverify(r, t) ==
    /\ run[r].pc = "idle"
    /\ ~record.withdrawn
    /\ Begin(r, "touch", t, None, 0)
    /\ UNCHANGED <<day, record, claim, early>>

\* The claims a call's event or re-verification touches: a lender maintains only its own.
Touches(r) ==
    {c \in Claims : Active(c) /\ (run[r].claim = c \/ run[r].by = claim[c].by)}

\* writeStatusEvent: a touch dated by the clock the call had read.  The row of a
\* re-verification is dated by the database.
WriteTouch(r) ==
    LET date == IF run[r].claim = None THEN day ELSE run[r].at
    IN  /\ run[r].pc = "touch"
        /\ claim' = [c \in Claims |->
                IF c \in Touches(r) /\ claim[c].touched < date
                THEN [claim[c] EXCEPT !.touched = date] ELSE claim[c]]
        /\ Done(r)
        /\ UNCHANGED <<day, record>>

\* affirmClaimByToken's last update: the client's answer touches the claim, withdrawn or not.
AffirmClaim(c) ==
    /\ Active(c)
    /\ ~claim[c].affirmed
    /\ claim' = [claim EXCEPT ![c].affirmed = TRUE, ![c].touched = day]
    /\ UNCHANGED <<day, record, run, early>>
-----------------------------------------------------------------------------
(* The owner's record. *)

CallSettle(r) ==
    /\ run[r].pc = "idle"
    /\ ~record.withdrawn
    /\ record.settled = None
    /\ Begin(r, "settle", None, None, 0)
    /\ UNCHANGED <<day, record, claim, early>>

\* The guarded update of settled_at.
WriteSettlement(r) ==
    /\ run[r].pc = "settle"
    /\ record' = IF record.settled = None THEN [record EXCEPT !.settled = r] ELSE record
    /\ Done(r)
    /\ UNCHANGED <<day, claim>>

\* deleteReceivable: claims, statements and re-verifications are kept.
Withdraw ==
    /\ ~record.withdrawn
    /\ record' = [record EXCEPT !.withdrawn = TRUE]
    /\ early' = {r \in Runs : run[r].pc # "idle"}
    /\ UNCHANGED <<day, claim, run>>

\* The process ends, or a statement throws.
RunEnds(r) ==
    /\ run[r].pc # "idle"
    /\ Done(r)
    /\ UNCHANGED <<day, record, claim>>

RunStep(r) ==
    \/ \E t \in Tenants, n \in Amounts, forced \in BOOLEAN : CallAddClaim(r, t, n, forced)
    \/ SumClaims(r)
    \/ RefuseClaim(r)
    \/ \E c \in Claims : InsertClaim(r, c) \/ CallDischarge(r, c) \/ CallEvent(r, c)
    \/ WriteDischarge(r)
    \/ \E t \in Tenants : CallReverify(r, t)
    \/ WriteTouch(r)
    \/ CallSettle(r)
    \/ WriteSettlement(r)
    \/ RunEnds(r)

Next ==
    \/ NewDay
    \/ \E c \in Claims : AffirmClaim(c)
    \/ Withdraw
    \/ \E r \in Runs : RunStep(r)

Spec == Init /\ [][Next]_vars
-----------------------------------------------------------------------------
(* Properties. *)

ClaimRecord ==
    [status : {"none", "active", "discharged"}, by : Tenants \cup {None}, amount : Nat,
     over : BOOLEAN, affirmed : BOOLEAN, touched : Nat, release : Runs \cup {None},
     missed : BOOLEAN, overtaken : BOOLEAN]

RunRecord ==
    [pc : {"idle", "sum", "insert", "discharge", "touch", "settle"},
     by : Tenants \cup {None}, claim : Claims \cup {None}, amount : Nat, forced : BOOLEAN,
     at : Nat, settled : BOOLEAN, missed : SUBSET Claims, overtaken : BOOLEAN]

TypeOK ==
    /\ day \in 0 .. MaxDay
    /\ record \in [withdrawn : BOOLEAN, settled : Runs \cup {None}]
    /\ claim \in [Claims -> ClaimRecord]
    /\ run \in [Runs -> RunRecord]
    /\ early \subseteq Runs

\* The claims that were found to fit, say nothing of the headroom, were not overtaken, and were
\* awake whenever a claim was found to fit beside them.
Fitting ==
    {c \in Claims : Active(c) /\ ~claim[c].over /\ ~claim[c].missed /\ ~claim[c].overtaken}

\* The claims that were found to fit still fit together, whatever was discharged, updated,
\* affirmed, settled or withdrawn, and whatever day began, between the reads and the writes of
\* any call.  Past the face value a claim says so, or was lapsed when a later one was recorded
\* ("one dated update from its financier counts it again", addClaim), or was overtaken by one
\* inserted between its sum and its insert (the gap addClaim documents).
Headroom == MapThenSumSet(LAMBDA c : claim[c].amount, Fitting) <= Face

\* What was signed once stays: of two discharges of a claim, or two settlements, at once, the
\* first is kept, and a discharged claim never counts again.
SignedOnce ==
    [][/\ \A c \in Claims : claim[c].status = "discharged" =>
              claim'[c].status = "discharged" /\ claim'[c].release = claim[c].release
       /\ record.settled # None => record'.settled = record.settled]_vars

\* A withdrawn record takes no claim, no status update, no re-verification and no settlement,
\* but from calls that had read it live: only discharges and the answers about claims.
WithdrawnQuiet ==
    [][record.withdrawn /\ early = {} =>
          /\ record'.settled = record.settled
          /\ \A c \in Claims :
                /\ claim[c].status = "none" => claim'[c] = claim[c]
                /\ \/ claim'[c].touched = claim[c].touched
                   \/ claim'[c].affirmed /\ ~claim[c].affirmed
                   \/ claim'[c].status = "discharged"]_vars

\* "a settled receivable short-circuits every claim to 'settled' ... and its claims keep
\* encumbering as before": a settlement changes nothing of what encumbers the record.
SettlementKeepsSum ==
    [][record'.settled # record.settled =>
        Encumbered(record.settled # None)' = Encumbered(record.settled # None)]_vars
=============================================================================
