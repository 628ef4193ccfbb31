---------------------------- MODULE DigestClaim -----------------------------
(***************************************************************************)
(* The digest of one account: the second half of runAgentReports in        *)
(* src/lib/agentVault/reportJob.ts, the periods of digest.ts, and the      *)
(* settings, claims and releases of delivery.ts and deliveryStore.ts.      *)
(*                                                                         *)
(* A run lists the account, reads the numbers, claims the digest's key,    *)
(* sends it and gives the claim back when the send fails.  Runs can be     *)
(* under way together (the day's run, a re-run by hand) and outlast their  *)
(* day, while the owner saves other settings.  What the numbers are is     *)
(* ReportVersions' matter: here they are worth sending or not.             *)
(***************************************************************************)
EXTENDS Integers, FiniteSets, Functions

CONSTANTS
    Runs,           \* the runs of the job that can be under way at once
    Cadences,       \* CADENCES in use
    MaxDay,         \* bound: the days of the model
    MondayOf,       \* mondayOf: the first day of a day's week
    MaxOutcomes,    \* bound: the emails and the lost keys that are counted
    None

ASSUME DigestAssumption ==
    /\ Cadences \subseteq {"off", "daily", "weekly", "issues"}
    /\ "off" \in Cadences
    /\ MaxDay \in Nat \ {0}
    /\ MondayOf \in [1 .. MaxDay -> Int]
    /\ MaxOutcomes \in Nat

VARIABLES
    today,
    settings,       \* the row of agent_report_settings
    run,            \* the runs: their local variables
    mails,          \* history: the emails that went out in time, by key
    late,           \* history: the keys of the emails that went out after their send timed out
    lost,           \* history: the keys held by runs whose process ended
    replaced,       \* history: the keys that were the last one when another was claimed
    restored        \* history: the keys put back that had been listed while a run held them

vars == <<today, settings, run, mails, late, lost, replaced, restored>>

\* digestPeriod: the key is the cadence and the first day of the period.
KeyOn(cadence, day) ==
    <<cadence, IF cadence = "weekly" THEN MondayOf[day] - 7 ELSE day - 1>>

Keys == {KeyOn(c, d) : c \in Cadences \ {"off"}, d \in 1 .. MaxDay}

ASSUME NoneAssumption == None \notin Keys

\* `last` and `cadence`: the account as listOptedIn listed it.  `today`: read as the run began.
\* History: `heldThen`, another run held the last key as it was listed.
IdleRun == [pc |-> "idle", today |-> 0, cadence |-> "off", last |-> None, heldThen |-> FALSE]

KeyOf(r) == KeyOn(run[r].cadence, run[r].today)

\* The run claimed the key and has not sent it or given it back.
Holds(r, k) == run[r].pc \in {"send", "release"} /\ KeyOf(r) = k

Outcomes ==
    FoldFunction(LAMBDA m, n : m + n, 0, mails) + Cardinality(late) + Cardinality(lost)

Init ==
    /\ today = 1
    /\ settings = [cadence |-> "off", last |-> None]
    /\ run = [r \in Runs |-> IdleRun]
    /\ mails = [k \in Keys |-> 0]
    /\ late = {}
    /\ lost = {}
    /\ replaced = {}
    /\ restored = {}

NewDay ==
    /\ today < MaxDay
    /\ today' = today + 1
    /\ UNCHANGED <<settings, run, mails, late, lost, replaced, restored>>

\* saveReportSettings and writeSettings: a save writes the cadence it was given or, when it was
\* given none, the one it had read, which may be an old one; the last key is left as it is.
SaveSettings(c) ==
    /\ settings' = [settings EXCEPT !.cadence = c]
    /\ UNCHANGED <<today, run, mails, late, lost, replaced, restored>>
-----------------------------------------------------------------------------
\* runAgentReports up to its reports, which take a while.
StartRun(r) ==
    /\ run[r].pc = "idle"
    /\ run' = [run EXCEPT ![r] = [IdleRun EXCEPT !.pc = "list", !.today = today]]
    /\ UNCHANGED <<today, settings, mails, late, lost, replaced, restored>>

Listed(r) ==
    [run[r] EXCEPT !.pc = "count", !.cadence = settings.cadence, !.last = settings.last,
                   !.heldThen = \E q \in Runs : Holds(q, settings.last)]

\* A plausible bug: accounts that turned the digest off are listed too.
ListAccountAny(r) ==
    /\ run[r].pc = "list"
    /\ run' = [run EXCEPT ![r] = Listed(r)]
    /\ UNCHANGED <<today, settings, mails, late, lost, replaced, restored>>

\* listOptedIn: an account that asked for nothing is not in it.
ListAccount(r) ==
    /\ run[r].pc = "list"
    /\ run' = [run EXCEPT ![r] = IF settings.cadence = "off" THEN IdleRun ELSE Listed(r)]
    /\ UNCHANGED <<today, settings, mails, late, lost, replaced, restored>>

\* The key is not the last one listed, the numbers are worth sending (shouldSend) and there is
\* an address to send to.
ReadCounts(r) ==
    /\ run[r].pc = "count"
    /\ run[r].last # KeyOf(r)
    /\ run' = [run EXCEPT ![r].pc = "claim"]
    /\ UNCHANGED <<today, settings, mails, late, lost, replaced, restored>>

\* Or one of these does not hold, and the account is done with.
SkipAccount(r) ==
    /\ run[r].pc = "count"
    /\ run' = [run EXCEPT ![r] = IdleRun]
    /\ UNCHANGED <<today, settings, mails, late, lost, replaced, restored>>

Claim(r) ==
    /\ settings' = [settings EXCEPT !.last = KeyOf(r)]
    /\ run' = [run EXCEPT ![r].pc = "send"]
    /\ replaced' = replaced \cup ({settings.last} \ {None, KeyOf(r)})

GoIdle(r) == run' = [run EXCEPT ![r] = IdleRun]

\* A plausible bug: the statement does not compare the last key.
ClaimDigestAlways(r) ==
    /\ run[r].pc = "claim"
    /\ IF settings.cadence = run[r].cadence
       THEN Claim(r)
       ELSE GoIdle(r) /\ UNCHANGED <<settings, replaced>>
    /\ UNCHANGED <<today, mails, late, lost, restored>>

\* claimDigest: only while the account still has the cadence, and not what was sent last.
ClaimDigest(r) ==
    /\ run[r].pc = "claim"
    /\ IF settings.cadence = run[r].cadence /\ settings.last # KeyOf(r)
       THEN Claim(r)
       ELSE GoIdle(r) /\ UNCHANGED <<settings, replaced>>
    /\ UNCHANGED <<today, mails, late, lost, restored>>

SendDigest(r) ==
    /\ run[r].pc = "send"
    /\ Outcomes < MaxOutcomes
    /\ mails' = [mails EXCEPT ![KeyOf(r)] = @ + 1]
    /\ GoIdle(r)
    /\ UNCHANGED <<today, settings, late, lost, replaced, restored>>

\* The send is refused, or times out: then the email may still go out, whatever the run does
\* next (mailer.ts).
SendFails(r) ==
    /\ run[r].pc = "send"
    /\ run' = [run EXCEPT ![r].pc = "release"]
    /\ \/ UNCHANGED late
       \/ Outcomes < MaxOutcomes /\ late' = late \cup {KeyOf(r)}
    /\ UNCHANGED <<today, settings, mails, lost, replaced, restored>>

\* A plausible bug: the claim of a failed send is not given back.
ReleaseDigestNever(r) ==
    /\ run[r].pc = "release"
    /\ GoIdle(r)
    /\ UNCHANGED <<today, settings, mails, late, lost, replaced, restored>>

\* releaseDigest: if the key is still there, what the run had listed is put back.
ReleaseDigest(r) ==
    /\ run[r].pc = "release"
    /\ GoIdle(r)
    /\ IF settings.last = KeyOf(r)
       THEN /\ settings' = [settings EXCEPT !.last = run[r].last]
            /\ restored' = restored \cup {k \in Keys : k = run[r].last /\ run[r].heldThen}
       ELSE UNCHANGED <<settings, restored>>
    /\ UNCHANGED <<today, mails, late, lost, replaced>>

\* A statement fails or its answer is lost, the deadline comes, or the process ends: a claim
\* the run held stays where it is.
RunEnds(r) ==
    /\ run[r].pc # "idle"
    /\ run[r].pc \in {"send", "release"} => Outcomes < MaxOutcomes
    /\ GoIdle(r)
    /\ lost' = lost \cup {k \in Keys : Holds(r, k)}
    /\ UNCHANGED <<today, settings, mails, late, replaced, restored>>
-----------------------------------------------------------------------------
RunStep(r) ==
    \/ StartRun(r) \/ ListAccount(r) \/ ReadCounts(r) \/ SkipAccount(r)
    \/ ClaimDigest(r) \/ SendDigest(r) \/ SendFails(r) \/ ReleaseDigest(r) \/ RunEnds(r)

Next ==
    \/ NewDay
    \/ \E r \in Runs : RunStep(r)
    \/ \E c \in Cadences : SaveSettings(c)

Spec == Init /\ [][Next]_vars
-----------------------------------------------------------------------------
TypeOK ==
    /\ today \in 1 .. MaxDay
    /\ settings \in [cadence : Cadences, last : Keys \cup {None}]
    /\ run \in [Runs -> [pc : {"idle", "list", "count", "claim", "send", "release"},
                         today : 0 .. MaxDay, cadence : Cadences, last : Keys \cup {None},
                         heldThen : BOOLEAN]]
    /\ \A r \in Runs : run[r].pc = "idle" \/ run[r].today > 0
    /\ \A r \in Runs : run[r].pc \in {"idle", "list"} \/ run[r].cadence # "off"
    /\ mails \in [Keys -> Nat]
    /\ late \subseteq Keys
    /\ lost \subseteq Keys
    /\ replaced \subseteq Keys
    /\ restored \subseteq Keys

\* Safety: a digest goes out in time once, however many runs are under way, whatever the owner
\* saves and whenever midnight comes, unless another digest was claimed over it (digest.ts: "a
\* digest is sent once for a period however many times the job runs").  An email that goes out
\* after its send timed out is apart (`late`).
DigestOnce == \A k \in Keys : mails[k] > 1 => k \in replaced

\* Safety: a digest that is held as sent was sent, or a run holds it, or the run that held it
\* ended: a failed send never uses the digest up (deliveryStore.ts: "Gives a digest claim back
\* (after a failed send) so a re-run the same day tries again").  Apart is only a key that a
\* failed run put back after it had listed it while another run held it.
KeyForDigest ==
    \A k \in Keys : settings.last = k =>
        mails[k] > 0 \/ k \in lost \/ k \in restored \/ \E r \in Runs : Holds(r, k)

\* Safety: a digest goes out once, whatever was claimed in between (digest.ts, as above).
SentOnce == \A k \in Keys : mails[k] <= 1

\* Safety: a digest arrives once (digest.ts, as above).
ArrivesOnce == \A k \in Keys : mails[k] > 0 => k \notin late

\* Safety: whatever is put back, a key held as sent was sent, or a run holds it or ended with it
\* (deliveryStore.ts, as above).
HeldWasSent ==
    \A k \in Keys : settings.last = k =>
        mails[k] > 0 \/ k \in lost \/ \E r \in Runs : Holds(r, k)
=============================================================================
