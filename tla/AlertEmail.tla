----------------------------- MODULE AlertEmail -----------------------------
(***************************************************************************)
(* The unmatched-payment email of one agent about one address: alertCheck  *)
(* of src/lib/agentVault/alerts.ts, the claim table agent_alert_claims of  *)
(* deliveryStore.ts and the sender of mailer.ts.                           *)
(*                                                                         *)
(* A pass of the watcher writes the payments it finds, then calls the      *)
(* alert once for the address.  Passes, and so alerts, run at once.  An    *)
(* alert claims the hour, counts the payments its email covers, sends it,  *)
(* and gives the hour back when the send fails.  The sender gives up on a  *)
(* send that is too slow; the mail may arrive all the same.  Every other   *)
(* kind of alert is the same without the count, each with a claim of its   *)
(* own.                                                                    *)
(***************************************************************************)
EXTENDS Integers, FiniteSets

CONSTANTS
    Passes,         \* the passes, each with its call of the alert, that can be running at once
    Payments,       \* the unmatched payments to the address
    Window,         \* ALERT_WINDOW_MS, in ticks of the clock
    MaxAge,         \* UNMATCHED_ALERT_MAX_AGE_MS, in the same
    Ages,           \* how old a payment can be when it is written, in the same
    CallTime,       \* the longest a call may last, in the same
    MaxTime,        \* bound: the clock stops here
    MaxFaults       \* bound: sends that fail or are given up on, and processes that end

\* The claim's row: there is none, or it was given back (NEVER_ALERTED).
NoRow == -2
Never == -1

ASSUME AlertAssumption ==
    /\ Window \in Nat
    /\ MaxAge \in Nat
    /\ Ages \subseteq Nat
    /\ CallTime \in Nat
    /\ MaxTime \in Nat
    /\ MaxFaults \in Nat

VARIABLES
    now,        \* the clock; its tick is the second the ledger's stamps are cut to
    row,        \* a payment's row: when it was made and when it was written
    claim,      \* last_sent_at of the address's claim
    pass,       \* the passes
    emails,     \* the emails that arrived
    slow,       \* the emails the sender gave up on, which may still arrive
    lost,       \* the claims whose holder ended before it could send or give back
    faults      \* how many faults have happened

vars == <<now, row, claim, pass, emails, slow, lost, faults>>

Unwritten == [made |-> Never, written |-> Never]

IdlePass ==
    [pc |-> "idle", due |-> FALSE, at |-> 0, previous |-> Never, won |-> 0,
     covers |-> {}, left |-> {}]

\* The email of c's alert; `late` when it arrives after the sender has given up on it.
EmailOf(c, late) ==
    [by |-> c, late |-> late,
     at |-> pass[c].at, won |-> pass[c].won, covers |-> pass[c].covers, left |-> pass[c].left]

Init ==
    /\ now = 0
    /\ row = [p \in Payments |-> Unwritten]
    /\ claim = NoRow
    /\ pass = [c \in Passes |-> IdlePass]
    /\ emails = {}
    /\ slow = {}
    /\ lost = {}
    /\ faults = 0

Tick ==
    /\ now < MaxTime
    /\ \A c \in Passes : pass[c].pc # "idle" => now - pass[c].at < CallTime
    /\ now' = now + 1
    /\ UNCHANGED <<row, claim, pass, emails, slow, lost, faults>>

\* A pass writes an unmatched payment to the address, made at the moment m; the pass
\* calls the alert for it when it is not too old (unmatchedAlertDue).
WritePayment(c, p, m) ==
    /\ pass[c].pc = "idle"
    /\ row[p] = Unwritten
    /\ row' = [row EXCEPT ![p] = [made |-> m, written |-> now]]
    /\ pass' = [pass EXCEPT ![c].due = @ \/ now - m <= MaxAge]
    /\ UNCHANGED <<now, claim, emails, slow, lost, faults>>
-----------------------------------------------------------------------------
(* One call of alertCheck. *)

\* The pass has written all its transfers and calls the alert, which reads the clock.
CallAlert(c) ==
    /\ pass[c].pc = "idle"
    /\ pass[c].due
    /\ pass' = [pass EXCEPT ![c].pc = "look", ![c].at = now]
    /\ UNCHANGED <<now, row, claim, emails, slow, lost, faults>>

\* The account has no verified operator email: nothing is claimed.
NoRecipient(c) ==
    /\ pass[c].pc = "idle"
    /\ pass[c].due
    /\ pass' = [pass EXCEPT ![c] = IdlePass]
    /\ UNCHANGED <<now, row, claim, emails, slow, lost, faults>>

\* readAlertClaim: when the last email about the address went out.
ReadPrevious(c) ==
    /\ pass[c].pc = "look"
    /\ pass' = [pass EXCEPT ![c].pc = "insert",
                            ![c].previous = IF claim = NoRow THEN Never ELSE claim]
    /\ UNCHANGED <<now, row, claim, emails, slow, lost, faults>>

\* c has claimed the hour; `won` is history, when it did.
Won(c) == [pass EXCEPT ![c].pc = "count", ![c].won = now]

\* The first statement of claimAlert: INSERT ... ON CONFLICT DO NOTHING.
InsertClaim(c) ==
    /\ pass[c].pc = "insert"
    /\ IF claim = NoRow
       THEN claim' = pass[c].at /\ pass' = Won(c)
       ELSE UNCHANGED claim /\ pass' = [pass EXCEPT ![c].pc = "update"]
    /\ UNCHANGED <<now, row, emails, slow, lost, faults>>

\* The row is older than the hour, as this call sees the hour.
Expired(s) == claim = Never \/ claim < s.at - Window

\* A plausible bug: the hour is taken whatever the row says.
UpdateClaimAlways(c) ==
    /\ pass[c].pc = "update"
    /\ claim' = pass[c].at
    /\ pass' = Won(c)
    /\ UNCHANGED <<now, row, emails, slow, lost, faults>>

\* Its second statement: the row is taken when it has expired, or the alert is held back.
UpdateClaim(c) ==
    LET s == pass[c]
    IN  /\ s.pc = "update"
        /\ \/ /\ Expired(s)
              /\ claim' = s.at
              /\ pass' = Won(c)
           \/ /\ ~Expired(s)
              /\ pass' = [pass EXCEPT ![c] = IdlePass]
              /\ UNCHANGED claim
        /\ UNCHANGED <<now, row, emails, slow, lost, faults>>

\* The payments not too old to be told about.
Fresh(s) == {p \in Payments : row[p] # Unwritten /\ row[p].made >= s.at - MaxAge}

Told == UNION {e.covers : e \in emails}

\* countUnmatchedPayments: the ones written after the previous email.  `left` is what
\* the count leaves out though it was written before that email's moment and no email
\* has told of it; an email lost with its process is not asked about.
CountPayments(c) ==
    LET s == pass[c]
    IN  /\ s.pc = "count"
        /\ pass' = [pass EXCEPT ![c] =
                [s EXCEPT !.pc = "send",
                          !.covers = {p \in Fresh(s) : row[p].written > s.previous},
                          !.left = IF s.previous \in lost THEN {}
                                   ELSE {p \in Fresh(s) \ Told : row[p].written < s.previous}]]
        /\ UNCHANGED <<now, row, claim, emails, slow, lost, faults>>

SendMail(c) ==
    /\ pass[c].pc = "send"
    /\ emails' = emails \cup {EmailOf(c, FALSE)}
    /\ pass' = [pass EXCEPT ![c] = IdlePass]
    /\ UNCHANGED <<now, row, claim, slow, lost, faults>>

\* A plausible bug: the row is put back to a time just out of the hour, not to NEVER_ALERTED.
ReleaseClaimToOpen(c) ==
    /\ pass[c].pc = "release"
    /\ claim' = IF claim = pass[c].at THEN pass[c].at - Window - 1 ELSE claim
    /\ pass' = [pass EXCEPT ![c] = IdlePass]
    /\ UNCHANGED <<now, row, emails, slow, lost, faults>>

\* A plausible bug: the failed call does not give its hour back.
ReleaseClaimNever(c) ==
    /\ pass[c].pc = "release"
    /\ pass' = [pass EXCEPT ![c] = IdlePass]
    /\ UNCHANGED <<now, row, claim, emails, slow, lost, faults>>

\* A plausible bug: the hour is given back without asking whose it is.
ReleaseClaimAlways(c) ==
    /\ pass[c].pc = "release"
    /\ claim' = Never
    /\ pass' = [pass EXCEPT ![c] = IdlePass]
    /\ UNCHANGED <<now, row, emails, slow, lost, faults>>

\* releaseAlert: the hour is given back if the claim is still this call's.
ReleaseClaim(c) ==
    /\ pass[c].pc = "release"
    /\ claim' = IF claim = pass[c].at THEN Never ELSE claim
    /\ pass' = [pass EXCEPT ![c] = IdlePass]
    /\ UNCHANGED <<now, row, emails, slow, lost, faults>>

\* A mail the sender gave up on arrives.
ArriveLate(e) ==
    /\ slow' = slow \ {e}
    /\ emails' = emails \cup {e}
    /\ UNCHANGED <<now, row, claim, pass, lost, faults>>
-----------------------------------------------------------------------------
(* Faults. *)

Fault == faults < MaxFaults /\ faults' = faults + 1

\* The mail is refused, or there is no transport, or the count cannot be read.
SendFails(c) ==
    /\ Fault
    /\ pass[c].pc \in {"count", "send"}
    /\ pass' = [pass EXCEPT ![c].pc = "release"]
    /\ UNCHANGED <<now, row, claim, emails, slow, lost>>

\* The send takes longer than SEND_TIMEOUT_MS.
SendTimesOut(c) ==
    /\ Fault
    /\ pass[c].pc = "send"
    /\ slow' = slow \cup {EmailOf(c, TRUE)}
    /\ pass' = [pass EXCEPT ![c].pc = "release"]
    /\ UNCHANGED <<now, row, claim, emails, lost>>

Holding == {"count", "send", "release"}

\* The process ends, whatever it was doing; or, at the last step, the database does not
\* answer and the claim is not given back.
ProcessEnds(c) ==
    /\ Fault
    /\ lost' = IF pass[c].pc \in Holding THEN lost \cup {pass[c].at} ELSE lost
    /\ pass' = [pass EXCEPT ![c] = IdlePass]
    /\ UNCHANGED <<now, row, claim, emails, slow>>

PassStep(c) ==
    \/ CallAlert(c)
    \/ NoRecipient(c)
    \/ ReadPrevious(c)
    \/ InsertClaim(c)
    \/ UpdateClaim(c)
    \/ CountPayments(c)
    \/ SendMail(c)
    \/ ReleaseClaim(c)

Next ==
    \/ Tick
    \/ \E c \in Passes : PassStep(c) \/ SendFails(c) \/ SendTimesOut(c) \/ ProcessEnds(c)
    \/ \E c \in Passes, p \in Payments, a \in {a \in Ages : a <= now} :
          WritePayment(c, p, now - a)
    \/ \E e \in slow : ArriveLate(e)

Spec == Init /\ [][Next]_vars
-----------------------------------------------------------------------------
Moments == 0..MaxTime

EmailType ==
    [by : Passes, late : BOOLEAN, at : Moments, won : Moments,
     covers : SUBSET Payments, left : SUBSET Payments]

PassRecord ==
    [pc : {"idle", "look", "insert", "update"} \cup Holding, due : BOOLEAN, at : Moments,
     previous : Moments \cup {Never}, won : Moments, covers : SUBSET Payments, left : SUBSET Payments]

\* Every variable holds a value the code could hold: a row is written no earlier than the
\* payment was made, a claim is a moment of the clock or one of the two values for none,
\* and only a call that holds the hour has a count.
TypeOK ==
    /\ now \in Moments
    /\ row \in [Payments -> [made : Moments \cup {Never}, written : Moments \cup {Never}]]
    /\ \A p \in Payments :
          row[p] # Unwritten => row[p].made \in 0..row[p].written /\ row[p].written <= now
    /\ claim \in Moments \cup {NoRow, Never}
    /\ pass \in [Passes -> PassRecord]
    /\ \A c \in Passes :
          pass[c].pc \notin Holding => pass[c].covers = {} /\ pass[c].left = {}
    /\ emails \subseteq EmailType
    /\ slow \subseteq EmailType
    /\ lost \subseteq Moments
    /\ faults \in 0..MaxFaults

\* Two emails about an address that were not given up on: the later one's call won its claim
\* more than an hour after the moment the other's claim says, however many passes call at
\* once, however long they take, and whichever of them fail, give back what another has
\* claimed by then, or end (claimAlert's two statements, releaseAlert).
OnePerWindow ==
    \A e, f \in emails :
        e # f /\ ~e.late /\ ~f.late => e.won - f.at > Window \/ f.won - e.at > Window

\* So calls that win their claim in the second they read the clock are an hour apart: only
\* the time between the two can bring emails closer.
PromptApart ==
    \A e, f \in emails :
        e # f /\ ~e.late /\ ~f.late /\ e.won = e.at /\ f.won = f.at =>
            e.at - f.at > Window \/ f.at - e.at > Window

\* "At most one an hour" to the second (alerts.ts 29-30; deliveryStore.ts 212-214: what a failed
\* claim is put back to makes no difference "to the limit").  It does: a call that read the
\* clock before the hour was over takes a claim given back after it.
HourApart ==
    \A e, f \in emails :
        e # f /\ ~e.late /\ ~f.late => e.at - f.at > Window \/ f.at - e.at > Window

\* A claim is for an email that goes (alerts.ts 35-36): an hour that is spent has its
\* email, or a call still at work on it, or is one a process ended in the middle of.
ClaimForEmail ==
    \/ claim \in {NoRow, Never} \cup lost
    \/ \E e \in emails : ~e.late /\ e.at = claim
    \/ \E c \in Passes : pass[c].pc \in Holding /\ pass[c].at = claim

\* After a send that failed the next email counts those payments too (alerts.ts 24-27,
\* and the test of that name): no email leaves out a payment that is new enough, was
\* written before the moment the email counts from, and was told of in none.  It needs
\* calls that last less than the window.
FailedAlertCounted == \A e \in emails : e.left = {}
=============================================================================
