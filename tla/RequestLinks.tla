---------------------------- MODULE RequestLinks ----------------------------
(***************************************************************************)
(* The requests a receivable's parties send each other by link:            *)
(* createInvite, revokeInvite, acceptInvite, confirmByToken,               *)
(* confirmRecordByToken, affirmClaimByToken, respondToOffer, recordLapse   *)
(* and deleteReceivable of src/lib/receivablesRegistry.ts, and the daily   *)
(* chase-requests route.                                                   *)
(*                                                                         *)
(* One receivable of one owner, with a claim of another lender's, one the  *)
(* owner may record, and one offer of the owner's.  A link asks one        *)
(* question; whoever holds it answers without an account.  Every call      *)
(* reads, then spends the link in one guarded update, then writes what     *)
(* was answered, each by a statement of its own: between any two of them   *)
(* the owner may withdraw the receivable, somebody may revoke the link or  *)
(* answer it elsewhere, it may expire, and the process may end.            *)
(***************************************************************************)
EXTENDS Integers, Sequences

CONSTANTS
    Links,          \* the links that can be sent
    Runs,           \* the calls that can be under way at once
    TTL,            \* INVITE_TTL_DAYS
    OfferUntil,     \* when the offer expires
    MaxTime,        \* bound: the clock
    MaxFaults,      \* bound: statements that fail and processes that end
    Plans,          \* what the links ask: the choices there are
    None

VARIABLES
    asks,           \* what each link asks, once it is sent
    now,
    withdrawn,      \* receivables.deleted_at is set
    own,            \* the owner's own claim: recorded, and overlooked by the withdrawal
    offer,          \* the row of receivable_offers
    link,           \* receivable_invites
    said,           \* per link, the statements and grants written for it, in order
    affirmed,       \* whose claim has affirmed_at
    run,            \* the calls: their local variables
    lost,           \* history: the links a call had spent or flagged when it ended early
    faults

vars == <<asks, now, withdrawn, own, offer, link, said, affirmed, run, lost, faults>>

Senders == {"owner", "lender"}

\* What a link asks.  `client`: an invitation, or with a receivable the question whether the
\* record is right; `debtor`: whether the invoice is; `receipt`: whether the sender's own
\* advance arrived (claim_id); `offer`: whether the offer is accepted (offer_id).  `filed`:
\* receivable_id is set, which only the owner may do.
Requests ==
    {q \in [kind : {"client", "debtor", "receipt", "offer"}, from : Senders, filed : BOOLEAN] :
        /\ q.filed => q.from = "owner"
        /\ q.kind \in {"debtor", "offer"} => q.filed}

Answers == {"confirm", "dispute", "join", "accept", "decline"}
Statements == Answers \cup {"counterparty", "unanswered"}

ASSUME LinksAssumption ==
    /\ TTL \in Nat
    /\ OfferUntil \in Nat
    /\ MaxTime \in Nat
    /\ MaxFaults \in Nat
    /\ Plans \subseteq [Links -> Requests]
    /\ None \notin Links \cup Statements

\* The answers a link takes: acceptInvite (`join`) refuses one bound to a claim or an offer.
AnswersTo(q) ==
    CASE q.kind = "offer" -> {"accept", "decline"}
      [] q.kind = "receipt" -> {"confirm", "dispute"}
      [] q.filed -> {"confirm", "dispute", "join"}
      [] OTHER -> {"join"}

\* `raced`: history, the link was stored after the withdrawal, by a call that began before it.
Unsent == [sent |-> FALSE, expires |-> 0, answer |-> None, revoked |-> FALSE,
           lapsed |-> FALSE, raced |-> FALSE]

\* `saw`: the owner's claim was there when the withdrawing call read it.
IdleRun == [pc |-> "idle", link |-> None, say |-> None, todo |-> {}, saw |-> FALSE]

Init ==
    /\ asks \in Plans
    /\ now = 0
    /\ withdrawn = FALSE
    /\ own = [recorded |-> FALSE, overlooked |-> FALSE]
    /\ offer = [until |-> OfferUntil, accepted |-> FALSE, declined |-> FALSE]
    /\ link = [l \in Links |-> Unsent]
    /\ said = [l \in Links |-> <<>>]
    /\ affirmed = {}
    /\ run = [r \in Runs |-> IdleRun]
    /\ lost = {}
    /\ faults = 0

Open(l) == link[l].sent /\ link[l].answer = None /\ ~link[l].revoked

Expired(l) == link[l].expires < now

Say(l, s) == said' = [said EXCEPT ![l] = Append(@, s)]

\* A call's next await, and its end.
Goto(r, pc) == run' = [run EXCEPT ![r].pc = pc]

Done(r) == run' = [run EXCEPT ![r] = IdleRun]

Tick ==
    /\ now < MaxTime
    /\ now' = now + 1
    /\ UNCHANGED <<asks, withdrawn, own, offer, link, said, affirmed, run, lost, faults>>
-----------------------------------------------------------------------------
(* The sender. *)

\* addClaim: the owner advances money on its own receivable.
RecordClaim ==
    /\ ~own.recorded
    /\ own' = [own EXCEPT !.recorded = TRUE]
    /\ UNCHANGED <<asks, now, withdrawn, offer, link, said, affirmed, run, lost, faults>>

\* The links about the owner's own advance.
OfOwnClaim(l) == asks[l].from = "owner" /\ asks[l].kind = "receipt"

\* createInvite reads the record, on a withdrawn one it answers 410, and the claim asked about.
CallCreate(r, l) ==
    /\ run[r].pc = "idle"
    /\ ~link[l].sent
    /\ \A s \in Runs : run[s].pc = "store" => run[s].link # l
    /\ asks[l].filed \/ asks[l].kind = "receipt" => ~withdrawn
    /\ OfOwnClaim(l) => own.recorded
    /\ run' = [run EXCEPT ![r] = [IdleRun EXCEPT !.pc = "store", !.link = l]]
    /\ UNCHANGED <<asks, now, withdrawn, own, offer, link, said, affirmed, lost, faults>>

\* Its INSERT.  A link to an offer does not expire before the offer.
StoreLink(r) ==
    LET l == run[r].link
    IN  /\ run[r].pc = "store"
        /\ link' = [link EXCEPT ![l] =
                [Unsent EXCEPT !.sent = TRUE,
                               !.expires = IF asks[l].kind = "offer" /\ offer.until > now + TTL
                                           THEN offer.until ELSE now + TTL,
                               !.raced = withdrawn]]
        /\ Done(r)
        /\ UNCHANGED <<asks, now, withdrawn, own, offer, said, affirmed, lost, faults>>

\* revokeInvite, one guarded update.
Revoke(l) ==
    /\ Open(l)
    /\ link' = [link EXCEPT ![l].revoked = TRUE]
    /\ UNCHANGED <<asks, now, withdrawn, own, offer, said, affirmed, run, lost, faults>>

\* deleteReceivable reads the record, a withdrawn one it answers at once, and the owner's claims.
CallWithdraw(r) ==
    /\ run[r].pc = "idle"
    /\ ~withdrawn
    /\ run' = [run EXCEPT ![r] = [IdleRun EXCEPT !.pc = "withdraw", !.saw = own.recorded]]
    /\ UNCHANGED <<asks, now, withdrawn, own, offer, link, said, affirmed, lost, faults>>

\* A mutant: only the links filed under the record are revoked with it.
ClosedWithRecordIfFiled(r, l) == Open(l) /\ asks[l].filed

\* The owner's open links: those filed under the record, and those about the claim it read.
ClosedWithRecord(r, l) ==
    /\ Open(l)
    /\ asks[l].from = "owner"
    /\ asks[l].filed \/ (asks[l].kind = "receipt" /\ run[r].saw)

\* The batch, of which the first statement alone asks whether the record is live: the owner's
\* open links are revoked and its pending offer ends.
Withdraw(r) ==
    /\ run[r].pc = "withdraw"
    /\ withdrawn' = TRUE
    /\ own' = [own EXCEPT !.overlooked = @ \/ (~withdrawn /\ own.recorded /\ ~run[r].saw)]
    /\ link' = [l \in Links |->
            IF ClosedWithRecord(r, l) THEN [link[l] EXCEPT !.revoked = TRUE] ELSE link[l]]
    /\ offer' = IF ~offer.accepted /\ ~offer.declined /\ offer.until > now
                THEN [offer EXCEPT !.until = now] ELSE offer
    /\ Done(r)
    /\ UNCHANGED <<asks, now, said, affirmed, lost, faults>>
-----------------------------------------------------------------------------
(* Whoever holds the link. *)

\* The reads of the answering call: the link must be open and not expired; a question about
\* the record wants it live, the receipt of an advance does not; an offer must be pending.
CallAnswer(r, l, a) ==
    LET q == asks[l]
    IN  /\ run[r].pc = "idle"
        /\ Open(l)
        /\ ~Expired(l)
        /\ a \in AnswersTo(q)
        /\ a # "join" /\ q.kind # "receipt" => ~withdrawn
        /\ q.kind = "offer" => ~offer.accepted /\ ~offer.declined /\ offer.until >= now
        /\ run' = [run EXCEPT ![r] = [IdleRun EXCEPT !.pc = "spend", !.link = l, !.say = a]]
        /\ UNCHANGED <<asks, now, withdrawn, own, offer, link, said, affirmed, lost, faults>>

AfterSpending(a) ==
    CASE a \in {"accept", "decline"} -> "mark"
      [] a = "join" -> "grant"
      [] OTHER -> "check"

\* A mutant: the link is spent whatever became of it since it was read.
SpendLinkAlways(r) ==
    LET l == run[r].link
    IN  /\ run[r].pc = "spend"
        /\ link' = [link EXCEPT ![l].answer = run[r].say]
        /\ Goto(r, AfterSpending(run[r].say))
        /\ UNCHANGED <<asks, now, withdrawn, own, offer, said, affirmed, lost, faults>>

\* The guarded update of accepted_at: "only the update that lands may proceed".
SpendLink(r) ==
    LET l == run[r].link
    IN  /\ run[r].pc = "spend"
        /\ \/ /\ Open(l)
              /\ link' = [link EXCEPT ![l].answer = run[r].say]
              /\ Goto(r, AfterSpending(run[r].say))
           \/ /\ ~Open(l)
              /\ Done(r)
              /\ UNCHANGED link
        /\ UNCHANGED <<asks, now, withdrawn, own, offer, said, affirmed, lost, faults>>

\* respondToOffer marks the offer: accepted_at and declined_at are each written once.
MarkOffer(r) ==
    /\ run[r].pc = "mark"
    /\ offer' = IF run[r].say = "accept" THEN [offer EXCEPT !.accepted = TRUE]
                ELSE [offer EXCEPT !.declined = TRUE]
    /\ Goto(r, "check")
    /\ UNCHANGED <<asks, now, withdrawn, own, link, said, affirmed, lost, faults>>

\* acceptInvite's two grants: the invitee's and the sender's.
GrantAccess(r) ==
    /\ run[r].pc = "grant"
    /\ Say(run[r].link, "join")
    /\ Goto(r, "grant back")
    /\ UNCHANGED <<asks, now, withdrawn, own, offer, link, affirmed, lost, faults>>

GrantBack(r) ==
    /\ run[r].pc = "grant back"
    /\ Say(run[r].link, "counterparty")
    /\ Done(r)
    /\ UNCHANGED <<asks, now, withdrawn, own, offer, link, affirmed, lost, faults>>
-----------------------------------------------------------------------------
(* writeAttestation: a statement is recorded on a live record, and on a     *)
(* withdrawn one when it answers a claim that is already there.             *)

AfterStatement(r) ==
    IF run[r].say = "unanswered" THEN [IdleRun EXCEPT !.pc = "lapses", !.todo = run[r].todo]
    ELSE IdleRun

\* A mutant: no statement is recorded on a withdrawn record.
TakesStatementIfLive(r) == ~withdrawn

TakesStatement(r) ==
    withdrawn => asks[run[r].link].kind = "receipt" /\ run[r].say \in Answers

\* It reads the record.
CheckRecord(r) ==
    /\ run[r].pc = "check"
    /\ IF TakesStatement(r) THEN Goto(r, "insert")
       ELSE run' = [run EXCEPT ![r] = AfterStatement(r)]
    /\ UNCHANGED <<asks, now, withdrawn, own, offer, link, said, affirmed, lost, faults>>

\* The answers that affirm the claim they are about.
Affirms(r) == run[r].say = "confirm" /\ asks[run[r].link].kind = "receipt"

\* It writes the statement.
InsertStatement(r) ==
    /\ run[r].pc = "insert"
    /\ Say(run[r].link, run[r].say)
    /\ IF Affirms(r) THEN Goto(r, "affirm")
       ELSE run' = [run EXCEPT ![r] = AfterStatement(r)]
    /\ UNCHANGED <<asks, now, withdrawn, own, offer, link, affirmed, lost, faults>>

\* affirmClaimByToken's last update.
AffirmClaim(r) ==
    /\ run[r].pc = "affirm"
    /\ affirmed' = affirmed \cup {asks[run[r].link].from}
    /\ Done(r)
    /\ UNCHANGED <<asks, now, withdrawn, own, offer, link, said, lost, faults>>
-----------------------------------------------------------------------------
(* The daily pass that writes down the silence. *)

IsLapsed(l) == Open(l) /\ ~link[l].lapsed /\ asks[l].filed /\ link[l].expires <= now

\* listLapsedRequests.
ListLapsed(r) ==
    /\ run[r].pc = "idle"
    /\ \E l \in Links : IsLapsed(l)
    /\ run' = [run EXCEPT ![r] =
            [IdleRun EXCEPT !.pc = "lapses", !.todo = {l \in Links : IsLapsed(l)}]]
    /\ UNCHANGED <<asks, now, withdrawn, own, offer, link, said, affirmed, lost, faults>>

\* A mutant: the flag is written without looking at it.
FlagLapseAlways(r, l) ==
    /\ run[r].pc = "lapses"
    /\ l \in run[r].todo
    /\ link' = [link EXCEPT ![l].lapsed = TRUE]
    /\ run' = [run EXCEPT ![r] = [@ EXCEPT !.pc = "check", !.link = l,
                                          !.say = "unanswered", !.todo = @ \ {l}]]
    /\ UNCHANGED <<asks, now, withdrawn, own, offer, said, affirmed, lost, faults>>

\* A mutant: the silence is written down as the link's answer.
FlagLapseAsAnswer(r, l) ==
    /\ run[r].pc = "lapses"
    /\ l \in run[r].todo
    /\ link' = [link EXCEPT ![l].lapsed = TRUE, ![l].answer = "unanswered"]
    /\ run' = [run EXCEPT ![r] = [@ EXCEPT !.pc = "check", !.link = l,
                                          !.say = "unanswered", !.todo = @ \ {l}]]
    /\ UNCHANGED <<asks, now, withdrawn, own, offer, said, affirmed, lost, faults>>

\* recordLapse: the guarded update of lapse_recorded_at, which looks at nothing else.
FlagLapse(r, l) ==
    /\ run[r].pc = "lapses"
    /\ l \in run[r].todo
    /\ link' = [link EXCEPT ![l].lapsed = TRUE]
    /\ LET left == run[r].todo \ {l}
       IN  run' = [run EXCEPT ![r] =
               IF link[l].lapsed THEN [@ EXCEPT !.todo = left]
               ELSE [@ EXCEPT !.pc = "check", !.link = l, !.say = "unanswered", !.todo = left]]
    /\ UNCHANGED <<asks, now, withdrawn, own, offer, said, affirmed, lost, faults>>

EndLapses(r) ==
    /\ run[r].pc = "lapses"
    /\ run[r].todo = {}
    /\ Done(r)
    /\ UNCHANGED <<asks, now, withdrawn, own, offer, link, said, affirmed, lost, faults>>
-----------------------------------------------------------------------------
(* Faults. *)

Fault == faults < MaxFaults /\ faults' = faults + 1

\* The process ends, or a statement throws.
RunEnds(r) ==
    /\ Fault
    /\ run[r].pc # "idle"
    /\ lost' = IF run[r].pc \in {"store", "withdraw", "spend", "lapses"} THEN lost
               ELSE lost \cup {<<run[r].link, run[r].say = "unanswered">>}
    /\ Done(r)
    /\ UNCHANGED <<asks, now, withdrawn, own, offer, link, said, affirmed>>

\* A statement of recordLapse throws: the pass goes on with the next link.
LapseFails(r) ==
    /\ Fault
    /\ run[r].pc \in {"check", "insert"}
    /\ run[r].say = "unanswered"
    /\ lost' = lost \cup {<<run[r].link, TRUE>>}
    /\ run' = [run EXCEPT ![r] = AfterStatement(r)]
    /\ UNCHANGED <<asks, now, withdrawn, own, offer, link, said, affirmed>>

AnswerStep(r) ==
    \/ \E l \in Links, a \in Answers : CallAnswer(r, l, a)
    \/ SpendLink(r)
    \/ MarkOffer(r)
    \/ GrantAccess(r)
    \/ GrantBack(r)
    \/ CheckRecord(r)
    \/ InsertStatement(r)
    \/ AffirmClaim(r)

LapseStep(r) ==
    \/ ListLapsed(r)
    \/ \E l \in Links : FlagLapse(r, l)
    \/ EndLapses(r)

Next ==
    \/ Tick
    \/ \E l \in Links : Revoke(l)
    \/ RecordClaim
    \/ \E r \in Runs :
        \/ \E l \in Links : CallCreate(r, l)
        \/ StoreLink(r)
        \/ CallWithdraw(r)
        \/ Withdraw(r)
        \/ AnswerStep(r)
        \/ LapseStep(r)
        \/ RunEnds(r)
        \/ LapseFails(r)

Spec == Init /\ [][Next]_vars
-----------------------------------------------------------------------------
(* Properties. *)

RunRecord ==
    [pc : {"idle", "store", "withdraw", "spend", "mark", "grant", "grant back", "check",
           "insert", "affirm", "lapses"},
     link : Links \cup {None},
     say : Answers \cup {"unanswered", None},
     todo : SUBSET Links,
     saw : BOOLEAN]

LinkRecord ==
    [sent : BOOLEAN, expires : Nat, answer : Answers \cup {None}, revoked : BOOLEAN,
     lapsed : BOOLEAN, raced : BOOLEAN]

TypeOK ==
    /\ asks \in Plans
    /\ now \in 0 .. MaxTime
    /\ withdrawn \in BOOLEAN
    /\ own \in [recorded : BOOLEAN, overlooked : BOOLEAN]
    /\ offer \in [until : Nat, accepted : BOOLEAN, declined : BOOLEAN]
    /\ link \in [Links -> LinkRecord]
    /\ said \in [Links -> Seq(Statements)]
    /\ affirmed \subseteq Senders
    /\ run \in [Runs -> RunRecord]
    /\ lost \subseteq (Links \cup {None}) \X BOOLEAN
    /\ faults \in 0 .. MaxFaults

Times(l, S) == {i \in DOMAIN said[l] : said[l][i] \in S}

\* "a forwarded link must not be answerable twice" (confirmByToken): whoever opens it,
\* however many calls race, a link puts at most one answer on the record, and none once it
\* was revoked.
OneAnswer ==
    \A l \in Links :
        /\ \A i, j \in Times(l, Answers) : i = j
        /\ link[l].revoked => Times(l, Answers) = {}

\* Who still works for the link's answer.
Working(l, silence) ==
    \E r \in Runs : /\ run[r].link = l
                    /\ run[r].pc # "spend"
                    /\ (run[r].say = "unanswered") = silence

\* A spent link leaves its answer on the record, an invitation the grants of both sides and a
\* confirmed advance its claim affirmed: only a process that ended, or the withdrawal of the
\* record it asked about, keeps it off.  The answer about an advance is kept even then ("a
\* withdrawal must not let the owner keep a client from confirming or disputing another
\* party's advance").
AnswerKept ==
    \A l \in Links :
        \/ link[l].answer = None
        \/ Working(l, FALSE)
        \/ <<l, FALSE>> \in lost
        \/ withdrawn /\ link[l].answer # "join" /\ asks[l].kind # "receipt"
        \/ /\ Times(l, {link[l].answer}) # {}
           /\ link[l].answer = "join" => Times(l, {"counterparty"}) # {}
           /\ link[l].answer = "confirm" /\ asks[l].kind = "receipt"
                => asks[l].from \in affirmed

\* Each of the owner's links about the record that was stored when the record was withdrawn has
\* been answered or is revoked, whatever withdrawals, answers and requests race; the one about
\* a claim the withdrawing call did not see, and not filed under the record, stays open.
OwnLinksStop ==
    withdrawn => \A l \in Links :
        asks[l].from = "owner" /\ (asks[l].filed \/ asks[l].kind = "receipt")
            => \/ link[l].raced
               \/ ~Open(l)
               \/ own.overlooked /\ ~asks[l].filed

\* After the withdrawal "every outstanding link stops working" (deleteReceivable).
EveryLinkStops ==
    withdrawn => \A l \in Links :
        asks[l].from = "owner" /\ (asks[l].filed \/ asks[l].kind = "receipt")
            => link[l].raced \/ ~Open(l)

\* The silence about a link is written down once, however many passes list it, and only of a
\* link that has expired.
SilenceOnce ==
    \A l \in Links :
        /\ \A i, j \in Times(l, {"unanswered"}) : i = j
        /\ Times(l, {"unanswered"}) # {} => link[l].expires <= now

\* The statement of silence is true: "expired without a reply" (recordLapse).
SilenceTrue ==
    \A l \in Links : Times(l, {"unanswered"}) = {} \/ Times(l, Answers) = {}

\* "Writes down every confirmation request that expired without a reply" (chase-requests):
\* a link that was flagged has its statement, unless its record was withdrawn.
SilenceWritten ==
    \A l \in Links :
        \/ ~link[l].lapsed
        \/ Working(l, TRUE)
        \/ withdrawn
        \/ Times(l, {"unanswered"}) # {}
=============================================================================
