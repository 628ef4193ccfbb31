------------------------- MODULE RequestLinksProofs --------------------------
(***************************************************************************)
(* Proofs about RequestLinks, for any number of links, calls, days and     *)
(* faults: a link puts at most one answer on the record and none once it   *)
(* was revoked, an answer that was given is kept, the owner's links stop   *)
(* with the record, and a silence is written down once.                    *)
(***************************************************************************)
EXTENDS RequestLinks, TLAPS

\* A call that has spent its link, or flagged it, and writes what was answered.
Speaking == {"mark", "grant", "grant back", "check", "insert", "affirm"}

\* A call's variables fit the step it is at.
RunFits(x) ==
    /\ x.pc \in {"idle", "lapses", "withdraw"} => x.link = None /\ x.say = None
    /\ x.pc \in {"store", "spend"} \cup Speaking => x.link \in Links
    /\ x.pc = "store" => /\ x.say = None
                         /\ ~link[x.link].sent
                         /\ OfOwnClaim(x.link) => own.recorded
    /\ x.pc \in {"spend"} \cup Speaking => link[x.link].sent
    /\ x.pc = "spend" => x.say \in Answers
    /\ x.pc = "mark" => x.say \in {"accept", "decline"}
    /\ x.pc \in {"grant", "grant back"} => x.say = "join"
    /\ x.pc \in {"check", "insert"} =>
          x.say \in {"accept", "decline", "confirm", "dispute", "unanswered"}
    /\ x.pc = "affirm" => x.say = "confirm"
    /\ \A l \in x.todo : link[l].sent /\ link[l].expires <= now

\* Whoever writes an answer has spent the link with it, and no answer is there before.
SpeaksFirst(x) ==
    x.pc \in Speaking /\ x.say \in Answers =>
        /\ link[x.link].answer = x.say
        /\ x.pc \notin {"grant back", "affirm"} => Times(x.link, Answers) = {}
        /\ x.pc = "grant back" => Times(x.link, {"join"}) # {}
        /\ x.pc = "affirm" => Times(x.link, {"confirm"}) # {}

\* Whoever writes a silence has flagged the link, and no silence is there before.
SilentFirst(x) ==
    x.pc \in Speaking /\ x.say = "unanswered" =>
        /\ link[x.link].lapsed
        /\ link[x.link].expires <= now
        /\ Times(x.link, {"unanswered"}) = {}

RunsFit == \A r \in Runs : RunFits(run[r]) /\ SpeaksFirst(run[r]) /\ SilentFirst(run[r])

\* Two calls that cannot be under way at once.
Clash(x, y) ==
    /\ x.link = y.link
    /\ \/ x.pc = "store" /\ y.pc = "store"
       \/ /\ x.pc \in Speaking
          /\ y.pc \in Speaking
          /\ (x.say = "unanswered") = (y.say = "unanswered")

Alone == \A r, s \in Runs : r # s => ~Clash(run[r], run[s])

\* What the row of a link says of its statements.
LinksFit ==
    \A l \in Links :
        /\ ~link[l].sent => link[l] = Unsent
        /\ link[l].sent /\ OfOwnClaim(l) => own.recorded
        /\ link[l].answer = None => Times(l, Answers) = {}
        /\ link[l].revoked => link[l].answer = None
        /\ ~link[l].lapsed => Times(l, {"unanswered"}) = {}

IInv ==
    /\ TypeOK
    /\ RunsFit
    /\ Alone
    /\ LinksFit
    /\ OneAnswer
    /\ AnswerKept
    /\ OwnLinksStop
    /\ SilenceOnce
-----------------------------------------------------------------------------
LEMMA Names ==
    /\ "unanswered" \notin Answers /\ "counterparty" \notin Answers
    /\ Answers \subseteq Statements /\ {"unanswered", "counterparty"} \subseteq Statements
    /\ None \notin Links /\ None \notin Answers
    BY LinksAssumption DEF Answers, Statements

LEMMA IdleTyped == IdleRun \in RunRecord
    BY DEF IdleRun, RunRecord

LEMMA InitInv == Init => IInv
<1> SUFFICES ASSUME Init PROVE IInv
    OBVIOUS
<1> USE LinksAssumption
<1>1. TypeOK
    <2>1. Unsent \in LinkRecord
        BY DEF Unsent, LinkRecord
    <2>2. link \in [Links -> LinkRecord] /\ run \in [Runs -> RunRecord]
        BY <2>1, IdleTyped DEF Init
    <2>3. said \in [Links -> Seq(Statements)]
        BY DEF Init
    <2>4. offer \in [until : Nat, accepted : BOOLEAN, declined : BOOLEAN]
        BY DEF Init
    <2>5. asks \in Plans /\ now \in 0 .. MaxTime /\ faults \in 0 .. MaxFaults
        BY DEF Init
    <2>6. /\ withdrawn \in BOOLEAN /\ affirmed = {} /\ lost = {}
          /\ own \in [recorded : BOOLEAN, overlooked : BOOLEAN]
        BY DEF Init
    <2> QED
        BY <2>2, <2>3, <2>4, <2>5, <2>6 DEF TypeOK
<1>2. \A l \in Links : \A S : Times(l, S) = {}
    BY DEF Init, Times
<1>3. RunsFit /\ Alone
    BY DEF Init, RunsFit, Alone, RunFits, SpeaksFirst, SilentFirst, Clash, IdleRun, Speaking
<1>4. LinksFit /\ OneAnswer /\ SilenceOnce
    BY <1>2 DEF Init, LinksFit, OneAnswer, SilenceOnce, Unsent
<1>5. AnswerKept /\ OwnLinksStop
    BY DEF Init, AnswerKept, OwnLinksStop, Unsent
<1> QED
    BY <1>1, <1>3, <1>4, <1>5 DEF IInv

\* Nothing more is needed for a link's answer.
Kept(l) ==
    \/ link[l].answer = None
    \/ <<l, FALSE>> \in lost
    \/ withdrawn /\ link[l].answer # "join" /\ asks[l].kind # "receipt"
    \/ /\ Times(l, {link[l].answer}) # {}
       /\ link[l].answer = "join" => Times(l, {"counterparty"}) # {}
       /\ link[l].answer = "confirm" /\ asks[l].kind = "receipt" => asks[l].from \in affirmed

\* Whoever works for an answer that was given is writing it.
LEMMA WorkerSpeaks ==
    ASSUME IInv, NEW r \in Runs, NEW l \in Links, link[l].answer # None,
           run[r].link = l, run[r].pc # "spend", run[r].say # "unanswered"
    PROVE  run[r].pc \in Speaking /\ run[r].say \in Answers
<1>1. RunFits(run[r]) /\ run[r] \in RunRecord
    BY DEF IInv, RunsFit, TypeOK
<1>2. run[r].pc \notin {"idle", "lapses", "withdraw"}
    BY <1>1, Names DEF RunFits
<1>3. run[r].pc # "store"
    <2>1. run[r].pc = "store" => ~link[l].sent
        BY <1>1 DEF RunFits
    <2>2. ~link[l].sent => link[l].answer = None
        BY DEF IInv, LinksFit, Unsent
    <2> QED
        BY <2>1, <2>2
<1>4. run[r].pc \in Speaking
    BY <1>1, <1>2, <1>3 DEF RunRecord, Speaking
<1> QED
    BY <1>1, <1>4 DEF RunFits, Speaking, Answers

\* A call takes a step that writes no link and no statement.
LEMMA RunKeeps ==
    ASSUME IInv, NEW r \in Runs, NEW x \in RunRecord, run' = [run EXCEPT ![r] = x],
           UNCHANGED <<asks, now, withdrawn, own, link, said>>,
           offer' \in [until : Nat, accepted : BOOLEAN, declined : BOOLEAN],
           affirmed \subseteq affirmed', affirmed' \subseteq Senders,
           lost \subseteq lost', lost' \subseteq (Links \cup {None}) \X BOOLEAN,
           faults' \in 0 .. MaxFaults,
           RunFits(x), SpeaksFirst(x), SilentFirst(x),
           x.pc = "store" => \A s \in Runs : s # r => ~Clash(x, run[s]),
           x.pc \in Speaking => /\ run[r].pc \in Speaking
                                /\ run[r].link = x.link
                                /\ run[r].say = x.say,
           run[r].pc \in Speaking /\ run[r].say \in Answers /\ x.pc \notin Speaking =>
               \A l \in Links : l = run[r].link => Kept(l)'
    PROVE  IInv'
<1>1. run'[r] = x /\ \A s \in Runs \ {r} : run'[s] = run[s]
    BY DEF IInv, TypeOK
<1>2. TypeOK'
    BY DEF IInv, TypeOK
<1>3. RunsFit'
    <2>1. RunFits(x)' /\ SpeaksFirst(x)' /\ SilentFirst(x)'
        BY DEF RunFits, SpeaksFirst, SilentFirst, Times, OfOwnClaim
    <2>2. ASSUME NEW s \in Runs \ {r}
          PROVE  RunFits(run[s])' /\ SpeaksFirst(run[s])' /\ SilentFirst(run[s])'
        <3>1. RunFits(run[s]) /\ SpeaksFirst(run[s]) /\ SilentFirst(run[s])
            BY DEF IInv, RunsFit
        <3> QED
            BY <1>1, <3>1 DEF RunFits, SpeaksFirst, SilentFirst, Times, OfOwnClaim
    <2>3. RunFits(run[r])' /\ SpeaksFirst(run[r])' /\ SilentFirst(run[r])'
        BY <1>1, <2>1 DEF RunFits, SpeaksFirst, SilentFirst, Times
    <2> QED
        BY <2>2, <2>3 DEF RunsFit
<1>4. Alone'
    <2>1. ASSUME NEW s \in Runs \ {r} PROVE ~Clash(x, run[s]) /\ ~Clash(run[s], x)
        <3>1. ~Clash(run[r], run[s])
            BY DEF IInv, Alone
        <3> QED
            BY <3>1 DEF Clash, Speaking
    <2> QED
        BY <1>1, <2>1 DEF IInv, Alone, Clash
<1>5. LinksFit' /\ OneAnswer' /\ OwnLinksStop' /\ SilenceOnce'
    BY DEF IInv, LinksFit, OneAnswer, OwnLinksStop, SilenceOnce, Times, Open, OfOwnClaim
<1>6. AnswerKept'
    <2>1. ASSUME NEW l \in Links, link[l].answer # None
          PROVE  Working(l, FALSE)' \/ Kept(l)'
        <3>1. CASE Kept(l)
            BY <3>1 DEF Kept, Times
        <3>2. ASSUME NEW s \in Runs, run[s].link = l, run[s].pc # "spend", run[s].say # "unanswered"
              PROVE  Working(l, FALSE)' \/ Kept(l)'
            <4>1. CASE s # r
                BY <1>1, <3>2, <4>1 DEF Working
            <4>2. CASE s = r
                <5>1. run[r].pc \in Speaking /\ run[r].say \in Answers
                    BY <2>1, <3>2, <4>2, WorkerSpeaks
                <5>2. CASE x.pc \in Speaking
                    BY <1>1, <3>2, <4>2, <5>2 DEF Working, Speaking
                <5> QED
                    BY <3>2, <4>2, <5>1, <5>2
            <4> QED
                BY <4>1, <4>2
        <3> QED
            BY <2>1, <3>1, <3>2 DEF IInv, AnswerKept, Working, Kept
    <2> QED
        BY <2>1 DEF AnswerKept, Kept
<1> QED
    BY <1>2, <1>3, <1>4, <1>5, <1>6 DEF IInv
-----------------------------------------------------------------------------
(* Steps that write no link and no statement. *)

LEMMA RunFacts ==
    ASSUME IInv, NEW r \in Runs
    PROVE  /\ run[r] \in RunRecord /\ run \in [Runs -> RunRecord]
           /\ RunFits(run[r]) /\ SpeaksFirst(run[r]) /\ SilentFirst(run[r])
           /\ link \in [Links -> LinkRecord]
           /\ offer \in [until : Nat, accepted : BOOLEAN, declined : BOOLEAN]
           /\ affirmed \subseteq Senders /\ lost \subseteq (Links \cup {None}) \X BOOLEAN
           /\ faults \in 0 .. MaxFaults /\ now \in Nat /\ asks \in [Links -> Requests]
    BY LinksAssumption DEF IInv, TypeOK, RunsFit

\* A call that ends, with nothing left to do for an answer.
LEMMA DoneKeeps ==
    ASSUME IInv, NEW r \in Runs, Done(r), UNCHANGED <<asks, now, withdrawn, own, offer, link, said>>,
           affirmed \subseteq affirmed', affirmed' \subseteq Senders,
           lost \subseteq lost', lost' \subseteq (Links \cup {None}) \X BOOLEAN,
           faults' \in 0 .. MaxFaults,
           run[r].pc \in Speaking /\ run[r].say \in Answers =>
               \A l \in Links : l = run[r].link => Kept(l)'
    PROVE  IInv'
<1>1. /\ IdleRun \in RunRecord /\ IdleRun.pc \notin {"store"} \cup Speaking
      /\ RunFits(IdleRun) /\ SpeaksFirst(IdleRun) /\ SilentFirst(IdleRun)
    BY IdleTyped DEF IdleRun, Speaking, RunFits, SpeaksFirst, SilentFirst
<1>2. run' = [run EXCEPT ![r] = IdleRun]
    BY DEF Done
<1>3. offer' \in [until : Nat, accepted : BOOLEAN, declined : BOOLEAN]
    BY RunFacts
<1> HIDE DEF IdleRun
<1> QED
    BY <1>1, <1>2, <1>3, RunKeeps

\* A pass that goes on with the next link, its statement of silence written or not.
LEMMA LapsesGoOn ==
    ASSUME IInv, NEW r \in Runs, NEW x \in RunRecord, run' = [run EXCEPT ![r] = x],
           x.pc = "lapses", x.link = None, x.say = None, x.todo \subseteq run[r].todo,
           UNCHANGED <<asks, now, withdrawn, own, offer, link, said, affirmed>>,
           lost \subseteq lost', lost' \subseteq (Links \cup {None}) \X BOOLEAN,
           faults' \in 0 .. MaxFaults,
           run[r].pc \in Speaking => run[r].say = "unanswered"
    PROVE  IInv'
<1>1. \A l \in x.todo : link[l].sent /\ link[l].expires <= now
    BY RunFacts DEF RunRecord, RunFits
<1>4. RunFits(x) /\ SpeaksFirst(x) /\ SilentFirst(x) /\ x.pc \notin {"store"} \cup Speaking
    BY <1>1 DEF RunFits, SpeaksFirst, SilentFirst, Speaking
<1>5. ~(run[r].pc \in Speaking /\ run[r].say \in Answers)
    BY Names
<1>6. affirmed \subseteq affirmed' /\ affirmed' \subseteq Senders
      /\ offer' \in [until : Nat, accepted : BOOLEAN, declined : BOOLEAN]
    BY RunFacts
<1> QED
    BY <1>4, <1>5, <1>6, RunKeeps

LEMMA LapsesKeep ==
    ASSUME IInv, NEW r \in Runs, NEW T \in SUBSET run[r].todo,
           run' = [run EXCEPT ![r] = [IdleRun EXCEPT !.pc = "lapses", !.todo = T]],
           UNCHANGED <<asks, now, withdrawn, own, offer, link, said, affirmed>>,
           lost \subseteq lost', lost' \subseteq (Links \cup {None}) \X BOOLEAN,
           faults' \in 0 .. MaxFaults,
           run[r].pc \in Speaking => run[r].say = "unanswered"
    PROVE  IInv'
<1> DEFINE x == [IdleRun EXCEPT !.pc = "lapses", !.todo = T]
<1>1. T \subseteq Links
    BY RunFacts DEF RunRecord
<1>2. /\ x \in RunRecord /\ x.pc = "lapses" /\ x.link = None /\ x.say = None
      /\ x.todo \subseteq run[r].todo
    BY <1>1 DEF IdleRun, RunRecord
<1>3. run' = [run EXCEPT ![r] = x]
    OBVIOUS
<1> HIDE DEF x
<1> QED
    BY <1>2, <1>3, LapsesGoOn

LEMMA CallCreateStep ==
    ASSUME IInv, NEW r \in Runs, NEW l \in Links, CallCreate(r, l)
    PROVE  IInv'
<1> DEFINE x == [IdleRun EXCEPT !.pc = "store", !.link = l]
<1>1. x \in RunRecord /\ x.pc = "store" /\ x.link = l /\ x.say = None /\ x.todo = {}
    BY DEF IdleRun, RunRecord
<1>2. /\ run' = [run EXCEPT ![r] = x] /\ ~link[l].sent /\ run[r].pc = "idle"
      /\ OfOwnClaim(l) => own.recorded
      /\ UNCHANGED <<asks, now, withdrawn, own, offer, link, said, affirmed, lost, faults>>
      /\ \A s \in Runs : run[s].pc = "store" => run[s].link # l
    BY DEF CallCreate
<1> HIDE DEF x
<1>3. RunFits(x) /\ SpeaksFirst(x) /\ SilentFirst(x) /\ x.pc \notin Speaking
    BY <1>1, <1>2 DEF RunFits, SpeaksFirst, SilentFirst, Speaking
<1>4. \A s \in Runs : s # r => ~Clash(x, run[s])
    BY <1>1, <1>2 DEF Clash, Speaking
<1>5. run[r].pc \notin Speaking
    BY <1>2 DEF Speaking
<1> QED
    BY <1>1, <1>2, <1>3, <1>4, <1>5, RunFacts, RunKeeps

LEMMA CallWithdrawStep ==
    ASSUME IInv, NEW r \in Runs, CallWithdraw(r)
    PROVE  IInv'
<1> DEFINE x == [IdleRun EXCEPT !.pc = "withdraw", !.saw = own.recorded]
<1>1. x \in RunRecord /\ x.pc = "withdraw" /\ x.link = None /\ x.say = None /\ x.todo = {}
    <2>1. own.recorded \in BOOLEAN
        BY DEF IInv, TypeOK
    <2> QED
        BY <2>1 DEF IdleRun, RunRecord
<1>2. /\ run' = [run EXCEPT ![r] = x] /\ run[r].pc = "idle"
      /\ UNCHANGED <<asks, now, withdrawn, own, offer, link, said, affirmed, lost, faults>>
    BY DEF CallWithdraw
<1> HIDE DEF x
<1>3. RunFits(x) /\ SpeaksFirst(x) /\ SilentFirst(x) /\ x.pc \notin {"store"} \cup Speaking
    BY <1>1 DEF RunFits, SpeaksFirst, SilentFirst, Speaking
<1>4. run[r].pc \notin Speaking
    BY <1>2 DEF Speaking
<1> QED
    BY <1>1, <1>2, <1>3, <1>4, RunFacts, RunKeeps

LEMMA CallAnswerStep ==
    ASSUME IInv, NEW r \in Runs, NEW l \in Links, NEW a \in Answers, CallAnswer(r, l, a)
    PROVE  IInv'
<1> DEFINE x == [IdleRun EXCEPT !.pc = "spend", !.link = l, !.say = a]
<1>1. x \in RunRecord /\ x.pc = "spend" /\ x.link = l /\ x.say = a /\ x.todo = {}
    BY DEF IdleRun, RunRecord
<1>2. /\ run' = [run EXCEPT ![r] = x] /\ link[l].sent /\ run[r].pc = "idle"
      /\ UNCHANGED <<asks, now, withdrawn, own, offer, link, said, affirmed, lost, faults>>
    BY DEF CallAnswer, Open
<1> HIDE DEF x
<1>3. RunFits(x) /\ SpeaksFirst(x) /\ SilentFirst(x) /\ x.pc \notin Speaking /\ x.pc # "store"
    BY <1>1, <1>2 DEF RunFits, SpeaksFirst, SilentFirst, Speaking
<1>4. run[r].pc \notin Speaking
    BY <1>2 DEF Speaking
<1> QED
    BY <1>1, <1>2, <1>3, <1>4, RunFacts, RunKeeps

\* A call goes on to its next step.
LEMMA GoesOn ==
    ASSUME IInv, NEW r \in Runs, NEW pc \in {"check", "insert"}, Goto(r, pc),
           UNCHANGED <<asks, now, withdrawn, own, link, said, affirmed, lost, faults>>,
           offer' \in [until : Nat, accepted : BOOLEAN, declined : BOOLEAN],
           run[r].pc \in {"mark", "check"}
    PROVE  IInv'
<1> DEFINE x == [run[r] EXCEPT !.pc = pc]
<1>1. /\ x \in RunRecord /\ x.pc = pc /\ x.link = run[r].link /\ x.say = run[r].say
      /\ x.todo = run[r].todo
    BY RunFacts DEF RunRecord
<1>2. run' = [run EXCEPT ![r] = x]
    BY RunFacts DEF Goto
<1> HIDE DEF x
<1>3. RunFits(x)
    BY <1>1, RunFacts DEF RunFits, Speaking
<1>4. SpeaksFirst(x) /\ SilentFirst(x)
    BY <1>1, RunFacts DEF SpeaksFirst, SilentFirst, Speaking
<1>5. run[r].pc \in Speaking /\ x.pc # "store" /\ x.pc \in Speaking
    BY <1>1 DEF Speaking
<1> QED
    BY <1>1, <1>2, <1>3, <1>4, <1>5, RunFacts, RunKeeps

LEMMA MarkOfferStep ==
    ASSUME IInv, NEW r \in Runs, MarkOffer(r)
    PROVE  IInv'
<1>1. offer' \in [until : Nat, accepted : BOOLEAN, declined : BOOLEAN]
    BY RunFacts DEF MarkOffer
<1> QED
    BY <1>1, GoesOn DEF MarkOffer

LEMMA CheckRecordStep ==
    ASSUME IInv, NEW r \in Runs, CheckRecord(r)
    PROVE  IInv'
<1>1. /\ UNCHANGED <<asks, now, withdrawn, own, offer, link, said, affirmed, lost, faults>>
      /\ run[r].pc = "check"
    BY DEF CheckRecord
<1>2. CASE TakesStatement(r)
    BY <1>1, <1>2, RunFacts, GoesOn DEF CheckRecord
<1>3. CASE ~TakesStatement(r) /\ run[r].say = "unanswered"
    BY <1>1, <1>3, RunFacts, LapsesKeep DEF CheckRecord, AfterStatement
<1>4. CASE ~TakesStatement(r) /\ run[r].say # "unanswered"
    <2>1. Done(r)
        BY <1>4 DEF CheckRecord, AfterStatement, Done
    <2>2. /\ run[r].say \in Answers /\ run[r].say # "join" /\ run[r].link \in Links
          /\ link[run[r].link].answer = run[r].say
        BY <1>1, <1>4, RunFacts DEF RunFits, SpeaksFirst, Speaking, Answers
    <2>3. withdrawn /\ asks[run[r].link].kind # "receipt"
        BY <1>4, <2>2 DEF TakesStatement
    <2>4. \A l \in Links : l = run[r].link => Kept(l)'
        BY <1>1, <2>2, <2>3 DEF Kept
    <2> QED
        BY <1>1, <2>1, <2>4, RunFacts, DoneKeeps
<1> QED
    BY <1>2, <1>3, <1>4

LEMMA AffirmClaimStep ==
    ASSUME IInv, NEW r \in Runs, AffirmClaim(r)
    PROVE  IInv'
<1> DEFINE l == run[r].link
<1>1. /\ UNCHANGED <<asks, now, withdrawn, own, offer, link, said, lost, faults>> /\ Done(r)
      /\ run[r].pc = "affirm" /\ affirmed' = affirmed \cup {asks[l].from}
    BY DEF AffirmClaim
<1>2. /\ l \in Links /\ run[r].say = "confirm" /\ link[l].answer = "confirm"
      /\ Times(l, {"confirm"}) # {}
    BY <1>1, RunFacts DEF RunFits, SpeaksFirst, Speaking, Answers
<1>4. asks[l].from \in Senders
    BY <1>2, RunFacts DEF Requests
<1>5. \A k \in Links : k = run[r].link => Kept(k)'
    BY <1>1, <1>2 DEF Kept, Times
<1> QED
    BY <1>1, <1>4, <1>5, RunFacts, DoneKeeps

LEMMA ListLapsedStep ==
    ASSUME IInv, NEW r \in Runs, ListLapsed(r)
    PROVE  IInv'
<1> DEFINE T == {l \in Links : IsLapsed(l)}
           x == [IdleRun EXCEPT !.pc = "lapses", !.todo = T]
<1>1. x \in RunRecord /\ x.pc = "lapses" /\ x.link = None /\ x.say = None /\ x.todo = T
    BY DEF IdleRun, RunRecord
<1>2. /\ run' = [run EXCEPT ![r] = x] /\ run[r].pc = "idle"
      /\ UNCHANGED <<asks, now, withdrawn, own, offer, link, said, affirmed, lost, faults>>
    BY DEF ListLapsed
<1>3. \A l \in T : link[l].sent /\ link[l].expires <= now
    BY DEF IsLapsed, Open
<1> HIDE DEF x, T
<1>4. RunFits(x) /\ SpeaksFirst(x) /\ SilentFirst(x) /\ x.pc \notin {"store"} \cup Speaking
    BY <1>1, <1>3 DEF RunFits, SpeaksFirst, SilentFirst, Speaking
<1>5. run[r].pc \notin Speaking
    BY <1>2 DEF Speaking
<1> QED
    BY <1>1, <1>2, <1>4, <1>5, RunFacts, RunKeeps

LEMMA FaultSteps ==
    ASSUME IInv, NEW r \in Runs, RunEnds(r) \/ LapseFails(r)
    PROVE  IInv'
<1> USE LinksAssumption
<1>1. faults' \in 0 .. MaxFaults
    <2>1. Fault
        BY DEF RunEnds, LapseFails
    <2> QED
        BY <2>1, RunFacts DEF Fault
<1>2. /\ UNCHANGED <<asks, now, withdrawn, own, offer, link, said, affirmed>>
      /\ lost \subseteq lost'
    BY DEF RunEnds, LapseFails
<1>3. lost' \subseteq (Links \cup {None}) \X BOOLEAN
    <2>1. run[r].link \in Links \cup {None} /\ (run[r].say = "unanswered") \in BOOLEAN
        BY RunFacts DEF RunRecord
    <2>2. PICK b \in BOOLEAN : lost' \subseteq lost \cup {<<run[r].link, b>>}
        BY <2>1 DEF RunEnds, LapseFails
    <2> QED
        BY <2>1, <2>2, RunFacts
<1>4. CASE RunEnds(r)
    <2>1. run[r].pc \in Speaking /\ run[r].say \in Answers => <<run[r].link, FALSE>> \in lost'
        <3>1. ASSUME run[r].pc \in Speaking, run[r].say \in Answers
              PROVE  lost' = lost \cup {<<run[r].link, FALSE>>}
            <4>1. (run[r].say = "unanswered") = FALSE
                BY <3>1, Names
            <4> QED
                BY <1>4, <3>1, <4>1 DEF RunEnds, Speaking
        <3> QED
            BY <3>1
    <2> QED
        BY <1>1, <1>2, <1>3, <1>4, <2>1, RunFacts, DoneKeeps DEF RunEnds, Kept
<1>5. CASE LapseFails(r)
    BY <1>1, <1>2, <1>3, <1>5, LapsesKeep DEF LapseFails, AfterStatement
<1> QED
    BY <1>4, <1>5
-----------------------------------------------------------------------------
(* Steps that write a statement. *)

LEMMA SayFacts ==
    ASSUME TypeOK, NEW l \in Links, NEW s \in Statements, Say(l, s)
    PROVE  /\ said' \in [Links -> Seq(Statements)]
           /\ \A k \in Links \ {l} : said'[k] = said[k]
           /\ Len(said[l]) \in Nat
           /\ DOMAIN said[l] = 1 .. Len(said[l])
           /\ DOMAIN said'[l] = 1 .. Len(said[l]) + 1
           /\ said'[l][Len(said[l]) + 1] = s
           /\ \A i \in 1 .. Len(said[l]) : said'[l][i] = said[l][i]
<1>1. said[l] \in Seq(Statements)
    BY DEF TypeOK
<1>2. said'[l] = Append(said[l], s) /\ \A k \in Links \ {l} : said'[k] = said[k]
    BY DEF Say, TypeOK
<1>3. Append(said[l], s) \in Seq(Statements)
    BY <1>1
<1>4. said' \in [Links -> Seq(Statements)]
    BY <1>2, <1>3 DEF Say, TypeOK
<1> QED
    BY <1>1, <1>2, <1>4

\* What a new statement changes of where the statements of a kind are.
LEMMA TimesSay ==
    ASSUME TypeOK, NEW l \in Links, NEW s \in Statements, Say(l, s), NEW S
    PROVE  /\ \A k \in Links \ {l} : Times(k, S)' = Times(k, S)
           /\ s \notin S => Times(l, S)' = Times(l, S)
           /\ s \in S => Times(l, S)' = Times(l, S) \cup {Len(said[l]) + 1}
           /\ Times(l, S) \subseteq 1 .. Len(said[l])
<1>1. /\ Len(said[l]) \in Nat
      /\ DOMAIN said[l] = 1 .. Len(said[l])
      /\ DOMAIN said'[l] = 1 .. Len(said[l]) + 1
      /\ said'[l][Len(said[l]) + 1] = s
      /\ \A i \in 1 .. Len(said[l]) : said'[l][i] = said[l][i]
      /\ \A k \in Links \ {l} : said'[k] = said[k]
    BY SayFacts
<1>2. \A k \in Links \ {l} : Times(k, S)' = Times(k, S)
    BY <1>1 DEF Times
<1>3. Times(l, S) = {i \in 1 .. Len(said[l]) : said[l][i] \in S}
    BY <1>1 DEF Times
<1>4. Times(l, S)' = {i \in 1 .. Len(said[l]) + 1 : said'[l][i] \in S}
    BY <1>1 DEF Times
<1>5. \A i : i \in 1 .. Len(said[l]) + 1 <=> i \in 1 .. Len(said[l]) \/ i = Len(said[l]) + 1
    BY <1>1
<1> QED
    BY <1>1, <1>2, <1>3, <1>4, <1>5

\* A call that speaks for a link writes a statement about it.
LEMMA SayKeeps ==
    ASSUME IInv, NEW r \in Runs, NEW l \in Links, NEW s \in Statements, NEW x \in RunRecord,
           Say(l, s), run' = [run EXCEPT ![r] = x],
           UNCHANGED <<asks, now, withdrawn, own, offer, link, affirmed, lost, faults>>,
           run[r].pc \in Speaking, run[r].link = l,
           s \in Answers => run[r].say = s /\ run[r].pc \notin {"grant back", "affirm"},
           s = "unanswered" => run[r].say = "unanswered",
           RunFits(x), x.pc # "store",
           x.pc \in Speaking => /\ x.link = l
                                /\ x.say = run[r].say
                                /\ x.say = s
                                /\ \/ x.pc = "grant back" /\ s = "join"
                                   \/ x.pc = "affirm" /\ s = "confirm",
           run[r].say \in Answers /\ x.pc \notin Speaking => Kept(l)'
    PROVE  IInv'
<1> DEFINE n == Len(said[l])
<1>1. run'[r] = x /\ \A u \in Runs \ {r} : run'[u] = run[u]
    BY DEF IInv, TypeOK
<1>2. TypeOK /\ said' \in [Links -> Seq(Statements)] /\ n \in Nat
    <2>1. TypeOK
        BY DEF IInv
    <2> QED
        BY <2>1, SayFacts
<1>3. ASSUME NEW S
      PROVE  /\ \A k \in Links \ {l} : Times(k, S)' = Times(k, S)
             /\ s \notin S => Times(l, S)' = Times(l, S)
             /\ s \in S => Times(l, S)' = Times(l, S) \cup {n + 1}
             /\ Times(l, S) \subseteq 1 .. n
    BY <1>2, TimesSay
<1> HIDE DEF n
<1>4. ASSUME NEW S, NEW k \in Links PROVE Times(k, S) \subseteq Times(k, S)'
    BY <1>3
<1>5. TypeOK'
    BY <1>2 DEF TypeOK
<1>6. /\ s \in Answers => link[l].answer = s /\ Times(l, Answers) = {}
      /\ s = "unanswered" => link[l].lapsed /\ link[l].expires <= now /\ Times(l, {"unanswered"}) = {}
    BY RunFacts DEF SpeaksFirst, SilentFirst
<1>6a. /\ \A k \in Links : k # l \/ s \notin Answers => Times(k, Answers)' = Times(k, Answers)
       /\ s \in Answers => Times(l, Answers)' = {n + 1}
    BY <1>3, <1>6
<1>6b. /\ \A k \in Links : k # l \/ s # "unanswered"
                           => Times(k, {"unanswered"})' = Times(k, {"unanswered"})
       /\ s = "unanswered" => Times(l, {"unanswered"})' = {n + 1}
    BY <1>3, <1>6
<1>7. RunsFit'
    <2>1. RunFits(run[r])'
        BY <1>1 DEF RunFits
    <2>2. SpeaksFirst(run[r])'
        <3>1. ASSUME x.pc \in Speaking, x.say \in Answers
              PROVE  /\ link[l].answer = x.say
                     /\ x.pc \in {"grant back", "affirm"}
                     /\ x.pc = "grant back" => Times(l, {"join"})' # {}
                     /\ x.pc = "affirm" => Times(l, {"confirm"})' # {}
            BY <1>3, <1>6, <3>1
        <3> QED
            BY <1>1, <3>1 DEF SpeaksFirst, Times
    <2>3. SilentFirst(run[r])'
        BY <1>1, Names DEF SilentFirst
    <2>4. ASSUME NEW u \in Runs \ {r}
          PROVE  RunFits(run[u])' /\ SpeaksFirst(run[u])' /\ SilentFirst(run[u])'
        <3>1. RunFits(run[u]) /\ SpeaksFirst(run[u]) /\ SilentFirst(run[u]) /\ ~Clash(run[r], run[u])
            BY RunFacts DEF IInv, Alone
        <3>2. RunFits(run[u])'
            BY <1>1, <3>1 DEF RunFits, OfOwnClaim
        <3>3. SpeaksFirst(run[u])'
            <4> SUFFICES ASSUME run[u].pc \in Speaking, run[u].say \in Answers,
                                NEW k \in Links, k = run[u].link
                         PROVE  /\ link[k].answer = run[u].say
                                /\ run[u].pc \notin {"grant back", "affirm"} => Times(k, Answers)' = {}
                                /\ run[u].pc = "grant back" => Times(k, {"join"})' # {}
                                /\ run[u].pc = "affirm" => Times(k, {"confirm"})' # {}
                BY <1>1, <3>1 DEF SpeaksFirst, RunFits, Times
            <4>1. k = l => s \notin Answers
                BY <3>1, Names DEF Clash
            <4>2. Times(k, Answers)' = Times(k, Answers)
                BY <1>3, <4>1
            <4> QED
                BY <1>4, <3>1, <4>2 DEF SpeaksFirst
        <3>4. SilentFirst(run[u])'
            <4> SUFFICES ASSUME run[u].pc \in Speaking, run[u].say = "unanswered",
                                NEW k \in Links, k = run[u].link
                         PROVE  /\ link[k].lapsed /\ link[k].expires <= now
                                /\ Times(k, {"unanswered"})' = {}
                BY <1>1, <3>1 DEF SilentFirst, RunFits, Times
            <4>1. k = l => s # "unanswered"
                BY <3>1 DEF Clash
            <4>2. Times(k, {"unanswered"})' = Times(k, {"unanswered"})
                BY <1>3, <4>1
            <4> QED
                BY <3>1, <4>2 DEF SilentFirst
        <3> QED
            BY <3>2, <3>3, <3>4
    <2> QED
        BY <2>1, <2>2, <2>3, <2>4 DEF RunsFit
<1>8. Alone'
    <2>1. ASSUME NEW u \in Runs \ {r} PROVE ~Clash(x, run[u]) /\ ~Clash(run[u], x)
        <3>1. ~Clash(run[r], run[u])
            BY DEF IInv, Alone
        <3> QED
            BY <3>1 DEF Clash, Speaking
    <2>2. ASSUME NEW u \in Runs, NEW v \in Runs, u # v PROVE ~Clash(run'[u], run'[v])
        <3>1. CASE u = r \/ v = r
            BY <1>1, <2>1, <2>2, <3>1
        <3>2. CASE u # r /\ v # r
            BY <1>1, <2>2, <3>2 DEF IInv, Alone
        <3> QED
            BY <3>1, <3>2
    <2> QED
        BY <2>2 DEF Alone, Clash
<1>9. LinksFit'
    <2>1. ASSUME NEW k \in Links
          PROVE  /\ link[k].answer = None => Times(k, Answers)' = {}
                 /\ ~link[k].lapsed => Times(k, {"unanswered"})' = {}
        BY <1>6, <1>6a, <1>6b, Names DEF IInv, LinksFit
    <2> QED
        BY <2>1 DEF IInv, LinksFit, OfOwnClaim
<1>10. OneAnswer'
    <2>1. ASSUME NEW k \in Links
          PROVE  /\ \A i, j \in Times(k, Answers)' : i = j
                 /\ link[k].revoked => Times(k, Answers)' = {}
        <3>1. CASE k # l \/ s \notin Answers
            BY <1>6a, <3>1 DEF IInv, OneAnswer
        <3>2. CASE k = l /\ s \in Answers
            <4>1. Times(k, Answers)' = {n + 1}
                BY <1>6a, <3>2
            <4>2. ~link[k].revoked
                BY <1>6, <3>2, Names DEF IInv, LinksFit
            <4> QED
                BY <4>1, <4>2
        <3> QED
            BY <3>1, <3>2
    <2> QED
        BY <2>1 DEF OneAnswer
<1>11. SilenceOnce'
    <2>1. ASSUME NEW k \in Links
          PROVE  /\ \A i, j \in Times(k, {"unanswered"})' : i = j
                 /\ Times(k, {"unanswered"})' # {} => link[k].expires <= now
        <3>1. CASE k # l \/ s # "unanswered"
            BY <1>6b, <3>1 DEF IInv, SilenceOnce
        <3>2. CASE k = l /\ s = "unanswered"
            <4>1. Times(k, {"unanswered"})' = {n + 1}
                BY <1>6b, <3>2
            <4> QED
                BY <1>6, <3>2, <4>1
        <3> QED
            BY <3>1, <3>2
    <2> QED
        BY <2>1 DEF SilenceOnce
<1>12. OwnLinksStop'
    BY DEF IInv, OwnLinksStop, Open
<1>13. AnswerKept'
    <2>1. ASSUME NEW k \in Links, link[k].answer # None
          PROVE  Working(k, FALSE)' \/ Kept(k)'
        <3>1. CASE Kept(k)
            BY <1>4, <3>1 DEF Kept
        <3>2. ASSUME NEW u \in Runs, run[u].link = k, run[u].pc # "spend", run[u].say # "unanswered"
              PROVE  Working(k, FALSE)' \/ Kept(k)'
            <4>1. CASE u # r
                BY <1>1, <3>2, <4>1 DEF Working
            <4>2. CASE u = r
                <5>1. run[r].say \in Answers
                    BY <2>1, <3>2, <4>2, WorkerSpeaks
                <5>2. CASE x.pc \in Speaking
                    BY <1>1, <3>2, <4>2, <5>2 DEF Working, Speaking
                <5> QED
                    BY <3>2, <4>2, <5>1, <5>2
            <4> QED
                BY <4>1, <4>2
        <3> QED
            BY <2>1, <3>1, <3>2 DEF IInv, AnswerKept, Working, Kept
    <2> QED
        BY <2>1 DEF AnswerKept, Kept
<1> QED
    BY <1>5, <1>7, <1>8, <1>9, <1>10, <1>11, <1>12, <1>13 DEF IInv

LEMMA GrantSteps ==
    ASSUME IInv, NEW r \in Runs, GrantAccess(r) \/ GrantBack(r)
    PROVE  IInv'
<1>1. run[r].pc \in {"grant", "grant back"}
    BY DEF GrantAccess, GrantBack
<1>2. PICK l \in Links : l = run[r].link
    BY <1>1, RunFacts DEF RunFits, Speaking
<1>3. /\ run[r].say = "join" /\ link[l].answer = "join" /\ run[r].pc \in Speaking
      /\ run[r].pc = "grant back" => Times(l, {"join"}) # {}
      /\ "join" \in Statements /\ "counterparty" \in Statements /\ "join" \in Answers
      /\ link[l].sent /\ run[r].todo \subseteq Links
    BY <1>1, <1>2, RunFacts DEF RunFits, SpeaksFirst, Speaking, Answers, Statements, RunRecord
<1>4. TypeOK
    BY DEF IInv
<1>5. CASE GrantAccess(r)
    <2> DEFINE x == [run[r] EXCEPT !.pc = "grant back"]
    <2>1. /\ x \in RunRecord /\ x.pc = "grant back" /\ x.link = l /\ x.say = "join"
          /\ x.todo = run[r].todo
        BY <1>2, <1>3, RunFacts DEF RunRecord
    <2>2. run' = [run EXCEPT ![r] = x] /\ Say(l, "join") /\ run[r].pc = "grant"
        BY <1>2, <1>5, RunFacts DEF GrantAccess, Goto
    <2> HIDE DEF x
    <2>3. RunFits(x)
        BY <1>3, <2>1, RunFacts DEF RunFits, Speaking
    <2>4. UNCHANGED <<asks, now, withdrawn, own, offer, link, affirmed, lost, faults>>
        BY <1>5 DEF GrantAccess
    <2>5. x.pc \in Speaking /\ x.pc # "store" /\ run[r].pc \notin {"grant back", "affirm"}
        BY <2>1, <2>2 DEF Speaking
    <2>6. /\ "join" # "unanswered" /\ run[r].link = l /\ run[r].say = "join"
          /\ run[r].pc \in Speaking /\ "join" \in Statements
        BY <1>2, <1>3, <2>1
    <2> QED
        BY <1>3, <2>1, <2>2, <2>3, <2>4, <2>5, <2>6, SayKeeps
<1>6. CASE GrantBack(r)
    <2>1. /\ IdleRun \in RunRecord /\ IdleRun.pc \notin {"store"} \cup Speaking /\ RunFits(IdleRun)
        BY IdleTyped DEF IdleRun, Speaking, RunFits
    <2>2. run' = [run EXCEPT ![r] = IdleRun] /\ Say(l, "counterparty") /\ run[r].pc = "grant back"
        BY <1>2, <1>6 DEF GrantBack, Done
    <2>3. Times(l, {"counterparty"})' # {} /\ Times(l, {"join"})' # {}
        BY <1>3, <1>4, <2>2, TimesSay
    <2>4. UNCHANGED <<asks, now, withdrawn, own, offer, link, affirmed, lost, faults>>
        BY <1>6 DEF GrantBack
    <2>5. Kept(l)'
        <3>1. link'[l].answer = "join" /\ "join" # "confirm"
            BY <1>3, <2>4
        <3> QED
            BY <2>3, <3>1 DEF Kept
    <2> HIDE DEF IdleRun
    <2> QED
        BY <1>2, <1>3, <2>1, <2>2, <2>4, <2>5, SayKeeps, Names
<1> QED
    BY <1>5, <1>6

LEMMA InsertStatementStep ==
    ASSUME IInv, NEW r \in Runs, InsertStatement(r)
    PROVE  IInv'
<1>1. /\ run[r].pc = "insert"
      /\ UNCHANGED <<asks, now, withdrawn, own, offer, link, affirmed, lost, faults>>
    BY DEF InsertStatement
<1>2. PICK l \in Links : l = run[r].link
    BY <1>1, RunFacts DEF RunFits, Speaking
<1> DEFINE s == run[r].say
<1>3. /\ s \in {"accept", "decline", "confirm", "dispute", "unanswered"} /\ Say(l, s)
      /\ run[r].pc \in Speaking /\ run[r].pc \notin {"grant back", "affirm"} /\ s \in Statements
      /\ s \in Answers => link[l].answer = s
      /\ link[l].sent /\ run[r].todo \subseteq Links
      /\ \A k \in run[r].todo : link[k].sent /\ link[k].expires <= now
    BY <1>1, <1>2, RunFacts DEF InsertStatement, RunFits, SpeaksFirst, Speaking, Answers, Statements,
        RunRecord
<1>4. TypeOK
    BY DEF IInv
<1>5. CASE Affirms(r)
    <2> DEFINE x == [run[r] EXCEPT !.pc = "affirm"]
    <2>1. /\ x \in RunRecord /\ x.pc = "affirm" /\ x.link = l /\ x.say = "confirm" /\ s = "confirm"
          /\ x.todo = run[r].todo
        BY <1>2, <1>5, RunFacts DEF RunRecord, Affirms
    <2>2. run' = [run EXCEPT ![r] = x]
        BY <1>5, RunFacts DEF InsertStatement, Goto
    <2> HIDE DEF x
    <2>3. RunFits(x)
        BY <1>3, <2>1 DEF RunFits, Speaking
    <2> QED
        BY <1>1, <1>2, <1>3, <2>1, <2>2, <2>3, SayKeeps, Names DEF Speaking
<1>6. CASE ~Affirms(r)
    <2> DEFINE x == AfterStatement(r)
    <2>1. /\ x \in RunRecord /\ x.pc \in {"idle", "lapses"} /\ x.link = None /\ x.say = None
          /\ x.todo \subseteq run[r].todo
        BY <1>3 DEF AfterStatement, IdleRun, RunRecord
    <2>2. run' = [run EXCEPT ![r] = x]
        BY <1>6 DEF InsertStatement
    <2> HIDE DEF x
    <2>3. RunFits(x) /\ x.pc \notin {"store"} \cup Speaking
        BY <1>3, <2>1 DEF RunFits, Speaking
    <2>4. ASSUME s \in Answers PROVE Kept(l)'
        <3>1. PICK v \in Statements : v = s
            BY <1>3
        <3>1a. Say(l, v)
            BY <1>3, <3>1 DEF Say
        <3>2. Times(l, {v})' # {}
            BY <1>4, <3>1a, TimesSay
        <3>3. {i \in DOMAIN said'[l] : said'[l][i] \in {v}} # {}
            BY <3>2 DEF Times
        <3>4. /\ link'[l].answer = v /\ v # "join" /\ UNCHANGED asks
              /\ ~(v = "confirm" /\ asks[l].kind = "receipt")
            BY <1>1, <1>2, <1>3, <1>6, <2>4, <3>1 DEF Affirms
        <3> HIDE DEF s
        <3> QED
            BY <3>3, <3>4 DEF Kept, Times
    <2> QED
        BY <1>1, <1>2, <1>3, <2>1, <2>2, <2>3, <2>4, SayKeeps
<1> QED
    BY <1>5, <1>6
-----------------------------------------------------------------------------
(* Steps that write a link. *)

\* A call writes a link: stores it, spends it or flags it.
LEMMA LinkKeeps ==
    ASSUME IInv, NEW r \in Runs, NEW x \in RunRecord, NEW l \in Links, NEW y \in LinkRecord,
           run' = [run EXCEPT ![r] = x], link' = [link EXCEPT ![l] = y],
           UNCHANGED <<asks, now, withdrawn, own, offer, said, affirmed, lost, faults>>,
           y.sent, OfOwnClaim(l) => own.recorded, link[l].sent => y.expires = link[l].expires,
           link[l].lapsed => y.lapsed, y.revoked => y.answer = None,
           \A u \in Runs \ {r} : run[u].link = l => run[u].pc # "store",
           y.answer # link[l].answer =>
               /\ link[l].answer = None
               /\ x.pc \in Speaking /\ x.link = l /\ x.say = y.answer /\ x.say \in Answers,
           run[r].pc \notin Speaking, x.pc # "store", run[r].pc # "store" \/ ~link[l].sent,
           x.pc \in Speaking =>
               /\ x.link = l
               /\ \/ x.say \in Answers /\ link[l].answer = None
                  \/ x.say = "unanswered" /\ ~link[l].lapsed,
           RunFits(x)', SpeaksFirst(x)', SilentFirst(x)',
           withdrawn => \/ y.raced
                        \/ y.answer # None
                        \/ /\ link[l].sent
                           /\ y.raced = link[l].raced
                           /\ y.answer = link[l].answer
                           /\ y.revoked = link[l].revoked
    PROVE  IInv'
<1>1. /\ run'[r] = x /\ \A u \in Runs \ {r} : run'[u] = run[u]
      /\ link'[l] = y /\ \A k \in Links \ {l} : link'[k] = link[k]
    BY DEF IInv, TypeOK
<1>2. \A k \in Links : \A S : Times(k, S)' = Times(k, S)
    BY DEF Times
<1>3. TypeOK'
    BY DEF IInv, TypeOK
<1>4. ~link[l].sent => link[l] = Unsent
    BY DEF IInv, LinksFit
<1>5. ASSUME NEW u \in Runs \ {r}
      PROVE  RunFits(run[u])' /\ SpeaksFirst(run[u])' /\ SilentFirst(run[u])'
    <2>1. RunFits(run[u]) /\ SpeaksFirst(run[u]) /\ SilentFirst(run[u]) /\ run[u] \in RunRecord
        BY RunFacts
    <2>2. RunFits(run[u])'
        <3>1. run[u].link = l => run[u].pc # "store"
            OBVIOUS
        <3>2. \A k \in Links : link[k].sent => link'[k].sent /\ link'[k].expires = link[k].expires
            BY <1>1
        <3>3. \A k \in run[u].todo : link'[k].sent /\ link'[k].expires <= now
            BY <2>1, <3>2 DEF RunFits, RunRecord
        <3>4. run[u].pc = "store" => ~link'[run[u].link].sent
            BY <1>1, <2>1, <3>1 DEF RunFits
        <3>5. run[u].pc \in {"spend"} \cup Speaking => link'[run[u].link].sent
            BY <2>1, <3>2 DEF RunFits
        <3> QED
            BY <1>1, <2>1, <3>3, <3>4, <3>5 DEF RunFits, OfOwnClaim
    <2>3. SpeaksFirst(run[u])'
        <3>1. run'[u] = run[u]
            BY <1>1
        <3>2. \A S : Times(run[u].link, S)' = Times(run[u].link, S)
            BY <3>1 DEF Times
        <3>3. ASSUME run[u].pc \in Speaking, run[u].say \in Answers
              PROVE  link'[run[u].link].answer = run[u].say
            <4>1. /\ run[u].link \in Links
                  /\ link[run[u].link].answer = run[u].say /\ run[u].say # None
                BY <2>1, <3>3, Names DEF SpeaksFirst, RunFits
            <4> QED
                BY <1>1, <4>1
        <3> QED
            BY <2>1, <3>1, <3>2, <3>3 DEF SpeaksFirst
    <2>4. SilentFirst(run[u])'
        <3>1. run'[u] = run[u] /\ now' = now
            BY <1>1
        <3>2. \A S : Times(run[u].link, S)' = Times(run[u].link, S)
            BY <3>1 DEF Times
        <3>3. ASSUME run[u].pc \in Speaking, run[u].say = "unanswered"
              PROVE  /\ link'[run[u].link].lapsed /\ link'[run[u].link].expires <= now
                     /\ Times(run[u].link, {"unanswered"}) = {}
            <4>1. /\ run[u].link \in Links
                  /\ link[run[u].link].sent /\ link[run[u].link].lapsed
                  /\ link[run[u].link].expires <= now
                  /\ Times(run[u].link, {"unanswered"}) = {}
                BY <2>1, <3>3 DEF RunFits, SilentFirst
            <4>2. PICK k \in Links : k = run[u].link
                BY <4>1
            <4>3. link'[k].lapsed /\ link'[k].expires = link[k].expires
                BY <1>1, <4>1, <4>2
            <4> QED
                BY <4>1, <4>2, <4>3
        <3> QED
            BY <3>1, <3>2, <3>3 DEF SilentFirst
    <2> QED
        BY <2>2, <2>3, <2>4
<1>6. RunsFit'
    <2>1. RunFits(run[r])' /\ SpeaksFirst(run[r])' /\ SilentFirst(run[r])'
        BY <1>1 DEF RunFits, SpeaksFirst, SilentFirst, Times
    <2> QED
        BY <1>5, <2>1 DEF RunsFit
<1>7. Alone'
    <2>1. ASSUME NEW u \in Runs \ {r} PROVE ~Clash(x, run[u]) /\ ~Clash(run[u], x)
        <3> SUFFICES ASSUME run[u].pc \in Speaking, run[u].link = l, x.pc \in Speaking,
                            (x.say = "unanswered") = (run[u].say = "unanswered")
                     PROVE  FALSE
            BY DEF Clash
        <3>1. /\ run[u].say \in Answers => link[l].answer = run[u].say
              /\ run[u].say = "unanswered" => link[l].lapsed
              /\ run[u].say \in Answers \/ run[u].say = "unanswered"
            BY RunFacts DEF SpeaksFirst, SilentFirst, RunFits, Speaking, Answers
        <3> QED
            BY <3>1, Names
    <2>2. ASSUME NEW u \in Runs, NEW v \in Runs, u # v PROVE ~Clash(run'[u], run'[v])
        <3>1. CASE u = r \/ v = r
            BY <1>1, <2>1, <2>2, <3>1
        <3>2. CASE u # r /\ v # r
            BY <1>1, <2>2, <3>2 DEF IInv, Alone
        <3> QED
            BY <3>1, <3>2
    <2> QED
        BY <2>2 DEF Alone, Clash
<1>8. LinksFit'
    <2>1. ASSUME NEW k \in Links
          PROVE  /\ ~link'[k].sent => link'[k] = Unsent
                 /\ link'[k].sent /\ OfOwnClaim(k) => own.recorded
                 /\ link'[k].answer = None => Times(k, Answers) = {}
                 /\ link'[k].revoked => link'[k].answer = None
                 /\ ~link'[k].lapsed => Times(k, {"unanswered"}) = {}
        <3>1. CASE k # l
            BY <1>1, <3>1 DEF IInv, LinksFit
        <3>2. CASE k = l
            BY <1>1, <3>2, Names DEF IInv, LinksFit
        <3> QED
            BY <3>1, <3>2
    <2> QED
        BY <1>2, <2>1 DEF LinksFit, Times, Unsent, OfOwnClaim
<1>9. OneAnswer'
    <2>1. ASSUME NEW k \in Links
          PROVE  /\ \A i, j \in Times(k, Answers) : i = j
                 /\ link'[k].revoked => Times(k, Answers) = {}
        <3>1. link'[k].revoked => link'[k].answer = None
            BY <1>8 DEF LinksFit
        <3>2. link'[k].answer = None => link[k].answer = None
            BY <1>1, Names
        <3> QED
            BY <3>1, <3>2 DEF IInv, OneAnswer, LinksFit
    <2> QED
        BY <1>2, <2>1 DEF OneAnswer, Times
<1>10. SilenceOnce'
    <2>1. ASSUME NEW k \in Links
          PROVE  /\ \A i, j \in Times(k, {"unanswered"}) : i = j
                 /\ Times(k, {"unanswered"}) # {} => link'[k].expires <= now
        <3>1. Times(k, {"unanswered"}) # {} => link[k].sent
            <4>1. Times(k, {"unanswered"}) # {} => link[k].lapsed
                BY DEF IInv, LinksFit
            <4>2. ~link[k].sent => ~link[k].lapsed
                BY DEF IInv, LinksFit, Unsent
            <4> QED
                BY <4>1, <4>2
        <3> QED
            BY <1>1, <3>1 DEF IInv, SilenceOnce
    <2> QED
        BY <1>2, <2>1 DEF SilenceOnce, Times
<1>11. OwnLinksStop'
    <2>1. ASSUME withdrawn, NEW k \in Links, asks[k].from = "owner",
                 asks[k].filed \/ asks[k].kind = "receipt"
          PROVE  \/ link'[k].raced
                 \/ ~link'[k].sent \/ link'[k].answer # None \/ link'[k].revoked
                 \/ own.overlooked /\ ~asks[k].filed
        <3>1. \/ link[k].raced \/ ~Open(k)
              \/ own.overlooked /\ ~asks[k].filed
            BY <2>1 DEF IInv, OwnLinksStop
        <3> QED
            BY <1>1, <2>1, <3>1 DEF Open
    <2> QED
        BY <2>1 DEF OwnLinksStop, Open
<1>12. AnswerKept'
    <2>1. ASSUME NEW k \in Links, link'[k].answer # None
          PROVE  Working(k, FALSE)' \/ Kept(k)'
        <3>1. CASE link'[k].answer # link[k].answer
            <4>1. k = l /\ run'[r].link = k /\ run'[r].pc \in Speaking /\ run'[r].say \in Answers
                BY <1>1, <3>1
            <4> QED
                BY <4>1, Names DEF Working, Speaking
        <3>2. CASE link'[k].answer = link[k].answer /\ Kept(k)
            BY <3>2 DEF Kept, Times
        <3>3. ASSUME link'[k].answer = link[k].answer,
                     NEW u \in Runs, run[u].link = k, run[u].pc # "spend", run[u].say # "unanswered"
              PROVE  Working(k, FALSE)'
            <4>1. run[u].pc \in Speaking
                BY <2>1, <3>3, WorkerSpeaks
            <4>2. u # r
                BY <4>1
            <4> QED
                BY <1>1, <3>3, <4>2 DEF Working
        <3> QED
            BY <2>1, <3>1, <3>2, <3>3 DEF IInv, AnswerKept, Working, Kept
    <2> QED
        BY <2>1 DEF AnswerKept, Kept
<1> QED
    BY <1>3, <1>6, <1>7, <1>8, <1>9, <1>10, <1>11, <1>12 DEF IInv

LEMMA StoreLinkStep ==
    ASSUME IInv, NEW r \in Runs, StoreLink(r)
    PROVE  IInv'
<1> USE LinksAssumption
<1>1. run[r].pc = "store" /\ UNCHANGED <<asks, now, withdrawn, own, offer, said, affirmed, lost, faults>>
    BY DEF StoreLink
<1>2. PICK l \in Links : l = run[r].link
    BY <1>1, RunFacts DEF RunFits
<1>3. PICK e \in Nat : e = IF asks[l].kind = "offer" /\ offer.until > now + TTL
                          THEN offer.until ELSE now + TTL
    BY RunFacts
<1>4. PICK y \in LinkRecord : y = [Unsent EXCEPT !.sent = TRUE, !.expires = e, !.raced = withdrawn]
    <2>1. withdrawn \in BOOLEAN
        BY DEF IInv, TypeOK
    <2>2. [Unsent EXCEPT !.sent = TRUE, !.expires = e, !.raced = withdrawn] \in LinkRecord
        BY <2>1 DEF Unsent, LinkRecord
    <2> QED
        BY <2>2
<1>5. /\ y.sent /\ y.answer = None /\ ~y.revoked /\ ~y.lapsed /\ y.raced = withdrawn
    BY <1>4 DEF Unsent
<1>5a. OfOwnClaim(l) => own.recorded
    BY <1>1, <1>2, RunFacts DEF RunFits
<1>6. PICK x \in RunRecord : x = IdleRun
    BY IdleTyped
<1>7. link' = [link EXCEPT ![l] = y] /\ run' = [run EXCEPT ![r] = x]
    BY <1>2, <1>3, <1>4, <1>6 DEF StoreLink, Done
<1>8. ~link[l].sent /\ link[l].answer = None /\ ~link[l].lapsed
    <2>1. ~link[l].sent
        BY <1>1, <1>2, RunFacts DEF RunFits
    <2>2. link[l] = Unsent
        BY <2>1 DEF IInv, LinksFit
    <2> QED
        BY <2>1, <2>2 DEF Unsent
<1>9. \A u \in Runs \ {r} : run[u].link = l => run[u].pc # "store"
    <2>1. ASSUME NEW u \in Runs \ {r}, run[u].link = l, run[u].pc = "store" PROVE FALSE
        <3>1. ~Clash(run[r], run[u])
            BY DEF IInv, Alone
        <3> QED
            BY <1>1, <1>2, <2>1, <3>1 DEF Clash
    <2> QED
        BY <2>1
<1>10. x.pc \notin {"store"} \cup Speaking /\ run[r].pc \notin Speaking
    BY <1>1, <1>6 DEF IdleRun, Speaking
<1>11. RunFits(x)' /\ SpeaksFirst(x)' /\ SilentFirst(x)'
    <2>1. x.pc = "idle" /\ x.link = None /\ x.say = None /\ x.todo = {}
        BY <1>6 DEF IdleRun
    <2> QED
        BY <2>1 DEF Speaking, RunFits, SpeaksFirst, SilentFirst
<1>12. /\ link[l].sent => y.expires = link[l].expires
       /\ link[l].lapsed => y.lapsed
       /\ y.revoked => y.answer = None
    BY <1>5, <1>8
<1>13. y.answer # link[l].answer =>
          /\ link[l].answer = None
          /\ x.pc \in Speaking /\ x.link = l /\ x.say = y.answer /\ x.say \in Answers
    BY <1>5, <1>8
<1>14. x.pc \in Speaking =>
          /\ x.link = l
          /\ \/ x.say \in Answers /\ link[l].answer = None
             \/ x.say = "unanswered" /\ ~link[l].lapsed
    BY <1>10
<1>15. withdrawn => \/ y.raced
                    \/ y.answer # None
                    \/ /\ link[l].sent
                       /\ y.raced = link[l].raced
                       /\ y.answer = link[l].answer
                       /\ y.revoked = link[l].revoked
    BY <1>5
<1>16. /\ y.sent /\ x.pc # "store" /\ run[r].pc \notin Speaking
       /\ run[r].pc # "store" \/ ~link[l].sent
       /\ UNCHANGED <<asks, now, withdrawn, own, offer, said, affirmed, lost, faults>>
    BY <1>1, <1>5, <1>8, <1>10
<1> QED
    BY <1>5a, <1>7, <1>9, <1>11, <1>12, <1>13, <1>14, <1>15, <1>16, LinkKeeps

LEMMA SpendLinkStep ==
    ASSUME IInv, NEW r \in Runs, SpendLink(r)
    PROVE  IInv'
<1>1. run[r].pc = "spend" /\ UNCHANGED <<asks, now, withdrawn, own, offer, said, affirmed, lost, faults>>
    BY DEF SpendLink
<1>2. PICK l \in Links : l = run[r].link
    BY <1>1, RunFacts DEF RunFits
<1>3. CASE ~Open(l)
    BY <1>1, <1>2, <1>3, RunFacts, DoneKeeps DEF SpendLink, Speaking
<1>4. CASE Open(l)
    <2>a. PICK a \in Answers : a = run[r].say
        BY <1>1, RunFacts DEF RunFits
    <2>1. /\ link[l] \in LinkRecord /\ run[r].todo \subseteq Links
          /\ \A k \in run[r].todo : link[k].sent /\ link[k].expires <= now
          /\ link[l].sent /\ link[l].answer = None /\ ~link[l].revoked
        BY <1>1, <1>4, RunFacts DEF RunFits, RunRecord, Open
    <2>2. /\ AfterSpending(a) \in {"mark", "grant", "check"}
          /\ AfterSpending(a) = "mark" => a \in {"accept", "decline"}
          /\ AfterSpending(a) = "grant" => a = "join"
          /\ AfterSpending(a) = "check" => a \in {"confirm", "dispute"}
        BY DEF AfterSpending, Answers
    <2>x. PICK x \in RunRecord : x = [run[r] EXCEPT !.pc = AfterSpending(a)]
        <3>1. [run[r] EXCEPT !.pc = AfterSpending(a)] \in RunRecord
            BY <2>2, RunFacts DEF RunRecord
        <3> QED
            BY <3>1
    <2>y. PICK y \in LinkRecord : y = [link[l] EXCEPT !.answer = a]
        <3>1. [link[l] EXCEPT !.answer = a] \in LinkRecord
            BY <2>1 DEF LinkRecord
        <3> QED
            BY <3>1
    <2>3. /\ x.pc \in {"mark", "grant", "check"} /\ x.pc = AfterSpending(a)
          /\ x.link = l /\ x.say = a /\ x.todo = run[r].todo
        BY <1>2, <2>2, <2>a, <2>x, RunFacts DEF RunRecord
    <2>4. /\ y.sent = link[l].sent /\ y.expires = link[l].expires
          /\ y.lapsed = link[l].lapsed /\ y.revoked = link[l].revoked /\ y.answer = a
        BY <2>1, <2>y DEF LinkRecord
    <2>5. link' = [link EXCEPT ![l] = y] /\ run' = [run EXCEPT ![r] = x]
        BY <1>2, <1>4, <2>a, <2>x, <2>y, RunFacts DEF SpendLink, Goto
    <2>6. link'[l] = y /\ \A k \in Links \ {l} : link'[k] = link[k]
        BY <2>5, RunFacts
    <2>7. RunFits(x)'
        <3>1. \A k \in x.todo : link'[k].sent /\ link'[k].expires <= now
            BY <2>1, <2>3, <2>4, <2>6
        <3>2. link'[l].sent
            BY <2>1, <2>4, <2>6
        <3> QED
            BY <1>1, <2>2, <2>3, <3>1, <3>2 DEF RunFits, Speaking
    <2>8. SpeaksFirst(x)'
        <3>1. Times(l, Answers) = {}
            BY <2>1 DEF IInv, LinksFit
        <3>2. Times(l, Answers)' = {}
            BY <1>1, <3>1 DEF Times
        <3> QED
            BY <2>3, <2>4, <2>6, <3>2 DEF SpeaksFirst
    <2>9. SilentFirst(x)'
        BY <2>1, <2>3, Names DEF SilentFirst
    <2>10. run[r].pc \notin Speaking /\ run[r].pc # "store" /\ x.pc # "store" /\ x.pc \in Speaking
        BY <1>1, <2>3 DEF Speaking
    <2>11. \A u \in Runs \ {r} : run[u].link = l => run[u].pc # "store"
        BY <2>1, RunFacts DEF RunFits
    <2>12. a # None
        BY Names
    <2>13. x.pc \in Speaking =>
              /\ x.link = l
              /\ \/ x.say \in Answers /\ link[l].answer = None
                 \/ x.say = "unanswered" /\ ~link[l].lapsed
        BY <2>1, <2>3
    <2>14. y.answer # link[l].answer =>
              /\ link[l].answer = None
              /\ x.pc \in Speaking /\ x.link = l /\ x.say = y.answer /\ x.say \in Answers
        BY <2>1, <2>3, <2>4, <2>10
    <2>15. withdrawn => \/ y.raced
                        \/ y.answer # None
                        \/ /\ link[l].sent
                           /\ y.raced = link[l].raced
                           /\ y.answer = link[l].answer
                           /\ y.revoked = link[l].revoked
        BY <2>4, <2>12
    <2>16. /\ y.sent
           /\ OfOwnClaim(l) => own.recorded
           /\ link[l].sent => y.expires = link[l].expires
           /\ link[l].lapsed => y.lapsed
           /\ y.revoked => y.answer = None
        BY <2>1, <2>4 DEF IInv, LinksFit
    <2> QED
        BY <1>1, <2>5, <2>7, <2>8, <2>9, <2>10, <2>11, <2>13, <2>14, <2>15, <2>16, LinkKeeps
<1> QED
    BY <1>3, <1>4

LEMMA FlagLapseStep ==
    ASSUME IInv, NEW r \in Runs, NEW l \in Links, FlagLapse(r, l)
    PROVE  IInv'
<1>1. /\ run[r].pc = "lapses" /\ l \in run[r].todo
      /\ UNCHANGED <<asks, now, withdrawn, own, offer, said, affirmed, lost, faults>>
    BY DEF FlagLapse
<1>2. /\ run[r] \in RunRecord /\ run[r].link = None /\ run[r].say = None
      /\ link[l].sent /\ link[l].expires <= now /\ link[l] \in LinkRecord
      /\ \A k \in run[r].todo : k \in Links /\ link[k].sent /\ link[k].expires <= now
    BY <1>1, RunFacts DEF RunFits, RunRecord
<1>3. CASE link[l].lapsed
    <2>1. link' = link
        <3>1. link[l] = [link[l] EXCEPT !.lapsed = TRUE]
            BY <1>2, <1>3 DEF LinkRecord
        <3>2. link' = [link EXCEPT ![l] = [link[l] EXCEPT !.lapsed = TRUE]]
            BY RunFacts DEF FlagLapse
        <3> QED
            BY <3>1, <3>2, RunFacts
    <2>t. PICK T \in SUBSET run[r].todo : T = run[r].todo \ {l}
        BY <1>2
    <2>2. PICK x \in RunRecord : x = [run[r] EXCEPT !.todo = T]
        <3>1. [run[r] EXCEPT !.todo = T] \in RunRecord
            BY <1>2 DEF RunRecord
        <3> QED
            BY <3>1
    <2>3. x.pc = "lapses" /\ x.link = None /\ x.say = None /\ x.todo \subseteq run[r].todo
        BY <1>1, <1>2, <2>2 DEF RunRecord
    <2>4. run' = [run EXCEPT ![r] = x]
        <3>1. run' = [run EXCEPT ![r] = [run[r] EXCEPT !.todo = run[r].todo \ {l}]]
            BY <1>3 DEF FlagLapse
        <3> QED
            BY <2>t, <2>2, <3>1
    <2> QED
        BY <1>1, <2>1, <2>3, <2>4, RunFacts, LapsesGoOn DEF Speaking
<1>4. CASE ~link[l].lapsed
    <2>t. PICK T \in SUBSET Links : T = run[r].todo \ {l}
        BY <1>2
    <2>x. PICK x \in RunRecord :
              x = [run[r] EXCEPT !.pc = "check", !.link = l, !.say = "unanswered", !.todo = T]
        <3>1. [run[r] EXCEPT !.pc = "check", !.link = l, !.say = "unanswered", !.todo = T]
                  \in RunRecord
            BY <1>2 DEF RunRecord
        <3> QED
            BY <3>1
    <2>y. PICK y \in LinkRecord : y = [link[l] EXCEPT !.lapsed = TRUE]
        <3>1. [link[l] EXCEPT !.lapsed = TRUE] \in LinkRecord
            BY <1>2 DEF LinkRecord
        <3> QED
            BY <3>1
    <2>1. /\ x.pc = "check" /\ x.link = l /\ x.say = "unanswered"
          /\ x.todo \subseteq run[r].todo
        BY <1>2, <2>t, <2>x DEF RunRecord
    <2>2. /\ y.sent = link[l].sent /\ y.expires = link[l].expires
          /\ y.lapsed /\ y.revoked = link[l].revoked /\ y.answer = link[l].answer
          /\ y.raced = link[l].raced
        BY <1>2, <2>y DEF LinkRecord
    <2>3. link' = [link EXCEPT ![l] = y] /\ run' = [run EXCEPT ![r] = x]
        <3>1. link' = [link EXCEPT ![l] = y]
            BY <2>y, RunFacts DEF FlagLapse
        <3>2. run' = [run EXCEPT ![r] = x]
            <4>1. run' = [run EXCEPT ![r] =
                            [run[r] EXCEPT !.pc = "check", !.link = l, !.say = "unanswered",
                                           !.todo = run[r].todo \ {l}]]
                BY <1>4 DEF FlagLapse
            <4> QED
                BY <4>1, <2>t, <2>x
        <3> QED
            BY <3>1, <3>2
    <2>4. link'[l] = y /\ \A k \in Links \ {l} : link'[k] = link[k]
        BY <2>3, RunFacts
    <2>5. RunFits(x)'
        <3>1. \A k \in x.todo : link'[k].sent /\ link'[k].expires <= now
            BY <1>2, <2>1, <2>2, <2>4
        <3>2. link'[l].sent
            BY <1>2, <2>2, <2>4
        <3> QED
            BY <1>1, <2>1, <3>1, <3>2 DEF RunFits, Speaking
    <2>6. SpeaksFirst(x)'
        BY <2>1, Names DEF SpeaksFirst
    <2>7. SilentFirst(x)'
        <3>1. Times(l, {"unanswered"}) = {}
            BY <1>4 DEF IInv, LinksFit
        <3>2. Times(l, {"unanswered"})' = {}
            BY <1>1, <3>1 DEF Times
        <3> QED
            BY <1>1, <1>2, <2>1, <2>2, <2>4, <3>2 DEF SilentFirst
    <2>8. run[r].pc \notin Speaking /\ run[r].pc # "store" /\ x.pc # "store"
        BY <1>1, <2>1 DEF Speaking
    <2>9. \A u \in Runs \ {r} : run[u].link = l => run[u].pc # "store"
        BY <1>2, RunFacts DEF RunFits
    <2>10. /\ y.revoked => y.answer = None
           /\ OfOwnClaim(l) => own.recorded
        BY <1>2, <2>2 DEF IInv, LinksFit
    <2> QED
        BY <1>1, <1>2, <1>4, <2>1, <2>2, <2>3, <2>5, <2>6, <2>7, <2>8, <2>9, <2>10, LinkKeeps
<1> QED
    BY <1>3, <1>4

\* Open links are revoked, with the record or without, and a withdrawing call may end.
LEMMA RevokesKeep ==
    ASSUME IInv, link' \in [Links -> LinkRecord],
           \A l \in Links : \/ link'[l] = link[l]
                            \/ Open(l) /\ link'[l] = [link[l] EXCEPT !.revoked = TRUE],
           UNCHANGED <<asks, now, said, affirmed, lost, faults>>,
           run' \in [Runs -> RunRecord],
           \A u \in Runs : run'[u] = run[u] \/ (run[u].pc = "withdraw" /\ run'[u] = IdleRun),
           withdrawn => withdrawn', withdrawn' \in BOOLEAN,
           own' \in [recorded : BOOLEAN, overlooked : BOOLEAN], own.recorded => own'.recorded,
           offer' \in [until : Nat, accepted : BOOLEAN, declined : BOOLEAN],
           OwnLinksStop'
    PROVE  IInv'
<1>1. ASSUME NEW l \in Links
      PROVE  /\ link'[l].sent = link[l].sent /\ link'[l].expires = link[l].expires
             /\ link'[l].answer = link[l].answer /\ link'[l].lapsed = link[l].lapsed
             /\ link'[l].revoked => link[l].revoked \/ link[l].answer = None
             /\ ~link[l].sent => link'[l] = link[l]
             /\ OfOwnClaim(l)' = OfOwnClaim(l)
    <2>1. link[l] \in LinkRecord
        BY DEF IInv, TypeOK
    <2> QED
        BY <2>1 DEF Open, LinkRecord, OfOwnClaim
<1>2. TypeOK'
    BY DEF IInv, TypeOK
<1>x. /\ IdleRun.pc = "idle" /\ IdleRun.link = None /\ IdleRun.say = None /\ IdleRun.todo = {}
    BY DEF IdleRun
<1>3. RunsFit'
    <2>1. ASSUME NEW u \in Runs
          PROVE  RunFits(run[u])' /\ SpeaksFirst(run[u])' /\ SilentFirst(run[u])'
        <3>1. RunFits(run[u]) /\ SpeaksFirst(run[u]) /\ SilentFirst(run[u]) /\ run[u] \in RunRecord
            BY RunFacts
        <3>2. CASE run'[u] = IdleRun
            BY <1>x, <3>2 DEF RunFits, SpeaksFirst, SilentFirst, Speaking
        <3>3. CASE run'[u] = run[u]
            <4>1. \A S : Times(run[u].link, S)' = Times(run[u].link, S)
                BY <3>3 DEF Times
            <4>2. RunFits(run[u])'
                <5>1. \A k \in run[u].todo : link'[k].sent /\ link'[k].expires <= now
                    BY <1>1, <3>1 DEF RunFits, RunRecord
                <5>2. run[u].pc = "store" => /\ run[u].link \in Links
                                             /\ ~link'[run[u].link].sent
                                             /\ OfOwnClaim(run[u].link)' => own'.recorded
                    BY <1>1, <3>1, <3>3 DEF RunFits, OfOwnClaim
                <5>3. run[u].pc \in {"spend"} \cup Speaking => link'[run[u].link].sent
                    BY <1>1, <3>1 DEF RunFits
                <5> QED
                    BY <3>1, <3>3, <5>1, <5>2, <5>3 DEF RunFits, OfOwnClaim
            <4>3. SpeaksFirst(run[u])'
                <5>1. ASSUME run[u].pc \in Speaking
                      PROVE  link'[run[u].link].answer = link[run[u].link].answer
                    <6>1. run[u].link \in Links
                        BY <3>1, <5>1 DEF RunFits
                    <6> QED
                        BY <1>1, <6>1
                <5> QED
                    BY <3>1, <3>3, <4>1, <5>1 DEF SpeaksFirst
            <4>4. SilentFirst(run[u])'
                <5>1. ASSUME run[u].pc \in Speaking, run[u].say = "unanswered"
                      PROVE  /\ link'[run[u].link].lapsed /\ link'[run[u].link].expires <= now
                             /\ Times(run[u].link, {"unanswered"}) = {}
                    BY <1>1, <3>1, <5>1 DEF SilentFirst, RunFits
                <5> QED
                    BY <3>3, <4>1, <5>1 DEF SilentFirst
            <4> QED
                BY <4>2, <4>3, <4>4
        <3> QED
            BY <3>2, <3>3
    <2> QED
        BY <2>1 DEF RunsFit
<1>4. Alone' /\ LinksFit'
    <2>1. Alone'
        <3>1. ASSUME NEW u \in Runs, NEW v \in Runs, u # v PROVE ~Clash(run'[u], run'[v])
            <4>1. ~Clash(run[u], run[v])
                BY <3>1 DEF IInv, Alone
            <4>2. CASE run'[u] = run[u] /\ run'[v] = run[v]
                BY <4>1, <4>2
            <4>3. CASE run'[u] = IdleRun \/ run'[v] = IdleRun
                BY <1>x, <4>3 DEF Clash, Speaking
            <4> QED
                BY <4>2, <4>3
        <3> QED
            BY <3>1 DEF Alone, Clash
    <2>2. LinksFit'
        BY <1>1 DEF IInv, LinksFit, Times, Unsent
    <2> QED
        BY <2>1, <2>2
<1>5. OneAnswer'
    BY <1>1 DEF IInv, OneAnswer, LinksFit, Times
<1>6. SilenceOnce'
    BY <1>1 DEF IInv, SilenceOnce, Times
<1>7. AnswerKept'
    <2>1. ASSUME NEW l \in Links, link[l].answer # None
          PROVE  Working(l, FALSE)' \/ Kept(l)'
        <3>1. Working(l, FALSE) \/ Kept(l)
            BY <2>1 DEF IInv, AnswerKept, Kept
        <3>2. ASSUME NEW u \in Runs, run[u].link = l, run[u].pc # "spend",
                     run[u].say # "unanswered"
              PROVE  Working(l, FALSE)'
            <4>1. run[u].pc \in Speaking
                BY <2>1, <3>2, WorkerSpeaks
            <4>2. run'[u] = run[u]
                BY <4>1 DEF Speaking
            <4> QED
                BY <3>2, <4>2 DEF Working
        <3>3. CASE Kept(l)
            BY <1>1, <3>3 DEF Kept, Times
        <3> QED
            BY <3>1, <3>2, <3>3 DEF Working
    <2> QED
        BY <1>1, <2>1 DEF AnswerKept, Kept
<1> QED
    BY <1>2, <1>3, <1>4, <1>5, <1>6, <1>7 DEF IInv

LEMMA RevokeFacts ==
    ASSUME IInv
    PROVE  /\ link \in [Links -> LinkRecord] /\ run \in [Runs -> RunRecord]
           /\ withdrawn \in BOOLEAN /\ now \in Nat
           /\ own \in [recorded : BOOLEAN, overlooked : BOOLEAN]
           /\ offer \in [until : Nat, accepted : BOOLEAN, declined : BOOLEAN]
           /\ \A l \in Links : [link[l] EXCEPT !.revoked = TRUE] \in LinkRecord
<1>1. /\ link \in [Links -> LinkRecord] /\ run \in [Runs -> RunRecord]
      /\ withdrawn \in BOOLEAN /\ now \in Nat
      /\ own \in [recorded : BOOLEAN, overlooked : BOOLEAN]
      /\ offer \in [until : Nat, accepted : BOOLEAN, declined : BOOLEAN]
    BY LinksAssumption DEF IInv, TypeOK
<1> QED
    BY <1>1 DEF LinkRecord

LEMMA WithdrawStep ==
    ASSUME IInv, NEW r \in Runs, Withdraw(r)
    PROVE  IInv'
<1>1. link' \in [Links -> LinkRecord]
    BY RevokeFacts DEF Withdraw
<1>2. \A l \in Links : link'[l] = IF ClosedWithRecord(r, l)
                                  THEN [link[l] EXCEPT !.revoked = TRUE] ELSE link[l]
    BY DEF Withdraw
<1>3. PICK missed \in BOOLEAN : missed = (~withdrawn /\ own.recorded /\ ~run[r].saw)
    OBVIOUS
<1>4. PICK b \in BOOLEAN : b = (own.overlooked \/ missed)
    OBVIOUS
<1>5. own' = [own EXCEPT !.overlooked = b] /\ own'.overlooked = b /\ own'.recorded = own.recorded
      /\ own' \in [recorded : BOOLEAN, overlooked : BOOLEAN]
    BY <1>3, <1>4, RevokeFacts DEF Withdraw
<1>6. OwnLinksStop'
    <2>1. ASSUME NEW l \in Links, asks[l].from = "owner", asks[l].filed \/ asks[l].kind = "receipt"
          PROVE  \/ link'[l].raced
                 \/ ~link'[l].sent \/ link'[l].answer # None \/ link'[l].revoked
                 \/ own'.overlooked /\ ~asks[l].filed
        <3>0. link[l] \in LinkRecord
            BY RevokeFacts
        <3>1. CASE ClosedWithRecord(r, l)
            BY <1>2, <3>0, <3>1 DEF LinkRecord
        <3>2. CASE ~Open(l)
            BY <1>2, <3>2 DEF ClosedWithRecord, Open
        <3>3. CASE Open(l) /\ ~ClosedWithRecord(r, l)
            <4>1. link'[l] = link[l] /\ ~asks[l].filed /\ OfOwnClaim(l) /\ ~run[r].saw
                  /\ link[l].sent
                BY <1>2, <2>1, <3>3 DEF ClosedWithRecord, OfOwnClaim, Open
            <4>2. own.recorded
                BY <4>1 DEF IInv, LinksFit
            <4>3. CASE withdrawn
                <5>1. link[l].raced \/ own.overlooked
                    BY <2>1, <3>3, <4>3 DEF IInv, OwnLinksStop
                <5> QED
                    BY <1>4, <1>5, <4>1, <5>1
            <4>4. CASE ~withdrawn
                BY <1>3, <1>4, <1>5, <4>1, <4>2, <4>4
            <4> QED
                BY <4>3, <4>4
        <3> QED
            BY <3>1, <3>2, <3>3
    <2> QED
        BY <2>1 DEF Withdraw, OwnLinksStop, Open
<1>7. offer' \in [until : Nat, accepted : BOOLEAN, declined : BOOLEAN]
    BY RevokeFacts DEF Withdraw
<1>8. \A l \in Links : \/ link'[l] = link[l]
                       \/ Open(l) /\ link'[l] = [link[l] EXCEPT !.revoked = TRUE]
    BY <1>2 DEF ClosedWithRecord
<1>9. /\ run' \in [Runs -> RunRecord]
      /\ \A u \in Runs : run'[u] = run[u] \/ (run[u].pc = "withdraw" /\ run'[u] = IdleRun)
    BY IdleTyped, RevokeFacts DEF Withdraw, Done
<1>10. withdrawn' = TRUE /\ UNCHANGED <<asks, now, said, affirmed, lost, faults>>
    BY DEF Withdraw
<1> QED
    BY <1>1, <1>5, <1>6, <1>7, <1>8, <1>9, <1>10, RevokesKeep

LEMMA RevokeStep ==
    ASSUME IInv, NEW l \in Links, Revoke(l)
    PROVE  IInv'
<1>1. link' = [link EXCEPT ![l] = [link[l] EXCEPT !.revoked = TRUE]] /\ Open(l)
      /\ UNCHANGED <<asks, now, withdrawn, own, offer, said, affirmed, run, lost, faults>>
    BY RevokeFacts DEF Revoke
<1>2. link' \in [Links -> LinkRecord]
    BY <1>1, RevokeFacts
<1>3. \A k \in Links : \/ link'[k] = link[k]
                       \/ Open(k) /\ link'[k] = [link[k] EXCEPT !.revoked = TRUE]
    BY <1>1, RevokeFacts
<1>4. OwnLinksStop'
    <2>1. ASSUME NEW k \in Links, ~Open(k) \/ link[k].raced
          PROVE  \/ link'[k].raced
                 \/ ~link'[k].sent \/ link'[k].answer # None \/ link'[k].revoked
        BY <1>3, <2>1, RevokeFacts DEF Open, LinkRecord
    <2> QED
        BY <1>1, <2>1 DEF IInv, OwnLinksStop, Open
<1> QED
    BY <1>1, <1>2, <1>3, <1>4, RevokeFacts, RevokesKeep

LEMMA RecordClaimStep ==
    ASSUME IInv, RecordClaim
    PROVE  IInv'
<1>1. /\ own' = [own EXCEPT !.recorded = TRUE]
      /\ UNCHANGED <<asks, now, withdrawn, offer, link, said, affirmed, run, lost, faults>>
    BY DEF RecordClaim
<1>2. /\ own' \in [recorded : BOOLEAN, overlooked : BOOLEAN] /\ own'.recorded
      /\ own'.overlooked = own.overlooked
    BY <1>1, RevokeFacts
<1>3. OwnLinksStop'
    BY <1>1, <1>2 DEF IInv, OwnLinksStop, Open
<1> QED
    BY <1>1, <1>2, <1>3, RevokeFacts, RevokesKeep

LEMMA TickStep ==
    ASSUME IInv, Tick
    PROVE  IInv'
<1> USE LinksAssumption
<1>1. /\ now \in Nat /\ now' = now + 1 /\ now < MaxTime
      /\ UNCHANGED <<asks, withdrawn, own, offer, link, said, affirmed, run, lost, faults>>
      /\ \A l \in Links : link[l].expires \in Nat
    BY DEF Tick, IInv, TypeOK, LinkRecord
<1>2. \A l \in Links : link[l].expires <= now => link[l].expires <= now'
    BY <1>1
<1>3. TypeOK'
    BY <1>1 DEF IInv, TypeOK
<1>4. RunsFit'
    <2>1. ASSUME NEW u \in Runs
          PROVE  RunFits(run[u])' /\ SpeaksFirst(run[u])' /\ SilentFirst(run[u])'
        <3>1. RunFits(run[u]) /\ SpeaksFirst(run[u]) /\ SilentFirst(run[u]) /\ run[u] \in RunRecord
            BY RunFacts
        <3>2. \A S : Times(run[u].link, S)' = Times(run[u].link, S)
            BY <1>1 DEF Times
        <3>3. RunFits(run[u])'
            BY <1>1, <1>2, <3>1 DEF RunFits, RunRecord, OfOwnClaim
        <3>4. SpeaksFirst(run[u])'
            BY <1>1, <3>1, <3>2 DEF SpeaksFirst, RunFits
        <3>5. SilentFirst(run[u])'
            BY <1>1, <1>2, <3>1, <3>2 DEF SilentFirst, RunFits
        <3> QED
            BY <3>3, <3>4, <3>5
    <2> QED
        BY <2>1 DEF RunsFit
<1>5. Alone' /\ LinksFit' /\ OneAnswer'
    BY <1>1 DEF IInv, Alone, Clash, LinksFit, OneAnswer, Times, OfOwnClaim
<1>6. SilenceOnce'
    BY <1>1, <1>2 DEF IInv, SilenceOnce, Times
<1>7. AnswerKept' /\ OwnLinksStop'
    BY <1>1 DEF IInv, AnswerKept, OwnLinksStop, Working, Open, Times
<1> QED
    BY <1>3, <1>4, <1>5, <1>6, <1>7 DEF IInv
-----------------------------------------------------------------------------
LEMMA NextInv ==
    ASSUME IInv, [Next]_vars
    PROVE  IInv'
<1>1. CASE Tick
    BY <1>1, TickStep
<1>2. CASE RecordClaim \/ \E l \in Links : Revoke(l)
    BY <1>2, RecordClaimStep, RevokeStep
<1>3. ASSUME NEW r \in Runs, AnswerStep(r) PROVE IInv'
    BY <1>3, CallAnswerStep, SpendLinkStep, MarkOfferStep, GrantSteps, CheckRecordStep,
       InsertStatementStep, AffirmClaimStep DEF AnswerStep
<1>4. ASSUME NEW r \in Runs, LapseStep(r) PROVE IInv'
    <2>1. CASE EndLapses(r)
        BY <2>1, RunFacts, DoneKeeps DEF EndLapses, Speaking
    <2> QED
        BY <1>4, <2>1, ListLapsedStep, FlagLapseStep DEF LapseStep
<1>5. ASSUME NEW r \in Runs,
             \/ \E l \in Links : CallCreate(r, l)
             \/ StoreLink(r) \/ CallWithdraw(r) \/ Withdraw(r) \/ RunEnds(r) \/ LapseFails(r)
      PROVE  IInv'
    BY <1>5, CallCreateStep, StoreLinkStep, CallWithdrawStep, WithdrawStep, FaultSteps
<1>6. CASE UNCHANGED vars
    <2>1. OwnLinksStop'
        BY <1>6 DEF vars, IInv, OwnLinksStop, Open
    <2> QED
        BY <1>6, <2>1, RevokeFacts, RevokesKeep DEF vars
<1> QED
    BY <1>1, <1>2, <1>3, <1>4, <1>5, <1>6 DEF Next

LEMMA Invariance == Spec => []IInv
<1>1. IInv /\ [Next]_vars => IInv'
    BY NextInv
<1> QED
    BY <1>1, InitInv, PTL DEF Spec

\* The links, the statements and the calls keep their types.
THEOREM LinkTypes == Spec => []TypeOK
<1>1. IInv => TypeOK
    BY DEF IInv
<1> QED
    BY <1>1, Invariance, PTL

\* A link puts at most one answer on the record, whoever opens it and however calls race, and
\* none once it was revoked.
THEOREM LinksAnswerOnce == Spec => []OneAnswer
<1>1. IInv => OneAnswer
    BY DEF IInv
<1> QED
    BY <1>1, Invariance, PTL

\* An answer that was given is on the record, being written, or was lost with its process or
\* with the record it was about.
THEOREM AnswersAreKept == Spec => []AnswerKept
<1>1. IInv => AnswerKept
    BY DEF IInv
<1> QED
    BY <1>1, Invariance, PTL

\* The owner's links about the record that were stored when it was withdrawn stop working with
\* it, but for those about a claim the withdrawing call did not see and not filed under it.
THEOREM LinksStopWithRecord == Spec => []OwnLinksStop
<1>1. IInv => OwnLinksStop
    BY DEF IInv
<1> QED
    BY <1>1, Invariance, PTL

\* A silence is written down once and only of a link that has expired.
THEOREM SilenceIsOnce == Spec => []SilenceOnce
<1>1. IInv => SilenceOnce
    BY DEF IInv
<1> QED
    BY <1>1, Invariance, PTL
=============================================================================
