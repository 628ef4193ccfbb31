-------------------------- MODULE AlertEmailProofs ---------------------------
(***************************************************************************)
(* Proofs about AlertEmail, for any number of passes and payments, any     *)
(* window and however long a call takes: of two emails about an address    *)
(* the later one's claim was won more than a window after the hour of the  *)
(* other, and an hour that is spent has its email.                         *)
(***************************************************************************)
EXTENDS AlertEmail, TLAPS

Holder(c) == pass[c].pc \in Holding

\* Nothing is of the future.
Paced ==
    /\ \A c \in Passes : pass[c].pc # "idle" => pass[c].at <= now
    /\ \A c \in Passes : pass[c].won <= now
    /\ \A e \in emails : e.won <= now

\* An hour that was won is the last one claimed, or is over.
Spent(h) == claim = h \/ h + Window < now

HoursSpent ==
    /\ \A c \in Passes : Holder(c) => Spent(pass[c].at)
    /\ \A e \in emails : ~e.late => Spent(e.at)

\* Of two calls, or emails, one was won after the other's hour.
Far(x, y) == x.won - y.at > Window \/ y.won - x.at > Window

AllFar ==
    /\ \A c, d \in Passes : c # d /\ Holder(c) /\ Holder(d) => Far(pass[c], pass[d])
    /\ \A c \in Passes, e \in emails : Holder(c) /\ ~e.late => Far(pass[c], e)
    /\ \A e, f \in emails : e # f /\ ~e.late /\ ~f.late => Far(e, f)

SlowAreLate == \A e \in slow : e.late /\ e.won <= now

IInv ==
    /\ TypeOK
    /\ Paced
    /\ HoursSpent
    /\ AllFar
    /\ SlowAreLate
-----------------------------------------------------------------------------
LEMMA InitInv == Init => IInv
<1> SUFFICES ASSUME Init PROVE IInv
    OBVIOUS
<1> USE AlertAssumption
<1>1. TypeOK
    BY DEF Init, TypeOK, IdlePass, Unwritten, PassRecord, Moments, Never, NoRow, Holding
<1>2. Paced /\ HoursSpent /\ AllFar /\ SlowAreLate
    BY DEF Init, IdlePass, Paced, HoursSpent, AllFar, SlowAreLate, Holder, Holding
<1> QED
    BY <1>1, <1>2 DEF IInv

LEMMA Numbers ==
    ASSUME IInv
    PROVE  /\ now \in Nat /\ claim \in Int /\ Window \in Nat
           /\ \A c \in Passes : pass[c].at \in Nat /\ pass[c].won \in Nat /\ pass[c].won <= now
           /\ \A e \in emails : e.at \in Nat /\ e.won \in Nat /\ e.won <= now
<1>1. \A c \in Passes : pass[c].at \in Nat /\ pass[c].won \in Nat
    BY AlertAssumption DEF IInv, TypeOK, PassRecord, Moments
<1>2. \A e \in emails : e.at \in Nat /\ e.won \in Nat
    BY AlertAssumption DEF IInv, TypeOK, EmailType, Moments
<1> QED
    BY <1>1, <1>2, AlertAssumption DEF IInv, TypeOK, Paced, Moments, NoRow, Never

\* What a call that can take the hour knows: every hour that was won is over.
LEMMA TakerFacts ==
    ASSUME IInv, NEW c \in Passes, pass[c].pc \in {"insert", "update"},
           claim = NoRow \/ Expired(pass[c])
    PROVE  /\ \A d \in Passes : Holder(d) => pass[d].at + Window < now
           /\ \A e \in emails : ~e.late => e.at + Window < now
<1>1. pass[c].at \in Nat /\ pass[c].at <= now
    BY Numbers DEF IInv, Paced
<1>2. \A h \in Nat : Spent(h) => h + Window < now
    BY <1>1, Numbers DEF Spent, Expired, NoRow, Never
<1> QED
    BY <1>2, Numbers DEF IInv, HoursSpent

\* A step in which nobody takes, spends or leaves the hour.
LEMMA QuietStep ==
    ASSUME IInv, TypeOK', UNCHANGED <<now, claim, emails>>, SlowAreLate',
           \A c \in Passes : (Holder(c)' <=> Holder(c)),
           \A c \in Passes : pass'[c].pc = "idle" \/ pass'[c].at <= now,
           \A c \in Passes : pass'[c].won = 0 \/ pass'[c].won = pass[c].won,
           \A c \in Passes : Holder(c) => pass'[c].at = pass[c].at /\ pass'[c].won = pass[c].won
    PROVE  IInv'
<1>1. Paced'
    BY Numbers DEF IInv, Paced
<1>2. HoursSpent'
    BY DEF IInv, HoursSpent, Spent
<1>3. AllFar'
    BY DEF IInv, AllFar, Far
<1> QED
    BY <1>1, <1>2, <1>3 DEF IInv

\* claimAlert's two statements when they win.
LEMMA TakeStep ==
    ASSUME IInv, TypeOK', NEW c \in Passes,
           pass[c].pc \in {"insert", "update"}, claim = NoRow \/ Expired(pass[c]),
           claim' = pass[c].at, pass' = Won(c), UNCHANGED <<now, emails, slow>>
    PROVE  IInv'
<1>1. /\ \A d \in Passes : Holder(d) => pass[d].at + Window < now
      /\ \A e \in emails : ~e.late => e.at + Window < now
    BY TakerFacts
<1>2. /\ pass'[c].pc = "count" /\ pass'[c].at = pass[c].at /\ pass'[c].won = now
      /\ \A d \in Passes \ {c} : pass'[d] = pass[d]
    BY DEF IInv, TypeOK, PassRecord, Won
<1>3. \A d \in Passes \ {c} : Holder(d)' <=> Holder(d)
    BY <1>2 DEF Holder
<1>4. Paced'
    BY <1>2, Numbers DEF IInv, Paced
<1>5. HoursSpent'
    BY <1>1, <1>2, <1>3 DEF HoursSpent, Spent
<1>6. AllFar'
    <2>1. ASSUME NEW d \in Passes \ {c}, Holder(d)'
          PROVE  Far(pass'[c], pass'[d]) /\ Far(pass'[d], pass'[c])
        BY <1>1, <1>2, <1>3, <2>1, Numbers DEF Far
    <2>2. ASSUME NEW e \in emails, ~e.late
          PROVE  Far(pass'[c], e)
        BY <1>1, <1>2, <2>2, Numbers DEF Far
    <2>3. \A d, b \in Passes \ {c} : d # b /\ Holder(d)' /\ Holder(b)' => Far(pass'[d], pass'[b])
        BY <1>2, <1>3 DEF IInv, AllFar, Far
    <2>4. \A d \in Passes \ {c}, e \in emails : Holder(d)' /\ ~e.late => Far(pass'[d], e)
        BY <1>2, <1>3 DEF IInv, AllFar, Far
    <2> QED
        BY <2>1, <2>2, <2>3, <2>4 DEF IInv, AllFar, Far
<1>7. SlowAreLate'
    BY DEF IInv, SlowAreLate
<1> QED
    BY <1>4, <1>5, <1>6, <1>7 DEF IInv

LEMMA SendStep ==
    ASSUME IInv, TypeOK', NEW c \in Passes, SendMail(c)
    PROVE  IInv'
<1>1. Holder(c)
    BY DEF SendMail, Holder, Holding
<1>2. PICK mail : /\ mail.at = pass[c].at /\ mail.won = pass[c].won /\ ~mail.late
                  /\ emails' = emails \cup {mail} /\ UNCHANGED <<now, claim, slow>>
    <2>1. /\ EmailOf(c, FALSE).at = pass[c].at /\ EmailOf(c, FALSE).won = pass[c].won
          /\ ~EmailOf(c, FALSE).late
        BY DEF EmailOf
    <2> QED
        BY <2>1 DEF SendMail
<1>3. pass'[c] = IdlePass /\ \A d \in Passes \ {c} : pass'[d] = pass[d]
    BY DEF SendMail, IInv, TypeOK
<1>4. \A d \in Passes : Holder(d)' => d # c /\ Holder(d)
    BY <1>3 DEF Holder, IdlePass, Holding
<1>5. Paced'
    BY <1>2, <1>3, Numbers DEF IInv, Paced, IdlePass
<1>6. HoursSpent'
    BY <1>1, <1>2, <1>3, <1>4 DEF IInv, HoursSpent, Spent
<1>7. AllFar'
    <2>1. \A e \in emails : ~e.late => Far(mail, e) /\ Far(e, mail)
        BY <1>1, <1>2 DEF IInv, AllFar, Far
    <2>2. \A d \in Passes : Holder(d)' => Far(pass'[d], mail)
        BY <1>1, <1>2, <1>3, <1>4 DEF IInv, AllFar, Far
    <2>3. \A d, b \in Passes : d # b /\ Holder(d)' /\ Holder(b)' => Far(pass'[d], pass'[b])
        BY <1>3, <1>4 DEF IInv, AllFar, Far
    <2>4. \A d \in Passes, e \in emails : Holder(d)' /\ ~e.late => Far(pass'[d], e)
        BY <1>3, <1>4 DEF IInv, AllFar, Far
    <2>5. \A e, f \in emails : e # f /\ ~e.late /\ ~f.late => Far(e, f)
        BY DEF IInv, AllFar
    <2>6. \A e, f \in emails' : e # f /\ ~e.late /\ ~f.late => Far(e, f)
        BY <1>2, <2>1, <2>5
    <2>7. \A d \in Passes, e \in emails' : Holder(d)' /\ ~e.late => Far(pass'[d], e)
        BY <1>2, <2>2, <2>4
    <2> QED
        BY <2>3, <2>6, <2>7 DEF AllFar, Far
<1>8. SlowAreLate'
    BY <1>2 DEF SlowAreLate, IInv
<1> QED
    BY <1>5, <1>6, <1>7, <1>8 DEF IInv

\* releaseAlert, and the end of a process: c holds the hour no longer.  Who else has the hour
\* that is given back has it since it was over.
LEMMA LeaveStep ==
    ASSUME IInv, TypeOK', NEW c \in Passes, Holder(c), pass' = [pass EXCEPT ![c] = IdlePass],
           claim' = claim \/ claim = pass[c].at, UNCHANGED <<now, emails, slow>>
    PROVE  IInv'
<1>1. pass'[c] = IdlePass /\ \A d \in Passes \ {c} : pass'[d] = pass[d]
    BY DEF IInv, TypeOK
<1>2. \A d \in Passes : Holder(d)' => d # c /\ Holder(d)
    BY <1>1 DEF Holder, IdlePass, Holding
<1>3. Paced'
    BY <1>1, Numbers DEF IInv, Paced, IdlePass
<1>4. \A h \in Nat : Spent(h) => \/ claim' = h \/ h + Window < now
                                 \/ h = pass[c].at
    BY DEF Spent
<1>5. ASSUME NEW d \in Passes, Holder(d)' PROVE claim' = pass[d].at \/ pass[d].at + Window < now
    <2>1. d # c /\ Holder(d) /\ Spent(pass[d].at) /\ Far(pass[c], pass[d])
        BY <1>2, <1>5 DEF IInv, HoursSpent, AllFar
    <2> QED
        BY <1>4, <2>1, Numbers DEF Far
<1>6. ASSUME NEW e \in emails, ~e.late PROVE claim' = e.at \/ e.at + Window < now
    <2>1. Spent(e.at) /\ Far(pass[c], e)
        BY <1>6 DEF IInv, HoursSpent, AllFar
    <2> QED
        BY <1>4, <2>1, Numbers DEF Far
<1>7. HoursSpent'
    <2>1. \A d \in Passes : Holder(d)' => pass'[d].at = pass[d].at
        BY <1>1, <1>2
    <2> QED
        BY <1>5, <1>6, <2>1 DEF HoursSpent, Spent
<1>8. AllFar' /\ SlowAreLate'
    BY <1>1, <1>2 DEF IInv, AllFar, Far, SlowAreLate
<1> QED
    BY <1>3, <1>7, <1>8 DEF IInv

LEMMA TickTyped ==
    ASSUME TypeOK, Tick
    PROVE  TypeOK'
<1> USE AlertAssumption
<1>1. now \in Nat /\ now' = now + 1 /\ now' \in Moments
      /\ UNCHANGED <<row, claim, pass, emails, slow, lost, faults>>
    BY DEF Tick, TypeOK, Moments
<1>2. \A p \in Payments : row[p] # Unwritten => row[p].written <= now'
    <2>1. \A p \in Payments : row[p].written \in Int
        BY DEF TypeOK, Moments, Never
    <2> QED
        BY <1>1, <2>1 DEF TypeOK
<1> QED
    BY <1>1, <1>2 DEF TypeOK

LEMMA TickStep ==
    ASSUME IInv, Tick
    PROVE  IInv'
<1>1. now' = now + 1 /\ UNCHANGED <<row, claim, pass, emails, slow, lost, faults>>
    BY DEF Tick
<1>2. TypeOK'
    BY TickTyped DEF IInv
<1>3. Paced'
    BY <1>1, Numbers DEF IInv, Paced
<1>4. AllFar'
    BY <1>1 DEF IInv, AllFar, Far, Holder
<1>5. HoursSpent'
    <2>1. \A h \in Nat : Spent(h) => claim = h \/ h + Window < now'
        BY <1>1, Numbers DEF Spent
    <2> QED
        BY <1>1, <2>1, Numbers DEF IInv, HoursSpent, Holder, Spent
<1>6. SlowAreLate'
    <2>1. \A e \in slow : e.won \in Nat
        BY AlertAssumption DEF IInv, TypeOK, EmailType, Moments
    <2> QED
        BY <1>1, <2>1, Numbers DEF IInv, SlowAreLate
<1> QED
    BY <1>2, <1>3, <1>4, <1>5, <1>6 DEF IInv
-----------------------------------------------------------------------------
(* Types. *)

LEMMA EmailTyped ==
    ASSUME TypeOK, NEW c \in Passes, NEW late \in BOOLEAN
    PROVE  EmailOf(c, late) \in EmailType
    BY DEF TypeOK, PassRecord, EmailOf, EmailType

\* A pass that changes to a well-formed state, and nothing else the types speak of.
LEMMA TypePass ==
    ASSUME TypeOK, NEW c \in Passes, NEW x \in PassRecord,
           x.pc \notin Holding => x.covers = {} /\ x.left = {},
           pass' = [pass EXCEPT ![c] = x],
           UNCHANGED <<now, row>>,
           claim' \in Moments \cup {NoRow, Never}, emails' \subseteq EmailType,
           slow' \subseteq EmailType, lost' \subseteq Moments, faults' \in 0 .. MaxFaults
    PROVE  TypeOK'
    BY DEF TypeOK

LEMMA TypeStep ==
    ASSUME TypeOK, NEW c \in Passes,
           PassStep(c) \/ SendFails(c) \/ SendTimesOut(c) \/ ProcessEnds(c)
    PROVE  TypeOK'
<1> USE AlertAssumption
<1> DEFINE s == pass[c]
<1>1. s \in PassRecord /\ (s.pc \notin Holding => s.covers = {} /\ s.left = {})
    BY DEF TypeOK
<1>2. /\ now \in Moments /\ claim \in Moments \cup {NoRow, Never}
      /\ emails \subseteq EmailType /\ slow \subseteq EmailType
      /\ lost \subseteq Moments /\ faults \in 0 .. MaxFaults
    BY DEF TypeOK
<1>3. IdlePass \in PassRecord /\ IdlePass.covers = {} /\ IdlePass.left = {}
    BY DEF IdlePass, PassRecord, Moments, Never
<1>4. Never \in Moments \cup {Never} /\ pass \in [Passes -> PassRecord]
    BY DEF TypeOK
<1>5. faults < MaxFaults => faults + 1 \in 0 .. MaxFaults
    BY <1>2
<1>6. CASE CallAlert(c)
    <2> DEFINE x == [s EXCEPT !.pc = "look", !.at = now]
    <2>1. x \in PassRecord /\ x.covers = {} /\ x.left = {}
        BY <1>1, <1>2, <1>6 DEF CallAlert, PassRecord, Holding
    <2>2. pass' = [pass EXCEPT ![c] = x]
        BY <1>4, <1>6 DEF CallAlert
    <2> HIDE DEF x
    <2> QED
        BY <1>2, <1>6, <2>1, <2>2, TypePass DEF CallAlert
<1>7. CASE NoRecipient(c) \/ SendMail(c) \/ ReleaseClaim(c) \/ ProcessEnds(c)
    <2>1. pass' = [pass EXCEPT ![c] = IdlePass] /\ UNCHANGED <<now, row>>
        BY <1>7 DEF NoRecipient, SendMail, ReleaseClaim, ProcessEnds
    <2>2. claim' \in Moments \cup {NoRow, Never} /\ UNCHANGED slow
        BY <1>2, <1>7 DEF NoRecipient, SendMail, ReleaseClaim, ProcessEnds
    <2>3. emails' \subseteq EmailType
        BY <1>2, <1>7, EmailTyped DEF NoRecipient, SendMail, ReleaseClaim, ProcessEnds
    <2>4. lost' \subseteq Moments
        BY <1>1, <1>2, <1>7 DEF NoRecipient, SendMail, ReleaseClaim, ProcessEnds, PassRecord
    <2>5. faults' \in 0 .. MaxFaults
        BY <1>2, <1>5, <1>7 DEF NoRecipient, SendMail, ReleaseClaim, ProcessEnds, Fault
    <2> QED
        BY <1>2, <1>3, <2>1, <2>2, <2>3, <2>4, <2>5, TypePass
<1>8. CASE ReadPrevious(c)
    <2> DEFINE x == [s EXCEPT !.pc = "insert", !.previous = IF claim = NoRow THEN Never ELSE claim]
    <2>1. (IF claim = NoRow THEN Never ELSE claim) \in Moments \cup {Never}
        BY <1>2
    <2>2. x \in PassRecord /\ x.covers = {} /\ x.left = {}
        BY <1>1, <1>8, <2>1 DEF ReadPrevious, PassRecord, Holding
    <2>3. pass' = [pass EXCEPT ![c] = x]
        BY <1>4, <1>8 DEF ReadPrevious
    <2> HIDE DEF x
    <2> QED
        BY <1>2, <1>8, <2>2, <2>3, TypePass DEF ReadPrevious
<1>9. CASE InsertClaim(c) \/ UpdateClaim(c)
    <2>1. PICK x \in {[s EXCEPT !.pc = "count", !.won = now], [s EXCEPT !.pc = "update"], IdlePass} :
            pass' = [pass EXCEPT ![c] = x]
        BY <1>4, <1>9 DEF InsertClaim, UpdateClaim, Won
    <2>2. s.covers = {} /\ s.left = {}
        BY <1>1, <1>9 DEF InsertClaim, UpdateClaim, Holding
    <2>3. x \in PassRecord /\ x.covers = {} /\ x.left = {}
        BY <1>1, <1>2, <1>3, <2>1, <2>2 DEF PassRecord, Holding
    <2>4. claim' \in Moments \cup {NoRow, Never} /\ UNCHANGED <<now, row, emails, slow, lost, faults>>
        BY <1>1, <1>2, <1>9 DEF InsertClaim, UpdateClaim, PassRecord
    <2> QED
        BY <1>2, <2>1, <2>3, <2>4, TypePass
<1>10. CASE CountPayments(c)
    <2> DEFINE x == [s EXCEPT !.pc = "send",
                              !.covers = {p \in Fresh(s) : row[p].written > s.previous},
                              !.left = IF s.previous \in lost THEN {}
                                       ELSE {p \in Fresh(s) \ Told : row[p].written < s.previous}]
    <2>1. x \in PassRecord /\ x.pc \in Holding
        BY <1>1 DEF PassRecord, Holding, Fresh
    <2>2. pass' = [pass EXCEPT ![c] = x]
        BY <1>10 DEF CountPayments
    <2> HIDE DEF x
    <2> QED
        BY <1>2, <1>10, <2>1, <2>2, TypePass DEF CountPayments
<1>11. CASE SendFails(c) \/ SendTimesOut(c)
    <2> DEFINE x == [s EXCEPT !.pc = "release"]
    <2>1. x \in PassRecord /\ x.pc \in Holding
        BY <1>1 DEF PassRecord, Holding
    <2>2. pass' = [pass EXCEPT ![c] = x] /\ UNCHANGED <<now, row, claim, emails, lost>>
        BY <1>4, <1>11 DEF SendFails, SendTimesOut
    <2>3. slow' \subseteq EmailType /\ faults' \in 0 .. MaxFaults
        BY <1>2, <1>5, <1>11, EmailTyped DEF SendFails, SendTimesOut, Fault
    <2> HIDE DEF x
    <2> QED
        BY <1>2, <2>1, <2>2, <2>3, TypePass
<1> QED
    BY <1>6, <1>7, <1>8, <1>9, <1>10, <1>11 DEF PassStep

LEMMA TypeWrite ==
    ASSUME TypeOK, NEW c \in Passes, NEW p \in Payments, NEW a \in Ages, a <= now,
           WritePayment(c, p, now - a)
    PROVE  TypeOK'
<1> USE AlertAssumption
<1>1. now \in Nat /\ a \in Nat /\ now - a \in Moments /\ now \in Moments /\ now - a \in 0 .. now
    BY DEF TypeOK, Moments
<1>2. row' = [row EXCEPT ![p] = [made |-> now - a, written |-> now]] /\ row'[p].written = now
      /\ row'[p].made = now - a
    BY DEF WritePayment, TypeOK
<1>3. row' \in [Payments -> [made : Moments \cup {Never}, written : Moments \cup {Never}]]
    BY <1>1, <1>2 DEF TypeOK
<1>4. \A q \in Payments : row'[q] # Unwritten => row'[q].made \in 0 .. row'[q].written /\ row'[q].written <= now
    BY <1>1, <1>2 DEF TypeOK
<1>5. PICK b \in BOOLEAN : pass' = [pass EXCEPT ![c].due = b]
    <2>1. pass[c].due \in BOOLEAN
        BY DEF TypeOK, PassRecord
    <2> QED
        BY <2>1 DEF WritePayment
<1>6. /\ pass' \in [Passes -> PassRecord]
      /\ \A d \in Passes : pass'[d].pc = pass[d].pc /\ pass'[d].covers = pass[d].covers /\ pass'[d].left = pass[d].left
    BY <1>5 DEF TypeOK, PassRecord
<1> QED
    BY <1>3, <1>4, <1>6 DEF TypeOK, WritePayment
-----------------------------------------------------------------------------
LEMMA CallInv ==
    ASSUME IInv, NEW c \in Passes,
           PassStep(c) \/ SendFails(c) \/ SendTimesOut(c) \/ ProcessEnds(c)
    PROVE  IInv'
<1>1. TypeOK' /\ pass \in [Passes -> PassRecord] /\ pass[c] \in PassRecord /\ SlowAreLate
    BY TypeStep DEF IInv, TypeOK
<1>2. ASSUME UNCHANGED <<now, claim, emails>>, SlowAreLate',
             \A d \in Passes \ {c} : pass'[d] = pass[d],
             Holder(c)' <=> Holder(c),
             pass'[c].pc = "idle" \/ pass'[c].at <= now,
             pass'[c].won = 0 \/ pass'[c].won = pass[c].won,
             Holder(c) => pass'[c].at = pass[c].at /\ pass'[c].won = pass[c].won
      PROVE  IInv'
    <2>1. \A d \in Passes : Holder(d)' <=> Holder(d)
        BY <1>2 DEF Holder
    <2>2. \A d \in Passes : pass'[d].pc = "idle" \/ pass'[d].at <= now
        BY <1>2 DEF IInv, Paced
    <2> QED
        BY <1>1, <1>2, <2>1, <2>2, QuietStep
<1>3. pass[c].pc # "idle" => pass[c].at <= now
    BY DEF IInv, Paced
<1>4. CASE CallAlert(c)
    <2>1. /\ pass'[c].at = now /\ pass'[c].won = pass[c].won /\ pass'[c].pc = "look"
          /\ pass[c].pc = "idle"
          /\ UNCHANGED <<now, claim, emails, slow>> /\ \A d \in Passes \ {c} : pass'[d] = pass[d]
        BY <1>1, <1>4 DEF CallAlert, PassRecord
    <2> QED
        BY <1>1, <1>2, <2>1, Numbers DEF Holder, Holding, SlowAreLate
<1>5. CASE NoRecipient(c)
    <2>1. /\ pass'[c] = IdlePass /\ pass[c].pc = "idle"
          /\ UNCHANGED <<now, claim, emails, slow>> /\ \A d \in Passes \ {c} : pass'[d] = pass[d]
        BY <1>1, <1>5 DEF NoRecipient
    <2> QED
        BY <1>1, <1>2, <2>1 DEF Holder, Holding, SlowAreLate, IdlePass
<1>6. CASE ReadPrevious(c) \/ CountPayments(c) \/ SendFails(c) \/ SendTimesOut(c)
    <2>1. /\ pass'[c].at = pass[c].at /\ pass'[c].won = pass[c].won /\ pass[c].pc # "idle"
          /\ pass'[c].pc \in Holding <=> pass[c].pc \in Holding
        <3>1. CASE ReadPrevious(c)
            BY <1>1, <3>1 DEF ReadPrevious, PassRecord, Holding
        <3>2. CASE CountPayments(c)
            BY <1>1, <3>2 DEF CountPayments, PassRecord, Holding
        <3>3. CASE SendFails(c)
            BY <1>1, <3>3 DEF SendFails, PassRecord, Holding
        <3>4. CASE SendTimesOut(c)
            BY <1>1, <3>4 DEF SendTimesOut, PassRecord, Holding
        <3> QED
            BY <1>6, <3>1, <3>2, <3>3, <3>4
    <2>2. UNCHANGED <<now, claim, emails>> /\ \A d \in Passes \ {c} : pass'[d] = pass[d]
        BY <1>1, <1>6 DEF ReadPrevious, CountPayments, SendFails, SendTimesOut
    <2>3. slow' = slow \/ slow' = slow \cup {EmailOf(c, TRUE)}
        BY <1>6 DEF ReadPrevious, CountPayments, SendFails, SendTimesOut
    <2>4. EmailOf(c, TRUE).late /\ EmailOf(c, TRUE).won <= now
        BY Numbers DEF EmailOf
    <2>5. SlowAreLate'
        BY <1>1, <2>2, <2>3, <2>4 DEF SlowAreLate
    <2> QED
        BY <1>2, <1>3, <2>1, <2>2, <2>5 DEF Holder
<1>7. ASSUME InsertClaim(c) \/ UpdateClaim(c), claim' = claim, pass'[c].pc \in {"update", "idle"}
      PROVE  IInv'
    <2>1. /\ UNCHANGED <<now, emails, slow>> /\ pass[c].pc \in {"insert", "update"}
          /\ \A d \in Passes \ {c} : pass'[d] = pass[d]
        BY <1>1, <1>7 DEF InsertClaim, UpdateClaim, Won
    <2>2. \/ pass'[c] = IdlePass
          \/ pass'[c].at = pass[c].at /\ pass'[c].won = pass[c].won
        <3>1. CASE InsertClaim(c)
            <4>1. pass' = Won(c) \/ pass' = [pass EXCEPT ![c].pc = "update"]
                BY <3>1 DEF InsertClaim
            <4>2. pass' = Won(c) => pass'[c].pc = "count"
                BY <1>1 DEF Won, PassRecord
            <4> QED
                BY <1>1, <1>7, <4>1, <4>2 DEF PassRecord
        <3>2. CASE UpdateClaim(c)
            <4>1. pass' = Won(c) \/ pass' = [pass EXCEPT ![c] = IdlePass]
                BY <3>2 DEF UpdateClaim
            <4>2. pass' = Won(c) => pass'[c].pc = "count"
                BY <1>1 DEF Won, PassRecord
            <4> QED
                BY <1>1, <1>7, <4>1, <4>2
        <3> QED
            BY <1>7, <3>1, <3>2
    <2>3. ~Holder(c) /\ ~Holder(c)'
        BY <1>7, <2>1 DEF Holder, Holding
    <2>4. pass'[c].pc = "idle" \/ pass'[c].at <= now
        BY <1>3, <2>1, <2>2 DEF IdlePass
    <2>5. pass'[c].won = 0 \/ pass'[c].won = pass[c].won
        BY <2>2 DEF IdlePass
    <2> QED
        BY <1>1, <1>2, <1>7, <2>1, <2>3, <2>4, <2>5 DEF SlowAreLate
<1>8. CASE InsertClaim(c)
    <2>1. CASE claim = NoRow
        BY <1>1, <1>8, <2>1, TakeStep DEF InsertClaim
    <2>2. CASE claim # NoRow
        <3>1. pass'[c].pc = "update" /\ claim' = claim
            BY <1>1, <1>8, <2>2 DEF InsertClaim, PassRecord
        <3> QED
            BY <1>7, <1>8, <3>1
    <2> QED
        BY <2>1, <2>2
<1>9. CASE UpdateClaim(c)
    <2>1. CASE Expired(pass[c]) /\ claim' = pass[c].at /\ pass' = Won(c)
        BY <1>1, <1>9, <2>1, TakeStep DEF UpdateClaim
    <2>2. CASE claim' = claim /\ pass' = [pass EXCEPT ![c] = IdlePass]
        <3>1. pass'[c].pc = "idle"
            BY <1>1, <2>2 DEF IdlePass
        <3> QED
            BY <1>7, <1>9, <2>2, <3>1
    <2> QED
        BY <1>9, <2>1, <2>2 DEF UpdateClaim
<1>10. CASE SendMail(c)
    BY <1>1, <1>10, SendStep
<1>11. CASE ReleaseClaim(c)
    <2>1. /\ Holder(c) /\ pass' = [pass EXCEPT ![c] = IdlePass]
        BY <1>11 DEF ReleaseClaim, Holder, Holding
    <2>2. (claim' = claim \/ claim = pass[c].at) /\ UNCHANGED <<now, emails, slow>>
        BY <1>11 DEF ReleaseClaim
    <2> QED
        BY <1>1, <2>1, <2>2, LeaveStep
<1>12. CASE ProcessEnds(c)
    <2>1. pass' = [pass EXCEPT ![c] = IdlePass] /\ UNCHANGED <<now, claim, emails, slow>>
        BY <1>12 DEF ProcessEnds
    <2>2. CASE Holder(c)
        BY <1>1, <2>1, <2>2, LeaveStep
    <2>3. CASE ~Holder(c)
        <3>1. pass'[c] = IdlePass /\ \A d \in Passes \ {c} : pass'[d] = pass[d]
            BY <1>1, <2>1
        <3>2. ~Holder(c)'
            BY <3>1 DEF Holder, IdlePass, Holding
        <3> QED
            BY <1>1, <1>2, <2>1, <2>3, <3>1, <3>2 DEF SlowAreLate, IdlePass
    <2> QED
        BY <2>2, <2>3
<1> QED
    BY <1>4, <1>5, <1>6, <1>8, <1>9, <1>10, <1>11, <1>12 DEF PassStep

LEMMA NextInv ==
    ASSUME IInv, [Next]_vars
    PROVE  IInv'
<1>1. CASE Tick
    BY <1>1, TickStep
<1>2. ASSUME NEW c \in Passes, PassStep(c) \/ SendFails(c) \/ SendTimesOut(c) \/ ProcessEnds(c)
      PROVE  IInv'
    BY <1>2, CallInv
<1>3. ASSUME NEW c \in Passes, NEW p \in Payments, NEW a \in {a \in Ages : a <= now},
             WritePayment(c, p, now - a)
      PROVE  IInv'
    <2>1. TypeOK'
        BY <1>3, TypeWrite DEF IInv
    <2>2. \A d \in Passes : /\ pass'[d].pc = pass[d].pc /\ pass'[d].at = pass[d].at
                            /\ pass'[d].won = pass[d].won
        BY <1>3 DEF WritePayment, IInv, TypeOK, PassRecord
    <2>3. UNCHANGED <<now, claim, emails, lost, slow>> /\ SlowAreLate
        BY <1>3 DEF WritePayment, IInv
    <2>4. \A d \in Passes : Holder(d)' <=> Holder(d)
        BY <2>2 DEF Holder
    <2>5. \A d \in Passes : pass'[d].pc = "idle" \/ pass'[d].at <= now
        BY <2>2 DEF IInv, Paced
    <2> QED
        BY <2>1, <2>2, <2>3, <2>4, <2>5, QuietStep DEF SlowAreLate
<1>4. ASSUME NEW e \in slow, ArriveLate(e) PROVE IInv'
    <2>1. e.late /\ e.won <= now
        BY DEF IInv, SlowAreLate
    <2>2. TypeOK' /\ Paced' /\ SlowAreLate'
        BY <1>4, <2>1 DEF ArriveLate, IInv, TypeOK, Paced, SlowAreLate
    <2>3. HoursSpent' /\ AllFar'
        BY <1>4, <2>1 DEF ArriveLate, IInv, HoursSpent, AllFar, Far, Spent, Holder
    <2> QED
        BY <2>2, <2>3 DEF IInv
<1>5. CASE UNCHANGED vars
    BY <1>5 DEF vars, IInv, TypeOK, Paced, HoursSpent, Spent, AllFar, Far, SlowAreLate, Holder
<1> QED
    BY <1>1, <1>2, <1>3, <1>4, <1>5 DEF Next

LEMMA Invariance == Spec => []IInv
<1>1. IInv /\ [Next]_vars => IInv'
    BY NextInv
<1> QED
    BY <1>1, InitInv, PTL DEF Spec

\* The claim, the calls and the emails keep their types.
THEOREM AlertTypes == Spec => []TypeOK
<1>1. IInv => TypeOK
    BY DEF IInv
<1> QED
    BY <1>1, Invariance, PTL

\* Of two emails about an address, however many calls race for its hour, however long they take
\* and whichever fail or die, the later one was claimed after the other's hour.
THEOREM EmailsApart == Spec => []OnePerWindow
<1>1. IInv => OnePerWindow
    BY DEF IInv, AllFar, Far, OnePerWindow
<1> QED
    BY <1>1, Invariance, PTL

\* So calls that claim in the second they read the clock keep "at most one an hour" to the
\* second, whatever other calls do and however long sends take.
THEOREM PromptCallsApart == Spec => []PromptApart
<1>1. OnePerWindow => PromptApart
    BY DEF OnePerWindow, PromptApart
<1> QED
    BY <1>1, EmailsApart, PTL
-----------------------------------------------------------------------------
(* A claim is for an email. *)

\* The claim stands for an email, for a call at work on it, or for one that ended with it:
\* each way a call stops holding the hour leaves one of these, or gives the hour back.
LEMMA ClaimStep ==
    ASSUME TypeOK, ClaimForEmail, [Next]_vars
    PROVE  ClaimForEmail'
<1>1. pass \in [Passes -> PassRecord]
    BY DEF TypeOK
<1>2. ASSUME UNCHANGED claim, emails \subseteq emails', lost \subseteq lost',
             \A c \in Passes : pass[c].pc \in Holding =>
                \/ pass'[c].pc \in Holding /\ pass'[c].at = pass[c].at
                \/ pass[c].at \in lost'
                \/ \E e \in emails' : ~e.late /\ e.at = pass[c].at
      PROVE  ClaimForEmail'
    BY <1>2 DEF ClaimForEmail
<1>3. CASE Tick \/ UNCHANGED vars \/ (\E e \in slow : ArriveLate(e))
    BY <1>2, <1>3 DEF Tick, vars, ArriveLate
<1>4. ASSUME NEW c \in Passes, NEW p \in Payments, NEW a, WritePayment(c, p, now - a)
      PROVE  ClaimForEmail'
    <2>1. \A d \in Passes : pass'[d].pc = pass[d].pc /\ pass'[d].at = pass[d].at
        BY <1>1, <1>4 DEF WritePayment, PassRecord
    <2> QED
        BY <1>2, <1>4, <2>1 DEF WritePayment
<1>5. ASSUME NEW c \in Passes, PassStep(c) \/ SendFails(c) \/ SendTimesOut(c) \/ ProcessEnds(c)
      PROVE  ClaimForEmail'
    <2>1. pass[c] \in PassRecord
        BY <1>1
    <2>2. CASE CallAlert(c) \/ NoRecipient(c) \/ ReadPrevious(c) \/ CountPayments(c) \/ SendFails(c)
               \/ SendTimesOut(c)
        <3>1. /\ UNCHANGED <<claim, emails, lost>>
              /\ \A d \in Passes \ {c} : pass'[d] = pass[d]
            BY <1>1, <2>2
               DEF CallAlert, NoRecipient, ReadPrevious, CountPayments, SendFails, SendTimesOut
        <3>2. pass[c].pc \in Holding => pass'[c].pc \in Holding /\ pass'[c].at = pass[c].at
            <4>1. CASE CallAlert(c) \/ NoRecipient(c) \/ ReadPrevious(c)
                BY <4>1 DEF CallAlert, NoRecipient, ReadPrevious, Holding
            <4>2. CASE CountPayments(c)
                BY <1>1, <2>1, <4>2 DEF CountPayments, PassRecord, Holding
            <4>3. CASE SendFails(c)
                BY <1>1, <2>1, <4>3 DEF SendFails, PassRecord, Holding
            <4>4. CASE SendTimesOut(c)
                BY <1>1, <2>1, <4>4 DEF SendTimesOut, PassRecord, Holding
            <4> QED
                BY <2>2, <4>1, <4>2, <4>3, <4>4
        <3> QED
            BY <1>2, <3>1, <3>2
    <2>3. CASE InsertClaim(c) \/ UpdateClaim(c)
        <3>1. pass[c].pc \notin Holding /\ UNCHANGED <<emails, lost>>
              /\ \A d \in Passes \ {c} : pass'[d] = pass[d]
            BY <1>1, <2>3 DEF InsertClaim, UpdateClaim, Holding, Won
        <3>2. CASE claim' = claim
            BY <1>2, <3>1, <3>2
        <3>3. CASE claim' = pass[c].at /\ pass' = Won(c)
            BY <1>1, <2>1, <3>3 DEF ClaimForEmail, Holding, PassRecord, Won
        <3> QED
            BY <2>3, <3>2, <3>3 DEF InsertClaim, UpdateClaim
    <2>4. CASE SendMail(c)
        <3>1. /\ UNCHANGED <<claim, lost>> /\ emails' = emails \cup {EmailOf(c, FALSE)}
              /\ \A d \in Passes \ {c} : pass'[d] = pass[d]
            BY <1>1, <2>4 DEF SendMail
        <3>2. ~EmailOf(c, FALSE).late /\ EmailOf(c, FALSE).at = pass[c].at
            BY DEF EmailOf
        <3> QED
            BY <1>2, <3>1, <3>2
    <2>5. CASE ReleaseClaim(c)
        <3>1. CASE claim = pass[c].at
            BY <2>5, <3>1 DEF ReleaseClaim, ClaimForEmail
        <3>2. CASE claim # pass[c].at
            <4>1. /\ UNCHANGED <<claim, emails, lost>>
                  /\ \A d \in Passes \ {c} : pass'[d] = pass[d]
                BY <1>1, <2>5, <3>2 DEF ReleaseClaim
            <4> QED
                BY <3>2, <4>1 DEF ClaimForEmail
        <3> QED
            BY <3>1, <3>2
    <2>6. CASE ProcessEnds(c)
        <3>1. /\ UNCHANGED <<claim, emails>> /\ lost \subseteq lost'
              /\ pass[c].pc \in Holding => pass[c].at \in lost'
              /\ \A d \in Passes \ {c} : pass'[d] = pass[d]
            BY <1>1, <2>6 DEF ProcessEnds
        <3> QED
            BY <1>2, <3>1
    <2> QED
        BY <1>5, <2>2, <2>3, <2>4, <2>5, <2>6 DEF PassStep
<1> QED
    BY <1>3, <1>4, <1>5 DEF Next

\* An hour that is spent has its email, a call at work on it, or lost its process, however long
\* calls last.
THEOREM HoursHaveEmails == Spec => []ClaimForEmail
<1>1. Init => ClaimForEmail
    BY DEF Init, ClaimForEmail
<1>2. TypeOK /\ ClaimForEmail /\ [Next]_vars => ClaimForEmail'
    BY ClaimStep
<1> QED
    BY <1>1, <1>2, AlertTypes, PTL DEF Spec
=============================================================================
