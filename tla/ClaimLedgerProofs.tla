-------------------------- MODULE ClaimLedgerProofs --------------------------
(***************************************************************************)
(* Proofs about ClaimLedger, for any number of claims, lenders and calls:  *)
(* what was signed once stays, a withdrawn record is quiet but for the     *)
(* calls that had read it live, and the claims that fit when they were     *)
(* recorded fit together.                                                  *)
(***************************************************************************)
EXTENDS ClaimLedger, TLAPS, FiniteSetTheorems, WellFoundedInduction

\* The calls that write to a record they read live.
Writing == {"sum", "insert", "touch", "settle"}

\* On a withdrawn record the only such calls are those that were under way at the withdrawal.
LateWriters == record.withdrawn => \A r \in Runs : run[r].pc \in Writing => r \in early

IInv == TypeOK /\ LateWriters
-----------------------------------------------------------------------------
(* Types. *)

LEMMA InitInv == Init => IInv
    BY LedgerAssumption DEF Init, IInv, TypeOK, LateWriters, NoClaim, IdleRun, ClaimRecord,
        RunRecord, Writing

\* A call that changes to a well-formed state.
LEMMA RunTyped ==
    ASSUME TypeOK, NEW r \in Runs, NEW x \in RunRecord, run' = [run EXCEPT ![r] = x],
           UNCHANGED day, record' \in [withdrawn : BOOLEAN, settled : Runs \cup {None}],
           claim' \in [Claims -> ClaimRecord], early' \subseteq Runs
    PROVE  TypeOK'
    BY DEF TypeOK

LEMMA IdleTyped == IdleRun \in RunRecord
    BY DEF IdleRun, RunRecord

\* A call that ends, whatever it wrote.
LEMMA DoneTyped ==
    ASSUME TypeOK, NEW r \in Runs, Done(r), UNCHANGED day,
           record' \in [withdrawn : BOOLEAN, settled : Runs \cup {None}],
           claim' \in [Claims -> ClaimRecord]
    PROVE  TypeOK'
<1>1. early' \subseteq Runs /\ run' = [run EXCEPT ![r] = IdleRun]
    BY DEF Done, TypeOK
<1> QED
    BY <1>1, IdleTyped, RunTyped

LEMMA BeginTyped ==
    ASSUME TypeOK, NEW r \in Runs, NEW pc \in {"discharge", "touch", "settle"},
           NEW by \in Tenants \cup {None}, NEW c \in Claims \cup {None}, NEW at \in Nat,
           Begin(r, pc, by, c, at), UNCHANGED <<day, record, claim, early>>
    PROVE  TypeOK'
<1> DEFINE x == [IdleRun EXCEPT !.pc = pc, !.by = by, !.claim = c, !.at = at]
<1>1. x \in RunRecord
    BY DEF IdleRun, RunRecord
<1>2. run' = [run EXCEPT ![r] = x]
    BY DEF Begin
<1> HIDE DEF x
<1> QED
    BY <1>1, <1>2, RunTyped DEF TypeOK

\* An insert changes of another claim only whether it was missed.
LEMMA MissedOnly ==
    ASSUME TypeOK, NEW r \in Runs, NEW c \in Claims, InsertClaim(r, c), NEW d \in Claims, d # c
    PROVE  \E b \in BOOLEAN : /\ claim'[d] = [claim[d] EXCEPT !.missed = b]
                              /\ claim[d].missed => b
                              /\ d \in run[r].missed /\ Active(d) /\ ~run[r].forced
                                    /\ ~run[r].overtaken => b
<1> DEFINE marked == /\ d \in run[r].missed
                     /\ Active(d)
                     /\ ~run[r].forced
                     /\ ~run[r].overtaken
           b == claim[d].missed \/ marked
<1>1. claim[d].missed \in BOOLEAN
    BY DEF TypeOK, ClaimRecord
<1>2. claim'[d] = [claim[d] EXCEPT !.missed = b]
    BY DEF InsertClaim
<1>3. b \in BOOLEAN /\ (claim[d].missed => b) /\ (marked => b)
    <2> HIDE DEF marked
    <2> QED
        BY <1>1
<1> HIDE DEF b
<1> QED
    BY <1>2, <1>3

LEMMA TypeStep ==
    ASSUME TypeOK, NEW r \in Runs, RunStep(r)
    PROVE  TypeOK'
<1> USE LedgerAssumption
<1>1. /\ run[r] \in RunRecord
      /\ claim \in [Claims -> ClaimRecord]
      /\ record \in [withdrawn : BOOLEAN, settled : Runs \cup {None}]
      /\ day \in Nat
    BY DEF TypeOK
<1>2. ASSUME NEW t \in Tenants, NEW n \in Amounts, NEW forced \in BOOLEAN,
             CallAddClaim(r, t, n, forced)
      PROVE  TypeOK'
    <2> DEFINE b == record.settled # None
               x == [IdleRun EXCEPT !.pc = "sum", !.by = t, !.amount = n, !.forced = forced,
                                    !.settled = b]
    <2>0. b \in BOOLEAN
        OBVIOUS
    <2> HIDE DEF b
    <2>1. x \in RunRecord
        BY <2>0 DEF IdleRun, RunRecord
    <2> USE DEF b
    <2>2. run' = [run EXCEPT ![r] = x] /\ UNCHANGED <<day, record, claim, early>>
        BY <1>2 DEF CallAddClaim
    <2> HIDE DEF x
    <2> QED
        BY <2>1, <2>2, RunTyped DEF TypeOK
<1>3. CASE SumClaims(r)
    <2> DEFINE over == ~(run[r].amount <= Face - Encumbered(run[r].settled))
               x == [run[r] EXCEPT !.pc = "insert", !.forced = over, !.missed = Asleep(r)]
    <2>1. CASE Done(r)
        BY <1>1, <1>3, <2>1, DoneTyped DEF SumClaims
    <2>2. CASE run' = [run EXCEPT ![r] = x] /\ UNCHANGED early
        <3>1. over \in BOOLEAN /\ Asleep(r) \in SUBSET Claims
            BY DEF Asleep
        <3> HIDE DEF over
        <3>2. x \in RunRecord
            BY <1>1, <3>1 DEF RunRecord
        <3> HIDE DEF x
        <3> QED
            BY <1>1, <1>3, <2>2, <3>2, RunTyped DEF SumClaims, TypeOK
    <2>3. CASE ~Done(r)
        <3>1. run' = [run EXCEPT ![r] = x] /\ UNCHANGED early
            BY <1>3, <2>3 DEF SumClaims, TypeOK
        <3> QED
            BY <2>2, <3>1
    <2> QED
        BY <2>1, <2>3
<1>4. CASE RefuseClaim(r) \/ RunEnds(r)
    BY <1>1, <1>4, DoneTyped DEF RefuseClaim, RunEnds
<1>5. ASSUME NEW c \in Claims, InsertClaim(r, c)
      PROVE  TypeOK'
    <2>1. NewClaim(r) \in ClaimRecord
        BY <1>1 DEF NewClaim, NoClaim, ClaimRecord, RunRecord
    <2>2. ASSUME NEW d \in Claims PROVE claim'[d] \in ClaimRecord
        <3>1. CASE d = c
            BY <1>5, <2>1, <3>1 DEF InsertClaim
        <3>2. CASE d # c
            <4>1. PICK b \in BOOLEAN : claim'[d] = [claim[d] EXCEPT !.missed = b]
                BY <1>5, <3>2, MissedOnly
            <4> QED
                BY <1>1, <4>1 DEF ClaimRecord
        <3> QED
            BY <3>1, <3>2
    <2>3. claim' \in [Claims -> ClaimRecord]
        <3>1. claim' = [d \in Claims |-> claim'[d]]
            BY <1>5 DEF InsertClaim
        <3> QED
            BY <2>2, <3>1
    <2>4. run' \in [Runs -> RunRecord]
        <3>1. ASSUME NEW s \in Runs, s # r PROVE run'[s] \in RunRecord
            <4> DEFINE b == run[s].overtaken \/ run[s].pc = "insert"
            <4>1. run'[s] = [run[s] EXCEPT !.overtaken = b]
                BY <1>5, <3>1 DEF InsertClaim
            <4>2. run[s] \in RunRecord
                BY DEF TypeOK
            <4>3. b \in BOOLEAN
                <5>1. run[s].overtaken \in BOOLEAN
                    BY <4>2 DEF RunRecord
                <5> QED
                    BY <5>1
            <4> HIDE DEF b
            <4> QED
                BY <4>1, <4>2, <4>3 DEF RunRecord
        <3>2. run'[r] \in RunRecord
            BY <1>5, IdleTyped DEF InsertClaim
        <3>3. run' = [s \in Runs |-> run'[s]]
            BY <1>5 DEF InsertClaim
        <3> QED
            BY <3>1, <3>2, <3>3
    <2> QED
        BY <1>5, <2>3, <2>4 DEF InsertClaim, TypeOK
<1>6. ASSUME NEW c \in Claims, CallDischarge(r, c) \/ CallEvent(r, c)
      PROVE  TypeOK'
    BY <1>1, <1>6, BeginTyped DEF CallDischarge, CallEvent
<1>7. CASE WriteDischarge(r)
    <2>1. Discharged(r) \in ClaimRecord
        BY DEF Discharged, NoClaim, ClaimRecord
    <2>2. claim' \in [Claims -> ClaimRecord]
        BY <1>1, <1>7, <2>1 DEF WriteDischarge
    <2> QED
        BY <1>1, <1>7, <2>2, DoneTyped DEF WriteDischarge
<1>8. ASSUME NEW t \in Tenants, CallReverify(r, t)
      PROVE  TypeOK'
    BY <1>1, <1>8, BeginTyped DEF CallReverify
<1>9. CASE WriteTouch(r)
    <2>0. PICK date \in Nat : date = IF run[r].claim = None THEN day ELSE run[r].at
        BY <1>1 DEF RunRecord
    <2>1. ASSUME NEW c \in Claims PROVE [claim[c] EXCEPT !.touched = date] \in ClaimRecord
        BY <1>1 DEF ClaimRecord
    <2>2. claim' \in [Claims -> ClaimRecord]
        BY <1>1, <1>9, <2>0, <2>1 DEF WriteTouch
    <2> QED
        BY <1>1, <1>9, <2>2, DoneTyped DEF WriteTouch
<1>10. CASE CallSettle(r)
    BY <1>1, <1>10, BeginTyped DEF CallSettle
<1>11. CASE WriteSettlement(r)
    <2>1. record' \in [withdrawn : BOOLEAN, settled : Runs \cup {None}]
        BY <1>1, <1>11 DEF WriteSettlement
    <2> QED
        BY <1>1, <1>11, <2>1, DoneTyped DEF WriteSettlement
<1> QED
    BY <1>2, <1>3, <1>4, <1>5, <1>6, <1>7, <1>8, <1>9, <1>10, <1>11 DEF RunStep

LEMMA TypeNext ==
    ASSUME TypeOK, [Next]_vars
    PROVE  TypeOK'
<1> USE LedgerAssumption
<1>1. CASE NewDay
    BY <1>1 DEF NewDay, TypeOK
<1>2. ASSUME NEW c \in Claims, AffirmClaim(c) PROVE TypeOK'
    <2>1. [claim[c] EXCEPT !.affirmed = TRUE, !.touched = day] \in ClaimRecord
        <3>1. claim[c] \in ClaimRecord /\ day \in Nat
            BY DEF TypeOK
        <3> QED
            BY <3>1 DEF ClaimRecord
    <2>2. claim' = [claim EXCEPT ![c] = [claim[c] EXCEPT !.affirmed = TRUE, !.touched = day]]
        BY <1>2 DEF AffirmClaim, TypeOK
    <2>3. claim' \in [Claims -> ClaimRecord]
        BY <2>1, <2>2 DEF TypeOK
    <2> QED
        BY <1>2, <2>3 DEF AffirmClaim, TypeOK
<1>3. CASE Withdraw
    BY <1>3 DEF Withdraw, TypeOK
<1>4. ASSUME NEW r \in Runs, RunStep(r) PROVE TypeOK'
    BY <1>4, TypeStep
<1>5. CASE UNCHANGED vars
    BY <1>5 DEF vars, TypeOK
<1> QED
    BY <1>1, <1>2, <1>3, <1>4, <1>5 DEF Next
-----------------------------------------------------------------------------
(* The calls that read a live record. *)

LEMMA LateStep ==
    ASSUME IInv, [Next]_vars
    PROVE  LateWriters'
<1> SUFFICES ASSUME record.withdrawn', NEW r \in Runs, run'[r].pc \in Writing
             PROVE  r \in early'
    BY DEF LateWriters
<1>1. run \in [Runs -> RunRecord] /\ (record.withdrawn /\ run[r].pc \in Writing => r \in early)
    BY DEF IInv, TypeOK, LateWriters
<1>2. CASE NewDay \/ UNCHANGED vars
    BY <1>1, <1>2 DEF NewDay, vars
<1>3. ASSUME NEW c \in Claims, AffirmClaim(c) PROVE r \in early'
    BY <1>1, <1>3 DEF AffirmClaim
<1>4. CASE Withdraw
    BY <1>4 DEF Withdraw, Writing
<1>5. ASSUME NEW s \in Runs, RunStep(s) PROVE r \in early'
    <2>1. ASSUME Done(s) PROVE r # s /\ run'[r] = run[r] /\ (r \in early => r \in early')
        BY <1>1, <2>1 DEF Done, IdleRun, Writing
    <2>2. CASE SumClaims(s)
        <3>1. CASE Done(s)
            BY <1>1, <2>1, <2>2, <3>1 DEF SumClaims
        <3>2. CASE UNCHANGED early /\ \A d \in Runs \ {s} : run'[d] = run[d]
            BY <1>1, <2>2, <3>2 DEF SumClaims, Writing
        <3> QED
            BY <1>1, <2>2, <3>1, <3>2 DEF SumClaims
    <2>3. CASE RefuseClaim(s) \/ RunEnds(s) \/ WriteDischarge(s) \/ WriteTouch(s)
        BY <1>1, <2>1, <2>3 DEF RefuseClaim, RunEnds, WriteDischarge, WriteTouch
    <2>4. CASE WriteSettlement(s)
        <3>1. record'.withdrawn = record.withdrawn
            BY <2>4 DEF WriteSettlement, IInv, TypeOK
        <3> QED
            BY <1>1, <2>1, <2>4, <3>1 DEF WriteSettlement
    <2>5. ASSUME NEW c \in Claims, InsertClaim(s, c) PROVE r \in early'
        <3>1. r # s /\ early' = early \ {s}
            BY <2>5 DEF InsertClaim, IdleRun, Writing
        <3>2. run'[r].pc = run[r].pc /\ UNCHANGED record
            BY <1>1, <2>5, <3>1 DEF InsertClaim, RunRecord
        <3> QED
            BY <1>1, <3>1, <3>2
    <2>6. ASSUME NEW c \in Claims, CallDischarge(s, c) PROVE r \in early'
        BY <1>1, <2>6 DEF CallDischarge, Begin, IdleRun, Writing
    <2>7. ASSUME ~record.withdrawn /\ UNCHANGED record PROVE FALSE
        BY <2>7
    <2> QED
        BY <1>5, <2>2, <2>3, <2>4, <2>5, <2>6, <2>7
           DEF RunStep, CallAddClaim, CallEvent, CallReverify, CallSettle
<1> QED
    BY <1>2, <1>3, <1>4, <1>5 DEF Next

LEMMA Invariance == Spec => []IInv
<1>1. IInv /\ [Next]_vars => IInv'
    BY TypeNext, LateStep DEF IInv
<1> QED
    BY <1>1, InitInv, PTL DEF Spec

\* The ledger and the calls keep their types.
THEOREM LedgerTypes == Spec => []TypeOK
<1>1. IInv => TypeOK
    BY DEF IInv
<1> QED
    BY <1>1, Invariance, PTL
-----------------------------------------------------------------------------
(* What was signed once. *)

\* The claims and the settlement that a step leaves, whoever makes it.
SignedKept ==
    /\ \A c \in Claims : claim[c].status = "discharged" =>
          claim'[c].status = "discharged" /\ claim'[c].release = claim[c].release
    /\ record.settled # None => record'.settled = record.settled

LEMMA SignedStep ==
    ASSUME TypeOK, [Next]_vars
    PROVE  SignedKept
<1>1. claim \in [Claims -> ClaimRecord] /\ record \in [withdrawn : BOOLEAN, settled : Runs \cup {None}]
    BY DEF TypeOK
<1>2. ASSUME NEW c \in Claims, claim[c].status = "discharged"
      PROVE  claim'[c].status = "discharged" /\ claim'[c].release = claim[c].release
    <2>1. claim[c] \in ClaimRecord /\ ~Active(c)
        BY <1>1, <1>2 DEF Active
    <2>3. CASE NewDay \/ Withdraw \/ UNCHANGED vars
        BY <1>2, <2>3 DEF NewDay, Withdraw, vars
    <2>4. ASSUME NEW d \in Claims, AffirmClaim(d) PROVE claim'[c] = claim[c]
        BY <1>1, <2>1, <2>4 DEF AffirmClaim
    <2>5. ASSUME NEW r \in Runs, RunStep(r)
          PROVE  claim'[c].status = "discharged" /\ claim'[c].release = claim[c].release
        <3>1. CASE WriteDischarge(r)
            BY <1>1, <1>2, <2>1, <3>1 DEF WriteDischarge
        <3>2. CASE WriteTouch(r)
            BY <1>2, <2>1, <3>2 DEF WriteTouch, Touches
        <3>3. ASSUME NEW e \in Claims, InsertClaim(r, e)
              PROVE  claim'[c].status = "discharged" /\ claim'[c].release = claim[c].release
            <4>1. c # e
                BY <1>2, <3>3 DEF InsertClaim
            <4>2. PICK b \in BOOLEAN : /\ claim'[c] = [claim[c] EXCEPT !.missed = b]
                                       /\ claim[c].missed => b
                BY <3>3, <4>1, MissedOnly
            <4> QED
                BY <1>2, <2>1, <4>2 DEF ClaimRecord
        <3> QED
            BY <1>2, <2>5, <3>1, <3>2, <3>3
               DEF RunStep, CallAddClaim, SumClaims, RefuseClaim, CallDischarge, CallEvent,
                   CallReverify, CallSettle, WriteSettlement, RunEnds
    <2> QED
        BY <1>2, <2>3, <2>4, <2>5 DEF Next
<1>3. ASSUME record.settled # None PROVE record'.settled = record.settled
    <2>1. CASE Withdraw
        BY <1>1, <2>1 DEF Withdraw
    <2>2. CASE UNCHANGED record
        BY <2>2
    <2>3. ASSUME NEW r \in Runs, RunStep(r) PROVE UNCHANGED record
        BY <1>3, <2>3
           DEF RunStep, CallAddClaim, SumClaims, RefuseClaim, InsertClaim, CallDischarge, CallEvent,
               WriteDischarge, CallReverify, WriteTouch, CallSettle, WriteSettlement, RunEnds
    <2> QED
        BY <2>1, <2>2, <2>3 DEF Next, NewDay, AffirmClaim, vars
<1> QED
    BY <1>2, <1>3 DEF SignedKept

\* Of two discharges of a claim, or two settlements, the first is kept, however the calls
\* interleave, and a discharged claim never counts again.
THEOREM FirstIsKept == Spec => SignedOnce
<1>1. TypeOK /\ [Next]_vars => [SignedKept]_vars
    BY SignedStep
<1> QED
    BY <1>1, LedgerTypes, PTL DEF Spec, SignedOnce, SignedKept
-----------------------------------------------------------------------------
(* A withdrawn record. *)

\* What is left of a claim's changes once no call that read the record live is under way.
QuietChange(c) ==
    /\ claim[c].status = "none" => claim'[c] = claim[c]
    /\ \/ claim'[c].touched = claim[c].touched
       \/ claim'[c].affirmed /\ ~claim[c].affirmed
       \/ claim'[c].status = "discharged"

WithdrawnKept ==
    record.withdrawn /\ early = {} =>
        /\ record'.settled = record.settled
        /\ \A c \in Claims : QuietChange(c)

LEMMA QuietStep ==
    ASSUME IInv, [Next]_vars
    PROVE  WithdrawnKept
<1> SUFFICES ASSUME record.withdrawn, early = {}
             PROVE  record'.settled = record.settled /\ \A c \in Claims : QuietChange(c)
    BY DEF WithdrawnKept
<1>1. claim \in [Claims -> ClaimRecord] /\ TypeOK
    BY DEF IInv, TypeOK
<1>2. \A r \in Runs : run[r].pc \notin {"sum", "insert", "touch", "settle"}
    BY DEF IInv, LateWriters, Writing
<1>4. ASSUME NEW d \in Claims, AffirmClaim(d)
      PROVE  record'.settled = record.settled /\ \A c \in Claims : QuietChange(c)
    <2>1. ASSUME NEW c \in Claims PROVE QuietChange(c)
        <3>1. CASE c = d
            BY <1>1, <1>4, <3>1 DEF AffirmClaim, Active, QuietChange, ClaimRecord
        <3>2. CASE c # d
            BY <1>1, <1>4, <3>2 DEF AffirmClaim, QuietChange
        <3> QED
            BY <3>1, <3>2
    <2> QED
        BY <1>4, <2>1 DEF AffirmClaim
<1>5. CASE UNCHANGED <<record, claim>>
    BY <1>5 DEF QuietChange
<1>6. ASSUME NEW r \in Runs, WriteDischarge(r)
      PROVE  record'.settled = record.settled /\ \A c \in Claims : QuietChange(c)
    <2>1. ASSUME NEW c \in Claims PROVE QuietChange(c)
        <3>1. CASE c = run[r].claim /\ Active(c)
            BY <1>1, <1>6, <3>1 DEF WriteDischarge, Active, Discharged, NoClaim, QuietChange
        <3>2. CASE ~(c = run[r].claim /\ Active(c))
            BY <1>1, <1>6, <3>2 DEF WriteDischarge, QuietChange
        <3> QED
            BY <3>1, <3>2
    <2> QED
        BY <1>6, <2>1 DEF WriteDischarge
<1>7. ASSUME NEW r \in Runs, RunStep(r), ~WriteDischarge(r)
      PROVE  UNCHANGED <<record, claim>>
    BY <1>2, <1>7
       DEF RunStep, CallAddClaim, SumClaims, RefuseClaim, InsertClaim, CallDischarge, CallEvent,
           CallReverify, WriteTouch, CallSettle, WriteSettlement, RunEnds
<1>8. ~Withdraw
    BY DEF Withdraw
<1> QED
    BY <1>4, <1>5, <1>6, <1>7, <1>8 DEF Next, NewDay, vars

\* A withdrawn record takes no claim, update, re-verification or settlement but from calls that
\* read it live, however many those are and however late they write.
THEOREM WithdrawnIsQuiet == Spec => WithdrawnQuiet
<1>1. IInv /\ [Next]_vars => [WithdrawnKept]_vars
    BY QuietStep
<1> QED
    BY <1>1, Invariance, PTL DEF Spec, WithdrawnQuiet, WithdrawnKept, QuietChange
-----------------------------------------------------------------------------
(* Sums of claims. *)

\* What some claims weigh together, and the units of value that makes.
Weight(f, T) == MapThenSumSet(LAMBDA c : f[c].amount, T)

Units(f, T) == {p \in T \X Nat : 1 <= p[2] /\ p[2] <= f[p[1]].amount}

\* Of sets of claims, one has none of the others with one claim less.
LEMMA Least ==
    ASSUME NEW Bad \in SUBSET SUBSET Claims, Bad # {}
    PROVE  \E V \in Bad : \A x \in V : V \ {x} \notin Bad
<1> DEFINE R == StrictSubsetOrdering(Claims)
<1>1. IsWellFoundedOn(R, SUBSET Claims)
    <2>1. IsWellFoundedOn(R, FiniteSubsetsOf(Claims))
        BY FS_StrictSubsetOrderingWellFounded
    <2>2. FiniteSubsetsOf(Claims) = SUBSET Claims
        BY LedgerAssumption, FS_FiniteSubsetsOfFinite
    <2> QED
        BY <2>1, <2>2
<1>2. \A U, V \in SUBSET Claims : U \subseteq V /\ U # V => <<U, V>> \in R
    BY DEF StrictSubsetOrdering
<1> HIDE DEF R
<1>3. PICK V \in Bad : \A U \in Bad : <<U, V>> \notin R
    BY <1>1, WFMin
<1>4. ASSUME NEW x \in V PROVE V \ {x} \notin Bad
    BY <1>2, <1>3
<1> QED
    BY <1>4

\* The units of one claim more.
LEMMA UnitsMore ==
    ASSUME NEW f \in [Claims -> ClaimRecord], NEW T \in SUBSET Claims, NEW x \in T,
           IsFiniteSet(Units(f, T \ {x}))
    PROVE  /\ IsFiniteSet(Units(f, T))
           /\ Cardinality(Units(f, T)) = f[x].amount + Cardinality(Units(f, T \ {x}))
<1> DEFINE own == {x} \X (1 .. f[x].amount)
           rest == Units(f, T \ {x})
<1>1. f[x].amount \in Nat
    BY DEF ClaimRecord
<1>2. IsFiniteSet(own) /\ Cardinality(own) = f[x].amount
    <2>1. IsFiniteSet({x}) /\ Cardinality({x}) = 1
        BY FS_Singleton
    <2>2. IsFiniteSet(1 .. f[x].amount) /\ Cardinality(1 .. f[x].amount) = f[x].amount
        <3>1. ASSUME NEW n \in Nat PROVE IsFiniteSet(1 .. n) /\ Cardinality(1 .. n) = n
            BY FS_Interval
        <3> QED
            BY <1>1, <3>1
    <2>3. IsFiniteSet(own) /\ Cardinality(own) = 1 * f[x].amount
        BY <2>1, <2>2, FS_Product
    <2> QED
        BY <1>1, <2>3
<1>3. Units(f, T) = own \cup rest
    BY <1>1 DEF Units
<1>4. own \cap rest = {}
    BY DEF Units
<1> HIDE DEF own, rest
<1>5. IsFiniteSet(rest) /\ Cardinality(rest) \in Nat
    BY FS_CardinalityType DEF rest
<1>6. Cardinality(own \cup rest) = Cardinality(own) + Cardinality(rest) - Cardinality({})
      /\ IsFiniteSet(own \cup rest)
    BY <1>2, <1>4, <1>5, FS_Union
<1> QED
    BY <1>1, <1>2, <1>3, <1>5, <1>6, FS_EmptySet DEF rest

LEMMA UnitsFinite ==
    ASSUME NEW f \in [Claims -> ClaimRecord], NEW T \in SUBSET Claims
    PROVE  IsFiniteSet(Units(f, T))
<1> DEFINE Bad == {V \in SUBSET Claims : ~IsFiniteSet(Units(f, V))}
<1> SUFFICES Bad = {}
    OBVIOUS
<1> SUFFICES ASSUME Bad # {} PROVE FALSE
    OBVIOUS
<1>1. Bad \in SUBSET SUBSET Claims
    OBVIOUS
<1> HIDE DEF Bad
<1>2. PICK V \in Bad : \A x \in V : V \ {x} \notin Bad
    BY <1>1, Least
<1> USE DEF Bad
<1>3. CASE V = {}
    BY <1>3, FS_EmptySet DEF Units
<1>4. CASE V # {}
    <2>1. PICK x \in V : V \ {x} \notin Bad
        BY <1>2, <1>4
    <2>2. V \in SUBSET Claims /\ IsFiniteSet(Units(f, V \ {x}))
        BY <2>1
    <2>3. IsFiniteSet(Units(f, V))
        BY <2>2, UnitsMore
    <2> QED
        BY <2>3
<1> QED
    BY <1>3, <1>4

\* The fold's sum is the number of units.
LEMMA WeightUnits ==
    ASSUME NEW f \in [Claims -> ClaimRecord], NEW T \in SUBSET Claims
    PROVE  Weight(f, T) = Cardinality(Units(f, T))
<1> DEFINE step(g, s) == IF s = {} THEN 0
                         ELSE f[CHOOSE x \in s : TRUE].amount + g[s \ {CHOOSE x \in s : TRUE}]
           defines(g) == g = [s \in SUBSET T |-> step(g, s)]
           iter == CHOOSE g : defines(g)
           h == [s \in SUBSET T |-> Cardinality(Units(f, s))]
<1>1. Weight(f, T) = iter[T]
    BY DEF Weight, MapThenSumSet, MapThenFoldSet
<1>2. defines(h)
    <2>1. ASSUME NEW s \in SUBSET T PROVE Cardinality(Units(f, s)) = step(h, s)
        <3>1. CASE s = {}
            BY <3>1, FS_EmptySet DEF Units
        <3>2. CASE s # {}
            <4>1. PICK x : x = CHOOSE y \in s : TRUE
                OBVIOUS
            <4>2. x \in s /\ s \in SUBSET Claims /\ s \ {x} \in SUBSET T
                BY <3>2, <4>1
            <4>3. Cardinality(Units(f, s)) = f[x].amount + Cardinality(Units(f, s \ {x}))
                BY <4>2, UnitsFinite, UnitsMore
            <4>4. step(h, s) = f[x].amount + h[s \ {x}]
                BY <3>2, <4>1
            <4> QED
                BY <4>2, <4>3, <4>4
        <3> QED
            BY <3>1, <3>2
    <2> QED
        BY <2>1
<1> HIDE DEF h
<1>3. defines(iter)
    BY <1>2
<1> HIDE DEF iter
<1>4. h[T] = Cardinality(Units(f, T))
    BY DEF h
<1>5. iter[T] = h[T]
    <2> DEFINE Bad == {s \in SUBSET T : iter[s] # h[s]}
    <2> SUFFICES Bad = {}
        OBVIOUS
    <2> SUFFICES ASSUME Bad # {} PROVE FALSE
        OBVIOUS
    <2>1. Bad \in SUBSET SUBSET Claims
        OBVIOUS
    <2> HIDE DEF Bad
    <2>2. PICK V \in Bad : \A x \in V : V \ {x} \notin Bad
        BY <2>1, Least
    <2> USE DEF Bad
    <2>3. V \in SUBSET T /\ iter[V] # h[V]
        OBVIOUS
    <2>4. iter[V] = step(iter, V) /\ h[V] = step(h, V)
        BY <1>2, <1>3, <2>3
    <2>5. CASE V = {}
        BY <2>3, <2>4, <2>5
    <2>6. CASE V # {}
        <3>1. PICK x : x = CHOOSE y \in V : TRUE
            OBVIOUS
        <3>2. x \in V /\ V \ {x} \in SUBSET T
            BY <2>3, <2>6, <3>1
        <3>3. iter[V \ {x}] = h[V \ {x}]
            BY <2>2, <3>2
        <3> QED
            BY <2>3, <2>4, <2>6, <3>1, <3>3
    <2> QED
        BY <2>5, <2>6
<1> QED
    BY <1>1, <1>4, <1>5

\* What a sum needs of its units: it is a number, another claim adds its amount, fewer claims
\* weigh no more, and only the amounts matter.
LEMMA WeightTyped ==
    ASSUME NEW f \in [Claims -> ClaimRecord], NEW T \in SUBSET Claims
    PROVE  Weight(f, T) \in Nat
BY UnitsFinite, WeightUnits, FS_CardinalityType

LEMMA WeightMore ==
    ASSUME NEW f \in [Claims -> ClaimRecord], NEW T \in SUBSET Claims, NEW x \in Claims \ T
    PROVE  Weight(f, T \cup {x}) = Weight(f, T) + f[x].amount
<1> DEFINE U == T \cup {x}
<1>1. U \in SUBSET Claims /\ x \in U /\ U \ {x} = T
    OBVIOUS
<1> HIDE DEF U
<1>2. Cardinality(Units(f, U)) = f[x].amount + Cardinality(Units(f, U \ {x}))
    BY <1>1, UnitsFinite, UnitsMore
<1>3. Weight(f, U) = f[x].amount + Weight(f, T)
    BY <1>1, <1>2, WeightUnits
<1>4. f[x].amount \in Nat /\ Weight(f, T) \in Nat
    BY WeightTyped DEF ClaimRecord
<1> QED
    BY <1>3, <1>4 DEF U

LEMMA WeightFewer ==
    ASSUME NEW f \in [Claims -> ClaimRecord], NEW g \in [Claims -> ClaimRecord],
           NEW T \in SUBSET Claims, NEW V \in SUBSET T, \A c \in V : g[c].amount = f[c].amount
    PROVE  Weight(g, V) <= Weight(f, T)
<1>1. Units(g, V) \in SUBSET Units(f, T)
    BY DEF Units
<1>2. IsFiniteSet(Units(f, T))
    BY UnitsFinite
<1>3. Cardinality(Units(g, V)) <= Cardinality(Units(f, T))
    BY <1>1, <1>2, FS_Subset
<1> QED
    BY <1>3, WeightUnits
-----------------------------------------------------------------------------
(* The headroom. *)

Insertion == \E r \in Runs, c \in Claims : InsertClaim(r, c)

\* A call that found its claim to fit, and that no insert has overtaken since, still finds it
\* to fit beside the claims that count as fitting and were awake at its sum.
PlaceKept ==
    \A r \in Runs : run[r].pc = "insert" /\ ~run[r].forced /\ ~run[r].overtaken =>
        Weight(claim, Fitting \ run[r].missed) + run[r].amount <= Face

Within == Weight(claim, Fitting) <= Face

HInv == TypeOK /\ PlaceKept /\ Within

LEMMA InitHeadroom == Init => HInv
<1> SUFFICES ASSUME Init PROVE HInv
    OBVIOUS
<1>1. TypeOK
    BY InitInv DEF IInv
<1>4. PlaceKept
    BY DEF Init, IdleRun, PlaceKept
<1>5. Fitting = {}
    BY DEF Init, NoClaim, Fitting, Active
<1>6. Units(claim, {}) = {} /\ claim \in [Claims -> ClaimRecord]
    BY <1>1 DEF Units, TypeOK
<1>7. Weight(claim, {}) = 0
    BY <1>6, WeightUnits, FS_EmptySet
<1>8. Within
    BY <1>5, <1>7, LedgerAssumption DEF Within
<1> QED
    BY <1>1, <1>4, <1>8 DEF HInv

\* A claim that is active after a step other than its insert was active before, weighs what it
\* weighed, and what its record says of it stays.
Kept(c) ==
    /\ Active(c)
    /\ claim'[c].amount = claim[c].amount
    /\ claim'[c].over = claim[c].over
    /\ claim'[c].overtaken = claim[c].overtaken
    /\ claim[c].missed => claim'[c].missed

LEMMA KeptStep ==
    ASSUME TypeOK, [Next]_vars, NEW c \in Claims, claim'[c].status = "active",
           ~\E r \in Runs : InsertClaim(r, c)
    PROVE  Kept(c)
<1>1. claim \in [Claims -> ClaimRecord] /\ claim[c] \in ClaimRecord
    BY DEF TypeOK
<1>3. ASSUME NEW d \in Claims, AffirmClaim(d) PROVE Kept(c)
    <2>1. CASE c = d
        BY <1>1, <1>3, <2>1 DEF AffirmClaim, Kept, Active, ClaimRecord
    <2>2. CASE c # d
        BY <1>1, <1>3, <2>2 DEF AffirmClaim, Kept, Active
    <2> QED
        BY <2>1, <2>2
<1>4. CASE claim'[c] = claim[c]
    BY <1>4 DEF Kept, Active
<1>5. ASSUME NEW r \in Runs, WriteDischarge(r) PROVE Kept(c)
    <2>1. claim'[c] = claim[c] \/ claim'[c] = Discharged(r)
        BY <1>1, <1>5 DEF WriteDischarge
    <2> QED
        BY <1>4, <2>1 DEF Discharged, NoClaim
<1>6. ASSUME NEW r \in Runs, WriteTouch(r) PROVE Kept(c)
    BY <1>1, <1>6 DEF WriteTouch, Kept, Active, ClaimRecord
<1>7. ASSUME NEW r \in Runs, NEW d \in Claims, InsertClaim(r, d) PROVE Kept(c)
    <2>1. c # d
        BY <1>7
    <2>2. PICK b \in BOOLEAN : claim'[c] = [claim[c] EXCEPT !.missed = b] /\ (claim[c].missed => b)
        BY <1>7, <2>1, MissedOnly
    <2>3. /\ claim'[c].status = claim[c].status /\ claim'[c].amount = claim[c].amount
          /\ claim'[c].over = claim[c].over /\ claim'[c].overtaken = claim[c].overtaken
          /\ claim'[c].missed = b
        BY <1>1, <2>2 DEF ClaimRecord
    <2> QED
        BY <2>2, <2>3 DEF Kept, Active
<1>8. ASSUME NEW r \in Runs, RunStep(r) PROVE Kept(c)
    BY <1>4, <1>5, <1>6, <1>7, <1>8
       DEF RunStep, CallAddClaim, SumClaims, RefuseClaim, CallDischarge, CallEvent,
           CallReverify, CallSettle, WriteSettlement, RunEnds
<1> QED
    BY <1>3, <1>4, <1>8 DEF Next, NewDay, Withdraw, vars

\* So the fitting claims weigh no more after it, whichever are left out.
LEMMA NoHeavier ==
    ASSUME TypeOK, TypeOK', [Next]_vars, ~Insertion, NEW M
    PROVE  /\ Weight(claim, Fitting \ M)' <= Weight(claim, Fitting \ M)
           /\ Weight(claim, Fitting \ M)' \in Nat
           /\ Weight(claim, Fitting \ M) \in Nat
<1>1. ASSUME NEW c \in Fitting'
      PROVE  c \in Fitting /\ claim'[c].amount = claim[c].amount
    <2>1. c \in Claims /\ claim'[c].status = "active" /\ ~claim'[c].over /\ ~claim'[c].missed
          /\ ~claim'[c].overtaken
        BY <1>1 DEF Fitting, Active
    <2>2. Kept(c)
        BY <2>1, KeptStep DEF Insertion
    <2> QED
        BY <2>1, <2>2 DEF Fitting, Kept
<1>2. PICK T, V : T = Fitting \ M /\ V = Fitting' \ M
    OBVIOUS
<1>3. PICK f, g : f = claim /\ g = claim'
    OBVIOUS
<1>4. /\ f \in [Claims -> ClaimRecord] /\ g \in [Claims -> ClaimRecord]
      /\ T \in SUBSET Claims /\ V \in SUBSET T /\ V \in SUBSET Claims
      /\ \A c \in V : g[c].amount = f[c].amount
    BY <1>1, <1>2, <1>3 DEF TypeOK, Fitting
<1>5. Weight(g, V) <= Weight(f, T)
    BY <1>4, WeightFewer
<1>6. Weight(g, V) \in Nat /\ Weight(f, T) \in Nat
    BY <1>4, WeightTyped
<1> QED
    BY <1>2, <1>3, <1>5, <1>6

\* What a sum leaves out of the fitting claims is what it finds asleep.
LEMMA FittingCounted ==
    ASSUME TypeOK, NEW r \in Runs
    PROVE  /\ Encumbered(run[r].settled) \in Nat
           /\ Weight(claim, Fitting \ Asleep(r)) <= Encumbered(run[r].settled)
<1> DEFINE counted == {c \in Claims : Active(c) /\ ~Lapsed(c, run[r].settled)}
           awake == Fitting \ Asleep(r)
<1>1. Encumbered(run[r].settled) = Weight(claim, counted)
    BY DEF Encumbered, Weight
<1>2. awake \subseteq counted
    BY DEF Fitting, Asleep, Lapsed, Lapses
<1>3. counted \in SUBSET Claims /\ awake \in SUBSET Claims
    BY DEF Fitting
<1> HIDE DEF counted, awake
<1>4. claim \in [Claims -> ClaimRecord]
    BY DEF TypeOK
<1>5. Weight(claim, awake) <= Weight(claim, counted)
    BY <1>2, <1>3, <1>4, WeightFewer
<1> QED
    BY <1>1, <1>3, <1>4, <1>5, WeightTyped DEF awake

LEMMA PlaceStep ==
    ASSUME HInv, TypeOK', [Next]_vars, ~Insertion
    PROVE  PlaceKept'
<1>1. /\ TypeOK /\ PlaceKept /\ run \in [Runs -> RunRecord]
      /\ \A r \in Runs : run[r].amount \in Nat
      /\ Face \in Nat
    BY LedgerAssumption DEF HInv, TypeOK, RunRecord
<1>2. ASSUME NEW s \in Runs, run'[s].pc = "insert", ~run'[s].forced, ~run'[s].overtaken
      PROVE  Weight(claim, Fitting \ run[s].missed)' + run'[s].amount <= Face
    <2>a. PICK M : M = run'[s].missed
        OBVIOUS
    <2>b. PICK n, m : n = Weight(claim, Fitting \ M) /\ m = Weight(claim, Fitting \ M)'
        OBVIOUS
    <2>c. m = Weight(claim, Fitting \ run[s].missed)'
        BY <2>a, <2>b DEF Weight
    <2>d. m <= n /\ m \in Nat /\ n \in Nat
        BY <1>1, <2>b, NoHeavier
    <2>1. CASE run'[s] = run[s]
        <3>1. n + run[s].amount <= Face
            BY <1>1, <1>2, <2>1, <2>a, <2>b DEF PlaceKept
        <3> QED
            BY <1>1, <2>1, <2>c, <2>d, <3>1
    <2>2. CASE SumClaims(s)
        <3>0. PICK e \in Nat : e = Encumbered(run[s].settled)
            BY <1>1, FittingCounted
        <3>1. /\ run'[s].amount = run[s].amount /\ run'[s].missed = Asleep(s)
              /\ run[s].amount <= Face - e
            <4> DEFINE over == ~(run[s].amount <= Face - e)
            <4>1. ~Done(s)
                BY <1>1, <1>2 DEF Done, IdleRun
            <4>2. run'[s] = [run[s] EXCEPT !.pc = "insert", !.forced = over, !.missed = Asleep(s)]
                BY <1>1, <2>2, <3>0, <4>1 DEF SumClaims
            <4> HIDE DEF over
            <4>3. run'[s].amount = run[s].amount /\ run'[s].missed = Asleep(s) /\ run'[s].forced = over
                BY <1>1, <4>2 DEF RunRecord
            <4> QED
                BY <1>2, <4>3 DEF over
        <3>2. n <= e
            BY <1>1, <2>a, <2>b, <3>0, <3>1, FittingCounted
        <3> QED
            BY <1>1, <2>c, <2>d, <3>0, <3>1, <3>2
    <2>3. ASSUME NEW r \in Runs, RunStep(r), ~(r = s /\ SumClaims(s)) PROVE run'[s] = run[s]
        <3>1. Done(r) => run'[s] = run[s]
            BY <1>1, <1>2 DEF Done, IdleRun
        <3>2. CASE SumClaims(r)
            BY <1>1, <2>3, <3>1, <3>2 DEF SumClaims
        <3>3. \A c \in Claims : ~InsertClaim(r, c)
            BY DEF Insertion
        <3>4. ASSUME NEW pc, pc # "insert", NEW by, NEW c, NEW at, Begin(r, pc, by, c, at)
              PROVE  run'[s] = run[s]
            BY <1>1, <1>2, <3>4 DEF Begin, IdleRun
        <3>5. ASSUME NEW t \in Tenants, NEW k \in Amounts, NEW forced \in BOOLEAN,
                     CallAddClaim(r, t, k, forced)
              PROVE  run'[s] = run[s]
            BY <1>1, <1>2, <3>5 DEF CallAddClaim, IdleRun
        <3> QED
            BY <2>3, <3>1, <3>2, <3>3, <3>4, <3>5
               DEF RunStep, RefuseClaim, CallDischarge, CallEvent, WriteDischarge, CallReverify,
                   WriteTouch, CallSettle, WriteSettlement, RunEnds
    <2>4. CASE UNCHANGED run
        BY <2>1, <2>4
    <2> QED
        BY <2>1, <2>2, <2>3, <2>4 DEF Next, NewDay, AffirmClaim, Withdraw, vars
<1> QED
    BY <1>2 DEF PlaceKept

\* The insert of a claim that fits takes the place that was kept for it; every other call about
\* to insert is overtaken by it.
LEMMA InsertStep ==
    ASSUME HInv, TypeOK', NEW r \in Runs, NEW c \in Claims, InsertClaim(r, c)
    PROVE  PlaceKept' /\ Within'
<1>1. /\ run \in [Runs -> RunRecord] /\ claim \in [Claims -> ClaimRecord]
      /\ run[r].amount \in Nat /\ Face \in Nat
    BY LedgerAssumption DEF HInv, TypeOK, RunRecord
<1>2. PlaceKept'
    <2>1. ASSUME NEW s \in Runs, run'[s].pc = "insert" PROVE run'[s].overtaken
        <3>1. s # r
            BY <2>1 DEF InsertClaim, IdleRun
        <3>2. run'[s] = [run[s] EXCEPT !.overtaken = run[s].overtaken \/ run[s].pc = "insert"]
            BY <3>1 DEF InsertClaim
        <3>3. run[s] \in RunRecord
            BY <1>1
        <3>4. run'[s].pc = run[s].pc
            BY <3>2, <3>3 DEF RunRecord
        <3> QED
            BY <2>1, <3>2, <3>3, <3>4 DEF RunRecord
    <2> QED
        BY <2>1 DEF PlaceKept
<1>3. PICK f, g : f = claim /\ g = claim'
    OBVIOUS
<1>4. PICK T, V, M : T = Fitting /\ V = Fitting' /\ M = run[r].missed
    OBVIOUS
<1>5. /\ f \in [Claims -> ClaimRecord] /\ g \in [Claims -> ClaimRecord]
      /\ T \in SUBSET Claims /\ V \in SUBSET Claims /\ TypeOK
    BY <1>3, <1>4 DEF HInv, TypeOK, Fitting
<1>6. ASSUME NEW d \in V, d # c
      PROVE  /\ d \in T /\ g[d].amount = f[d].amount
             /\ ~run[r].forced /\ ~run[r].overtaken => d \notin M
    <2>1. d \in Claims /\ claim'[d].status = "active" /\ ~claim'[d].over /\ ~claim'[d].missed
          /\ ~claim'[d].overtaken
        BY <1>4, <1>6 DEF Fitting, Active
    <2>2. PICK b \in BOOLEAN : /\ claim'[d] = [claim[d] EXCEPT !.missed = b]
                               /\ claim[d].missed => b
                               /\ d \in run[r].missed /\ Active(d) /\ ~run[r].forced
                                     /\ ~run[r].overtaken => b
        BY <1>5, <1>6, <2>1, MissedOnly
    <2>3. claim[d] \in ClaimRecord
        BY <1>1, <2>1
    <2>4. /\ Active(d) /\ ~claim[d].over /\ ~claim[d].overtaken /\ ~b
          /\ claim'[d].amount = claim[d].amount
        BY <2>1, <2>2, <2>3 DEF Active, ClaimRecord
    <2> QED
        BY <1>3, <1>4, <2>1, <2>2, <2>4 DEF Fitting
<1>7. V \ {c} \in SUBSET T /\ \A d \in V \ {c} : g[d].amount = f[d].amount
    BY <1>6
<1>8. Weight(g, V \ {c}) <= Weight(f, T)
    BY <1>5, <1>7, WeightFewer
<1>9. Weight(g, V \ {c}) \in Nat /\ Weight(f, T) \in Nat /\ Weight(f, T) <= Face
    BY <1>3, <1>4, <1>5, WeightTyped DEF HInv, Within
<1>10. Weight(g, V) <= Face
    <2>1. CASE c \notin V
        <3>1. V \ {c} = V
            BY <2>1
        <3> QED
            BY <1>1, <1>8, <1>9, <3>1
    <2>2. CASE c \in V
        <3>1. g[c].amount = run[r].amount /\ g[c].over = run[r].forced
              /\ g[c].overtaken = run[r].overtaken
            BY <1>1, <1>3 DEF InsertClaim, NewClaim, NoClaim
        <3>2. ~run[r].forced /\ ~run[r].overtaken
            BY <1>3, <1>4, <2>2, <3>1 DEF Fitting
        <3>3. Weight(f, T \ M) + run[r].amount <= Face
            BY <1>3, <1>4, <3>2 DEF HInv, PlaceKept, InsertClaim
        <3>4. Weight(g, V \ {c}) <= Weight(f, T \ M)
            <4>1. /\ V \ {c} \in SUBSET (T \ M)
                  /\ T \ M \in SUBSET Claims
                  /\ \A d \in V \ {c} : g[d].amount = f[d].amount
                BY <1>5, <1>6, <3>2
            <4> QED
                BY <1>5, <4>1, WeightFewer
        <3>5. Weight(f, T \ M) \in Nat
            BY <1>5, WeightTyped
        <3>6. Weight(g, (V \ {c}) \cup {c}) = Weight(g, V \ {c}) + g[c].amount
            BY <1>5, WeightMore
        <3>7. (V \ {c}) \cup {c} = V
            BY <2>2
        <3>8. Weight(g, V) = Weight(g, V \ {c}) + run[r].amount
            BY <3>1, <3>6, <3>7
        <3> QED
            BY <1>1, <1>9, <3>3, <3>4, <3>5, <3>8
    <2> QED
        BY <2>1, <2>2
<1>11. Within'
    BY <1>3, <1>4, <1>10 DEF Within
<1> QED
    BY <1>2, <1>11

LEMMA HeadroomStep ==
    ASSUME HInv, [Next]_vars
    PROVE  HInv'
<1>1. TypeOK /\ PlaceKept /\ Within
    BY DEF HInv
<1>2. TypeOK'
    BY <1>1, TypeNext
<1>3. CASE Insertion
    BY <1>2, <1>3, InsertStep DEF Insertion, HInv
<1>4. CASE ~Insertion
    <2>1. PlaceKept'
        BY <1>2, <1>4, PlaceStep
    <2>2. PICK n, m : n = Weight(claim, Fitting \ {}) /\ m = Weight(claim, Fitting \ {})'
        OBVIOUS
    <2>3. m <= n /\ m \in Nat /\ n \in Nat
        BY <1>1, <1>2, <1>4, <2>2, NoHeavier
    <2>4. n = Weight(claim, Fitting) /\ m = Weight(claim, Fitting)'
        <3>1. Fitting \ {} = Fitting /\ (Fitting \ {})' = Fitting'
            OBVIOUS
        <3> QED
            BY <2>2, <3>1 DEF Weight
    <2>5. Within'
        BY <1>1, <2>3, <2>4, LedgerAssumption DEF Within
    <2> QED
        BY <1>2, <2>1, <2>5 DEF HInv
<1> QED
    BY <1>3, <1>4

\* The claims that were found to fit weigh no more than the face value together, however many
\* lenders call at once and whatever happens between a call's reads and its insert: past it, a
\* claim says so, was lapsed when a later one was recorded, or was overtaken by another between
\* its sum and its insert.
THEOREM ClaimsFit == Spec => []Headroom
<1>1. HInv => Headroom
    BY DEF HInv, Within, Weight, Headroom
<1> QED
    BY <1>1, InitHeadroom, HeadroomStep, PTL DEF Spec
=============================================================================
