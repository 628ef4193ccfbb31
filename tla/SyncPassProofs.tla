--------------------------- MODULE SyncPassProofs ---------------------------
(***************************************************************************)
(* Proofs about SyncPass, for any number of wallets, tins, days and        *)
(* calls: however calls overlap, fail or die, no transfer is counted twice *)
(* in a day's pass, and nothing of a day answered `done` is left to read   *)
(* but what was registered or listed beside that answer; and while calls   *)
(* do not overlap, a finished read is not repeated within its day, and     *)
(* without faults each row counts what the day wrote.                      *)
(***************************************************************************)
EXTENDS SyncPass, WellFoundedInduction, FiniteSetTheorems, TLAPS

\* The calls do not overlap.
OneCall == \A c, e \in Calls : c = e

Row == [day : Days \cup {None}, at : Nat, status : ReadStatuses \cup {"none"}, recorded : Nat]
Report == [status : ReadStatuses \cup {"none"}, recorded : Nat]

\* The day's rows count no more than was written.
RowsCount ==
    \A w \in Wallets :
        /\ reads[w].day <= day
        /\ reads[w].day # None => reads[w].recorded <= wrote[w][reads[w].day]

\* What a call has seen and will write counts no more than was written.
CallCounts(x) ==
    x.pc # "idle" =>
        /\ x.day \in 0 .. day
        /\ \A w \in Wallets : /\ x.seen[w].day <= x.day
                             /\ Carried(x.seen, w, x.day) <= wrote[w][x.day]
        /\ \A w \in x.toMark :
              Carried(x.seen, w, x.day) + x.report[w].recorded <= wrote[w][x.day]

\* A call that is not running holds nothing.
CallRests(x) == x.pc = "idle" => x.todo = {} /\ x.toRead = {} /\ x.toMark = {}

IInv ==
    /\ TypeOK
    /\ RowsCount
    /\ \A c \in Calls : CallCounts(call[c]) /\ CallRests(call[c])
    /\ done \subseteq 0 .. day

\* A finite set has an element that is mapped highest: the sets that have none would include
\* one of least size, and it has none either without one of its elements.
LEMMA Highest ==
    ASSUME NEW S, IsFiniteSet(S), S # {}, NEW f \in [S -> Nat]
    PROVE  \E x \in S : \A y \in S : f[y] <= f[x]
<1> DEFINE Tops(V) == {x \in V : \A y \in V : f[y] <= f[x]}
           Bad == {n \in Nat : \E V \in SUBSET S : V # {} /\ Tops(V) = {} /\ Cardinality(V) = n}
<1>1. Bad = {}
    <2> SUFFICES ASSUME Bad # {} PROVE FALSE
        OBVIOUS
    <2>1. Bad \in SUBSET Nat
        OBVIOUS
    <2> HIDE DEF Bad
    <2>2. PICK n \in Bad : \A m \in Bad : n <= m
        <3> DEFINE R == OpToRel(<, Nat)
        <3>1. IsWellFoundedOn(R, Nat)
            BY NatLessThanWellFounded
        <3>2. \A n, m \in Nat : <<m, n>> \in R <=> m < n
            BY DEF OpToRel
        <3> HIDE DEF R
        <3>3. PICK n \in Bad : \A m \in Bad : <<m, n>> \notin R
            BY <2>1, <3>1, WFMin
        <3>4. ASSUME NEW m \in Bad PROVE n <= m
            <4>1. ~(m < n)
                BY <2>1, <3>2, <3>3
            <4> QED
                BY <2>1, <4>1
        <3> QED
            BY <3>4
    <2> USE DEF Bad
    <2>3. PICK V \in SUBSET S : V # {} /\ Tops(V) = {} /\ Cardinality(V) = n
        OBVIOUS
    <2>4. PICK x \in V : TRUE
        BY <2>3
    <2>5. IsFiniteSet(V) /\ IsFiniteSet(V \ {x})
        BY <2>3, FS_Subset
    <2>6. Cardinality(V \ {x}) = n - 1 /\ Cardinality(V \ {x}) \in Nat
        BY <2>3, <2>5, FS_RemoveElement, FS_CardinalityType
    <2>7. V \ {x} # {}
        <3>1. V \ {x} = {} => x \in Tops(V)
            BY <2>3
        <3> QED
            BY <2>3, <3>1
    <2>8. Tops(V \ {x}) # {}
        <3>1. n - 1 \notin Bad
            BY <2>1, <2>2
        <3> QED
            BY <2>3, <2>6, <2>7, <3>1
    <2>9. PICK z \in V \ {x} : \A y \in V \ {x} : f[y] <= f[z]
        BY <2>8
    <2>10. f[x] \in Nat /\ f[z] \in Nat /\ \A y \in V : f[y] \in Nat
        OBVIOUS
    <2>11. z \in Tops(V) \/ x \in Tops(V)
        BY <2>9, <2>10
    <2> QED
        BY <2>3, <2>11
<1>2. Cardinality(S) \in Nat
    BY FS_CardinalityType
<1> QED
    BY <1>1, <1>2
-----------------------------------------------------------------------------
(* Types. *)

LEMMA Constants ==
    /\ MaxDay \in Nat /\ Days = 0 .. MaxDay /\ Days \subseteq Nat /\ None \notin Days
    /\ None = -1 /\ MaxCalls \in Nat /\ MaxFaults \in Nat /\ MaxNew \in Nat
    BY SyncAssumption DEF Days, None

LEMMA Facts ==
    ASSUME TypeOK
    PROVE  /\ day \in Days /\ live \subseteq Wallets /\ live \subseteq born /\ born \subseteq Wallets
           /\ left \subseteq Wallets /\ unread \in [Wallets -> 0 .. MaxNew]
           /\ reads \in [Wallets -> Row] /\ call \in [Calls -> CallRecord]
           /\ wrote \in [Wallets -> [Days -> Nat]]
           /\ calls \in 0 .. MaxCalls /\ done \subseteq Days /\ faults \in 0 .. MaxFaults
    BY DEF TypeOK, Row

LEMMA CallTyped ==
    ASSUME NEW x \in CallRecord
    PROVE  /\ x.pc \in {"idle", "next", "read", "mark"} /\ x.day \in Days \cup {None}
           /\ x.seen \in [Wallets -> Row] /\ x.todo \in SUBSET Wallets
           /\ x.toRead \in SUBSET Wallets /\ x.toMark \in SUBSET Wallets
           /\ x.report \in [Wallets -> Report] /\ x.late \in BOOLEAN /\ x.ended \in BOOLEAN
    BY DEF CallRecord, Row, Report

LEMMA IdleTyped == IdleCall \in CallRecord /\ IdleCall.pc = "idle" /\ CallRests(IdleCall)
<1>1. NoRow \in Row /\ NoReport \in Report
    BY DEF NoRow, NoReport, Row, Report
<1>2. [w \in Wallets |-> NoRow] \in [Wallets -> Row]
      /\ [w \in Wallets |-> NoReport] \in [Wallets -> Report]
    BY <1>1
<1>3. IdleCall \in CallRecord
    BY <1>2 DEF IdleCall, CallRecord, Row, Report
<1> QED
    BY <1>3 DEF IdleCall, CallRests

LEMMA CarriedTyped ==
    ASSUME NEW seen \in [Wallets -> Row], NEW w \in Wallets, NEW d \in Days
    PROVE  Carried(seen, w, d) \in Nat
    BY DEF Carried, Row

\* There is a moment after every row's.
LEMMA MomentTyped ==
    ASSUME TypeOK, Wallets # {}
    PROVE  NextMoment \in Nat
<1> DEFINE f == [w \in Wallets |-> reads[w].at]
<1>1. f \in [Wallets -> Nat]
    BY Facts DEF Row
<1>2. PICK v \in Wallets : \A w \in Wallets : f[w] <= f[v]
    BY <1>1, Highest, SyncAssumption
<1>3. reads[v].at \in Nat /\ \A w \in Wallets : reads[w].at \in Nat /\ reads[w].at <= reads[v].at
    BY <1>1, <1>2
<1>4. \E t \in {reads[w].at + 1 : w \in Wallets} : \A w \in Wallets : reads[w].at < t
    <2>1. reads[v].at + 1 \in {reads[w].at + 1 : w \in Wallets}
        OBVIOUS
    <2>2. \A w \in Wallets : reads[w].at < reads[v].at + 1
        BY <1>3
    <2> QED
        BY <2>1, <2>2
<1>5. NextMoment \in {reads[w].at + 1 : w \in Wallets}
    BY <1>4 DEF NextMoment
<1> QED
    BY <1>3, <1>5

LEMMA MarkedTyped ==
    ASSUME TypeOK, NEW w \in Wallets, NEW d \in Days, NEW n \in Nat,
           NEW status \in ReadStatuses \cup {"none"}
    PROVE  /\ Marked(reads[w], d, status, n) \in Row
           /\ Marked(reads[w], d, status, n).day = d
           /\ Marked(reads[w], d, status, n).recorded = n
           /\ Marked(reads[w], d, status, n).status = status
<1>1. NextMoment \in Nat /\ reads[w].at \in Nat
    BY MomentTyped, Facts DEF Row
<1> QED
    BY <1>1 DEF Marked, Row
-----------------------------------------------------------------------------
(* How a step changes the calls. *)

\* A call takes a step and what was written and marked stays, or grows.
LEMMA CallKeeps ==
    ASSUME IInv, NEW c \in Calls, NEW x \in CallRecord, call' = [call EXCEPT ![c] = x],
           UNCHANGED <<day, reads>>, live' \subseteq born', born' \subseteq Wallets,
           left' \subseteq Wallets,
           unread' \in [Wallets -> 0 .. MaxNew],
           wrote' \in [Wallets -> [Days -> Nat]],
           \A w \in Wallets, d \in Days : wrote[w][d] <= wrote'[w][d],
           calls' \in 0 .. MaxCalls, faults' \in 0 .. MaxFaults,
           done' \subseteq 0 .. day,
           CallCounts(x)', CallRests(x)
    PROVE  IInv'
<1>1. call'[c] = x /\ \A e \in Calls \ {c} : call'[e] = call[e]
    BY DEF IInv, TypeOK
<1>2. TypeOK'
    <2>1. done' \subseteq Days
        BY Facts, Constants DEF IInv
    <2> QED
        BY <2>1 DEF IInv, TypeOK
<1>3. RowsCount'
    <2>1. ASSUME NEW w \in Wallets, reads[w].day # None
          PROVE  reads[w].recorded <= wrote'[w][reads[w].day]
        <3>1. reads[w].day \in Days /\ reads[w].recorded \in Nat
            BY <2>1, Facts DEF IInv, Row
        <3>2. reads[w].recorded <= wrote[w][reads[w].day]
            BY <2>1 DEF IInv, RowsCount
        <3>3. wrote[w][reads[w].day] \in Nat /\ wrote'[w][reads[w].day] \in Nat
              /\ wrote[w][reads[w].day] <= wrote'[w][reads[w].day]
            BY <3>1, Facts DEF IInv
        <3> QED
            BY <3>1, <3>2, <3>3
    <2> QED
        BY <2>1 DEF IInv, RowsCount
<1>4. ASSUME NEW e \in Calls \ {c} PROVE CallCounts(call[e])'
    <2> DEFINE y == call[e]
    <2>1. y \in CallRecord /\ CallCounts(y) /\ call'[e] = y
        BY <1>1, Facts DEF IInv
    <2>2. ASSUME y.pc # "idle"
          PROVE  /\ y.day \in 0 .. day
                 /\ \A w \in Wallets : y.seen[w].day <= y.day
                                       /\ Carried(y.seen, w, y.day) <= wrote'[w][y.day]
                 /\ \A w \in y.toMark :
                      Carried(y.seen, w, y.day) + y.report[w].recorded <= wrote'[w][y.day]
        <3>1. y.day \in Days /\ y.day \in 0 .. day
            BY <2>1, <2>2, Facts, Constants DEF CallCounts, IInv
        <3>2. \A w \in Wallets : /\ wrote[w][y.day] \in Nat /\ wrote'[w][y.day] \in Nat
                                 /\ wrote[w][y.day] <= wrote'[w][y.day]
                                 /\ Carried(y.seen, w, y.day) \in Nat
                                 /\ y.report[w].recorded \in Nat
            <4>1. y.seen \in [Wallets -> Row] /\ y.report \in [Wallets -> Report]
                BY <2>1, CallTyped
            <4> HIDE DEF y
            <4>2. \A w \in Wallets : Carried(y.seen, w, y.day) \in Nat
                BY <3>1, <4>1, CarriedTyped
            <4>3. \A w \in Wallets : y.report[w].recorded \in Nat
                BY <4>1 DEF Report
            <4>4. \A w \in Wallets : wrote[w][y.day] \in Nat /\ wrote'[w][y.day] \in Nat
                                     /\ wrote[w][y.day] <= wrote'[w][y.day]
                BY <3>1, Facts DEF IInv
            <4> QED
                BY <4>2, <4>3, <4>4
        <3>3. y.toMark \subseteq Wallets
            BY <2>1, CallTyped
        <3>4. /\ \A w \in Wallets : y.seen[w].day <= y.day
                                    /\ Carried(y.seen, w, y.day) <= wrote[w][y.day]
              /\ \A w \in y.toMark :
                   Carried(y.seen, w, y.day) + y.report[w].recorded <= wrote[w][y.day]
            BY <2>1, <2>2 DEF CallCounts
        <3> HIDE DEF y
        <3> QED
            BY <3>1, <3>2, <3>3, <3>4
    <2> QED
        BY <2>1, <2>2 DEF CallCounts, Carried
<1>5. \A e \in Calls : CallCounts(call[e])' /\ CallRests(call[e])'
    BY <1>1, <1>4 DEF IInv, CallCounts, CallRests, Carried
<1> QED
    BY <1>2, <1>3, <1>5 DEF IInv

LEMMA StartCallStep ==
    ASSUME IInv, NEW c \in Calls, StartCall(c)
    PROVE  IInv'
<1>1. ListDueWallets(day) \subseteq Wallets
    BY Facts DEF ListDueWallets, DueWallets, IInv
<1>x. PICK x \in CallRecord : x = [IdleCall EXCEPT !.pc = "next", !.day = day, !.seen = reads,
                                                   !.todo = ListDueWallets(day)]
    <2> DEFINE y == [IdleCall EXCEPT !.pc = "next", !.day = day, !.seen = reads,
                                     !.todo = ListDueWallets(day)]
    <2>1. y \in CallRecord
        BY <1>1, IdleTyped, Facts DEF CallRecord, IInv, Row
    <2> QED
        BY <2>1
<1>2. /\ x.pc = "next" /\ x.day = day /\ x.seen = reads /\ x.toMark = {} /\ CallRests(x)
    BY <1>x DEF IdleCall, CallRests
<1>3. /\ call' = [call EXCEPT ![c] = x] /\ calls < MaxCalls /\ calls' = calls + 1
      /\ UNCHANGED <<day, live, born, unread, reads, wrote, done, left, faults>>
    BY <1>x DEF StartCall
<1>4. calls' \in 0 .. MaxCalls
    BY <1>3, Facts, Constants DEF IInv
<1>5. \A w \in Wallets : /\ reads[w].day <= day
                         /\ Carried(reads, w, day) <= wrote[w][day]
    <2>1. ASSUME NEW w \in Wallets PROVE Carried(reads, w, day) <= wrote[w][day]
        <3>1. wrote[w][day] \in Nat /\ day # None
            BY Facts, Constants DEF IInv
        <3>2. reads[w].day = day => reads[w].recorded <= wrote[w][day]
            BY <3>1 DEF IInv, RowsCount
        <3> QED
            BY <3>1, <3>2 DEF Carried
    <2> QED
        BY <2>1 DEF IInv, RowsCount
<1>6. CallCounts(x)'
    <2>1. day \in 0 .. day
        BY Facts, Constants DEF IInv
    <2>2. CallCounts(x)
        BY <1>2, <1>5, <2>1 DEF CallCounts
    <2> QED
        BY <1>3, <2>2 DEF CallCounts, Carried
<1>7. \A w \in Wallets, d \in Days : wrote[w][d] <= wrote'[w][d]
    BY <1>3, Facts DEF IInv
<1> QED
    BY <1>2, <1>3, <1>4, <1>6, <1>7, Facts, CallKeeps DEF IInv

\* A step of a call that only moves its wallets along, or ends it.
LEMMA MovesOn ==
    ASSUME IInv, NEW c \in Calls, NEW x \in CallRecord, call' = [call EXCEPT ![c] = x],
           UNCHANGED <<day, reads, live, born, unread, wrote, calls>>, faults' \in 0 .. MaxFaults,
           left' \subseteq Wallets,
           done' \subseteq 0 .. day, CallRests(x),
           x.pc # "idle" => /\ call[c].pc # "idle"
                            /\ x.day = call[c].day /\ x.seen = call[c].seen
                            /\ \A w \in x.toMark : \/ /\ w \in call[c].toMark
                                                      /\ x.report[w] = call[c].report[w]
                                                   \/ x.report[w].recorded = 0
    PROVE  IInv'
<1>1. CallCounts(call[c]) /\ call[c] \in CallRecord
    BY Facts DEF IInv
<1>2. CallCounts(x)
    <2> SUFFICES ASSUME x.pc # "idle" PROVE CallCounts(x)
        BY DEF CallCounts
    <2>1. x.day \in Days /\ x.seen \in [Wallets -> Row] /\ x.toMark \subseteq Wallets
        BY <1>1, CallTyped, Constants, Facts DEF CallCounts, IInv
    <2>2. \A w \in Wallets : Carried(x.seen, w, x.day) \in Nat
        BY <2>1, CarriedTyped
    <2>3. \A w \in x.toMark :
            Carried(x.seen, w, x.day) + x.report[w].recorded <= wrote[w][x.day]
        BY <1>1, <2>1, <2>2 DEF CallCounts
    <2> QED
        BY <1>1, <2>3 DEF CallCounts
<1>3. CallCounts(x)'
    BY <1>2 DEF CallCounts, Carried
<1>4. \A w \in Wallets, d \in Days : wrote[w][d] <= wrote'[w][d]
    BY Facts DEF IInv
<1> QED
    BY <1>3, <1>4, Facts, CallKeeps DEF IInv

LEMMA TakeGroupStep ==
    ASSUME IInv, NEW c \in Calls, TakeGroup(c)
    PROVE  IInv'
<1>1. call[c] \in CallRecord /\ live \subseteq Wallets
    BY Facts DEF IInv
<1>2. PICK g : g = FirstGroup(call[c].seen, call[c].todo)
    OBVIOUS
<1>3. g \subseteq Wallets
    BY <1>1, <1>2, CallTyped DEF FirstGroup
<1> DEFINE x == [call[c] EXCEPT !.pc = "read", !.todo = call[c].todo \ g, !.toRead = g \cap live]
<1>4. /\ x \in CallRecord /\ x.pc = "read" /\ x.day = call[c].day /\ x.seen = call[c].seen
      /\ x.toMark = call[c].toMark /\ x.report = call[c].report
    BY <1>1, <1>3 DEF CallRecord
<1>5. call' = [call EXCEPT ![c] = x]
    BY <1>2 DEF TakeGroup
<1>6. call[c].pc # "idle" /\ UNCHANGED <<day, reads, live, born, unread, wrote, calls, faults, done, left>>
    BY DEF TakeGroup
<1> HIDE DEF x
<1>7. CallRests(x)
    BY <1>4 DEF CallRests
<1> QED
    BY <1>4, <1>5, <1>6, <1>7, Facts, MovesOn DEF IInv

LEMMA EndGroupStep ==
    ASSUME IInv, NEW c \in Calls, EndGroup(c)
    PROVE  IInv'
<1>1. call[c] \in CallRecord
    BY Facts DEF IInv
<1>2. PICK pc \in {"next", "mark"} : pc = IF call[c].toMark = {} THEN "next" ELSE "mark"
    OBVIOUS
<1> DEFINE x == [call[c] EXCEPT !.pc = pc]
<1>3. /\ x \in CallRecord /\ x.pc = pc /\ x.day = call[c].day /\ x.seen = call[c].seen
      /\ x.toMark = call[c].toMark /\ x.report = call[c].report
    BY <1>1 DEF CallRecord
<1>4. call' = [call EXCEPT ![c] = x]
    BY <1>1, <1>2, Facts DEF EndGroup, IInv
<1>5. call[c].pc # "idle" /\ UNCHANGED <<day, reads, live, born, unread, wrote, calls, faults, done, left>>
    BY DEF EndGroup
<1> HIDE DEF x
<1>6. CallRests(x)
    BY <1>3 DEF CallRests
<1> QED
    BY <1>3, <1>4, <1>5, <1>6, Facts, MovesOn DEF IInv

LEMMA DeadlineStep ==
    ASSUME IInv, NEW c \in Calls, DeadlineComes(c)
    PROVE  IInv'
<1>1. call[c] \in CallRecord
    BY Facts DEF IInv
<1> DEFINE x == [call[c] EXCEPT !.late = TRUE]
<1>2. /\ x \in CallRecord /\ x.pc = call[c].pc /\ x.day = call[c].day /\ x.seen = call[c].seen
      /\ x.toMark = call[c].toMark /\ x.report = call[c].report
    BY <1>1 DEF CallRecord
<1>3. call' = [call EXCEPT ![c] = x]
    BY <1>1, Facts DEF DeadlineComes, IInv
<1>4. /\ call[c].pc # "idle"
      /\ UNCHANGED <<day, reads, live, born, unread, wrote, calls, faults, done, left>>
    BY DEF DeadlineComes
<1> HIDE DEF x
<1>5. CallRests(x)
    BY <1>2, <1>4 DEF CallRests
<1> QED
    BY <1>2, <1>3, <1>4, <1>5, Facts, MovesOn DEF IInv

\* The call answers, or its process ends.
LEMMA EndSteps ==
    ASSUME IInv, NEW c \in Calls, Answer(c) \/ Crash(c)
    PROVE  IInv'
<1>1. /\ call' = [call EXCEPT ![c] = IdleCall]
      /\ UNCHANGED <<day, reads, live, born, unread, wrote, calls>>
    BY DEF Answer, Crash
<1>2. IdleCall \in CallRecord /\ IdleCall.pc = "idle" /\ CallRests(IdleCall)
    BY IdleTyped
<1>3. faults' \in 0 .. MaxFaults
    BY Facts, Constants DEF Answer, Crash, Fault, IInv
<1>4. done' \subseteq 0 .. day
    <2>1. CASE Crash(c)
        BY <2>1 DEF Crash, IInv
    <2>2. CASE Answer(c)
        <3>1. call[c].pc # "idle"
            BY <2>2 DEF Answer
        <3>2. call[c].day \in 0 .. day
            BY <3>1 DEF IInv, CallCounts
        <3> QED
            BY <2>2, <3>2 DEF Answer, IInv
    <2> QED
        BY <2>1, <2>2
<1>5. left' \subseteq Wallets
    <2>1. \A e \in Calls : Listed(call[e]) \subseteq Wallets
        BY Facts, CallTyped DEF Listed, IInv
    <2> QED
        BY <2>1, Facts DEF Answer, Crash, IInv
<1> QED
    BY <1>1, <1>2, <1>3, <1>4, <1>5, MovesOn

LEMMA TinFailsStep ==
    ASSUME IInv, NEW c \in Calls, TinFails(c)
    PROVE  IInv'
<1>1. call[c] \in CallRecord
    BY Facts DEF IInv
<1>2. PICK g : g = FirstGroup(call[c].seen, call[c].todo)
    OBVIOUS
<1>3. g \subseteq Wallets
    BY <1>1, <1>2, CallTyped DEF FirstGroup
<1>4. PICK f : f = [w \in Wallets |-> IF w \in g THEN [status |-> "failed", recorded |-> 0]
                                       ELSE NoReport]
    OBVIOUS
<1>5. f \in [Wallets -> Report] /\ \A w \in g : f[w].recorded = 0
    BY <1>3, <1>4 DEF Report, NoReport, ReadStatuses, Finished
<1> DEFINE x == [call[c] EXCEPT !.pc = "mark", !.todo = call[c].todo \ g, !.toMark = g,
                                !.report = f]
<1>6. /\ x \in CallRecord /\ x.pc = "mark" /\ x.day = call[c].day /\ x.seen = call[c].seen
      /\ x.toMark = g /\ x.report = f
    BY <1>1, <1>3, <1>5 DEF CallRecord, Report
<1>7. call' = [call EXCEPT ![c] = x]
    BY <1>2, <1>4 DEF TinFails
<1>8. /\ call[c].pc # "idle"
      /\ UNCHANGED <<day, reads, live, born, unread, wrote, calls, done, left>>
    BY DEF TinFails
<1>9. faults' \in 0 .. MaxFaults
    BY Facts, Constants DEF TinFails, Fault, IInv
<1> HIDE DEF x
<1>10. CallRests(x)
    BY <1>6 DEF CallRests
<1> QED
    BY <1>5, <1>6, <1>7, <1>8, <1>9, <1>10, Facts, MovesOn DEF IInv

LEMMA WalletReadStep ==
    ASSUME IInv, NEW c \in Calls, NEW w \in Wallets, NEW n \in Nat, NEW status \in ReadStatuses,
           NEW recorded \in Nat, recorded <= n, NEW late \in BOOLEAN,
           WalletRead(c, w, n, status, recorded, late), faults' \in 0 .. MaxFaults
    PROVE  IInv'
<1>1. PICK s \in CallRecord : s = call[c]
    BY Facts DEF IInv
<1>2. s.pc = "read" /\ n <= unread[w] /\ CallCounts(s)
    BY <1>1 DEF WalletRead, IInv
<1>3. PICK d \in Days : d = s.day /\ d \in 0 .. day
    BY <1>2, Facts, Constants DEF CallCounts, IInv
<1>4. /\ s.seen \in [Wallets -> Row] /\ s.report \in [Wallets -> Report]
      /\ s.toMark \subseteq Wallets /\ s.toRead \subseteq Wallets
    BY <1>1, CallTyped
<1>5. PICK R \in [Wallets -> Report] :
          R = [s.report EXCEPT ![w] = [status |-> status, recorded |-> recorded]]
    <2>1. [status |-> status, recorded |-> recorded] \in Report
        BY DEF Report
    <2> QED
        BY <1>4, <2>1
<1>6. PICK b \in BOOLEAN : b = (s.ended \/ status # "cut")
    OBVIOUS
<1>7. PICK x \in CallRecord :
          x = [s EXCEPT !.toRead = s.toRead \ {w}, !.toMark = s.toMark \cup {w}, !.report = R,
                        !.late = late, !.ended = b]
    <2> DEFINE y == [s EXCEPT !.toRead = s.toRead \ {w}, !.toMark = s.toMark \cup {w},
                              !.report = R, !.late = late, !.ended = b]
    <2>1. y \in CallRecord
        BY <1>4 DEF CallRecord, Report
    <2> QED
        BY <2>1
<1>8. /\ x.pc = "read" /\ x.day = d /\ x.seen = s.seen
      /\ x.toMark = s.toMark \cup {w} /\ x.report = R
    BY <1>2, <1>3, <1>7 DEF CallRecord
<1>9. call' = [call EXCEPT ![c] = x]
    <2>1. call' = [call EXCEPT ![c] =
                     [s EXCEPT !.toRead = s.toRead \ {w}, !.toMark = s.toMark \cup {w},
                               !.report[w] = [status |-> status, recorded |-> recorded],
                               !.late = late, !.ended = s.ended \/ status # "cut"]]
        BY <1>1 DEF WalletRead
    <2>2. [s EXCEPT !.toRead = s.toRead \ {w}, !.toMark = s.toMark \cup {w},
                    !.report[w] = [status |-> status, recorded |-> recorded],
                    !.late = late, !.ended = s.ended \/ status # "cut"] = x
        BY <1>5, <1>6, <1>7 DEF CallRecord
    <2> QED
        BY <2>1, <2>2
<1>10. /\ wrote' = [wrote EXCEPT ![w][d] = @ + n] /\ unread' = [unread EXCEPT ![w] = @ - n]
       /\ UNCHANGED <<day, live, born, reads, calls, done, left>>
    BY <1>1, <1>3 DEF WalletRead
<1>11. /\ wrote' \in [Wallets -> [Days -> Nat]]
       /\ wrote'[w][d] = wrote[w][d] + n
       /\ \A v \in Wallets, e \in Days : wrote[v][e] <= wrote'[v][e]
    <2>1. wrote[w][d] + n \in Nat /\ \A v \in Wallets, e \in Days : wrote[v][e] \in Nat
        BY Facts DEF IInv
    <2>2. \A v \in Wallets, e \in Days :
            wrote'[v][e] = IF v = w /\ e = d THEN wrote[w][d] + n ELSE wrote[v][e]
        BY <1>10, Facts DEF IInv
    <2>3. wrote' \in [Wallets -> [Days -> Nat]]
        BY <1>10, <2>1, Facts DEF IInv
    <2> QED
        BY <2>1, <2>2, <2>3
<1>12. unread' \in [Wallets -> 0 .. MaxNew]
    <2>1. unread[w] - n \in 0 .. MaxNew
        BY <1>2, Facts, Constants DEF IInv
    <2> QED
        BY <1>10, <2>1, Facts DEF IInv
<1>13. CallCounts(x)'
    <2>1. \A v \in Wallets : /\ Carried(s.seen, v, d) \in Nat
                             /\ Carried(s.seen, v, d) <= wrote[v][d]
                             /\ s.seen[v].day <= d
                             /\ wrote[v][d] \in Nat /\ wrote'[v][d] \in Nat
                             /\ wrote[v][d] <= wrote'[v][d]
        <3>1. \A v \in Wallets : Carried(s.seen, v, d) \in Nat
            BY <1>4, CarriedTyped
        <3>2. \A v \in Wallets : Carried(s.seen, v, d) <= wrote[v][d] /\ s.seen[v].day <= d
            BY <1>2, <1>3 DEF CallCounts
        <3>3. \A v \in Wallets : /\ wrote[v][d] \in Nat /\ wrote'[v][d] \in Nat
                                 /\ wrote[v][d] <= wrote'[v][d]
            BY <1>11, Facts DEF IInv
        <3> QED
            BY <3>1, <3>2, <3>3
    <2>2. ASSUME NEW v \in s.toMark \cup {w}
          PROVE  Carried(s.seen, v, d) + R[v].recorded <= wrote'[v][d]
        <3>1. CASE v = w
            <4>1. R[w].recorded = recorded
                BY <1>4, <1>5
            <4> QED
                BY <1>11, <2>1, <3>1, <4>1
        <3>2. CASE v # w
            <4>1. v \in s.toMark /\ v \in Wallets /\ R[v] = s.report[v] /\ s.report[v].recorded \in Nat
                BY <1>4, <1>5, <3>2 DEF Report
            <4>2. Carried(s.seen, v, d) + s.report[v].recorded <= wrote[v][d]
                BY <1>2, <1>3, <4>1 DEF CallCounts
            <4> QED
                BY <2>1, <4>1, <4>2
        <3> QED
            BY <3>1, <3>2
    <2>3. \A v \in Wallets : Carried(x.seen, v, x.day)' = Carried(s.seen, v, d)
        BY <1>8 DEF Carried
    <2>4. x.toMark \subseteq Wallets
        BY <1>4, <1>8
    <2> QED
        BY <1>3, <1>8, <1>10, <2>1, <2>2, <2>3, <2>4 DEF CallCounts
<1>14. CallRests(x)
    BY <1>8 DEF CallRests
<1> QED
    BY <1>9, <1>10, <1>11, <1>12, <1>13, <1>14, Facts, CallKeeps DEF IInv

LEMMA ReadSteps ==
    ASSUME IInv, NEW c \in Calls, NEW w \in Wallets,
           ReadWallet(c, w) \/ CutWallet(c, w) \/ ReadFails(c, w)
    PROVE  IInv'
<1>1. \A n \in 0 .. unread[w] : n \in Nat
    BY Facts DEF IInv
<1>2. unread[w] \in Nat /\ {"complete", "partial", "unavailable", "failed", "cut"} \subseteq ReadStatuses
    BY Facts DEF IInv, ReadStatuses, Finished
<1>3. CASE ReadWallet(c, w) \/ CutWallet(c, w)
    <2>1. faults' \in 0 .. MaxFaults
        BY <1>3, Facts DEF ReadWallet, CutWallet, IInv
    <2>2. \E n \in Nat, status \in ReadStatuses, late \in BOOLEAN :
            WalletRead(c, w, n, status, n, late)
        BY <1>1, <1>2, <1>3 DEF ReadWallet, CutWallet
    <2> QED
        BY <2>1, <2>2, WalletReadStep
<1>4. CASE ReadFails(c, w)
    <2>1. faults' \in 0 .. MaxFaults
        BY <1>4, Facts, Constants DEF ReadFails, Fault, IInv
    <2>2. PICK n \in Nat : WalletRead(c, w, n, "failed", 0, FALSE)
        BY <1>1, <1>4 DEF ReadFails
    <2> QED
        <3>1. 0 \in Nat /\ 0 <= n /\ FALSE \in BOOLEAN /\ "failed" \in ReadStatuses
            BY <1>2
        <3> QED
            BY <2>1, <2>2, <3>1, WalletReadStep
<1> QED
    BY <1>3, <1>4

LEMMA MarkWalletStep ==
    ASSUME IInv, NEW c \in Calls, NEW w \in Wallets, MarkWallet(c, w)
    PROVE  IInv'
<1>1. PICK s \in CallRecord : s = call[c]
    BY Facts DEF IInv
<1>2. s.pc = "mark" /\ w \in s.toMark /\ CallCounts(s)
    BY <1>1 DEF MarkWallet, IInv
<1>3. PICK d \in Days : d = s.day /\ d \in 0 .. day
    BY <1>2, Facts, Constants DEF CallCounts, IInv
<1>4. /\ s.seen \in [Wallets -> Row] /\ s.report \in [Wallets -> Report]
      /\ s.toMark \subseteq Wallets
    BY <1>1, CallTyped
<1>5. PICK n \in Nat : n = Carried(s.seen, w, d) + s.report[w].recorded /\ n <= wrote[w][d]
    <2>1. Carried(s.seen, w, d) \in Nat /\ s.report[w].recorded \in Nat
        BY <1>4, CarriedTyped DEF Report
    <2> QED
        BY <1>2, <1>3, <2>1 DEF CallCounts
<1>6. PICK y \in Row : /\ y = Marked(reads[w], d, s.report[w].status, n)
                       /\ y.day = d /\ y.recorded = n
    <2>1. s.report[w].status \in ReadStatuses \cup {"none"}
        BY <1>4 DEF Report
    <2> QED
        BY <2>1, MarkedTyped DEF IInv
<1>7. /\ reads' = [reads EXCEPT ![w] = y]
      /\ UNCHANGED <<day, live, born, unread, calls, wrote, done, left, faults>>
    BY <1>1, <1>3, <1>5, <1>6 DEF MarkWallet
<1>8. PICK pc \in {"next", "mark"} : pc = IF s.toMark = {w} THEN "next" ELSE "mark"
    OBVIOUS
<1>9. PICK R \in [Wallets -> Report] : R = [s.report EXCEPT ![w] = NoReport]
    BY <1>4 DEF Report, NoReport
<1>10. PICK x \in CallRecord : x = [s EXCEPT !.toMark = s.toMark \ {w}, !.report = R, !.pc = pc]
    <2> DEFINE z == [s EXCEPT !.toMark = s.toMark \ {w}, !.report = R, !.pc = pc]
    <2>1. z \in CallRecord
        BY <1>4 DEF CallRecord, Report
    <2> QED
        BY <2>1
<1>11. /\ x.pc = pc /\ x.day = d /\ x.seen = s.seen /\ x.toMark = s.toMark \ {w} /\ x.report = R
    BY <1>3, <1>10 DEF CallRecord
<1>12. call' = [call EXCEPT ![c] = x]
    BY <1>1, <1>8, <1>9, <1>10, Facts DEF MarkWallet, CallRecord, IInv
<1>13. TypeOK'
    BY <1>7, <1>12, Facts DEF IInv, TypeOK, Row
<1>14. RowsCount'
    <2>1. reads'[w] = y /\ \A v \in Wallets \ {w} : reads'[v] = reads[v]
        BY <1>7, Facts DEF IInv
    <2>2. y.day <= day
        BY <1>3, <1>6, Facts, Constants DEF IInv
    <2> QED
        BY <1>5, <1>6, <1>7, <2>1, <2>2 DEF IInv, RowsCount
<1>15. CallCounts(x)
    <2>1. \A v \in s.toMark \ {w} : R[v] = s.report[v]
        BY <1>4, <1>9
    <2> QED
        BY <1>2, <1>3, <1>11, <2>1 DEF CallCounts
<1>16. CallRests(x)
    BY <1>11 DEF CallRests
<1>17. \A e \in Calls : CallCounts(call[e])' /\ CallRests(call[e])'
    <2>1. call'[c] = x /\ \A e \in Calls \ {c} : call'[e] = call[e]
        BY <1>12, Facts DEF IInv
    <2> QED
        BY <1>7, <1>15, <1>16, <2>1 DEF IInv, CallCounts, CallRests, Carried
<1> QED
    BY <1>7, <1>13, <1>14, <1>17 DEF IInv

\* The world's steps: no call moves.
LEMMA WorldSteps ==
    ASSUME IInv, NewDay \/ \E w \in Wallets : WorldStep(w)
    PROVE  /\ IInv' /\ UNCHANGED <<reads, call, wrote, done, faults>>
           /\ live' \ live \subseteq left' /\ left \subseteq left' /\ day' \in day .. day + 1
<1>1. /\ UNCHANGED <<reads, call, wrote, done, faults>>
      /\ live' \ live \subseteq left' /\ left \subseteq left'
      /\ live' \subseteq born' /\ born' \subseteq Wallets /\ left' \subseteq Wallets
    BY Facts DEF NewDay, WorldStep, NewTransfer, OwnerReads, Remove, Register, IInv
<1>2. day' \in day .. day + 1 /\ day' \in Days /\ day \in Nat
    BY Facts, Constants DEF NewDay, WorldStep, NewTransfer, OwnerReads, Remove, Register, IInv
<1>3. calls' \in 0 .. MaxCalls
    BY Facts, Constants DEF NewDay, WorldStep, NewTransfer, OwnerReads, Remove, Register, IInv
<1>4. unread' \in [Wallets -> 0 .. MaxNew]
    <2>1. CASE NewDay \/ \E w \in Wallets : Remove(w) \/ Register(w)
        BY <2>1, Facts DEF NewDay, Remove, Register, IInv
    <2>2. ASSUME NEW w \in Wallets, NewTransfer(w) \/ OwnerReads(w)
          PROVE  unread' \in [Wallets -> 0 .. MaxNew]
        <3>1. unread[w] < MaxNew => unread[w] + 1 \in 0 .. MaxNew
            BY Facts, Constants DEF IInv
        <3>2. 0 \in 0 .. MaxNew
            BY Constants
        <3> QED
            BY <2>2, <3>1, <3>2, Facts DEF NewTransfer, OwnerReads, IInv
    <2> QED
        BY <2>1, <2>2 DEF WorldStep
<1>5. TypeOK'
    BY <1>1, <1>2, <1>3, <1>4 DEF IInv, TypeOK
<1>6. RowsCount'
    <2>1. \A w \in Wallets : reads[w].day \in Int
        BY Facts, Constants DEF IInv, Row
    <2> QED
        BY <1>1, <1>2, <2>1 DEF IInv, RowsCount
<1>7. \A c \in Calls : CallCounts(call[c])' /\ CallRests(call[c])'
    BY <1>1, <1>2 DEF IInv, CallCounts, CallRests, Carried
<1>8. done' \subseteq 0 .. day'
    BY <1>1, <1>2 DEF IInv
<1> QED
    BY <1>1, <1>2, <1>5, <1>6, <1>7, <1>8 DEF IInv

LEMMA InitInv == Init => IInv
<1> SUFFICES ASSUME Init PROVE IInv
    OBVIOUS
<1>1. TypeOK
    <2>1. NoRow \in Row
        BY DEF NoRow, Row
    <2>2. reads \in [Wallets -> Row] /\ call \in [Calls -> CallRecord]
        BY <2>1, IdleTyped DEF Init
    <2>3. /\ day \in Days /\ unread \in [Wallets -> 0 .. MaxNew] /\ calls \in 0 .. MaxCalls
          /\ wrote \in [Wallets -> [Days -> Nat]] /\ faults \in 0 .. MaxFaults
        BY Constants DEF Init
    <2> QED
        BY <2>2, <2>3, SyncAssumption DEF Init, TypeOK, Row
<1>2. RowsCount
    BY Constants DEF Init, RowsCount, NoRow
<1>3. \A c \in Calls : CallCounts(call[c]) /\ CallRests(call[c])
    BY IdleTyped DEF Init, CallCounts
<1> QED
    BY <1>1, <1>2, <1>3 DEF Init, IInv

LEMMA NextInv ==
    ASSUME IInv, [Next]_vars
    PROVE  IInv'
<1>1. CASE NewDay \/ \E w \in Wallets : WorldStep(w)
    BY <1>1, WorldSteps
<1>2. ASSUME NEW c \in Calls, CallStep(c) PROVE IInv'
    BY <1>2, StartCallStep, TakeGroupStep, EndGroupStep, EndSteps, ReadSteps, MarkWalletStep
       DEF CallStep
<1>3. ASSUME NEW c \in Calls, DeadlineComes(c) PROVE IInv'
    BY <1>3, DeadlineStep
<1>4. ASSUME NEW c \in Calls, FaultStep(c) PROVE IInv'
    BY <1>4, ReadSteps, TinFailsStep, EndSteps DEF FaultStep
<1>5. CASE UNCHANGED vars
    BY <1>5 DEF vars, IInv, TypeOK, RowsCount, CallCounts, CallRests, Carried
<1> QED
    BY <1>1, <1>2, <1>3, <1>4, <1>5 DEF Next

LEMMA Invariance == Spec => []IInv
<1>1. IInv /\ [Next]_vars => IInv'
    BY NextInv
<1> QED
    BY <1>1, InitInv, PTL DEF Spec

\* The rows, the calls and the counts keep their types.
THEOREM PassTypes == Spec => []TypeOK
<1>1. IInv => TypeOK
    BY DEF IInv
<1> QED
    BY <1>1, Invariance, PTL

\* However calls overlap, fail or die, no transfer is counted twice in a day's pass.
THEOREM CountsHold == Spec => []NeverOvercounted
<1>1. IInv => NeverOvercounted
    BY DEF IInv, RowsCount, NeverOvercounted
<1> QED
    BY <1>1, Invariance, PTL
-----------------------------------------------------------------------------
(* What is left of a day. *)

\* Nothing of a day answered `done` is due or listed but what the history `left` names.
Left ==
    day \in done => /\ DueWallets(day) \subseteq left
                    /\ \A c \in Calls : Listed(call[c]) \subseteq left

\* A call's lists name no wallet twice.
Apart(x) == x.todo \cap (x.toRead \cup x.toMark) = {} /\ x.toRead \cap x.toMark = {}

\* What the steps that read, move or end a call leave it holding.
LEMMA HoldsLess ==
    ASSUME IInv, NEW c \in Calls, NEW w,
           \/ TakeGroup(c) \/ EndGroup(c) \/ DeadlineComes(c) \/ TinFails(c) \/ Crash(c)
           \/ ReadWallet(c, w) \/ CutWallet(c, w) \/ ReadFails(c, w)
    PROVE  /\ UNCHANGED <<day, live, reads, done, left>>
           /\ \E x \in CallRecord :
                /\ call' = [call EXCEPT ![c] = x]
                /\ Listed(x) \subseteq Listed(call[c])
                /\ x.pc # "idle" =>
                     /\ call[c].pc # "idle" /\ x.day = call[c].day /\ x.seen = call[c].seen
                     /\ Apart(call[c]) => Apart(x)
<1> DEFINE Less(x) == /\ Listed(x) \subseteq Listed(call[c])
                      /\ x.pc # "idle" =>
                           /\ call[c].pc # "idle" /\ x.day = call[c].day
                           /\ x.seen = call[c].seen
                           /\ Apart(call[c]) => Apart(x)
<1>1. UNCHANGED <<day, live, reads, done, left>>
    BY DEF TakeGroup, EndGroup, DeadlineComes, TinFails, Crash, ReadWallet, CutWallet,
           ReadFails, WalletRead
<1>2. call[c] \in CallRecord /\ IInv'
    <2>1. call[c] \in CallRecord
        BY Facts DEF IInv
    <2>2. ASSUME ReadWallet(c, w) \/ CutWallet(c, w) \/ ReadFails(c, w) PROVE w \in Wallets
        <3>1. PICK n, status, recorded, late : WalletRead(c, w, n, status, recorded, late)
            BY <2>2 DEF ReadWallet, CutWallet, ReadFails
        <3> QED
            BY <2>1, <3>1, CallTyped DEF WalletRead
    <2> QED
        BY <2>1, <2>2, TakeGroupStep, EndGroupStep, DeadlineStep, TinFailsStep, EndSteps, ReadSteps
<1>3. PICK x \in CallRecord : x = call'[c]
    BY <1>2 DEF IInv, TypeOK
<1>4. call' = [call EXCEPT ![c] = x]
    BY <1>3, Facts DEF IInv, TakeGroup, EndGroup, DeadlineComes, TinFails, Crash,
       ReadWallet, CutWallet, ReadFails, WalletRead
<1>5. Less(x)
    <2>1. PICK g : g = FirstGroup(call[c].seen, call[c].todo)
        OBVIOUS
    <2>2. g \subseteq call[c].todo
        BY <2>1 DEF FirstGroup
    <2>3. CASE TakeGroup(c)
        <3>1. /\ call[c].pc # "idle" /\ x.day = call[c].day /\ x.seen = call[c].seen
              /\ x.todo = call[c].todo \ g /\ x.toRead = g \cap live /\ x.toMark = call[c].toMark
            BY <1>2, <1>3, <2>1, <2>3, Facts DEF TakeGroup, CallRecord, IInv
        <3> QED
            BY <2>2, <3>1 DEF Listed, Apart
    <2>4. CASE EndGroup(c) \/ DeadlineComes(c)
        <3>1. /\ call[c].pc # "idle" /\ x.day = call[c].day /\ x.seen = call[c].seen
              /\ x.todo = call[c].todo /\ x.toRead = call[c].toRead /\ x.toMark = call[c].toMark
            BY <1>2, <1>3, <2>4, Facts DEF EndGroup, DeadlineComes, CallRecord, IInv
        <3> QED
            BY <3>1 DEF Listed, Apart
    <2>5. CASE TinFails(c)
        <3>1. /\ call[c].pc # "idle" /\ x.day = call[c].day /\ x.seen = call[c].seen
              /\ x.todo = call[c].todo \ g /\ x.toRead = call[c].toRead /\ x.toMark = g
            BY <1>2, <1>3, <2>1, <2>5, Facts DEF TinFails, CallRecord, IInv
        <3> QED
            BY <2>2, <3>1 DEF Listed, Apart
    <2>6. CASE Crash(c)
        <3>1. x = IdleCall
            BY <1>3, <2>6, Facts DEF Crash, IInv
        <3> QED
            BY <3>1 DEF IdleCall, Listed
    <2>7. CASE ReadWallet(c, w) \/ CutWallet(c, w) \/ ReadFails(c, w)
        <3>1. /\ call[c].pc # "idle" /\ x.day = call[c].day /\ x.seen = call[c].seen
              /\ x.todo = call[c].todo /\ x.toRead = call[c].toRead \ {w}
              /\ x.toMark = call[c].toMark \cup {w} /\ w \in call[c].toRead
            <4>1. PICK n, status, recorded, late : WalletRead(c, w, n, status, recorded, late)
                BY <2>7 DEF ReadWallet, CutWallet, ReadFails
            <4> QED
                BY <1>2, <1>3, <4>1, Facts DEF WalletRead, CallRecord, IInv
        <3> QED
            BY <3>1 DEF Listed, Apart
    <2> QED
        BY <2>3, <2>4, <2>5, <2>6, <2>7
<1> QED
    BY <1>1, <1>3, <1>4, <1>5

\* A call goes on with wallets it had listed, and marks none but those.
LEMMA LeftKeeps ==
    ASSUME IInv, Left, NEW c \in Calls, NEW x \in CallRecord, call' = [call EXCEPT ![c] = x],
           UNCHANGED <<day, live, done, left>>, Listed(x) \subseteq Listed(call[c]),
           \A v \in Wallets : reads'[v] = reads[v] \/ v \in Listed(call[c])
    PROVE  Left'
<1>1. call'[c] = x /\ \A e \in Calls \ {c} : call'[e] = call[e]
    BY Facts DEF IInv
<1> SUFFICES ASSUME day \in done
             PROVE  DueWallets(day)' \subseteq left /\ \A e \in Calls : Listed(call'[e]) \subseteq left
    BY DEF Left, Listed
<1>2. DueWallets(day) \subseteq left /\ \A e \in Calls : Listed(call[e]) \subseteq left
    BY DEF Left
<1>3. \A v \in Wallets : IsDue(reads'[v], day) => IsDue(reads[v], day) \/ v \in left
    BY <1>2
<1>4. DueWallets(day)' = {v \in live : IsDue(reads'[v], day)} /\ live \subseteq Wallets
    BY Facts DEF DueWallets, IsDue, IInv
<1>5. DueWallets(day)' \subseteq left
    BY <1>2, <1>3, <1>4 DEF DueWallets
<1> QED
    BY <1>1, <1>2, <1>5

LEMMA LeftStart ==
    ASSUME IInv, Left, NEW c \in Calls, StartCall(c)
    PROVE  Left'
<1>1. UNCHANGED <<day, live, reads, done, left>>
    BY DEF StartCall
<1>2. /\ \A e \in Calls \ {c} : call'[e] = call[e]
      /\ Listed(call'[c]) = ListDueWallets(day)
    BY Facts, IdleTyped DEF StartCall, Listed, IdleCall, IInv
<1>3. ListDueWallets(day) \subseteq DueWallets(day)
    BY DEF ListDueWallets
<1>4. DueWallets(day)' = DueWallets(day)
    BY <1>1 DEF DueWallets, IsDue
<1>5. day \in done => \A e \in Calls : Listed(call'[e]) \subseteq left
    BY <1>2, <1>3 DEF Left
<1> QED
    BY <1>1, <1>4, <1>5 DEF Left, Listed

LEMMA LeftAnswer ==
    ASSUME IInv, Left, NEW c \in Calls, Answer(c)
    PROVE  Left'
<1>1. UNCHANGED <<day, live, reads>> /\ call'[c] = IdleCall
      /\ \A e \in Calls \ {c} : call'[e] = call[e]
    BY Facts DEF Answer, IInv
<1>2. PICK d : d = call[c].day
    OBVIOUS
<1>3. DueWallets(day)' = DueWallets(day) /\ Listed(IdleCall) = {}
    BY <1>1 DEF DueWallets, IsDue, Listed, IdleCall
<1>4. CASE DueWallets(d) = {} /\ d = day
    <2>1. left' = UNION {Listed(call[e]) : e \in Calls \ {c}}
        BY <1>2, <1>4 DEF Answer
    <2>2. \A e \in Calls : Listed(call'[e]) \subseteq left'
        BY <1>1, <1>3, <2>1
    <2> QED
        BY <1>3, <1>4, <2>2 DEF Left, Listed
<1>5. CASE ~(DueWallets(d) = {} /\ d = day)
    <2>1. left' = left /\ (day \in done' => day \in done)
        BY <1>2, <1>5 DEF Answer
    <2>2. day \in done => \A e \in Calls : Listed(call'[e]) \subseteq left
        BY <1>1, <1>3 DEF Left
    <2> QED
        BY <1>1, <1>3, <2>1, <2>2 DEF Left, Listed
<1> QED
    BY <1>4, <1>5

LEMMA LeftMark ==
    ASSUME IInv, Left, NEW c \in Calls, NEW w \in Wallets, MarkWallet(c, w)
    PROVE  Left'
<1>1. PICK x \in CallRecord : x = call'[c]
    <2>1. IInv'
        BY MarkWalletStep
    <2> QED
        BY <2>1, Facts DEF IInv, TypeOK
<1>2. /\ call' = [call EXCEPT ![c] = x] /\ UNCHANGED <<day, live, done, left>>
      /\ w \in call[c].toMark /\ x.toMark = call[c].toMark \ {w}
      /\ x.todo = call[c].todo /\ x.toRead = call[c].toRead
      /\ \A v \in Wallets \ {w} : reads'[v] = reads[v]
    <2>1. PICK s \in CallRecord : s = call[c]
        BY Facts DEF IInv
    <2>2. /\ x.toMark = s.toMark \ {w} /\ x.todo = s.todo /\ x.toRead = s.toRead
          /\ w \in s.toMark
        BY <1>1, <2>1, Facts DEF MarkWallet, CallRecord, IInv
    <2>3. call' = [call EXCEPT ![c] = x] /\ UNCHANGED <<day, live, done, left>>
        BY <1>1, Facts DEF MarkWallet, IInv
    <2>4. \A v \in Wallets \ {w} : reads'[v] = reads[v]
        BY Facts DEF MarkWallet, IInv
    <2> QED
        BY <2>1, <2>2, <2>3, <2>4
<1>3. Listed(x) \subseteq Listed(call[c])
      /\ \A v \in Wallets : reads'[v] = reads[v] \/ v \in Listed(call[c])
    BY <1>2 DEF Listed
<1> QED
    BY <1>2, <1>3, LeftKeeps

LEMMA LeftNext ==
    ASSUME IInv, Left, [Next]_vars
    PROVE  Left'
<1>1. CASE NewDay \/ \E w \in Wallets : WorldStep(w)
    <2>1. /\ UNCHANGED <<reads, call, wrote, done, faults>>
          /\ live' \ live \subseteq left' /\ left \subseteq left' /\ day' \in day .. day + 1
          /\ done \subseteq 0 .. day /\ day \in Nat
        BY <1>1, WorldSteps, Facts, Constants DEF IInv
    <2>2. CASE day' = day
        <3>1. DueWallets(day)' \subseteq DueWallets(day) \cup left'
            BY <2>1, <2>2 DEF DueWallets, IsDue
        <3> QED
            BY <2>1, <2>2, <3>1 DEF Left, Listed
    <2>3. CASE day' = day + 1
        BY <2>1, <2>3 DEF Left
    <2> QED
        BY <2>1, <2>2, <2>3
<1>2. ASSUME NEW c \in Calls, NEW w,
             \/ TakeGroup(c) \/ EndGroup(c) \/ DeadlineComes(c) \/ TinFails(c) \/ Crash(c)
             \/ ReadWallet(c, w) \/ CutWallet(c, w) \/ ReadFails(c, w)
      PROVE  Left'
    BY <1>2, HoldsLess, LeftKeeps
<1>3. ASSUME NEW c \in Calls, CallStep(c) \/ DeadlineComes(c) \/ FaultStep(c)
      PROVE  Left'
    BY <1>2, <1>3, LeftStart, LeftAnswer, LeftMark DEF CallStep, FaultStep
<1>4. CASE UNCHANGED vars
    BY <1>4 DEF vars, Left, DueWallets, IsDue, Listed
<1> QED
    BY <1>1, <1>3, <1>4 DEF Next

\* Once a call has answered `done`, nothing of the day is due but the wallets registered since
\* and those another call had listed before it, however calls overlap, fail or die.
THEOREM DoneHolds == Spec => []DoneStays
<1>1. Init => Left
    BY DEF Init, Left
<1>2. IInv /\ Left /\ [Next]_vars => Left'
    BY LeftNext
<1>3. Left => DoneStays
    BY DEF Left, DoneStays
<1> QED
    BY <1>1, <1>2, <1>3, Invariance, PTL DEF Spec
-----------------------------------------------------------------------------
(* Calls that do not overlap. *)

\* The wallets a call still has to mark are as it saw them, and due.
Aims(x) ==
    x.pc # "idle" =>
        /\ \A w \in Listed(x) : reads[w] = x.seen[w] /\ IsDue(reads[w], x.day)
        /\ Apart(x)

SInv ==
    /\ IInv
    /\ \A c \in Calls : Aims(call[c])

\* A call goes on with wallets it held already.
LEMMA AimKeeps ==
    ASSUME SInv, OneCall, NEW c \in Calls, NEW x \in CallRecord, call' = [call EXCEPT ![c] = x],
           UNCHANGED reads,
           x.pc # "idle" =>
               /\ call[c].pc # "idle" /\ x.day = call[c].day /\ x.seen = call[c].seen
               /\ Listed(x) \subseteq Listed(call[c])
               /\ Apart(call[c]) => Apart(x)
    PROVE  \A e \in Calls : Aims(call[e])'
<1>1. call'[c] = x /\ \A e \in Calls : e = c
    BY Facts DEF SInv, IInv, OneCall
<1>2. Aims(call[c])
    BY DEF SInv
<1>3. Aims(x)
    BY <1>2 DEF Aims
<1>4. Aims(call[c])'
    BY <1>1, <1>3 DEF Aims, Listed, Apart
<1> QED
    BY <1>1, <1>4

LEMMA MarkAims ==
    ASSUME SInv, OneCall, NEW c \in Calls, NEW w \in Wallets, MarkWallet(c, w)
    PROVE  /\ \A e \in Calls : Aims(call[e])'
           /\ \A v \in Wallets \ {w} : reads'[v] = reads[v]
           /\ ~(reads[w].day = day /\ reads[w].status \in Finished)
<1>1. PICK s \in CallRecord : s = call[c]
    BY Facts DEF SInv, IInv
<1>2. s.pc = "mark" /\ w \in s.toMark /\ Aims(s) /\ CallCounts(s)
    BY <1>1 DEF MarkWallet, SInv, IInv
<1>3. /\ \A v \in Wallets \ {w} : reads'[v] = reads[v]
      /\ UNCHANGED <<day, live, born, done>>
    BY Facts DEF MarkWallet, SInv, IInv
<1>4. PICK x \in CallRecord : x = call'[c]
    <2>1. IInv'
        BY MarkWalletStep DEF SInv
    <2> QED
        BY <2>1, Facts DEF IInv, TypeOK
<1>5. /\ x.day = s.day /\ x.seen = s.seen /\ x.todo = s.todo /\ x.toRead = s.toRead
      /\ x.toMark = s.toMark \ {w}
    BY <1>1, <1>4, Facts DEF MarkWallet, CallRecord, SInv, IInv
<1>7. w \notin Listed(x) /\ Listed(x) \subseteq Listed(s) /\ Listed(x) \subseteq Wallets
    <2>1. s.todo \subseteq Wallets /\ s.toRead \subseteq Wallets /\ s.toMark \subseteq Wallets
        BY CallTyped
    <2> QED
        BY <1>2, <1>5, <2>1 DEF Aims, Listed, Apart
<1>8. Aims(x)'
    <2>1. \A v \in Listed(x) : reads'[v] = x.seen[v] /\ IsDue(reads'[v], x.day)
        BY <1>2, <1>3, <1>5, <1>7 DEF Aims
    <2>2. x.todo \cap (x.toRead \cup x.toMark) = {} /\ x.toRead \cap x.toMark = {}
        BY <1>2, <1>5 DEF Aims, Apart
    <2> QED
        BY <1>3, <2>1, <2>2 DEF Aims, Listed, Apart, IsDue
<1>9. \A e \in Calls : Aims(call[e])'
    <2>1. \A e \in Calls : e = c
        BY DEF OneCall
    <2> QED
        BY <1>4, <1>8, <2>1 DEF Aims, Listed, Apart
<1>10. ~(reads[w].day = day /\ reads[w].status \in Finished)
    <2>1. reads[w] = s.seen[w] /\ IsDue(reads[w], s.day) /\ s.seen[w].day <= s.day
          /\ s.day \in 0 .. day
        BY <1>2 DEF Aims, Listed, Apart, CallCounts
    <2>2. "cut" \notin Finished /\ day \in Int /\ reads[w].day \in Int
        <3>1. reads[w] \in Row /\ day \in Days
            BY Facts DEF SInv, IInv
        <3>2. reads[w].day \in Days \cup {None}
            BY <3>1 DEF Row
        <3> QED
            BY <3>1, <3>2, Constants DEF Finished
    <2>3. reads[w].day = day => s.day = day
        BY <2>1, <2>2
    <2> QED
        BY <2>1, <2>2, <2>3 DEF IsDue
<1> QED
    BY <1>3, <1>9, <1>10

LEMMA StartAims ==
    ASSUME SInv, OneCall, NEW c \in Calls, StartCall(c)
    PROVE  \A e \in Calls : Aims(call[e])'
<1>1. UNCHANGED <<day, live, born, reads, done>>
    BY DEF StartCall
<1>2. PICK x \in CallRecord : x = call'[c]
    <2>1. IInv'
        BY StartCallStep DEF SInv
    <2> QED
        BY <2>1, Facts DEF IInv, TypeOK
<1>3. /\ x.day = day /\ x.seen = reads /\ x.todo = ListDueWallets(day)
      /\ x.toRead = {} /\ x.toMark = {}
    BY <1>2, IdleTyped, Facts DEF StartCall, SInv, IInv, IdleCall
<1>4. ListDueWallets(day) \subseteq DueWallets(day)
    BY DEF ListDueWallets
<1>5. Aims(x)
    <2>1. Listed(x) = ListDueWallets(day)
        BY <1>3 DEF Listed
    <2>2. \A w \in Listed(x) : reads[w] = x.seen[w] /\ IsDue(reads[w], x.day)
        BY <1>3, <1>4, <2>1 DEF DueWallets
    <2> QED
        BY <1>3, <2>2 DEF Aims, Apart
<1>6. \A e \in Calls : Aims(call[e])'
    <2>1. \A e \in Calls : e = c
        BY DEF OneCall
    <2>2. Aims(x)'
        BY <1>1, <1>5 DEF Aims, Listed, Apart
    <2> QED
        BY <1>2, <2>1, <2>2 DEF Aims, Listed, Apart
<1> QED
    BY <1>6

LEMMA AnswerAims ==
    ASSUME SInv, OneCall, NEW c \in Calls, Answer(c)
    PROVE  \A e \in Calls : Aims(call[e])'
<1>1. UNCHANGED <<day, live, born, reads>> /\ call'[c] = IdleCall
    BY Facts DEF Answer, SInv, IInv
<1>2. \A e \in Calls : e = c
    BY DEF OneCall
<1>3. \A e \in Calls : Aims(call[e])'
    BY <1>1, <1>2, IdleTyped DEF Aims
<1> QED
    BY <1>3

LEMMA SingleKeeps ==
    ASSUME SInv, OneCall, [Next]_vars
    PROVE  /\ SInv'
           /\ \A w \in Wallets :
                reads[w].day = day /\ reads[w].status \in Finished /\ day' = day
                    => reads'[w] = reads[w]
<1>1. IInv' /\ IInv
    BY NextInv DEF SInv
<1>2. CASE NewDay \/ \E w \in Wallets : WorldStep(w)
    <2>1. UNCHANGED <<reads, call, wrote, done, faults>>
        BY <1>1, <1>2, WorldSteps
    <2> QED
        BY <1>1, <2>1 DEF SInv, Aims, Listed, Apart, IsDue
<1>3. ASSUME NEW c \in Calls, CallStep(c) \/ DeadlineComes(c) \/ FaultStep(c)
      PROVE  /\ \A e \in Calls : Aims(call[e])'
             /\ \A w \in Wallets :
                  reads[w].day = day /\ reads[w].status \in Finished => reads'[w] = reads[w]
    <2>1. CASE \/ TakeGroup(c) \/ EndGroup(c) \/ DeadlineComes(c) \/ TinFails(c) \/ Crash(c)
               \/ \E w \in Wallets : ReadWallet(c, w) \/ CutWallet(c, w) \/ ReadFails(c, w)
        <3>1. ASSUME NEW w,
                     \/ TakeGroup(c) \/ EndGroup(c) \/ DeadlineComes(c) \/ TinFails(c) \/ Crash(c)
                     \/ ReadWallet(c, w) \/ CutWallet(c, w) \/ ReadFails(c, w)
              PROVE  (\A e \in Calls : Aims(call[e])') /\ reads' = reads
            BY <1>1, <3>1, HoldsLess, AimKeeps
        <3> QED
            BY <2>1, <3>1
    <2>2. CASE StartCall(c)
        BY <2>2, StartAims DEF StartCall
    <2>3. CASE Answer(c)
        BY <2>3, AnswerAims DEF Answer
    <2>4. ASSUME NEW w \in Wallets, MarkWallet(c, w)
          PROVE  /\ \A e \in Calls : Aims(call[e])'
                 /\ \A v \in Wallets :
                      reads[v].day = day /\ reads[v].status \in Finished => reads'[v] = reads[v]
        BY <2>4, MarkAims
    <2> QED
        BY <1>3, <2>1, <2>2, <2>3, <2>4 DEF CallStep, FaultStep
<1>4. CASE UNCHANGED vars
    <2>1. \A c \in Calls : Aims(call[c])'
        BY <1>4 DEF vars, SInv, Aims, Listed, Apart, IsDue
    <2> QED
        BY <1>1, <1>4, <2>1 DEF SInv, vars
<1> QED
    BY <1>1, <1>2, <1>3, <1>4 DEF Next, SInv

LEMMA SingleInvariance ==
    ASSUME OneCall
    PROVE  Spec => []SInv
<1>1. Init => SInv
    <2>1. Init => \A c \in Calls : Aims(call[c])
        BY IdleTyped DEF Init, Aims
    <2> QED
        BY <2>1, InitInv DEF SInv
<1>2. SInv /\ [Next]_vars => SInv'
    BY SingleKeeps
<1> QED
    BY <1>1, <1>2, PTL DEF Spec

\* While calls do not overlap: a wallet whose read has ended in the day's pass keeps its row.
THEOREM FinishedHold ==
    ASSUME OneCall
    PROVE  Spec => FinishedStays
<1>1. SInv /\ [Next]_vars =>
        [\A w \in Wallets :
            reads[w].day = day /\ reads[w].status \in Finished /\ day' = day
                => reads'[w] = reads[w]]_vars
    BY SingleKeeps
<1> QED
    BY <1>1, SingleInvariance, PTL DEF Spec, FinishedStays
-----------------------------------------------------------------------------
(* Calls that neither overlap nor fail. *)

NoFaults == MaxFaults = 0

\* Exact: the rows count what was written, nothing is written of a day after the row's, and
\* what a call will mark counts the rest.
Exact ==
    /\ \A w \in Wallets :
          (\A c \in Calls : w \notin call[c].toMark) /\ reads[w].day # None =>
              reads[w].recorded = wrote[w][reads[w].day]
    /\ \A w \in Wallets, d \in Days :
          (\A c \in Calls : w \in call[c].toMark => call[c].day # d) /\ reads[w].day < d =>
              wrote[w][d] = 0
    /\ \A c \in Calls : \A w \in call[c].toMark :
          Carried(call[c].seen, w, call[c].day) + call[c].report[w].recorded
              = wrote[w][call[c].day]
    /\ \A c \in Calls : call[c].pc = "next" => call[c].toMark = {}

\* A wallet a call has not read yet: what was written of it in the call's day was carried.
LEMMA CarriedExact ==
    ASSUME SInv, OneCall, Exact, NEW c \in Calls, NEW w \in call[c].toRead
    PROVE  wrote[w][call[c].day] = Carried(call[c].seen, w, call[c].day)
<1>1. call[c] \in CallRecord /\ call[c].pc # "idle" /\ w \in Wallets
    BY Facts, CallTyped DEF SInv, IInv, CallRests
<1>2. Aims(call[c]) /\ CallCounts(call[c])
    BY DEF SInv, IInv
<1>3. PICK d \in Days : d = call[c].day
    BY <1>1, <1>2, Facts, Constants DEF CallCounts, SInv, IInv
<1>4. reads[w] = call[c].seen[w] /\ IsDue(reads[w], d) /\ reads[w].day <= d
    BY <1>1, <1>2, <1>3 DEF Aims, Listed, Apart, CallCounts
<1>5. \A e \in Calls : w \notin call[e].toMark
    BY <1>1, <1>2 DEF OneCall, Aims, Apart
<1>6. CASE reads[w].day = d
    <2>1. reads[w].status = "cut" /\ d # None
        BY <1>4, <1>6, Constants DEF IsDue
    <2>2. reads[w].recorded = wrote[w][d]
        BY <1>1, <1>5, <1>6, <2>1 DEF Exact
    <2> QED
        BY <1>3, <1>4, <1>6, <2>1, <2>2 DEF Carried
<1>7. CASE reads[w].day # d
    <2>1. reads[w].day < d
        <3>1. reads[w] \in Row
            BY <1>1, Facts DEF SInv, IInv
        <3>2. reads[w].day \in Days \cup {None}
            BY <3>1 DEF Row
        <3>3. reads[w].day \in Int /\ d \in Int
            BY <1>1, <3>2, Constants
        <3> QED
            BY <1>4, <1>7, <3>3
    <2>2. wrote[w][d] = 0
        BY <1>1, <1>5, <2>1 DEF Exact
    <2> QED
        BY <1>3, <1>4, <1>7, <2>2 DEF Carried
<1> QED
    BY <1>6, <1>7

\* A step that writes nothing and changes no list of wallets to mark.
LEMMA ExactStays ==
    ASSUME Exact, UNCHANGED <<reads, wrote>>,
           \A c \in Calls : /\ call'[c].toMark = call[c].toMark
                            /\ call[c].toMark # {} =>
                                 /\ call'[c].day = call[c].day
                                 /\ call'[c].seen = call[c].seen
                                 /\ call'[c].report = call[c].report
                            /\ call'[c].pc = "next" => call[c].toMark = {}
    PROVE  Exact'
<1>1. \A c \in Calls : \A w \in call[c].toMark :
          /\ call'[c].day = call[c].day
          /\ Carried(call[c].seen, w, call[c].day)' = Carried(call[c].seen, w, call[c].day)
          /\ call'[c].report = call[c].report
    BY DEF Carried
<1>2. \A w \in Wallets :
          (\A c \in Calls : w \notin call'[c].toMark) /\ reads'[w].day # None =>
              reads'[w].recorded = wrote'[w][reads'[w].day]
    BY DEF Exact
<1>3. \A w \in Wallets, d \in Days :
          (\A c \in Calls : w \in call'[c].toMark => call'[c].day # d) /\ reads'[w].day < d =>
              wrote'[w][d] = 0
    BY <1>1 DEF Exact
<1>4. \A c \in Calls : \A w \in call'[c].toMark :
          Carried(call[c].seen, w, call[c].day)' + call'[c].report[w].recorded
              = wrote'[w][call'[c].day]
    BY <1>1 DEF Exact
<1> QED
    BY <1>2, <1>3, <1>4 DEF Exact

LEMMA ExactRead ==
    ASSUME SInv, OneCall, Exact, NEW c \in Calls, NEW w \in Wallets, NEW n \in Nat,
           NEW status, NEW late, WalletRead(c, w, n, status, n, late)
    PROVE  Exact'
<1>1. PICK s \in CallRecord : s = call[c]
    BY Facts DEF SInv, IInv
<1>2. s.pc = "read" /\ w \in s.toRead /\ CallCounts(s) /\ Aims(s)
    BY <1>1 DEF WalletRead, SInv, IInv
<1>3. PICK d \in Days : d = s.day
    BY <1>2, Facts, Constants DEF CallCounts, SInv, IInv
<1>4. /\ s.report \in [Wallets -> Report] /\ s.toMark \subseteq Wallets /\ w \notin s.toMark
      /\ s.seen \in [Wallets -> Row]
    BY <1>1, <1>2, CallTyped DEF Aims, Apart
<1>5. PICK x : x = call'[c]
    OBVIOUS
<1>6. /\ x.pc = "read" /\ x.day = d /\ x.seen = s.seen /\ x.toMark = s.toMark \cup {w}
      /\ x.report = [s.report EXCEPT ![w] = [status |-> status, recorded |-> n]]
    BY <1>1, <1>2, <1>3, <1>5, Facts DEF WalletRead, CallRecord, SInv, IInv
<1>7. x.report[w].recorded = n /\ \A v \in s.toMark : x.report[v] = s.report[v]
    BY <1>4, <1>6
<1>8. /\ reads' = reads
      /\ \A v \in Wallets, e \in Days :
            wrote'[v][e] = IF v = w /\ e = d THEN wrote[w][d] + n ELSE wrote[v][e]
    BY <1>1, <1>3, Facts DEF WalletRead, SInv, IInv
<1>9. \A e \in Calls : e = c
    BY DEF OneCall
<1>10. wrote[w][d] = Carried(s.seen, w, d)
    BY <1>1, <1>2, <1>3, CarriedExact
<1>11. \A v \in Wallets :
          v \notin x.toMark /\ reads[v].day # None => reads[v].recorded = wrote'[v][reads[v].day]
    <2>1. ASSUME NEW v \in Wallets, v \notin x.toMark, reads[v].day # None
          PROVE  reads[v].recorded = wrote'[v][reads[v].day]
        <3>1. v # w /\ v \notin s.toMark /\ reads[v].day \in Days
            BY <1>6, <2>1, Facts DEF SInv, IInv, Row
        <3>2. wrote'[v][reads[v].day] = wrote[v][reads[v].day]
            BY <1>8, <3>1
        <3> QED
            BY <1>1, <1>9, <2>1, <3>1, <3>2 DEF Exact
    <2> QED
        BY <2>1
<1>12. \A v \in Wallets, e \in Days :
          (v \in x.toMark => d # e) /\ reads[v].day < e => wrote'[v][e] = 0
    <2>1. ASSUME NEW v \in Wallets, NEW e \in Days, v \in x.toMark => d # e, reads[v].day < e
          PROVE  wrote'[v][e] = 0
        <3>1. wrote'[v][e] = wrote[v][e]
            BY <1>6, <1>8, <2>1
        <3>2. v \in s.toMark => s.day # e
            BY <1>3, <1>6, <2>1
        <3> QED
            BY <1>1, <1>9, <2>1, <3>1, <3>2 DEF Exact
    <2> QED
        BY <2>1
<1>13. \A v \in x.toMark : Carried(s.seen, v, d) + x.report[v].recorded = wrote'[v][d]
    <2>1. CASE \A v \in x.toMark : v = w
        BY <1>7, <1>8, <1>10, <2>1
    <2>2. ASSUME NEW v \in x.toMark
          PROVE  Carried(s.seen, v, d) + x.report[v].recorded = wrote'[v][d]
        <3>1. CASE v = w
            BY <1>7, <1>8, <1>10, <3>1
        <3>2. CASE v # w
            <4>1. v \in s.toMark /\ v \in Wallets /\ wrote'[v][d] = wrote[v][d]
                BY <1>4, <1>6, <1>8, <3>2
            <4>2. Carried(s.seen, v, d) + s.report[v].recorded = wrote[v][d]
                BY <1>1, <1>3, <4>1 DEF Exact
            <4> QED
                BY <1>7, <4>1, <4>2
        <3> QED
            BY <3>1, <3>2
    <2> QED
        BY <2>2
<1>14. \A v : Carried(x.seen, v, x.day)' = Carried(s.seen, v, d)
    BY <1>6 DEF Carried
<1>15. \A v : Carried(call[c].seen, v, call[c].day)' = Carried(x.seen, v, x.day)'
    BY <1>5 DEF Carried
<1>16. \A v \in Wallets :
          (\A e \in Calls : v \notin call'[e].toMark) /\ reads'[v].day # None =>
              reads'[v].recorded = wrote'[v][reads'[v].day]
    BY <1>5, <1>8, <1>11
<1>17. \A v \in Wallets, b \in Days :
          (\A e \in Calls : v \in call'[e].toMark => call'[e].day # b) /\ reads'[v].day < b =>
              wrote'[v][b] = 0
    <2>1. ASSUME NEW v \in Wallets, NEW b \in Days, reads'[v].day < b,
                 \A e \in Calls : v \in call'[e].toMark => call'[e].day # b
          PROVE  wrote'[v][b] = 0
        <3>1. v \in x.toMark => d # b
            BY <1>5, <1>6, <2>1
        <3>2. reads[v].day < b
            BY <1>8, <2>1
        <3> QED
            BY <1>12, <2>1, <3>1, <3>2
    <2> QED
        BY <2>1
<1>18. \A e \in Calls : \A v \in call'[e].toMark :
          Carried(call[e].seen, v, call[e].day)' + call'[e].report[v].recorded
              = wrote'[v][call'[e].day]
    <2>1. ASSUME NEW v \in call'[c].toMark
          PROVE  Carried(call[c].seen, v, call[c].day)' + call'[c].report[v].recorded
                     = wrote'[v][call'[c].day]
        <3>1. Carried(call[c].seen, v, call[c].day)' = Carried(s.seen, v, d)
            BY <1>14, <1>15
        <3>2. v \in x.toMark /\ call'[c].report[v].recorded = x.report[v].recorded
              /\ call'[c].day = d
            BY <1>5, <1>6, <2>1
        <3> QED
            BY <1>13, <3>1, <3>2
    <2> QED
        BY <1>9, <2>1
<1>19. \A e \in Calls : call'[e].pc = "next" => call'[e].toMark = {}
    BY <1>5, <1>6, <1>9
<1> QED
    BY <1>16, <1>17, <1>18, <1>19 DEF Exact

LEMMA ExactMark ==
    ASSUME SInv, OneCall, Exact, NEW c \in Calls, NEW w \in Wallets, MarkWallet(c, w)
    PROVE  Exact'
<1>1. PICK s \in CallRecord : s = call[c]
    BY Facts DEF SInv, IInv
<1>2. s.pc = "mark" /\ w \in s.toMark /\ CallCounts(s)
    BY <1>1 DEF MarkWallet, SInv, IInv
<1>3. PICK d \in Days : d = s.day
    BY <1>2, Facts, Constants DEF CallCounts, SInv, IInv
<1>4. /\ s.report \in [Wallets -> Report] /\ s.toMark \subseteq Wallets
      /\ s.seen \in [Wallets -> Row] /\ s.seen[w].day <= d /\ d # None
    BY <1>1, <1>2, <1>3, CallTyped, Constants DEF CallCounts
<1>5. PICK n \in Nat : n = Carried(s.seen, w, d) + s.report[w].recorded /\ n = wrote[w][d]
    <2>1. Carried(s.seen, w, d) \in Nat /\ s.report[w].recorded \in Nat
        BY <1>4, CarriedTyped DEF Report
    <2> QED
        BY <1>1, <1>2, <1>3, <2>1 DEF Exact
<1>6. wrote' = wrote /\ reads'[w].day = d /\ reads'[w].recorded = n
      /\ \A v \in Wallets \ {w} : reads'[v] = reads[v]
    <2>1. s.report[w].status \in ReadStatuses \cup {"none"}
        BY <1>4 DEF Report
    <2>2. reads'[w] = Marked(reads[w], d, s.report[w].status, n)
        BY <1>1, <1>3, <1>5, Facts DEF MarkWallet, SInv, IInv
    <2>3. wrote' = wrote /\ \A v \in Wallets \ {w} : reads'[v] = reads[v]
        BY Facts DEF MarkWallet, SInv, IInv
    <2> QED
        BY <2>1, <2>2, <2>3, MarkedTyped DEF SInv, IInv
<1>7. PICK x : x = call'[c]
    OBVIOUS
<1>8. /\ x.day = d /\ x.seen = s.seen /\ x.toMark = s.toMark \ {w}
      /\ x.report = [s.report EXCEPT ![w] = NoReport]
      /\ x.pc = IF s.toMark = {w} THEN "next" ELSE "mark"
    BY <1>1, <1>3, <1>7, Facts DEF MarkWallet, CallRecord, SInv, IInv
<1>9. \A v \in x.toMark : v # w /\ v \in s.toMark /\ x.report[v] = s.report[v]
    BY <1>4, <1>8
<1>10. \A e \in Calls : e = c
    BY DEF OneCall
<1>11. \A v \in Wallets :
          v \notin x.toMark /\ reads'[v].day # None => reads'[v].recorded = wrote[v][reads'[v].day]
    <2>1. ASSUME NEW v \in Wallets, v # w, v \notin x.toMark, reads'[v].day # None
          PROVE  reads'[v].recorded = wrote[v][reads'[v].day]
        BY <1>1, <1>6, <1>8, <1>10, <2>1 DEF Exact
    <2> QED
        BY <1>5, <1>6, <2>1
<1>12. \A v \in Wallets, e \in Days :
          (v \in x.toMark => d # e) /\ reads'[v].day < e => wrote[v][e] = 0
    <2>1. ASSUME NEW v \in Wallets, NEW e \in Days, v \in x.toMark => d # e, reads'[v].day < e
          PROVE  wrote[v][e] = 0
        <3>1. CASE v # w
            BY <1>1, <1>3, <1>6, <1>8, <1>10, <2>1, <3>1 DEF Exact
        <3>2. CASE v = w
            <4>1. d < e /\ d # e /\ reads[w].day <= d
                <5>1. reads[w] = s.seen[w]
                    BY <1>1, <1>2 DEF SInv, Aims, Listed, Apart
                <5>2. d \in Int /\ e \in Int
                    BY Constants
                <5> QED
                    BY <1>4, <1>6, <2>1, <3>2, <5>1, <5>2
            <4>2. reads[w].day < e
                <5>1. reads[w] \in Row
                    BY Facts DEF SInv, IInv
                <5>2. reads[w].day \in Days \cup {None}
                    BY <5>1 DEF Row
                <5>3. reads[w].day \in Int /\ d \in Int /\ e \in Int
                    BY <5>2, Constants
                <5> QED
                    BY <4>1, <5>3
            <4> QED
                BY <1>1, <1>3, <1>10, <3>2, <4>1, <4>2 DEF Exact
        <3> QED
            BY <3>1, <3>2
    <2> QED
        BY <2>1
<1>13. \A v \in x.toMark : Carried(s.seen, v, d) + x.report[v].recorded = wrote[v][d]
    BY <1>1, <1>3, <1>9 DEF Exact
<1>14. \A v : Carried(call[c].seen, v, call[c].day)' = Carried(s.seen, v, d)
    BY <1>7, <1>8 DEF Carried
<1>15. \A v \in Wallets :
          (\A e \in Calls : v \notin call'[e].toMark) /\ reads'[v].day # None =>
              reads'[v].recorded = wrote'[v][reads'[v].day]
    BY <1>6, <1>7, <1>11
<1>16. \A v \in Wallets, b \in Days :
          (\A e \in Calls : v \in call'[e].toMark => call'[e].day # b) /\ reads'[v].day < b =>
              wrote'[v][b] = 0
    <2>1. ASSUME NEW v \in Wallets, NEW b \in Days, reads'[v].day < b,
                 \A e \in Calls : v \in call'[e].toMark => call'[e].day # b
          PROVE  wrote'[v][b] = 0
        <3>1. v \in x.toMark => d # b
            BY <1>7, <1>8, <2>1
        <3> QED
            BY <1>6, <1>12, <2>1, <3>1
    <2> QED
        BY <2>1
<1>17. \A e \in Calls : \A v \in call'[e].toMark :
          Carried(call[e].seen, v, call[e].day)' + call'[e].report[v].recorded
              = wrote'[v][call'[e].day]
    <2>1. ASSUME NEW v \in call'[c].toMark
          PROVE  Carried(call[c].seen, v, call[c].day)' + call'[c].report[v].recorded
                     = wrote'[v][call'[c].day]
        <3>1. v \in x.toMark /\ call'[c].report[v].recorded = x.report[v].recorded
              /\ call'[c].day = d
            BY <1>7, <1>8, <2>1
        <3> QED
            BY <1>6, <1>13, <1>14, <3>1
    <2> QED
        BY <1>10, <2>1
<1>18. \A e \in Calls : call'[e].pc = "next" => call'[e].toMark = {}
    BY <1>4, <1>2, <1>7, <1>8, <1>10
<1> QED
    BY <1>15, <1>16, <1>17, <1>18 DEF Exact

\* The steps that neither write, nor change the rows, nor touch a list of wallets to mark.
LEMMA ExactMoves ==
    ASSUME SInv, OneCall, Exact, NEW c \in Calls,
           \/ StartCall(c) \/ TakeGroup(c) \/ EndGroup(c) \/ Answer(c) \/ DeadlineComes(c)
    PROVE  Exact'
<1>1. /\ call[c] \in CallRecord /\ CallRests(call[c]) /\ call \in [Calls -> CallRecord]
      /\ \A e \in Calls : e = c
    BY Facts DEF SInv, IInv, OneCall
<1>2. IdleCall.toMark = {} /\ IdleCall.pc = "idle"
    BY DEF IdleCall
<1>3. UNCHANGED <<reads, wrote>>
    BY DEF StartCall, TakeGroup, EndGroup, Answer, DeadlineComes
<1>4. PICK x : x = call'[c]
    OBVIOUS
<1>5. /\ x.toMark = call[c].toMark
      /\ x.pc = "next" => call[c].toMark = {}
      /\ call[c].toMark # {} =>
            x.day = call[c].day /\ x.seen = call[c].seen /\ x.report = call[c].report
    <2>1. CASE StartCall(c)
        BY <1>1, <1>2, <1>4, <2>1 DEF StartCall, CallRests, IdleCall
    <2>2. CASE TakeGroup(c)
        BY <1>1, <1>4, <2>2 DEF TakeGroup, CallRecord, Exact
    <2>3. CASE EndGroup(c)
        BY <1>1, <1>4, <2>3 DEF EndGroup, CallRecord
    <2>4. CASE Answer(c)
        BY <1>1, <1>2, <1>4, <2>4 DEF Answer, Exact
    <2>5. CASE DeadlineComes(c)
        BY <1>1, <1>4, <2>5 DEF DeadlineComes, CallRecord, Exact
    <2> QED
        BY <2>1, <2>2, <2>3, <2>4, <2>5
<1> QED
    BY <1>1, <1>3, <1>4, <1>5, ExactStays

LEMMA ExactNext ==
    ASSUME SInv, OneCall, NoFaults, Exact, [Next]_vars
    PROVE  Exact'
<1>1. ~Fault
    BY Facts DEF SInv, IInv, Fault, NoFaults
<1>2. CASE UNCHANGED vars \/ NewDay \/ \E w \in Wallets : WorldStep(w)
    <2>1. UNCHANGED <<reads, call, wrote>>
        BY <1>2 DEF vars, NewDay, WorldStep, NewTransfer, OwnerReads, Remove, Register
    <2> QED
        BY <2>1, ExactStays DEF Exact
<1>3. ASSUME NEW c \in Calls, CallStep(c) \/ DeadlineComes(c) \/ FaultStep(c)
      PROVE  Exact'
    <2>1. CASE StartCall(c) \/ TakeGroup(c) \/ EndGroup(c) \/ Answer(c) \/ DeadlineComes(c)
        BY <2>1, ExactMoves
    <2>2. ASSUME NEW w \in Wallets, ReadWallet(c, w) \/ CutWallet(c, w)
          PROVE  Exact'
        <3>1. unread[w] \in Nat /\ 0 .. unread[w] \subseteq Nat
            BY Facts, Constants DEF SInv, IInv
        <3>2. CASE ReadWallet(c, w)
            BY <3>1, <3>2, ExactRead DEF ReadWallet
        <3>3. CASE CutWallet(c, w)
            BY <3>1, <3>3, ExactRead DEF CutWallet
        <3> QED
            BY <2>2, <3>2, <3>3
    <2>3. ASSUME NEW w \in Wallets, MarkWallet(c, w)
          PROVE  Exact'
        BY <2>3, ExactMark
    <2>4. ~FaultStep(c)
        BY <1>1 DEF FaultStep, ReadFails, TinFails, Crash
    <2> QED
        BY <1>3, <2>1, <2>2, <2>3, <2>4 DEF CallStep
<1> QED
    BY <1>2, <1>3 DEF Next

LEMMA ExactInit == Init => Exact
<1> SUFFICES ASSUME Init PROVE Exact
    OBVIOUS
<1>1. \A c \in Calls : call[c].toMark = {}
    BY DEF Init, IdleCall
<1>2. \A w \in Wallets : reads[w].day = None /\ \A d \in Days : wrote[w][d] = 0
    BY DEF Init, NoRow
<1> QED
    BY <1>1, <1>2 DEF Exact

\* While calls neither overlap nor fail: the row of a wallet counts what the day's calls wrote
\* of it, over as many cuts as there were.
THEOREM RowsAreExact ==
    ASSUME OneCall, NoFaults
    PROVE  Spec => []RecordedExact
<1>1. SInv /\ Exact => RecordedExact
    BY DEF SInv, IInv, CallRests, Exact, RecordedExact, AllIdle
<1>2. SInv /\ Exact /\ [Next]_vars => Exact'
    BY ExactNext
<1> QED
    BY <1>1, <1>2, ExactInit, SingleInvariance, PTL DEF Spec
=============================================================================
