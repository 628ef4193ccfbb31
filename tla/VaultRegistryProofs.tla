------------------------ MODULE VaultRegistryProofs -------------------------
(***************************************************************************)
(* Proofs about VaultRegistry, for any number of agents, addresses, rows,  *)
(* keys and requests and any caps: the registry implements VaultPlan and   *)
(* stays within the plan, one key is one live agent and one place one live *)
(* row, what a destination shows is what its readout says, no step lifts a *)
(* flag, and a window's checks are within its budget.                      *)
(***************************************************************************)
EXTENDS VaultRegistry, FunctionTheorems, FiniteSetTheorems, TLAPS

\* Safety: every live row is under a live agent.
UnderLive == \A r \in LiveRows : row[r].place[2] \in LiveTins

\* A row that was not inserted yet has no trust of its own.
UnbornRows == \A r \in Rows : row[r].state = "unborn" => row[r].trust # "flagged"

IInv ==
    /\ TypeOK
    /\ OneHolder
    /\ TrustHasReadout
    /\ UnderLive
    /\ UnbornRows
-----------------------------------------------------------------------------
(* Types. *)

LEMMA Blank ==
    /\ UnbornTin \in TinRecord /\ RemovedTin \in TinRecord
    /\ UnbornRow \in RowRecord /\ RemovedRow \in RowRecord
    /\ UnbornTin.state = "unborn" /\ RemovedTin.state = "removed"
    /\ UnbornRow.state = "unborn" /\ UnbornRow.trust = "pending" /\ UnbornRow.readout = "none"
    /\ RemovedRow.state = "removed" /\ RemovedRow.trust = "pending" /\ RemovedRow.readout = "none"
<1>1. UnbornTin \in TinRecord /\ UnbornTin.state = "unborn"
    BY DEF UnbornTin, TinRecord
<1>2. RemovedTin \in TinRecord /\ RemovedTin.state = "removed"
    BY <1>1 DEF RemovedTin, TinRecord
<1>3. UnbornRow \in RowRecord /\ UnbornRow.state = "unborn" /\ UnbornRow.trust = "pending"
      /\ UnbornRow.readout = "none"
    BY DEF UnbornRow, RowRecord, Results
<1>4. RemovedRow \in RowRecord /\ RemovedRow.state = "removed" /\ RemovedRow.trust = "pending"
      /\ RemovedRow.readout = "none"
    BY <1>3 DEF RemovedRow, RowRecord
<1> QED
    BY <1>1, <1>2, <1>3, <1>4

LEMMA IdleTyped == Idle \in RequestRecord
    BY RegistryAssumption DEF Idle, RequestRecord, Kinds

LEMMA Facts ==
    ASSUME TypeOK
    PROVE  /\ tin \in [Tins -> TinRecord] /\ row \in [Rows -> RowRecord]
           /\ req \in [Requests -> RequestRecord]
           /\ window \in 1 .. MaxWindows /\ window \in 0 .. MaxWindows
           /\ budget \in [opened : 0 .. MaxWindows, used : 0 .. MaxChecks]
           /\ made \in [1 .. MaxWindows -> Nat]
           /\ MaxChecks \in Nat /\ MaxWindows \in Nat
    BY RegistryAssumption DEF TypeOK

LEMMA FiniteCounts ==
    /\ \A A \in SUBSET Addresses : Cardinality(A) \in Nat
    /\ \A R \in SUBSET Rows : Cardinality(R) \in Nat
    BY RegistryAssumption, FS_Subset, FS_CardinalityType

\* What spend and refund leave in the account's entry.
LEMMA BudgetTyped ==
    ASSUME TypeOK, NEW n \in Nat
    PROVE  /\ Spent(n) \in [opened : 0 .. MaxWindows, used : 0 .. MaxChecks]
           /\ \A w : Refunded(n, w) \in [opened : 0 .. MaxWindows, used : 0 .. MaxChecks]
<1> DEFINE Entry == [opened : 0 .. MaxWindows, used : 0 .. MaxChecks]
<1>1. budget.used \in 0 .. MaxChecks /\ budget.opened \in 0 .. MaxWindows /\ budget \in Entry
    BY Facts
<1>2. Opened \in Entry /\ Opened.used \in 0 .. MaxChecks
    BY <1>1, Facts DEF Opened
<1>3. Spent(n) \in Entry
    <2>1. CASE Fits(n)
        <3>1. Opened.used + n \in 0 .. MaxChecks
            BY <1>2, <2>1, Facts DEF Fits
        <3> QED
            BY <1>1, <1>2, <3>1 DEF Spent
    <2>2. CASE ~Fits(n)
        BY <1>1, <1>2, <2>2 DEF Spent
    <2> QED
        BY <2>1, <2>2
<1>4. ASSUME NEW w PROVE Refunded(n, w) \in Entry
    <2>1. (IF budget.used > n THEN budget.used - n ELSE 0) \in 0 .. MaxChecks
        BY <1>1, Facts
    <2> QED
        BY <1>1, <2>1 DEF Refunded
<1> QED
    BY <1>3, <1>4

\* A step of a request that writes no agent and no row.
LEMMA QuietTyped ==
    ASSUME TypeOK, NEW q \in Requests, NEW x \in RequestRecord, req' = [req EXCEPT ![q] = x],
           UNCHANGED <<tin, row, window>>,
           budget' \in [opened : 0 .. MaxWindows, used : 0 .. MaxChecks],
           made' \in [1 .. MaxWindows -> Nat]
    PROVE  TypeOK'
    BY DEF TypeOK, LiveRows

\* The requests' steps that write neither an agent nor a row.
QuietStep(q) ==
    \/ \E l \in Labels, k \in Keys \cup {None} : StartCreate(q, l, k)
    \/ \E t \in Tins, l \in Labels : StartRename(q, t, l)
    \/ \E t \in Tins, k \in Keys \cup {None} : StartRelink(q, t, k)
    \/ \E t \in Tins, a \in Addresses : StartAddWallet(q, t, a)
    \/ \E t \in Tins, A \in SUBSET Addresses \ {{}}, trust \in BOOLEAN : StartPaste(q, t, A, trust)
    \/ \E a \in req[q].todo : SkipPlace(q, a)
    \/ NoTin(q)
    \/ EndInserts(q)
    \/ \E t \in Tins, R \in SUBSET LiveRows : StartRecheck(q, t, R)
    \/ RequestFails(q)

LEMMA QuietTypes ==
    ASSUME TypeOK, NEW q \in Requests, QuietStep(q)
    PROVE  TypeOK' /\ UNCHANGED <<tin, row>>
<1> USE Facts
<1>a. req[q] \in RequestRecord /\ Idle \in RequestRecord
    BY IdleTyped
<1>1. ASSUME NEW l \in Labels, NEW k \in Keys \cup {None}, StartCreate(q, l, k)
      PROVE  TypeOK' /\ UNCHANGED <<tin, row>>
    <2> DEFINE x == [Idle EXCEPT !.pc = "create", !.label = l, !.key = k]
    <2>1. x \in RequestRecord
        BY <1>a DEF RequestRecord
    <2> QED
        BY <1>1, <2>1, QuietTyped DEF StartCreate
<1>2. ASSUME NEW t \in Tins, NEW l \in Labels, StartRename(q, t, l)
      PROVE  TypeOK' /\ UNCHANGED <<tin, row>>
    <2> DEFINE x == [Idle EXCEPT !.pc = "rename", !.tin = t, !.label = l, !.key = tin[t].key]
    <2>1. tin[t].key \in Keys \cup {None}
        BY DEF TinRecord
    <2>2. x \in RequestRecord
        BY <1>a, <2>1 DEF RequestRecord
    <2> QED
        BY <1>2, <2>2, QuietTyped DEF StartRename
<1>3. ASSUME NEW t \in Tins, NEW k \in Keys \cup {None}, StartRelink(q, t, k)
      PROVE  TypeOK' /\ UNCHANGED <<tin, row>>
    <2> DEFINE x == [Idle EXCEPT !.pc = "relink", !.tin = t, !.label = tin[t].label, !.key = k]
    <2>1. tin[t].label \in Labels \cup {None}
        BY DEF TinRecord
    <2>2. x \in RequestRecord
        BY <1>a, <2>1 DEF RequestRecord
    <2> QED
        BY <1>3, <2>2, QuietTyped DEF StartRelink
<1>4. ASSUME NEW t \in Tins, NEW a \in Addresses, StartAddWallet(q, t, a)
      PROVE  TypeOK' /\ UNCHANGED <<tin, row>>
    <2> DEFINE x == [Idle EXCEPT !.pc = "insert", !.tin = t, !.kind = "wallet", !.todo = {a}]
    <2>1. x \in RequestRecord
        BY <1>a DEF RequestRecord, Kinds
    <2> QED
        BY <1>4, <2>1, QuietTyped DEF StartAddWallet
<1>5. ASSUME NEW t \in Tins, NEW A \in SUBSET Addresses \ {{}}, NEW trust \in BOOLEAN,
             StartPaste(q, t, A, trust)
      PROVE  TypeOK' /\ UNCHANGED <<tin, row>>
    <2>1. PICK n \in Nat : n = IF trust THEN Cardinality(A) ELSE 0
        BY FiniteCounts
    <2>w. PICK w \in 0 .. MaxWindows : w = IF n > 0 THEN window ELSE 0
        BY RegistryAssumption
    <2> DEFINE x == [Idle EXCEPT !.pc = "insert", !.tin = t, !.todo = A, !.charged = n,
                                 !.spentAt = w]
    <2>2. x \in RequestRecord
        BY <1>a DEF RequestRecord
    <2>3. req' = [req EXCEPT ![q] = x] \/ req' = [req EXCEPT ![q] = req[q]]
        BY <1>5, <2>1, <2>w DEF StartPaste
    <2>4. budget' \in [opened : 0 .. MaxWindows, used : 0 .. MaxChecks]
        BY <1>5, <2>1, BudgetTyped DEF StartPaste
    <2>5. UNCHANGED <<tin, row, window, made>>
        BY <1>5 DEF StartPaste
    <2> QED
        BY <1>a, <2>2, <2>3, <2>4, <2>5, QuietTyped
<1>6. ASSUME NEW a \in req[q].todo, SkipPlace(q, a)
      PROVE  TypeOK' /\ UNCHANGED <<tin, row>>
    <2>1. PICK f \in BOOLEAN : f = (req[q].full \/ ~(PlaceHeldBy(<<req[q].kind, req[q].tin, a>>) # {}))
        OBVIOUS
    <2> DEFINE x == [req[q] EXCEPT !.todo = req[q].todo \ {a}, !.full = f]
    <2>2. x \in RequestRecord
        BY <1>a DEF RequestRecord
    <2>3. req' = [req EXCEPT ![q] = x]
        BY <1>6, <2>1 DEF SkipPlace
    <2> HIDE DEF x
    <2> QED
        BY <1>6, <2>2, <2>3, QuietTyped DEF SkipPlace
<1>7. ASSUME NoTin(q)
      PROVE  TypeOK' /\ UNCHANGED <<tin, row>>
    <2>1. req[q].charged \in Nat
        BY <1>a DEF RequestRecord
    <2>2. budget' \in [opened : 0 .. MaxWindows, used : 0 .. MaxChecks]
        BY <1>7, <2>1, BudgetTyped DEF NoTin
    <2> QED
        BY <1>7, <1>a, <2>2, QuietTyped DEF NoTin
<1>8. ASSUME EndInserts(q)
      PROVE  TypeOK' /\ UNCHANGED <<tin, row>>
    <2>1. PICK n \in Nat : n = Cardinality(req[q].rows)
        BY <1>a, FiniteCounts DEF RequestRecord
    <2>2. req[q].charged \in Nat /\ req[q].spentAt \in 0 .. MaxWindows /\ req[q].rows \in SUBSET Rows
        BY <1>a DEF RequestRecord
    <2>3. budget' \in [opened : 0 .. MaxWindows, used : 0 .. MaxChecks]
        <3>1. CASE req[q].charged > n
            <4>1. req[q].charged - n \in Nat
                BY <2>2, <3>1
            <4> QED
                BY <1>8, <2>1, <3>1, <4>1, BudgetTyped DEF EndInserts
        <3>2. CASE ~(req[q].charged > n)
            BY <1>8, <2>1, <3>2 DEF EndInserts
        <3> QED
            BY <3>1, <3>2
    <2> DEFINE x == [Idle EXCEPT !.pc = "record", !.rows = req[q].rows]
    <2>4. x \in RequestRecord
        BY <1>a, <2>2 DEF RequestRecord
    <2>5. req' = [req EXCEPT ![q] = x] \/ req' = [req EXCEPT ![q] = Idle]
        BY <1>8 DEF EndInserts
    <2>6. made' = made \/ made' = [made EXCEPT ![req[q].spentAt] = @ + n]
        BY <1>8, <2>1 DEF EndInserts
    <2>7. made' \in [1 .. MaxWindows -> Nat]
        BY <2>1, <2>6
    <2>8. UNCHANGED <<tin, row, window>>
        BY <1>8 DEF EndInserts
    <2> HIDE DEF x
    <2> QED
        BY <1>a, <2>3, <2>4, <2>5, <2>7, <2>8, QuietTyped
<1>9. ASSUME NEW t \in Tins, NEW R \in SUBSET LiveRows, StartRecheck(q, t, R)
      PROVE  TypeOK' /\ UNCHANGED <<tin, row>>
    <2>1. R \in SUBSET Rows
        BY DEF LiveRows
    <2>2. PICK n \in Nat : n = Cardinality(R)
        BY <2>1, FiniteCounts
    <2> DEFINE x == [Idle EXCEPT !.pc = "record", !.rows = R,
                                 !.flagged = {r \in R : row[r].trust = "flagged"}]
    <2>3. x \in RequestRecord
        BY <1>a, <2>1 DEF RequestRecord
    <2>4. req' = [req EXCEPT ![q] = x] \/ req' = [req EXCEPT ![q] = req[q]]
        BY <1>9 DEF StartRecheck
    <2>5. budget' \in [opened : 0 .. MaxWindows, used : 0 .. MaxChecks]
        BY <1>9, <2>2, BudgetTyped DEF StartRecheck
    <2>6. made' = made \/ made' = [made EXCEPT ![window] = @ + n]
        BY <1>9, <2>2 DEF StartRecheck
    <2>7. made' \in [1 .. MaxWindows -> Nat]
        BY <2>2, <2>6
    <2>8. UNCHANGED <<tin, row, window>>
        BY <1>9 DEF StartRecheck
    <2> HIDE DEF x
    <2> QED
        BY <1>a, <2>3, <2>4, <2>5, <2>7, <2>8, QuietTyped
<1>10. ASSUME RequestFails(q)
       PROVE  TypeOK' /\ UNCHANGED <<tin, row>>
    BY <1>10, <1>a, QuietTyped DEF RequestFails
<1> QED
    BY <1>1, <1>2, <1>3, <1>4, <1>5, <1>6, <1>7, <1>8, <1>9, <1>10 DEF QuietStep
-----------------------------------------------------------------------------
(* Steps that write agents and rows. *)

LEMMA Named ==
    /\ \A t : t \in LiveTins <=> t \in Tins /\ tin[t].state = "live"
    /\ \A r : r \in LiveRows <=> r \in Rows /\ row[r].state = "live"
    BY DEF LiveTins, LiveRows

LEMMA NamedNext ==
    /\ \A t : t \in LiveTins' <=> t \in Tins /\ tin'[t].state = "live"
    /\ \A r : r \in LiveRows' <=> r \in Rows /\ row'[r].state = "live"
    BY DEF LiveTins, LiveRows

LEMMA QuietKeeps ==
    ASSUME IInv, TypeOK', UNCHANGED <<tin, row>>
    PROVE  IInv'
    BY DEF IInv, OneHolder, TrustHasReadout, UnderLive, UnbornRows, LiveTins, LiveRows

\* An agent is inserted or updated, with a key no other live agent holds.
LEMMA TinKeeps ==
    ASSUME IInv, NEW t \in Tins, NEW z \in TinRecord, tin' = [tin EXCEPT ![t] = z],
           z.state = "live", KeyHeldBy(z.key) \subseteq {t},
           req' \in [Requests -> RequestRecord], UNCHANGED <<row, window, budget, made>>
    PROVE  IInv' /\ LiveTins' = LiveTins \cup {t}
<1>1. TypeOK'
    BY DEF IInv, TypeOK, LiveRows
<1>2. tin'[t] = z /\ \A u \in Tins \ {t} : tin'[u] = tin[u]
    BY DEF IInv, TypeOK
<1>3. LiveTins' = LiveTins \cup {t} /\ LiveRows' = LiveRows
    BY <1>2 DEF LiveTins, LiveRows
<1>4. OneHolder'
    <2>1. ASSUME NEW u \in LiveTins', NEW v \in LiveTins', tin'[u].key = tin'[v].key,
                 tin'[u].key # None
          PROVE  u = v
        <3>1. u \in Tins /\ v \in Tins
            BY DEF LiveTins
        <3>2. CASE u # t /\ v # t
            BY <1>2, <1>3, <2>1, <3>1, <3>2 DEF IInv, OneHolder
        <3>3. CASE u = t
            <4>1. v # t => v \in KeyHeldBy(z.key)
                BY <1>2, <1>3, <2>1, <3>1, <3>3 DEF KeyHeldBy
            <4> QED
                BY <3>3, <4>1
        <3>4. CASE v = t
            <4>1. u # t => u \in KeyHeldBy(z.key)
                BY <1>2, <1>3, <2>1, <3>1, <3>4 DEF KeyHeldBy
            <4> QED
                BY <3>4, <4>1
        <3> QED
            BY <3>2, <3>3, <3>4
    <2> QED
        BY <1>3, <2>1 DEF IInv, OneHolder
<1>5. UnderLive' /\ TrustHasReadout' /\ UnbornRows'
    BY <1>3 DEF IInv, UnderLive, TrustHasReadout, UnbornRows
<1> QED
    BY <1>1, <1>3, <1>4, <1>5 DEF IInv

\* A row is written: a new live one at a place nobody holds under a live agent, the trust of
\* one, or none any more.
LEMMA RowKeeps ==
    ASSUME IInv, NEW r \in Rows, NEW y \in RowRecord, row' = [row EXCEPT ![r] = y],
           y.state \in {"live", "removed"},
           y.state = "live" => /\ y.place \in Places
                               /\ y.place[2] \in LiveTins
                               /\ PlaceHeldBy(y.place) \subseteq {r},
           y.trust = "trusted" => y.readout = "pass",
           y.trust = "flagged" <=> y.readout = "fail",
           req' \in [Requests -> RequestRecord], UNCHANGED <<tin, window, budget, made>>
    PROVE  IInv' /\ LiveRows' = IF y.state = "live" THEN LiveRows \cup {r} ELSE LiveRows \ {r}
<1>1. row'[r] = y /\ \A s \in Rows \ {r} : row'[s] = row[s]
    BY DEF IInv, TypeOK
<1>2. LiveRows' = (IF y.state = "live" THEN LiveRows \cup {r} ELSE LiveRows \ {r})
      /\ LiveTins' = LiveTins
    BY <1>1 DEF LiveTins, LiveRows
<1>3. TypeOK'
    <2>1. \A s \in LiveRows' : row'[s].place \in Places
        BY <1>1, <1>2 DEF IInv, TypeOK, LiveRows
    <2> QED
        BY <2>1 DEF IInv, TypeOK
<1>4. OneHolder'
    <2>1. ASSUME NEW u \in LiveRows', NEW v \in LiveRows', row'[u].place = row'[v].place
          PROVE  u = v
        <3>1. u \in Rows /\ v \in Rows
            BY DEF LiveRows
        <3>2. CASE u # r /\ v # r
            <4>1. u \in LiveRows /\ v \in LiveRows /\ row[u].place = row[v].place
                BY <1>1, <1>2, <2>1, <3>1, <3>2
            <4> QED
                BY <4>1 DEF IInv, OneHolder
        <3>3. CASE u = r
            <4>1. y.state = "live"
                BY <1>1, <3>3 DEF LiveRows
            <4>2. v # r => v \in PlaceHeldBy(y.place)
                BY <1>1, <1>2, <2>1, <3>1, <3>3, <4>1 DEF PlaceHeldBy
            <4> QED
                BY <3>3, <4>1, <4>2
        <3>4. CASE v = r
            <4>1. y.state = "live"
                BY <1>1, <3>4 DEF LiveRows
            <4>2. u # r => u \in PlaceHeldBy(y.place)
                BY <1>1, <1>2, <2>1, <3>1, <3>4, <4>1 DEF PlaceHeldBy
            <4> QED
                BY <3>4, <4>1, <4>2
        <3> QED
            BY <3>2, <3>3, <3>4
    <2> QED
        BY <1>2, <2>1 DEF IInv, OneHolder
<1>5. UnderLive'
    <2>1. ASSUME NEW s \in LiveRows' PROVE row'[s].place[2] \in LiveTins
        <3>1. CASE s = r
            BY <1>1, <3>1 DEF LiveRows
        <3>2. CASE s # r
            <4>1. s \in LiveRows /\ row'[s] = row[s]
                BY <1>1, <1>2, <3>2 DEF LiveRows
            <4> QED
                BY <4>1 DEF IInv, UnderLive
        <3> QED
            BY <3>1, <3>2
    <2> QED
        BY <1>2, <2>1 DEF UnderLive
<1>6. TrustHasReadout'
    BY <1>1 DEF IInv, TrustHasReadout
<1>7. UnbornRows'
    BY <1>1 DEF IInv, UnbornRows
<1> QED
    BY <1>2, <1>3, <1>4, <1>5, <1>6, <1>7 DEF IInv
-----------------------------------------------------------------------------
(* Every step is one of VaultPlan's, or changes nothing of it. *)

Taken == {row[r].place : r \in LiveRows}

\* What the plan counts are places; what the statements count are rows.
LEMMA PlacesCounted ==
    ASSUME IInv, NEW kind \in Kinds, NEW t \in Tins
    PROVE  /\ Cardinality(Plan!Counted(Taken, kind, t)) \in Nat
           /\ Cardinality(CountedRows(kind, t)) \in Nat
           /\ Cardinality(Plan!Counted(Taken, kind, t)) <= Cardinality(CountedRows(kind, t))
           /\ IsFiniteSet(Plan!Counted(Taken, kind, t))
<1> DEFINE D == CountedRows(kind, t)
           T == Plan!Counted(Taken, kind, t)
           f == [r \in D |-> row[r].place]
<1>1. IsFiniteSet(D)
    <2>1. D \in SUBSET Rows
        BY DEF CountedRows, LiveRows
    <2> QED
        BY <2>1, RegistryAssumption, FS_Subset
<1>2. f \in [D -> T]
    <2>1. ASSUME NEW r \in D PROVE row[r].place \in T
        BY DEF CountedRows, Taken, Plan!Counted
    <2> QED
        BY <2>1
<1>3. ASSUME NEW p \in T PROVE \E r \in D : f[r] = p
    <2>1. PICK r \in LiveRows : p = row[r].place
        BY DEF Plan!Counted, Taken
    <2>2. r \in D
        BY <2>1 DEF CountedRows, Plan!Counted, IInv, UnderLive
    <2> QED
        BY <2>1, <2>2
<1>4. f \in Surjection(D, T)
    BY <1>2, <1>3 DEF Surjection
<1> HIDE DEF f, D, T
<1>5. IsFiniteSet(T) /\ Cardinality(T) <= Cardinality(D)
    BY <1>1, <1>4, FS_Surjection
<1> QED
    BY <1>1, <1>5, FS_CardinalityType DEF T, D

\* VaultPlan counts with the same operator.
LEMMA SameCount == \A S : Plan!Cardinality(S) = Cardinality(S)
    BY Zenon DEF Plan!Cardinality, Cardinality

\* The agents, the removed ones and the places stay as they are.
LEMMA Stutters ==
    ASSUME LiveTins' = LiveTins, RemovedTins' = RemovedTins, Taken' = Taken
    PROVE  UNCHANGED Plan!planVars
    BY DEF Plan!planVars, Taken

LEMMA InsertTinStep ==
    ASSUME IInv, NEW q \in Requests, NEW t \in Tins, InsertTin(q, t)
    PROVE  IInv' /\ [Plan!PlanNext]_(Plan!planVars)
<1>1. /\ tin[t].state = "unborn" /\ req' = [req EXCEPT ![q] = Idle]
      /\ UNCHANGED <<row, window, budget, made>>
    BY DEF InsertTin
<1>2. req[q] \in RequestRecord /\ req' \in [Requests -> RequestRecord]
    BY <1>1, IdleTyped DEF IInv, TypeOK
<1>3. CASE KeyHeldBy(req[q].key) = {} /\ Cardinality(LiveTins) < BotCap
    <2> DEFINE z == [state |-> "live", label |-> req[q].label, key |-> req[q].key]
    <2>1. z \in TinRecord /\ z.state = "live" /\ z.key = req[q].key
        BY <1>2 DEF RequestRecord, TinRecord
    <2>2. tin' = [tin EXCEPT ![t] = z]
        BY <1>3 DEF InsertTin
    <2> HIDE DEF z
    <2>3. IInv' /\ LiveTins' = LiveTins \cup {t}
        BY <1>1, <1>2, <1>3, <2>1, <2>2, TinKeeps
    <2>4. t \notin LiveTins /\ t \notin RemovedTins
        BY <1>1 DEF LiveTins, RemovedTins
    <2>5. RemovedTins' = RemovedTins
        BY <1>1, <2>1, <2>2 DEF IInv, TypeOK, RemovedTins
    <2>6. Taken' = Taken
        BY <1>1 DEF Taken, LiveRows
    <2>7. Plan!Admit(t)
        BY <1>3, <2>3, <2>4, <2>5, <2>6, SameCount DEF Plan!Admit, Taken
    <2> QED
        BY <2>3, <2>7 DEF Plan!PlanNext
<1>4. CASE ~(KeyHeldBy(req[q].key) = {} /\ Cardinality(LiveTins) < BotCap)
    <2>1. UNCHANGED <<tin, row>>
        BY <1>1, <1>4 DEF InsertTin
    <2>2. TypeOK'
        BY <1>1, <1>2, <2>1 DEF IInv, TypeOK, LiveRows
    <2>3. LiveTins' = LiveTins /\ RemovedTins' = RemovedTins /\ Taken' = Taken
        BY <2>1 DEF LiveTins, RemovedTins, Taken, LiveRows
    <2> QED
        BY <2>1, <2>2, <2>3, QuietKeeps, Stutters
<1> QED
    BY <1>3, <1>4

LEMMA UpdateTinStep ==
    ASSUME IInv, NEW q \in Requests, UpdateTin(q)
    PROVE  IInv' /\ [Plan!PlanNext]_(Plan!planVars)
<1>1. req' = [req EXCEPT ![q] = Idle] /\ UNCHANGED <<row, window, budget, made>>
    BY DEF UpdateTin
<1>2. req[q] \in RequestRecord /\ req' \in [Requests -> RequestRecord]
    BY <1>1, IdleTyped DEF IInv, TypeOK
<1>3. CASE req[q].tin \in LiveTins /\ KeyHeldBy(req[q].key) \subseteq {req[q].tin}
    <2>1. PICK t \in Tins : t = req[q].tin /\ tin[t].state = "live" /\ t \in LiveTins
        BY <1>3 DEF LiveTins
    <2> DEFINE z == [tin[t] EXCEPT !.label = req[q].label, !.key = req[q].key]
    <2>2. z \in TinRecord /\ z.state = "live" /\ z.key = req[q].key
        BY <1>2, <2>1 DEF RequestRecord, TinRecord, IInv, TypeOK
    <2>3. tin' = [tin EXCEPT ![t] = z]
        BY <1>3, <2>1 DEF UpdateTin, IInv, TypeOK
    <2> HIDE DEF z
    <2>4. IInv' /\ LiveTins' = LiveTins
        BY <1>1, <1>2, <1>3, <2>1, <2>2, <2>3, TinKeeps
    <2>5. RemovedTins' = RemovedTins
        BY <2>1, <2>2, <2>3 DEF IInv, TypeOK, RemovedTins
    <2>6. Taken' = Taken
        BY <1>1 DEF Taken, LiveRows
    <2> QED
        BY <2>4, <2>5, <2>6, Stutters
<1>4. CASE ~(req[q].tin \in LiveTins /\ KeyHeldBy(req[q].key) \subseteq {req[q].tin})
    <2>1. UNCHANGED <<tin, row>>
        BY <1>1, <1>4 DEF UpdateTin
    <2>2. TypeOK'
        BY <1>1, <1>2, <2>1 DEF IInv, TypeOK, LiveRows
    <2>3. LiveTins' = LiveTins /\ RemovedTins' = RemovedTins /\ Taken' = Taken
        BY <2>1 DEF LiveTins, RemovedTins, Taken, LiveRows
    <2> QED
        BY <2>1, <2>2, <2>3, QuietKeeps, Stutters
<1> QED
    BY <1>3, <1>4

LEMMA RemoveTinStep ==
    ASSUME IInv, NEW t \in Tins, RemoveTin(t)
    PROVE  IInv' /\ [Plan!PlanNext]_(Plan!planVars)
<1> DEFINE Under(r) == r \in LiveRows /\ row[r].place[2] = t
<1>1. /\ t \in LiveTins
      /\ tin' = [tin EXCEPT ![t] = RemovedTin]
      /\ row' = [r \in Rows |-> IF Under(r) THEN RemovedRow ELSE row[r]]
      /\ UNCHANGED <<req, window, budget, made>>
    BY DEF RemoveTin
<1>2. /\ tin'[t] = RemovedTin /\ RemovedTin.state = "removed"
      /\ \A u \in Tins \ {t} : tin'[u] = tin[u]
    BY <1>1, Blank DEF IInv, TypeOK
<1>3. LiveTins' = LiveTins \ {t} /\ RemovedTins' = RemovedTins \cup {t}
    BY <1>2 DEF LiveTins, RemovedTins
<1>4. \A r \in Rows : row'[r] = IF Under(r) THEN RemovedRow ELSE row[r]
    BY <1>1
<1>5. \A r \in Rows : /\ r \in LiveRows' <=> r \in LiveRows /\ ~Under(r)
                      /\ r \in LiveRows' => row'[r] = row[r]
    <2>1. ASSUME NEW r \in Rows, Under(r)
          PROVE  r \notin LiveRows'
        <3>1. row'[r].state = "removed"
            BY <1>4, <2>1, Blank
        <3> QED
            BY <3>1, NamedNext
    <2>2. ASSUME NEW r \in Rows, ~Under(r)
          PROVE  row'[r] = row[r] /\ (r \in LiveRows' <=> r \in LiveRows)
        <3>1. row'[r] = row[r]
            BY <1>4, <2>2
        <3> QED
            BY <3>1, Named, NamedNext
    <2> QED
        BY <2>1, <2>2
<1>6. \A r : r \in LiveRows' => r \in LiveRows /\ row[r].place[2] # t /\ row'[r] = row[r]
    BY <1>5, NamedNext
<1>7. TypeOK'
    <2>1. row' \in [Rows -> RowRecord]
        BY <1>1, Blank DEF IInv, TypeOK
    <2>2. tin' \in [Tins -> TinRecord]
        BY <1>1, Blank DEF IInv, TypeOK
    <2>3. \A r \in LiveRows' : row'[r].place \in Places
        BY <1>6 DEF IInv, TypeOK
    <2> QED
        BY <1>1, <2>1, <2>2, <2>3 DEF IInv, TypeOK
<1>8. OneHolder'
    <2>1. \A u \in LiveTins' : u \in LiveTins /\ tin'[u] = tin[u]
        BY <1>2, <1>3 DEF LiveTins
    <2> QED
        BY <1>6, <2>1 DEF IInv, OneHolder
<1>9. UnderLive'
    BY <1>3, <1>6 DEF IInv, UnderLive
<1>10. TrustHasReadout'
    <2>1. ASSUME NEW r \in Rows
          PROVE  /\ row'[r].trust = "trusted" => row'[r].readout = "pass"
                 /\ row'[r].trust = "flagged" <=> row'[r].readout = "fail"
        <3>1. CASE Under(r)
            BY <1>4, <3>1, Blank
        <3>2. CASE ~Under(r)
            BY <1>4, <3>2 DEF IInv, TrustHasReadout
        <3> QED
            BY <3>1, <3>2
    <2> QED
        BY <2>1 DEF TrustHasReadout
<1>11. UnbornRows'
    <2>1. ASSUME NEW r \in Rows
          PROVE  row'[r].state = "unborn" => row'[r].trust # "flagged"
        <3>1. CASE Under(r)
            BY <1>4, <3>1, Blank
        <3>2. CASE ~Under(r)
            BY <1>4, <3>2 DEF IInv, UnbornRows
        <3> QED
            BY <3>1, <3>2
    <2> QED
        BY <2>1 DEF UnbornRows
<1>12. Taken' = {p \in Taken : p[2] # t}
    <2>1. ASSUME NEW p \in Taken'
          PROVE  p \in Taken /\ p[2] # t
        BY <1>6 DEF Taken
    <2>2. ASSUME NEW p \in Taken, p[2] # t
          PROVE  p \in Taken'
        <3>1. PICK r \in LiveRows : p = row[r].place
            BY DEF Taken
        <3>2. r \in LiveRows' /\ row'[r] = row[r]
            BY <1>5, <2>2, <3>1 DEF LiveRows
        <3> QED
            BY <3>1, <3>2 DEF Taken
    <2> QED
        BY <2>1, <2>2
<1>13. Plan!Retire(t)
    BY <1>1, <1>3, <1>12 DEF Plan!Retire, Taken
<1> QED
    BY <1>7, <1>8, <1>9, <1>10, <1>11, <1>13 DEF IInv, Plan!PlanNext

LEMMA InsertPlaceStep ==
    ASSUME IInv, NEW q \in Requests, NEW a \in req[q].todo, NEW r \in Rows, InsertPlace(q, a, r)
    PROVE  IInv' /\ [Plan!PlanNext]_(Plan!planVars)
<1>1. req[q] \in RequestRecord /\ a \in Addresses
    BY DEF IInv, TypeOK, RequestRecord
<1>2. PICK kind \in Kinds : kind = req[q].kind
    BY <1>1 DEF RequestRecord
<1>3. PICK t \in Tins : t = req[q].tin
    BY DEF InsertPlace, LiveTins
<1>4. PICK p \in Places : p = <<kind, t, a>>
    BY <1>1 DEF Places
<1>5. /\ t \in LiveTins /\ PlaceHeldBy(p) = {} /\ row[r].state = "unborn"
      /\ Cardinality(CountedRows(kind, t)) < CapOf(kind)
      /\ UNCHANGED <<tin, window, budget, made>>
    BY <1>2, <1>3, <1>4 DEF InsertPlace
<1> DEFINE y == [UnbornRow EXCEPT !.state = "live", !.place = p]
<1>6. /\ y \in RowRecord /\ y.state = "live" /\ y.place = p
      /\ y.trust = "pending" /\ y.readout = "none"
    BY <1>4, Blank DEF RowRecord
<1>7. row' = [row EXCEPT ![r] = y]
    BY <1>2, <1>3, <1>4 DEF InsertPlace
<1> HIDE DEF y
<1>8. req' \in [Requests -> RequestRecord]
    <2> DEFINE x == [req[q] EXCEPT !.todo = req[q].todo \ {a}, !.rows = req[q].rows \cup {r}]
    <2>1. x \in RequestRecord
        BY <1>1 DEF RequestRecord
    <2>2. req' = [req EXCEPT ![q] = x]
        BY DEF InsertPlace, IInv, TypeOK
    <2> HIDE DEF x
    <2> QED
        BY <2>1, <2>2 DEF IInv, TypeOK
<1>9. p[2] = t
    BY <1>4
<1>10. IInv' /\ LiveRows' = LiveRows \cup {r}
    BY <1>4, <1>5, <1>6, <1>7, <1>8, <1>9, RowKeeps
<1>11. Taken' = Taken \cup {p}
    <2>1. r \notin LiveRows /\ row'[r].place = p /\ \A s \in LiveRows : row'[s] = row[s]
        BY <1>5, <1>6, <1>7 DEF LiveRows, IInv, TypeOK
    <2> QED
        BY <1>10, <2>1 DEF Taken
<1>12. p \notin Taken
    BY <1>5 DEF Taken, PlaceHeldBy
<1>13. Cardinality(Plan!Counted(Taken, kind, t)) < Plan!CapOf(kind)
    <2>1. CapOf(kind) \in Nat /\ Plan!CapOf(kind) = CapOf(kind)
        BY RegistryAssumption DEF CapOf, Plan!CapOf
    <2> QED
        BY <1>5, <2>1, PlacesCounted
<1>14. LiveTins' = LiveTins /\ RemovedTins' = RemovedTins
    BY <1>5 DEF LiveTins, RemovedTins
<1>15. Plan!TakePlace(kind, t, a)
    BY <1>4, <1>5, <1>11, <1>12, <1>13, <1>14, SameCount DEF Plan!TakePlace, Taken
<1>16. Plan!PlanNext
    BY <1>1, <1>15 DEF Plan!PlanNext, Plan!Kinds, Kinds
<1> QED
    BY <1>10, <1>16

LEMMA RemovePlaceStep ==
    ASSUME IInv, NEW r \in Rows, RemovePlace(r)
    PROVE  IInv' /\ [Plan!PlanNext]_(Plan!planVars)
<1>1. /\ r \in LiveRows /\ row' = [row EXCEPT ![r] = RemovedRow]
      /\ UNCHANGED <<tin, req, window, budget, made>>
    BY DEF RemovePlace
<1>2. IInv' /\ LiveRows' = LiveRows \ {r}
    <2>1. req' \in [Requests -> RequestRecord]
        BY <1>1 DEF IInv, TypeOK
    <2> QED
        BY <1>1, <2>1, Blank, RowKeeps
<1>3. \A s \in LiveRows \ {r} : row'[s] = row[s] /\ row[s].place # row[r].place
    BY <1>1 DEF IInv, OneHolder, TypeOK, LiveRows
<1>4. Taken' = Taken \ {row[r].place}
    BY <1>1, <1>2, <1>3 DEF Taken
<1>5. LiveTins' = LiveTins /\ RemovedTins' = RemovedTins
    BY <1>1 DEF LiveTins, RemovedTins
<1>6. PICK p \in Taken : p = row[r].place
    BY <1>1 DEF Taken
<1>7. Plan!LeavePlace(p)
    BY <1>4, <1>5, <1>6 DEF Plan!LeavePlace, Taken
<1> QED
    BY <1>2, <1>6, <1>7 DEF Plan!PlanNext, Taken

LEMMA RecordTrustStep ==
    ASSUME IInv, NEW q \in Requests, NEW r \in req[q].rows, NEW result \in Results,
           RecordTrust(q, r, result)
    PROVE  IInv' /\ [Plan!PlanNext]_(Plan!planVars)
<1>1. req[q] \in RequestRecord /\ r \in Rows /\ row[r] \in RowRecord
    BY DEF IInv, TypeOK, RequestRecord
<1>2. UNCHANGED <<tin, window, budget, made>>
    BY DEF RecordTrust
<1>3. req' \in [Requests -> RequestRecord]
    <2> DEFINE x == [req[q] EXCEPT !.rows = req[q].rows \ {r}]
    <2>1. x \in RequestRecord /\ Idle \in RequestRecord
        BY <1>1, IdleTyped DEF RequestRecord
    <2>2. req' = [req EXCEPT ![q] = x] \/ req' = [req EXCEPT ![q] = Idle]
        BY DEF RecordTrust
    <2> HIDE DEF x
    <2> QED
        BY <2>1, <2>2 DEF IInv, TypeOK
<1>4. CASE row' = row
    <2>1. TypeOK'
        BY <1>2, <1>3, <1>4 DEF IInv, TypeOK, LiveRows
    <2>2. LiveTins' = LiveTins /\ RemovedTins' = RemovedTins /\ Taken' = Taken
        BY <1>2, <1>4 DEF LiveTins, RemovedTins, Taken, LiveRows
    <2> QED
        BY <1>2, <1>4, <2>1, <2>2, QuietKeeps, Stutters
<1>5. CASE row' # row
    <2>1. PICK status : status = NextTrust(r \in req[q].flagged, result)
        OBVIOUS
    <2>2. /\ row[r].state = "live"
          /\ ~(r \in req[q].flagged /\ result # "fail")
          /\ row' = [row EXCEPT ![r].trust = status, ![r].readout = result]
        BY <1>5, <2>1 DEF RecordTrust, Written
    <2>3. /\ status \in {"flagged", "trusted", "pending"}
          /\ status = "trusted" => result = "pass"
          /\ status = "flagged" <=> result = "fail"
        BY <2>1, <2>2 DEF NextTrust, Results
    <2> DEFINE y == [row[r] EXCEPT !.trust = status, !.readout = result]
    <2>4. /\ y \in RowRecord /\ y.state = "live" /\ y.place = row[r].place
          /\ y.trust = status /\ y.readout = result
        BY <1>1, <2>2, <2>3 DEF RowRecord
    <2>5. row' = [row EXCEPT ![r] = y]
        BY <1>1, <2>2 DEF IInv, TypeOK
    <2> HIDE DEF y
    <2>6. r \in LiveRows /\ row[r].place \in Places /\ row[r].place[2] \in LiveTins
          /\ PlaceHeldBy(row[r].place) \subseteq {r}
        BY <1>1, <2>2 DEF LiveRows, PlaceHeldBy, IInv, TypeOK, UnderLive, OneHolder
    <2>7. IInv' /\ LiveRows' = LiveRows
        BY <1>1, <1>2, <1>3, <2>3, <2>4, <2>5, <2>6, RowKeeps
    <2>8. \A s \in LiveRows : row'[s].place = row[s].place
        BY <1>1, <2>4, <2>5 DEF LiveRows, IInv, TypeOK
    <2>9. LiveTins' = LiveTins /\ RemovedTins' = RemovedTins /\ Taken' = Taken
        BY <1>2, <2>7, <2>8 DEF LiveTins, RemovedTins, Taken
    <2> QED
        BY <2>7, <2>9, Stutters
<1> QED
    BY <1>4, <1>5
-----------------------------------------------------------------------------
LEMMA InitInv == Init => IInv /\ Plan!PlanInit
<1> SUFFICES ASSUME Init PROVE IInv /\ Plan!PlanInit
    OBVIOUS
<1>1. /\ \A t \in Tins : tin[t] = UnbornTin
      /\ \A r \in Rows : row[r] = UnbornRow
    BY DEF Init
<1>2. LiveTins = {} /\ RemovedTins = {} /\ LiveRows = {} /\ Taken = {}
    BY <1>1, Blank DEF LiveTins, RemovedTins, LiveRows, Taken
<1>3. TypeOK
    <2>1. budget \in [opened : 0 .. MaxWindows, used : 0 .. MaxChecks]
        BY RegistryAssumption DEF Init
    <2>2. tin \in [Tins -> TinRecord] /\ row \in [Rows -> RowRecord]
          /\ req \in [Requests -> RequestRecord]
        BY Blank, IdleTyped DEF Init
    <2>3. made \in [1 .. MaxWindows -> Nat] /\ window \in 1 .. MaxWindows
        BY RegistryAssumption DEF Init
    <2> QED
        BY <1>2, <2>1, <2>2, <2>3 DEF TypeOK
<1>4. OneHolder /\ UnderLive
    BY <1>2 DEF OneHolder, UnderLive
<1>5. TrustHasReadout /\ UnbornRows
    BY <1>1, Blank DEF TrustHasReadout, UnbornRows
<1>6. Plan!PlanInit
    BY <1>2 DEF Plan!PlanInit, Taken
<1> QED
    BY <1>3, <1>4, <1>5, <1>6 DEF IInv

LEMMA NextKeeps ==
    ASSUME IInv, [Next]_vars
    PROVE  IInv' /\ [Plan!PlanNext]_(Plan!planVars)
<1>1. ASSUME UNCHANGED <<tin, row>>, TypeOK'
      PROVE  IInv' /\ [Plan!PlanNext]_(Plan!planVars)
    <2>1. LiveTins' = LiveTins /\ RemovedTins' = RemovedTins /\ Taken' = Taken
        BY <1>1 DEF LiveTins, RemovedTins, Taken, LiveRows
    <2> QED
        BY <1>1, <2>1, QuietKeeps, Stutters
<1>2. CASE NextWindow
    <2>1. window' \in 1 .. MaxWindows
        BY <1>2, Facts DEF NextWindow, IInv
    <2>2. TypeOK' /\ UNCHANGED <<tin, row>>
        BY <1>2, <2>1 DEF NextWindow, IInv, TypeOK, LiveRows
    <2> QED
        BY <1>1, <2>2
<1>3. CASE \E t \in Tins : RemoveTin(t)
    BY <1>3, RemoveTinStep
<1>4. CASE \E r \in Rows : RemovePlace(r)
    BY <1>4, RemovePlaceStep
<1>5. ASSUME NEW q \in Requests, AgentStep(q) \/ PlaceStep(q) \/ CheckStep(q) \/ RequestFails(q)
      PROVE  IInv' /\ [Plan!PlanNext]_(Plan!planVars)
    <2>1. CASE QuietStep(q)
        BY <1>1, <2>1, QuietTypes DEF IInv
    <2>2. CASE \E t \in Tins : InsertTin(q, t)
        BY <2>2, InsertTinStep
    <2>3. CASE UpdateTin(q)
        BY <2>3, UpdateTinStep
    <2>4. CASE \E a \in req[q].todo, r \in Rows : InsertPlace(q, a, r)
        BY <2>4, InsertPlaceStep
    <2>5. CASE \E r \in req[q].rows, result \in Results : RecordTrust(q, r, result)
        BY <2>5, RecordTrustStep
    <2> QED
        BY <1>5, <2>1, <2>2, <2>3, <2>4, <2>5 DEF AgentStep, PlaceStep, CheckStep, QuietStep
<1>6. CASE UNCHANGED vars
    <2>1. TypeOK' /\ UNCHANGED <<tin, row>>
        BY <1>6 DEF vars, IInv, TypeOK, LiveRows
    <2> QED
        BY <1>1, <2>1
<1> QED
    BY <1>2, <1>3, <1>4, <1>5, <1>6 DEF Next

LEMMA Invariance == Spec => []IInv
<1>1. IInv /\ [Next]_vars => IInv'
    BY NextKeeps
<1> QED
    BY <1>1, InitInv, PTL DEF Spec

\* The agents, the rows, the requests, the budget and the checks made keep their types.
THEOREM RegistryTypes == Spec => []TypeOK
<1>1. IInv => TypeOK
    BY DEF IInv
<1> QED
    BY <1>1, Invariance, PTL

\* One key is one live agent and one place one live row, whatever the requests read before
\* they wrote.
THEOREM HoldersAreOne == Spec => []OneHolder
<1>1. IInv => OneHolder
    BY DEF IInv
<1> QED
    BY <1>1, Invariance, PTL

\* What a destination shows is what its stored readout says, whichever checks raced.
THEOREM TrustIsReadout == Spec => []TrustHasReadout
<1>1. IInv => TrustHasReadout
    BY DEF IInv
<1> QED
    BY <1>1, Invariance, PTL

\* The registry implements the plan: every step of any requests is one admission, one
\* removal, one place taken or left below the caps, or changes nothing of it.
THEOREM RegistryKeepsPlan == Spec => KeepsPlan
<1>1. IInv /\ [Next]_vars => [Plan!PlanNext]_(Plan!planVars)
    BY NextKeeps
<1>2. Init => Plan!PlanInit
    BY InitInv
<1> QED
    BY <1>1, <1>2, Invariance, PTL DEF Spec, KeepsPlan, Plan!PlanSpec
-----------------------------------------------------------------------------
(* The caps, and the ratchet of a flag. *)

\* A place is taken: only the sets it counts toward grow, and by one.
LEMMA PlaceTaken ==
    ASSUME IInv, NEW k \in Kinds, NEW t \in Tins, NEW a \in Addresses,
           Plan!TakePlace(k, t, a), Plan!WithinPlan, NEW kind \in Kinds, NEW u \in Tins
    PROVE  Cardinality(Plan!Counted(Taken, kind, u)') <= Plan!CapOf(kind)
<1> DEFINE p == <<k, t, a>>
           C == Plan!Counted(Taken, kind, u)
           D == Plan!Counted(Taken', kind, u)
<1>1. Taken' = Taken \cup {p} /\ p \notin Taken
      /\ Cardinality(Plan!Counted(Taken, k, t)) < Plan!CapOf(k)
    BY SameCount DEF Plan!TakePlace, Taken
<1>2. IsFiniteSet(C) /\ Cardinality(C) \in Nat /\ Cardinality(C) <= Plan!CapOf(kind)
    <2>1. Cardinality(C) <= Plan!CapOf(kind)
        BY SameCount DEF Plan!WithinPlan, Taken, Plan!Kinds, Kinds
    <2> QED
        BY <2>1, PlacesCounted
<1>3. Plan!CapOf(kind) \in Nat
    BY RegistryAssumption DEF Plan!CapOf
<1>4. Cardinality(D) <= Plan!CapOf(kind)
    <2>1. CASE kind = k /\ (kind = "wallet" => u = t)
        <3>1. C = Plan!Counted(Taken, k, t)
            BY <2>1 DEF Plan!Counted
        <3>2. D = C \cup {p}
            BY <1>1, <2>1 DEF Plan!Counted
        <3>3. p \notin C
            BY <1>1 DEF Plan!Counted
        <3> HIDE DEF C, D
        <3>4. Cardinality(D) = Cardinality(C) + 1
            BY <1>2, <3>2, <3>3, FS_AddElement
        <3> QED
            BY <1>1, <1>2, <1>3, <2>1, <3>1, <3>4
    <2>2. CASE ~(kind = k /\ (kind = "wallet" => u = t))
        <3>1. D = C
            BY <1>1, <2>2 DEF Plan!Counted
        <3> QED
            BY <1>2, <3>1
    <2> QED
        BY <2>1, <2>2
<1>5. Plan!Counted(Taken, kind, u)' = D
    BY DEF Plan!Counted
<1> HIDE DEF D
<1> QED
    BY <1>4, <1>5

LEMMA PlanStep ==
    ASSUME IInv, Plan!WithinPlan, [Plan!PlanNext]_(Plan!planVars)
    PROVE  Plan!WithinPlan'
<1>1. /\ Cardinality(LiveTins) <= BotCap
      /\ \A p \in Taken : p[2] \in LiveTins
      /\ \A kind \in Kinds, t \in Tins :
            /\ Cardinality(Plan!Counted(Taken, kind, t)) <= Plan!CapOf(kind)
            /\ IsFiniteSet(Plan!Counted(Taken, kind, t))
            /\ Cardinality(Plan!Counted(Taken, kind, t)) \in Nat
            /\ Plan!CapOf(kind) \in Nat
    <2>1. \A kind \in Kinds, t \in Tins :
            Cardinality(Plan!Counted(Taken, kind, t)) <= Plan!CapOf(kind)
        BY SameCount DEF Plan!WithinPlan, Taken, Plan!Kinds, Kinds
    <2>2. \A kind \in Kinds : Plan!CapOf(kind) \in Nat
        BY RegistryAssumption DEF Plan!CapOf
    <2> QED
        BY <2>1, <2>2, SameCount, PlacesCounted DEF Plan!WithinPlan, Taken
<1>2. IsFiniteSet(LiveTins) /\ Cardinality(LiveTins) \in Nat
    <2>1. LiveTins \in SUBSET Tins
        BY DEF LiveTins
    <2> QED
        BY <2>1, RegistryAssumption, FS_Subset, FS_CardinalityType
<1>3. ASSUME Taken' \subseteq Taken, NEW kind \in Kinds, NEW t \in Tins
      PROVE  Cardinality(Plan!Counted(Taken, kind, t)') <= Plan!CapOf(kind)
    <2> DEFINE D == Plan!Counted(Taken', kind, t)
    <2>1. D \in SUBSET Plan!Counted(Taken, kind, t)
        BY <1>3 DEF Plan!Counted
    <2>2. Plan!Counted(Taken, kind, t)' = D
        BY DEF Plan!Counted
    <2> HIDE DEF D
    <2>3. Cardinality(D) \in Nat /\ Cardinality(D) <= Cardinality(Plan!Counted(Taken, kind, t))
        BY <1>1, <2>1, FS_Subset, FS_CardinalityType
    <2> QED
        BY <1>1, <2>2, <2>3
<1>4. ASSUME Cardinality(LiveTins') <= BotCap,
             \A p \in Taken' : p[2] \in LiveTins',
             \A kind \in Kinds, t \in Tins :
                Cardinality(Plan!Counted(Taken, kind, t)') <= Plan!CapOf(kind)
      PROVE  Plan!WithinPlan'
    BY <1>4, SameCount DEF Plan!WithinPlan, Taken, Plan!Kinds, Kinds
<1>5. ASSUME NEW t \in Tins, Plan!Admit(t) PROVE Plan!WithinPlan'
    <2>1. /\ LiveTins' = LiveTins \cup {t} /\ t \notin LiveTins /\ Taken' = Taken
          /\ Cardinality(LiveTins) < BotCap
        BY <1>5, SameCount DEF Plan!Admit, Taken
    <2>2. Cardinality(LiveTins') <= BotCap
        <3>1. Cardinality(LiveTins \cup {t}) = Cardinality(LiveTins) + 1
            BY <1>2, <2>1, FS_AddElement
        <3> QED
            BY <1>2, <2>1, <3>1, RegistryAssumption
    <2> QED
        BY <1>1, <1>3, <1>4, <2>1, <2>2
<1>6. ASSUME NEW t \in Tins, Plan!Retire(t) PROVE Plan!WithinPlan'
    <2>1. LiveTins' = LiveTins \ {t} /\ Taken' = {p \in Taken : p[2] # t}
        BY <1>6 DEF Plan!Retire, Taken
    <2>2. Cardinality(LiveTins') <= BotCap
        <3>1. Cardinality(LiveTins \ {t}) <= Cardinality(LiveTins)
              /\ Cardinality(LiveTins \ {t}) \in Nat
            BY <1>2, FS_Subset, FS_CardinalityType
        <3> QED
            BY <1>1, <1>2, <2>1, <3>1, RegistryAssumption
    <2> QED
        BY <1>1, <1>3, <1>4, <2>1, <2>2
<1>7. ASSUME NEW k \in Kinds, NEW t \in Tins, NEW a \in Addresses, Plan!TakePlace(k, t, a)
      PROVE  Plan!WithinPlan'
    <2>1. LiveTins' = LiveTins /\ t \in LiveTins /\ Taken' = Taken \cup {<<k, t, a>>}
        BY <1>7 DEF Plan!TakePlace, Taken
    <2>2. \A kind \in Kinds, u \in Tins :
            Cardinality(Plan!Counted(Taken, kind, u)') <= Plan!CapOf(kind)
        BY <1>7, PlaceTaken
    <2>3. \A p \in Taken' : p[2] \in LiveTins'
        BY <1>1, <2>1
    <2> QED
        BY <1>1, <1>4, <2>1, <2>2, <2>3
<1>8. ASSUME NEW p \in Taken, Plan!LeavePlace(p) PROVE Plan!WithinPlan'
    <2>1. LiveTins' = LiveTins /\ Taken' = Taken \ {p}
        BY <1>8 DEF Plan!LeavePlace, Taken
    <2> QED
        BY <1>1, <1>3, <1>4, <2>1
<1>9. CASE UNCHANGED Plan!planVars
    <2>1. LiveTins' = LiveTins /\ Taken' = Taken
        BY <1>9 DEF Plan!planVars, Taken
    <2> QED
        BY <1>1, <1>3, <1>4, <2>1
<1> QED
    BY <1>5, <1>6, <1>7, <1>8, <1>9 DEF Plan!PlanNext, Taken, Plan!Kinds, Kinds

LEMMA FlagKept ==
    ASSUME IInv, [Next]_vars, NEW r \in Rows,
           row[r].trust = "flagged", row'[r].state = "live"
    PROVE  row'[r].trust = "flagged"
<1>1. row[r] \in RowRecord /\ row \in [Rows -> RowRecord]
    BY DEF IInv, TypeOK
<1>2. CASE row' = row
    BY <1>2
<1>3. ASSUME NEW t \in Tins, RemoveTin(t) PROVE row'[r].trust = "flagged"
    <2>1. row'[r] = RemovedRow \/ row'[r] = row[r]
        BY <1>3 DEF RemoveTin
    <2> QED
        BY <2>1, Blank
<1>4. ASSUME NEW s \in Rows, RemovePlace(s) PROVE row'[r].trust = "flagged"
    <2>1. row'[r] = RemovedRow \/ row'[r] = row[r]
        BY <1>1, <1>4 DEF RemovePlace
    <2> QED
        BY <2>1, Blank
<1>5. ASSUME NEW q \in Requests, NEW a \in req[q].todo, NEW s \in Rows, InsertPlace(q, a, s)
      PROVE  row'[r].trust = "flagged"
    <2>1. s # r
        BY <1>5 DEF InsertPlace, IInv, UnbornRows
    <2> QED
        BY <1>1, <1>5, <2>1 DEF InsertPlace
<1>6. ASSUME NEW q \in Requests, NEW s \in req[q].rows, NEW result \in Results,
             RecordTrust(q, s, result)
      PROVE  row'[r].trust = "flagged"
    <2>1. PICK status : status = NextTrust(s \in req[q].flagged, result)
        OBVIOUS
    <2>2. \/ row' = row
          \/ /\ status = "flagged" \/ row[s].trust # "flagged"
             /\ row' = [row EXCEPT ![s].trust = status, ![s].readout = result]
        BY <1>6, <2>1 DEF RecordTrust, Written
    <2>3. CASE s = r
        BY <1>1, <2>2, <2>3 DEF RowRecord
    <2>4. CASE s # r
        BY <1>1, <2>2, <2>4
    <2> QED
        BY <2>3, <2>4
<1>7. ASSUME NEW q \in Requests, AgentStep(q) \/ PlaceStep(q) \/ CheckStep(q) \/ RequestFails(q)
      PROVE  row'[r].trust = "flagged"
    <2>1. CASE QuietStep(q)
        BY <1>2, <2>1, QuietTypes DEF IInv
    <2>2. CASE (\E t \in Tins : InsertTin(q, t)) \/ UpdateTin(q)
        BY <1>2, <2>2 DEF InsertTin, UpdateTin
    <2> QED
        BY <1>5, <1>6, <1>7, <2>1, <2>2 DEF AgentStep, PlaceStep, CheckStep, QuietStep
<1>8. CASE NextWindow \/ UNCHANGED vars
    BY <1>2, <1>8 DEF NextWindow, vars
<1> QED
    BY <1>3, <1>4, <1>7, <1>8 DEF Next

\* The account never holds more than its plan has, and nothing live is under a removed agent.
THEOREM PlanIsHeld == Spec => []PlanHeld
<1>1. Init => Plan!WithinPlan
    <2> SUFFICES ASSUME Init PROVE Plan!WithinPlan
        OBVIOUS
    <2>1. LiveTins = {} /\ Taken = {}
        BY InitInv DEF Plan!PlanInit, Taken
    <2>2. \A kind, t : Plan!Counted(Taken, kind, t) = {}
        BY <2>1 DEF Plan!Counted
    <2>3. Cardinality({}) = 0
        BY FS_EmptySet
    <2>4. Cardinality(LiveTins) <= BotCap
        BY <2>1, <2>3, RegistryAssumption
    <2>5. \A kind \in Kinds : 0 <= Plan!CapOf(kind)
        BY RegistryAssumption DEF Plan!CapOf
    <2>6. \A kind \in Kinds, t \in Tins :
            Cardinality(Plan!Counted(Taken, kind, t)) <= Plan!CapOf(kind)
        BY <2>2, <2>3, <2>5
    <2> QED
        BY <2>1, <2>4, <2>6, SameCount DEF Plan!WithinPlan, Taken, Plan!Kinds, Kinds
<1>2. IInv /\ Plan!WithinPlan /\ [Next]_vars => Plan!WithinPlan'
    BY NextKeeps, PlanStep
<1> QED
    BY <1>1, <1>2, Invariance, PTL DEF Spec, PlanHeld

\* No step lifts a flag.
THEOREM FlagsStay == Spec => FlagStays
<1>1. IInv /\ [Next]_vars =>
        [\A r \in Rows :
            row[r].trust = "flagged" /\ row'[r].state = "live" => row'[r].trust = "flagged"]_vars
    BY FlagKept
<1> QED
    BY <1>1, Invariance, PTL DEF Spec, FlagStays
-----------------------------------------------------------------------------
(* The budget of checks. *)

\* What the pastes under way have paid in a window and neither made nor given back, as pairs of
\* a request and one of its checks; and one request's part of it.
PendingOf(f, w) ==
    {p \in Requests \X Nat :
        /\ f[p[1]].pc = "insert" /\ f[p[1]].spentAt = w
        /\ 1 <= p[2] /\ p[2] <= f[p[1]].charged}

Own(f, q, w) == IF f[q].pc = "insert" /\ f[q].spentAt = w THEN f[q].charged ELSE 0

\* Of a window, what the entry says was taken; of one that is over, the whole budget.
Bound(w) ==
    IF w = budget.opened THEN budget.used ELSE IF w < budget.opened THEN MaxChecks ELSE 0

\* The checks made and the checks still pending were all taken from the window they were paid in.
Covered(w) ==
    /\ IsFiniteSet(PendingOf(req, w))
    /\ made[w] + Cardinality(PendingOf(req, w)) <= Bound(w)

\* A paste has paid for every row it added and every address it has yet to insert.
Paid(f) ==
    f.pc = "insert" /\ f.charged > 0 => Cardinality(f.rows) + Cardinality(f.todo) <= f.charged

BInv ==
    /\ TypeOK
    /\ budget.opened <= window
    /\ \A q \in Requests : Paid(req[q])
    /\ \A w \in 1 .. MaxWindows : Covered(w)

\* What is pending changes with one request by the change of its own part.
LEMMA PendingChange ==
    ASSUME NEW f \in [Requests -> RequestRecord], NEW g \in [Requests -> RequestRecord],
           NEW q \in Requests, \A s \in Requests \ {q} : g[s] = f[s], NEW w,
           IsFiniteSet(PendingOf(f, w))
    PROVE  /\ IsFiniteSet(PendingOf(g, w))
           /\ Cardinality(PendingOf(g, w)) \in Nat /\ Cardinality(PendingOf(f, w)) \in Nat
           /\ Own(f, q, w) \in Nat /\ Own(g, q, w) \in Nat
           /\ Own(f, q, w) <= Cardinality(PendingOf(f, w))
           /\ Cardinality(PendingOf(g, w))
                = Cardinality(PendingOf(f, w)) - Own(f, q, w) + Own(g, q, w)
<1> DEFINE rest == {p \in PendingOf(f, w) : p[1] # q}
<1>1. IsFiniteSet(rest) /\ Cardinality(rest) \in Nat
    BY FS_Subset, FS_CardinalityType
<1>2. rest = {p \in PendingOf(g, w) : p[1] # q}
    BY DEF PendingOf
<1>3. ASSUME NEW h \in [Requests -> RequestRecord], rest = {p \in PendingOf(h, w) : p[1] # q}
      PROVE  /\ IsFiniteSet(PendingOf(h, w)) /\ Own(h, q, w) \in Nat
             /\ Cardinality(PendingOf(h, w)) = Cardinality(rest) + Own(h, q, w)
    <2> DEFINE n == Own(h, q, w)
               part == {q} \X (1 .. n)
    <2>1. n \in Nat
        BY DEF Own, RequestRecord
    <2>2. PendingOf(h, w) = part \cup rest
        BY <1>3, <2>1 DEF PendingOf, Own, RequestRecord
    <2>3. part \cap rest = {}
        OBVIOUS
    <2> HIDE DEF n
    <2>4. IsFiniteSet(1 .. n) /\ Cardinality(1 .. n) = n
        BY <2>1, FS_Interval
    <2>5. IsFiniteSet({q}) /\ Cardinality({q}) = 1
        BY FS_Singleton
    <2>6. IsFiniteSet(part) /\ Cardinality(part) = 1 * n
        BY <2>4, <2>5, FS_Product
    <2> HIDE DEF part, rest
    <2>7. IsFiniteSet(part \cup rest)
          /\ Cardinality(part \cup rest) = Cardinality(part) + Cardinality(rest) - Cardinality({})
        BY <1>1, <2>3, <2>6, FS_Union
    <2> QED
        BY <1>1, <2>1, <2>2, <2>6, <2>7, FS_EmptySet DEF n
<1> HIDE DEF rest
<1>4. rest = {p \in PendingOf(f, w) : p[1] # q}
    BY DEF rest
<1> QED
    BY <1>1, <1>2, <1>3, <1>4

LEMMA InitBudget == Init => BInv
<1> SUFFICES ASSUME Init PROVE BInv
    OBVIOUS
<1>1. TypeOK
    BY InitInv DEF IInv
<1>2. \A w : PendingOf(req, w) = {}
    BY DEF Init, Idle, PendingOf
<1>3. IsFiniteSet({}) /\ Cardinality({}) = 0
    BY FS_EmptySet
<1>4. \A w \in 1 .. MaxWindows : made[w] = 0 /\ Bound(w) = 0
    BY RegistryAssumption DEF Init, Bound
<1>5. \A q \in Requests : Paid(req[q])
    BY DEF Init, Idle, Paid
<1>6. budget.opened <= window
    BY DEF Init
<1>7. \A w \in 1 .. MaxWindows : Covered(w)
    BY <1>2, <1>3, <1>4 DEF Covered
<1> QED
    BY <1>1, <1>5, <1>6, <1>7 DEF BInv

\* A step that neither takes checks, makes them nor gives any back.
LEMMA IdleBudget ==
    ASSUME BInv, TypeOK', NEW q \in Requests, \A s \in Requests \ {q} : req'[s] = req[s],
           UNCHANGED <<budget, made>>, window <= window', Paid(req'[q]),
           \A w : Own(req, q, w)' <= Own(req, q, w)
    PROVE  BInv'
<1>1. PICK f, g : f = req /\ g = req'
    OBVIOUS
<1>2. /\ f \in [Requests -> RequestRecord] /\ g \in [Requests -> RequestRecord]
      /\ \A s \in Requests \ {q} : g[s] = f[s]
      /\ \A w : Own(g, q, w) <= Own(f, q, w)
    BY <1>1 DEF BInv, TypeOK
<1>3. ASSUME NEW w \in 1 .. MaxWindows PROVE Covered(w)'
    <2>1. IsFiniteSet(PendingOf(f, w)) /\ made[w] + Cardinality(PendingOf(f, w)) <= Bound(w)
        BY <1>1 DEF BInv, Covered
    <2>2. /\ IsFiniteSet(PendingOf(g, w))
          /\ Cardinality(PendingOf(g, w)) \in Nat /\ Cardinality(PendingOf(f, w)) \in Nat
          /\ Own(f, q, w) \in Nat /\ Own(g, q, w) \in Nat
          /\ Cardinality(PendingOf(g, w))
                = Cardinality(PendingOf(f, w)) - Own(f, q, w) + Own(g, q, w)
        BY <1>2, <2>1, PendingChange
    <2>3. Cardinality(PendingOf(g, w)) <= Cardinality(PendingOf(f, w))
        BY <1>2, <2>2
    <2>4. made[w] \in Nat /\ Bound(w) \in Nat
        BY Facts DEF BInv, Bound
    <2>5. made[w] + Cardinality(PendingOf(g, w)) <= Bound(w)
        BY <2>1, <2>2, <2>3, <2>4
    <2>6. made'[w] = made[w] /\ Bound(w)' = Bound(w)
        BY DEF Bound
    <2> QED
        BY <1>1, <2>2, <2>5, <2>6 DEF Covered
<1>4. budget'.opened <= window'
    BY Facts DEF BInv, TypeOK
<1>5. \A s \in Requests : Paid(req'[s])
    BY DEF BInv
<1> QED
    BY <1>3, <1>4, <1>5 DEF BInv

\* A step of one request, told by what it does to a window that had c checks pending.
LEMMA BudgetChange ==
    ASSUME BInv, TypeOK', NEW q \in Requests, \A s \in Requests \ {q} : req'[s] = req[s],
           budget'.opened <= window', Paid(req'[q]),
           \A w \in 1 .. MaxWindows, c \in Nat :
                Own(req, q, w) <= c /\ made[w] + c <= Bound(w) =>
                    made'[w] + (c - Own(req, q, w) + Own(req, q, w)') <= Bound(w)'
    PROVE  BInv'
<1>1. PICK f, g : f = req /\ g = req'
    OBVIOUS
<1>2. /\ f \in [Requests -> RequestRecord] /\ g \in [Requests -> RequestRecord]
      /\ \A s \in Requests \ {q} : g[s] = f[s]
    BY <1>1 DEF BInv, TypeOK
<1>3. ASSUME NEW w \in 1 .. MaxWindows PROVE Covered(w)'
    <2>1. IsFiniteSet(PendingOf(f, w)) /\ made[w] + Cardinality(PendingOf(f, w)) <= Bound(w)
        BY <1>1 DEF BInv, Covered
    <2>2. /\ IsFiniteSet(PendingOf(g, w)) /\ Cardinality(PendingOf(f, w)) \in Nat
          /\ Own(f, q, w) <= Cardinality(PendingOf(f, w))
          /\ Cardinality(PendingOf(g, w))
                = Cardinality(PendingOf(f, w)) - Own(f, q, w) + Own(g, q, w)
        BY <1>2, <2>1, PendingChange
    <2>3. Own(f, q, w) = Own(req, q, w) /\ Own(g, q, w) = Own(req, q, w)'
        BY <1>1
    <2>4. made'[w] + Cardinality(PendingOf(g, w)) <= Bound(w)'
        BY <2>1, <2>2, <2>3
    <2> QED
        BY <1>1, <2>2, <2>4 DEF Covered
<1>4. \A s \in Requests : Paid(req'[s])
    BY DEF BInv
<1> QED
    BY <1>3, <1>4 DEF BInv

\* What taking n checks leaves: the window's entry, with them in it when they fit.
LEMMA SpentBound ==
    ASSUME BInv, NEW n \in Nat \ {0}, budget' = Spent(n), UNCHANGED window
    PROVE  /\ budget'.opened = window'
           /\ \A w \in 1 .. MaxWindows :
                /\ Bound(w) \in Nat /\ Bound(w)' \in Nat
                /\ Bound(w) <= Bound(w)'
                /\ Fits(n) => Bound(window) + n <= Bound(window)'
<1>1. /\ budget \in [opened : 0 .. MaxWindows, used : 0 .. MaxChecks]
      /\ window \in 1 .. MaxWindows /\ budget.opened <= window
      /\ MaxChecks \in Nat /\ MaxWindows \in Nat
    BY Facts DEF BInv
<1> DEFINE u == IF budget.opened = window THEN budget.used ELSE 0
           v == IF Fits(n) THEN u + n ELSE u
<1>2. u \in 0 .. MaxChecks /\ budget.opened \in 0 .. MaxWindows /\ budget.used \in 0 .. MaxChecks
    BY <1>1
<1>3. Opened = [opened |-> window, used |-> u]
    BY DEF Opened
<1>4. budget' = [opened |-> window, used |-> v]
    BY <1>3 DEF Spent
<1>5. v \in 0 .. MaxChecks /\ u <= v /\ (Fits(n) => v = u + n)
    BY <1>1, <1>2, <1>3 DEF Fits
<1> HIDE DEF u, v
<1>6. budget'.opened = window /\ budget'.used = v /\ window' = window
    BY <1>4
<1>7. ASSUME NEW w \in 1 .. MaxWindows
      PROVE  Bound(w) \in Nat /\ Bound(w)' \in Nat /\ Bound(w) <= Bound(w)'
    <2>1. CASE w = window
        <3>1. Bound(w)' = v
            BY <1>6, <2>1 DEF Bound
        <3>2. Bound(w) = u
            BY <1>1, <1>2, <2>1 DEF Bound, u
        <3> QED
            BY <1>1, <1>2, <1>5, <3>1, <3>2
    <2>2. CASE w # window
        <3>1. Bound(w)' = IF w < window THEN MaxChecks ELSE 0
            BY <1>6, <2>2 DEF Bound
        <3> QED
            BY <1>1, <1>2, <2>2, <3>1 DEF Bound
    <2> QED
        BY <2>1, <2>2
<1>8. ASSUME Fits(n) PROVE Bound(window) + n <= Bound(window)'
    <2>1. Bound(window)' = v
        BY <1>6 DEF Bound
    <2>2. Bound(window) = u
        BY <1>1, <1>2 DEF Bound, u
    <2> QED
        BY <1>5, <1>2, <1>8, <2>1, <2>2
<1> QED
    BY <1>6, <1>7, <1>8

\* What giving n checks back leaves, to whatever window.
LEMMA RefundedBound ==
    ASSUME BInv, NEW n \in Nat, NEW v, budget' = Refunded(n, v), UNCHANGED window
    PROVE  /\ budget'.opened = budget.opened
           /\ \A w \in 1 .. MaxWindows :
                /\ Bound(w) \in Nat /\ Bound(w)' \in Nat
                /\ w # v => Bound(w)' = Bound(w)
                /\ n <= Bound(w) => Bound(w) - n <= Bound(w)'
<1>1. /\ budget \in [opened : 0 .. MaxWindows, used : 0 .. MaxChecks]
      /\ budget.opened \in 0 .. MaxWindows /\ budget.used \in 0 .. MaxChecks
      /\ MaxChecks \in Nat /\ MaxWindows \in Nat
    BY Facts DEF BInv
<1>2. CASE budget.opened # v
    <2>1. budget' = budget
        BY <1>2 DEF Refunded
    <2>2. \A w : Bound(w)' = Bound(w)
        BY <2>1 DEF Bound
    <2>3. \A w \in 1 .. MaxWindows : Bound(w) \in Nat
        BY <1>1 DEF Bound
    <2> QED
        BY <2>1, <2>2, <2>3
<1>3. CASE budget.opened = v
    <2> DEFINE u == IF budget.used > n THEN budget.used - n ELSE 0
    <2>1. budget' = [budget EXCEPT !.used = u]
        BY <1>3 DEF Refunded
    <2>2. u \in Nat /\ (n <= budget.used => budget.used - n <= u)
        BY <1>1
    <2> HIDE DEF u
    <2>3. budget'.opened = budget.opened /\ budget'.used = u
        BY <1>1, <2>1
    <2>4. ASSUME NEW w \in 1 .. MaxWindows, w # v PROVE Bound(w)' = Bound(w) /\ Bound(w) \in Nat
        BY <1>1, <1>3, <2>3, <2>4 DEF Bound
    <2>5. ASSUME NEW w \in 1 .. MaxWindows, w = v
          PROVE  Bound(w)' = u /\ Bound(w) = budget.used
        BY <1>3, <2>3, <2>5 DEF Bound
    <2>6. ASSUME NEW w \in 1 .. MaxWindows
          PROVE  /\ Bound(w) \in Nat /\ Bound(w)' \in Nat
                 /\ w # v => Bound(w)' = Bound(w)
                 /\ n <= Bound(w) => Bound(w) - n <= Bound(w)'
        <3>1. CASE w = v
            BY <1>1, <2>2, <2>5, <3>1
        <3>2. CASE w # v
            <4>1. PICK k : k = Bound(w)
                OBVIOUS
            <4>2. k \in Nat /\ Bound(w)' = k
                BY <2>4, <3>2, <4>1
            <4> QED
                BY <3>2, <4>1, <4>2
        <3> QED
            BY <3>1, <3>2
    <2> QED
        BY <2>3, <2>6
<1> QED
    BY <1>2, <1>3

LEMMA StartPasteBudget ==
    ASSUME BInv, TypeOK', NEW q \in Requests, NEW t \in Tins,
           NEW A \in SUBSET Addresses \ {{}}, NEW trust \in BOOLEAN, StartPaste(q, t, A, trust)
    PROVE  BInv'
<1> USE Facts DEF BInv
<1> DEFINE n == IF trust THEN Cardinality(A) ELSE 0
           x == [Idle EXCEPT !.pc = "insert", !.tin = t, !.todo = A,
                             !.charged = n, !.spentAt = IF n > 0 THEN window ELSE 0]
<1>1. n \in Nat /\ Cardinality(A) \in Nat
    BY FiniteCounts
<1>2. /\ budget' = Spent(n) /\ UNCHANGED <<window, made>> /\ req[q].pc = "idle"
      /\ req' = IF n > 0 /\ ~Fits(n) THEN req ELSE [req EXCEPT ![q] = x]
    BY DEF StartPaste
<1>3. /\ x.pc = "insert" /\ x.charged = n /\ x.rows = {} /\ x.todo = A
      /\ n > 0 => x.spentAt = window
    BY DEF Idle
<1>4. n > 0 => n = Cardinality(A)
    OBVIOUS
<1> HIDE DEF n, x
<1>5. Paid(x)
    BY <1>1, <1>3, <1>4, FS_EmptySet DEF Paid
<1>6. /\ \A s \in Requests \ {q} : req'[s] = req[s]
      /\ Paid(req'[q])
    BY <1>2, <1>5
<1>7. \A w : Own(req, q, w) = 0
    BY <1>2 DEF Own
<1>8. CASE n = 0
    <2>1. UNCHANGED budget
        BY <1>2, <1>8 DEF Spent
    <2>2. req'[q] = x
        BY <1>1, <1>2, <1>8
    <2>3. \A w : Own(req, q, w)' = 0
        BY <1>3, <1>8, <2>2 DEF Own
    <2>4. \A w : Own(req, q, w)' <= Own(req, q, w)
        BY <1>7, <2>3
    <2>5. window <= window' /\ UNCHANGED made
        BY <1>2
    <2> QED
        BY <1>6, <2>1, <2>4, <2>5, IdleBudget
<1>9. CASE n > 0
    <2>1. /\ budget'.opened = window'
          /\ \A w \in 1 .. MaxWindows :
                /\ Bound(w) \in Nat /\ Bound(w)' \in Nat
                /\ Bound(w) <= Bound(w)'
                /\ Fits(n) => Bound(window) + n <= Bound(window)'
        BY <1>1, <1>2, <1>9, SpentBound
    <2>2. ASSUME NEW w \in 1 .. MaxWindows
          PROVE  \/ Own(req, q, w)' = 0
                 \/ Own(req, q, w)' = n /\ w = window /\ Fits(n)
        <3>1. CASE Fits(n)
            <4>1. req'[q] = x
                BY <1>2, <3>1
            <4> QED
                BY <1>3, <1>9, <3>1, <4>1 DEF Own
        <3>2. CASE ~Fits(n)
            <4>1. req' = req
                BY <1>2, <1>9, <3>2
            <4> QED
                BY <1>2, <4>1 DEF Own
        <3> QED
            BY <3>1, <3>2
    <2>3. ASSUME NEW w \in 1 .. MaxWindows, NEW c \in Nat, made[w] + c <= Bound(w)
          PROVE  made'[w] + (c - Own(req, q, w) + Own(req, q, w)') <= Bound(w)'
        <3>1. PICK a, b, o : a = Bound(w) /\ b = Bound(w)' /\ o = Own(req, q, w)'
            OBVIOUS
        <3>2. a \in Nat /\ b \in Nat /\ made[w] \in Nat /\ (o = 0 \/ o = n) /\ a + o <= b
            <4>1. a \in Nat /\ b \in Nat /\ made[w] \in Nat /\ a <= b
                BY <2>1, <3>1
            <4>2. o = 0 \/ (o = n /\ a + n <= b)
                BY <1>2, <2>1, <2>2, <3>1
            <4> QED
                BY <1>1, <4>1, <4>2
        <3>3. made[w] + (c - 0 + o) <= b
            BY <1>1, <2>3, <3>1, <3>2
        <3> QED
            BY <1>2, <1>7, <3>1, <3>3
    <2>4. budget'.opened <= window'
        BY <1>2, <2>1
    <2> QED
        BY <1>6, <2>3, <2>4, BudgetChange
<1> QED
    BY <1>1, <1>8, <1>9

LEMMA StartRecheckBudget ==
    ASSUME BInv, TypeOK', NEW q \in Requests, NEW t \in Tins, NEW R \in SUBSET LiveRows,
           StartRecheck(q, t, R)
    PROVE  BInv'
<1> USE Facts DEF BInv
<1> DEFINE n == Cardinality(R)
           x == [Idle EXCEPT !.pc = "record", !.rows = R,
                             !.flagged = {r \in R : row[r].trust = "flagged"}]
<1>1. n \in Nat \ {0}
    <2>1. IsFiniteSet(R) /\ R # {}
        BY RegistryAssumption, FS_Subset DEF StartRecheck, LiveRows
    <2> QED
        BY <2>1, FS_EmptySet, FS_CardinalityType
<1>2. /\ budget' = Spent(n) /\ UNCHANGED window /\ req[q].pc = "idle"
      /\ IF Fits(n) THEN made' = [made EXCEPT ![window] = @ + n] /\ req' = [req EXCEPT ![q] = x]
         ELSE UNCHANGED <<made, req>>
    BY DEF StartRecheck
<1>3. x.pc = "record"
    BY DEF Idle
<1> HIDE DEF n, x
<1>4. /\ \A s \in Requests \ {q} : req'[s] = req[s]
      /\ req'[q].pc # "insert"
    BY <1>2, <1>3
<1>5. \A w : Own(req, q, w) = 0 /\ Own(req, q, w)' = 0
    BY <1>2, <1>4 DEF Own
<1>6. /\ budget'.opened = window'
      /\ \A w \in 1 .. MaxWindows :
            /\ Bound(w) \in Nat /\ Bound(w)' \in Nat
            /\ Bound(w) <= Bound(w)'
            /\ Fits(n) => Bound(window) + n <= Bound(window)'
    BY <1>1, <1>2, SpentBound
<1>7. ASSUME NEW w \in 1 .. MaxWindows, NEW c \in Nat, made[w] + c <= Bound(w)
      PROVE  made'[w] + (c - Own(req, q, w) + Own(req, q, w)') <= Bound(w)'
    <2>1. PICK a, b, m, k : a = Bound(w) /\ b = Bound(w)' /\ m = made[w] /\ k = made'[w]
        OBVIOUS
    <2>2. a \in Nat /\ b \in Nat /\ m \in Nat /\ m + c <= a /\ a <= b
        BY <1>6, <1>7, <2>1
    <2>3. k = m \/ (k = m + n /\ a + n <= b)
        BY <1>2, <1>6, <2>1
    <2>4. k + (c - 0 + 0) <= b
        BY <1>1, <2>2, <2>3
    <2> QED
        BY <1>5, <2>1, <2>4
<1>8. budget'.opened <= window' /\ Paid(req'[q])
    BY <1>2, <1>4, <1>6 DEF Paid
<1> QED
    BY <1>4, <1>7, <1>8, BudgetChange

LEMMA NoTinBudget ==
    ASSUME BInv, TypeOK', NEW q \in Requests, NoTin(q)
    PROVE  BInv'
<1> USE Facts DEF BInv
<1>1. /\ req[q] \in RequestRecord /\ req[q].charged \in Nat /\ req[q].pc = "insert"
      /\ UNCHANGED <<window, made>> /\ req' = [req EXCEPT ![q] = Idle]
      /\ budget' = IF req[q].charged > 0 THEN Refunded(req[q].charged, req[q].spentAt)
                   ELSE budget
    BY DEF NoTin, RequestRecord
<1>2. req'[q] = Idle /\ Idle.pc = "idle" /\ \A s \in Requests \ {q} : req'[s] = req[s]
    BY <1>1 DEF Idle
<1>3. Paid(req'[q]) /\ \A w : Own(req, q, w)' = 0
    BY <1>2 DEF Paid, Own
<1>4. PICK n, v : n = req[q].charged /\ v = req[q].spentAt
    OBVIOUS
<1>5. \A w : Own(req, q, w) = IF w = v THEN n ELSE 0
    BY <1>1, <1>4 DEF Own
<1>6. CASE n = 0
    <2>1. UNCHANGED <<budget, made>> /\ window <= window'
        BY <1>1, <1>4, <1>6
    <2>2. ASSUME NEW w PROVE Own(req, q, w)' <= Own(req, q, w)
        <3>1. Own(req, q, w)' = 0 /\ Own(req, q, w) = 0
            BY <1>3, <1>5, <1>6
        <3> QED
            BY <3>1
    <2> QED
        BY <1>2, <1>3, <2>1, <2>2, IdleBudget
<1>7. CASE n > 0
    <2>1. /\ budget'.opened = budget.opened
          /\ \A w \in 1 .. MaxWindows :
                /\ Bound(w) \in Nat /\ Bound(w)' \in Nat
                /\ w # v => Bound(w)' = Bound(w)
                /\ n <= Bound(w) => Bound(w) - n <= Bound(w)'
        BY <1>1, <1>4, <1>7, RefundedBound
    <2>2. ASSUME NEW w \in 1 .. MaxWindows, NEW c \in Nat, Own(req, q, w) <= c,
                 made[w] + c <= Bound(w)
          PROVE  made'[w] + (c - Own(req, q, w) + Own(req, q, w)') <= Bound(w)'
        <3>1. PICK a, b, m, o : a = Bound(w) /\ b = Bound(w)' /\ m = made[w] /\ o = Own(req, q, w)
            OBVIOUS
        <3>2. a \in Nat /\ b \in Nat /\ m \in Nat /\ n \in Nat /\ m + c <= a /\ o <= c
            BY <1>1, <1>4, <2>1, <2>2, <3>1
        <3>3. (o = 0 /\ b = a) \/ (o = n /\ (n <= a => a - n <= b))
            BY <1>5, <2>1, <3>1
        <3>4. m + (c - o + 0) <= b
            BY <3>2, <3>3
        <3> QED
            BY <1>1, <1>3, <3>1, <3>4
    <2>3. budget'.opened <= window'
        BY <1>1, <2>1
    <2> QED
        BY <1>2, <1>3, <2>2, <2>3, BudgetChange
<1> QED
    BY <1>1, <1>4, <1>6, <1>7

LEMMA EndInsertsBudget ==
    ASSUME BInv, TypeOK', NEW q \in Requests, EndInserts(q)
    PROVE  BInv'
<1> USE Facts DEF BInv
<1>1. PICK n, k, v : n = req[q].charged /\ k = Cardinality(req[q].rows) /\ v = req[q].spentAt
    OBVIOUS
<1>2. req[q] \in RequestRecord /\ n \in Nat /\ k \in Nat
    <2>1. req[q] \in RequestRecord /\ req[q].rows \in SUBSET Rows
        BY DEF RequestRecord
    <2> QED
        BY <1>1, <2>1, FiniteCounts DEF RequestRecord
<1>3. /\ req[q].pc = "insert" /\ UNCHANGED window
      /\ budget' = IF n > k THEN Refunded(n - k, v) ELSE budget
      /\ IF n > 0 /\ k > 0 THEN made' = [made EXCEPT ![v] = @ + k] ELSE UNCHANGED made
      /\ \A s \in Requests \ {q} : req'[s] = req[s]
      /\ req'[q].pc # "insert"
    <2>1. /\ req[q].pc = "insert" /\ UNCHANGED window
          /\ budget' = IF n > k THEN Refunded(n - k, v) ELSE budget
          /\ IF n > 0 /\ k > 0 THEN made' = [made EXCEPT ![v] = @ + k] ELSE UNCHANGED made
        BY <1>1 DEF EndInserts
    <2>2. PICK y \in {Idle, [Idle EXCEPT !.pc = "record", !.rows = req[q].rows]} :
            req' = [req EXCEPT ![q] = y]
        BY DEF EndInserts
    <2>3. y.pc # "insert"
        <3>1. CASE y = Idle
            BY <3>1 DEF Idle
        <3>2. CASE y = [Idle EXCEPT !.pc = "record", !.rows = req[q].rows]
            BY <3>2 DEF Idle
        <3> QED
            BY <3>1, <3>2
    <2> QED
        BY <2>1, <2>2, <2>3
<1>4. n > 0 => k <= n
    <2>1. ASSUME n > 0 PROVE k + Cardinality({}) <= n
        BY <1>1, <1>3, <2>1 DEF Paid, EndInserts
    <2> QED
        BY <1>2, <2>1, FS_EmptySet
<1>5. Paid(req'[q]) /\ \A w : Own(req, q, w)' = 0
    BY <1>3 DEF Paid, Own
<1>6. \A w : Own(req, q, w) = IF w = v THEN n ELSE 0
    BY <1>1, <1>3 DEF Own
<1>7. \A w \in 1 .. MaxWindows : made'[w] = made[w] \/ (w = v /\ n > 0 /\ made'[w] = made[w] + k)
    BY <1>3
<1>8. CASE ~(n > k)
    <2>1. UNCHANGED budget /\ budget'.opened <= window'
        BY <1>3, <1>8
    <2>2. \A w \in 1 .. MaxWindows : Bound(w)' = Bound(w) /\ Bound(w) \in Nat
        BY <2>1 DEF Bound
    <2>3. ASSUME NEW w \in 1 .. MaxWindows, NEW c \in Nat, Own(req, q, w) <= c,
                 made[w] + c <= Bound(w)
          PROVE  made'[w] + (c - Own(req, q, w) + Own(req, q, w)') <= Bound(w)'
        <3>1. PICK a, m, j, o : a = Bound(w) /\ m = made[w] /\ j = made'[w] /\ o = Own(req, q, w)
            OBVIOUS
        <3>2. a \in Nat /\ m \in Nat /\ m + c <= a /\ o <= c /\ o \in {0, n}
            BY <1>6, <2>2, <2>3, <3>1
        <3>3. j = m \/ (o = n /\ n > 0 /\ j = m + k)
            BY <1>6, <1>7, <3>1
        <3>4. j + (c - o + 0) <= a
            BY <1>2, <1>4, <3>2, <3>3
        <3> QED
            BY <1>5, <2>2, <3>1, <3>4
    <2> QED
        BY <1>3, <1>5, <2>1, <2>3, BudgetChange
<1>9. CASE n > k
    <2>1. /\ budget'.opened = budget.opened
          /\ \A w \in 1 .. MaxWindows :
                /\ Bound(w) \in Nat /\ Bound(w)' \in Nat
                /\ w # v => Bound(w)' = Bound(w)
                /\ n - k <= Bound(w) => Bound(w) - (n - k) <= Bound(w)'
        <3>1. n - k \in Nat /\ budget' = Refunded(n - k, v)
            BY <1>2, <1>3, <1>9
        <3> QED
            BY <1>3, <3>1, RefundedBound
    <2>2. ASSUME NEW w \in 1 .. MaxWindows, NEW c \in Nat, Own(req, q, w) <= c,
                 made[w] + c <= Bound(w)
          PROVE  made'[w] + (c - Own(req, q, w) + Own(req, q, w)') <= Bound(w)'
        <3>1. PICK a, b, m, j, o : /\ a = Bound(w) /\ b = Bound(w)' /\ m = made[w]
                                   /\ j = made'[w] /\ o = Own(req, q, w)
            OBVIOUS
        <3>2. a \in Nat /\ b \in Nat /\ m \in Nat /\ m + c <= a /\ o <= c
            BY <2>1, <2>2, <3>1
        <3>3. \/ o = 0 /\ b = a /\ j = m
              \/ o = n /\ (n - k <= a => a - (n - k) <= b) /\ (j = m \/ j = m + k)
            BY <1>6, <1>7, <2>1, <3>1
        <3>4. j + (c - o + 0) <= b
            BY <1>2, <1>9, <3>2, <3>3
        <3> QED
            BY <1>5, <3>1, <3>4
    <2>3. budget'.opened <= window'
        BY <1>3, <2>1
    <2> QED
        BY <1>3, <1>5, <2>2, <2>3, BudgetChange
<1> QED
    BY <1>8, <1>9

\* The insert of one of a paste's addresses, or its skip, leaves what it has paid for covered.
LEMMA InsertPlaceBudget ==
    ASSUME BInv, TypeOK', NEW q \in Requests, NEW a \in req[q].todo, NEW r \in Rows,
           InsertPlace(q, a, r)
    PROVE  BInv'
<1> USE Facts DEF BInv
<1> DEFINE x == [req[q] EXCEPT !.todo = @ \ {a}, !.rows = @ \cup {r}]
<1>1. req[q] \in RequestRecord /\ req[q].todo \in SUBSET Addresses /\ req[q].rows \in SUBSET Rows
    BY DEF RequestRecord
<1>2. req'[q] = x /\ \A s \in Requests \ {q} : req'[s] = req[s]
    BY DEF InsertPlace
<1>3. /\ x.pc = req[q].pc /\ x.charged = req[q].charged /\ x.spentAt = req[q].spentAt
      /\ x.todo = req[q].todo \ {a} /\ x.rows = req[q].rows \cup {r}
    BY <1>1 DEF RequestRecord
<1> HIDE DEF x
<1>4. IsFiniteSet(req[q].todo) /\ IsFiniteSet(req[q].rows)
    BY <1>1, RegistryAssumption, FS_Subset
<1>5. Cardinality(x.rows) + Cardinality(x.todo) <= Cardinality(req[q].rows) + Cardinality(req[q].todo)
    <2>1. Cardinality(x.todo) = Cardinality(req[q].todo) - 1
        <3>1. Cardinality(req[q].todo \ {a}) = Cardinality(req[q].todo) - 1
            BY <1>4, FS_RemoveElement
        <3> QED
            BY <1>3, <3>1
    <2>2. \/ Cardinality(x.rows) = Cardinality(req[q].rows)
          \/ Cardinality(x.rows) = Cardinality(req[q].rows) + 1
        <3>1. \/ Cardinality(req[q].rows \cup {r}) = Cardinality(req[q].rows)
              \/ Cardinality(req[q].rows \cup {r}) = Cardinality(req[q].rows) + 1
            BY <1>4, FS_AddElement
        <3> QED
            BY <1>3, <3>1
    <2>3. Cardinality(req[q].todo) \in Nat /\ Cardinality(req[q].rows) \in Nat
        BY <1>4, FS_CardinalityType
    <2> QED
        BY <2>1, <2>2, <2>3
<1>6. Paid(x)
    <2>1. /\ Cardinality(x.rows) \in Nat /\ Cardinality(x.todo) \in Nat
          /\ Cardinality(req[q].todo) \in Nat /\ Cardinality(req[q].rows) \in Nat
          /\ req[q].charged \in Nat
        <3>1. x.todo \in SUBSET Addresses /\ x.rows \in SUBSET Rows
            BY <1>1, <1>3
        <3> QED
            BY <1>1, <3>1, FiniteCounts DEF RequestRecord
    <2>2. Paid(req[q])
        OBVIOUS
    <2> QED
        BY <1>3, <1>5, <2>1, <2>2 DEF Paid
<1>7. \A w : Own(req, q, w)' <= Own(req, q, w)
    <2>1. ASSUME NEW w PROVE Own(req, q, w) \in Nat /\ Own(req, q, w)' = Own(req, q, w)
        BY <1>1, <1>2, <1>3 DEF Own, RequestRecord
    <2>2. ASSUME NEW w PROVE Own(req, q, w)' <= Own(req, q, w)
        <3>1. PICK m, n : m = Own(req, q, w) /\ n = Own(req, q, w)'
            OBVIOUS
        <3>2. m \in Nat /\ n = m
            BY <2>1, <3>1
        <3> QED
            BY <3>1, <3>2
    <2> QED
        BY <2>2
<1>8. UNCHANGED <<budget, made>> /\ window <= window'
    BY DEF InsertPlace
<1> QED
    BY <1>2, <1>6, <1>7, <1>8, IdleBudget

LEMMA SkipPlaceBudget ==
    ASSUME BInv, TypeOK', NEW q \in Requests, NEW a \in req[q].todo, SkipPlace(q, a)
    PROVE  BInv'
<1> USE Facts DEF BInv
<1>1. req[q] \in RequestRecord /\ req[q].todo \in SUBSET Addresses /\ req[q].rows \in SUBSET Rows
    BY DEF RequestRecord
<1>2. PICK b : req' = [req EXCEPT ![q].todo = @ \ {a}, ![q].full = b]
    BY DEF SkipPlace
<1>3. /\ req'[q].pc = req[q].pc /\ req'[q].charged = req[q].charged
      /\ req'[q].spentAt = req[q].spentAt
      /\ req'[q].todo = req[q].todo \ {a} /\ req'[q].rows = req[q].rows
      /\ \A s \in Requests \ {q} : req'[s] = req[s]
    BY <1>1, <1>2 DEF RequestRecord
<1>4. Paid(req'[q])
    <2>1. IsFiniteSet(req[q].todo)
        BY <1>1, RegistryAssumption, FS_Subset
    <2>2. Cardinality(req[q].todo \ {a}) = Cardinality(req[q].todo) - 1
        BY <2>1, FS_RemoveElement
    <2>3. /\ Cardinality(req[q].todo) \in Nat /\ Cardinality(req[q].rows) \in Nat
          /\ req[q].charged \in Nat
        BY <1>1, FiniteCounts DEF RequestRecord
    <2>4. Paid(req[q])
        OBVIOUS
    <2> QED
        BY <1>3, <2>2, <2>3, <2>4 DEF Paid
<1>5. \A w : Own(req, q, w)' <= Own(req, q, w)
    <2>1. ASSUME NEW w PROVE Own(req, q, w) \in Nat /\ Own(req, q, w)' = Own(req, q, w)
        BY <1>1, <1>3 DEF Own, RequestRecord
    <2>2. ASSUME NEW w PROVE Own(req, q, w)' <= Own(req, q, w)
        <3>1. PICK m, n : m = Own(req, q, w) /\ n = Own(req, q, w)'
            OBVIOUS
        <3>2. m \in Nat /\ n = m
            BY <2>1, <3>1
        <3> QED
            BY <3>1, <3>2
    <2> QED
        BY <2>2
<1>6. UNCHANGED <<budget, made>> /\ window <= window'
    BY DEF SkipPlace
<1> QED
    BY <1>3, <1>4, <1>5, <1>6, IdleBudget

\* A step after which the request has nothing pending.
LEMMA RestBudget ==
    ASSUME BInv, TypeOK', NEW q \in Requests, \A s \in Requests \ {q} : req'[s] = req[s],
           UNCHANGED <<window, budget, made>>,
           req'[q].pc # "insert" \/ req'[q].charged = 0
    PROVE  BInv'
<1> USE Facts DEF BInv
<1>1. Paid(req'[q])
    BY DEF Paid
<1>2. ASSUME NEW w PROVE Own(req, q, w)' <= Own(req, q, w)
    <2>1. req[q] \in RequestRecord
        OBVIOUS
    <2>2. Own(req, q, w) \in Nat /\ Own(req, q, w)' = 0
        BY <2>1 DEF Own, RequestRecord
    <2>3. PICK m, n : m = Own(req, q, w) /\ n = Own(req, q, w)'
        OBVIOUS
    <2>4. m \in Nat /\ n = 0
        BY <2>2, <2>3
    <2> QED
        BY <2>3, <2>4
<1>3. window <= window'
    OBVIOUS
<1> QED
    BY <1>1, <1>2, <1>3, IdleBudget

LEMMA PlaceBudget ==
    ASSUME BInv, TypeOK', NEW q \in Requests, PlaceStep(q)
    PROVE  BInv'
<1>1. ASSUME NEW t \in Tins, NEW a \in Addresses, StartAddWallet(q, t, a) PROVE BInv'
    BY <1>1, RestBudget DEF StartAddWallet, Idle
<1>2. ASSUME NEW t \in Tins, NEW A \in SUBSET Addresses \ {{}}, NEW trust \in BOOLEAN,
             StartPaste(q, t, A, trust)
      PROVE  BInv'
    BY <1>2, StartPasteBudget
<1>3. ASSUME NEW a \in req[q].todo, NEW r \in Rows, InsertPlace(q, a, r) PROVE BInv'
    BY <1>3, InsertPlaceBudget
<1>4. ASSUME NEW a \in req[q].todo, SkipPlace(q, a) PROVE BInv'
    BY <1>4, SkipPlaceBudget
<1>5. CASE NoTin(q) \/ EndInserts(q)
    BY <1>5, NoTinBudget, EndInsertsBudget
<1> QED
    BY <1>1, <1>2, <1>3, <1>4, <1>5 DEF PlaceStep

LEMMA BudgetStep ==
    ASSUME BInv, TypeOK', [Next]_vars
    PROVE  BInv'
<1> USE Facts DEF BInv
<1>0. \A s \in Requests : req[s] \in RequestRecord
    OBVIOUS
<1>1. CASE UNCHANGED <<req, budget, made>> /\ window <= window'
    <2>1. \A w : Bound(w)' = Bound(w)
        BY <1>1 DEF Bound
    <2>2. \A w \in 1 .. MaxWindows : Covered(w)'
        BY <1>1, <2>1 DEF Covered
    <2>3. budget'.opened <= window'
        BY <1>1 DEF TypeOK
    <2> QED
        BY <1>1, <2>2, <2>3
<1>2. CASE NextWindow \/ UNCHANGED vars \/ (\E t \in Tins : RemoveTin(t))
           \/ (\E r \in Rows : RemovePlace(r))
    BY <1>1, <1>2 DEF NextWindow, RemoveTin, RemovePlace, vars
<1>3. ASSUME NEW q \in Requests, AgentStep(q) PROVE BInv'
    <2>1. UNCHANGED <<window, budget, made>> /\ \A s \in Requests \ {q} : req'[s] = req[s]
        BY <1>3 DEF AgentStep, StartCreate, InsertTin, StartRename, StartRelink, UpdateTin
    <2>2. req'[q].pc # "insert"
        <3>1. ASSUME NEW l \in Labels, NEW k \in Keys \cup {None}, StartCreate(q, l, k)
              PROVE  req'[q].pc = "create"
            BY <3>1 DEF StartCreate, Idle
        <3>2. ASSUME NEW t \in Tins, NEW l \in Labels, StartRename(q, t, l)
              PROVE  req'[q].pc = "rename"
            BY <3>2 DEF StartRename, Idle
        <3>3. ASSUME NEW t \in Tins, NEW k \in Keys \cup {None}, StartRelink(q, t, k)
              PROVE  req'[q].pc = "relink"
            BY <3>3 DEF StartRelink, Idle
        <3>4. CASE (\E t \in Tins : InsertTin(q, t)) \/ UpdateTin(q)
            BY <3>4 DEF InsertTin, UpdateTin, Idle
        <3> QED
            BY <1>3, <3>1, <3>2, <3>3, <3>4 DEF AgentStep
    <2> QED
        BY <2>1, <2>2, RestBudget
<1>4. ASSUME NEW q \in Requests, PlaceStep(q) PROVE BInv'
    BY <1>4, PlaceBudget
<1>5. ASSUME NEW q \in Requests, CheckStep(q) PROVE BInv'
    <2>1. ASSUME NEW r \in req[q].rows, NEW result \in Results, RecordTrust(q, r, result)
          PROVE  BInv'
        <3>1. req'[q] = Idle \/ req'[q] = [req[q] EXCEPT !.rows = req[q].rows \ {r}]
            BY <2>1 DEF RecordTrust
        <3>2. req'[q].pc # "insert"
            BY <1>0, <2>1, <3>1 DEF RecordTrust, Idle, RequestRecord
        <3>3. UNCHANGED <<window, budget, made>> /\ \A s \in Requests \ {q} : req'[s] = req[s]
            BY <2>1 DEF RecordTrust
        <3> QED
            BY <3>2, <3>3, RestBudget
    <2> QED
        BY <1>5, <2>1, StartRecheckBudget DEF CheckStep
<1>6. ASSUME NEW q \in Requests, RequestFails(q) PROVE BInv'
    BY <1>6, RestBudget DEF RequestFails, Idle
<1> QED
    BY <1>2, <1>3, <1>4, <1>5, <1>6 DEF Next

\* The checks paid for in one window are within its budget, however many requests run at once
\* and however late they make them or give them back.
THEOREM BudgetIsHeld == Spec => []BudgetHeld
<1>1. BInv => BudgetHeld
    <2> SUFFICES ASSUME BInv, NEW w \in 1 .. MaxWindows PROVE made[w] <= MaxChecks
        BY DEF BudgetHeld
    <2>1. made[w] \in Nat /\ Bound(w) \in 0 .. MaxChecks
        BY Facts DEF BInv, Bound
    <2>2. Cardinality(PendingOf(req, w)) \in Nat
          /\ made[w] + Cardinality(PendingOf(req, w)) <= Bound(w)
        BY FS_CardinalityType DEF BInv, Covered
    <2> QED
        BY <2>1, <2>2, Facts DEF BInv
<1>2. BInv /\ TypeOK' /\ [Next]_vars => BInv'
    BY BudgetStep
<1> QED
    BY <1>1, <1>2, InitBudget, RegistryTypes, PTL DEF Spec
=============================================================================
