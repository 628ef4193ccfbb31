-------------------------- MODULE DigestClaimProofs ---------------------------
(***************************************************************************)
(* Proofs about DigestClaim, for any number of runs, cadences and days,    *)
(* whatever the owner saves and however long runs last: a digest that no   *)
(* other was claimed over goes out in time once, and a key held as sent    *)
(* was sent, is held by a run, was left by one that ended, or was put back *)
(* by one that had listed it while another held it.                        *)
(***************************************************************************)
EXTENDS DigestClaim, TLAPS

RunRecord ==
    [pc : {"idle", "list", "count", "claim", "send", "release"},
     today : 0 .. MaxDay, cadence : Cadences, last : Keys \cup {None}, heldThen : BOOLEAN]

\* A run under way has a day, and a cadence once it has listed the account.
Begun(x) ==
    /\ x.pc = "idle" \/ x.today > 0
    /\ x.pc \in {"idle", "list"} \/ x.cadence # "off"

KeyFor(x) == KeyOn(x.cadence, x.today)

Holding(x) == x.pc \in {"send", "release"}

\* A key held as sent that needs no holder.
Settled(k) == mails[k] > 0 \/ k \in lost \/ k \in restored

\* While no other key was claimed over it, a key has one holder or one email, and is the last one.
OneClaim ==
    \A k \in Keys \ replaced :
        /\ mails[k] > 0 =>
              /\ mails[k] = 1
              /\ settings.last = k
              /\ \A r \in Runs : ~Holds(r, k)
        /\ \A r \in Runs : Holds(r, k) =>
              /\ settings.last = k
              /\ \A q \in Runs : Holds(q, k) => q = r

\* What a run would put back it listed while nobody held it, and it needed no holder then.
KnownLast(x) ==
    x.pc \in {"count", "claim", "send", "release"} /\ ~x.heldThen =>
        \A k \in Keys : x.last = k => Settled(k)

IInv ==
    /\ TypeOK
    /\ OneClaim
    /\ \A r \in Runs : KnownLast(run[r])
    /\ KeyForDigest

LEMMA KeyIsKey ==
    ASSUME NEW x \in RunRecord, Begun(x), x.pc \notin {"idle", "list"}
    PROVE  KeyFor(x) \in Keys
<1>1. x.cadence \in Cadences \ {"off"} /\ x.today \in 1 .. MaxDay
    BY DigestAssumption DEF RunRecord, Begun
<1> QED
    BY <1>1 DEF Keys, KeyFor

LEMMA RunFacts ==
    ASSUME TypeOK, NEW r \in Runs
    PROVE  /\ run \in [Runs -> RunRecord] /\ run[r] \in RunRecord /\ Begun(run[r])
           /\ KeyOf(r) = KeyFor(run[r])
           /\ \A k : Holds(r, k) <=> Holding(run[r]) /\ KeyFor(run[r]) = k
    BY DEF TypeOK, RunRecord, Begun, KeyOf, KeyFor, Holds, Holding

LEMMA IdleFacts ==
    /\ IdleRun \in RunRecord /\ Begun(IdleRun) /\ IdleRun.pc = "idle" /\ ~Holding(IdleRun)
    BY DigestAssumption DEF IdleRun, RunRecord, Begun, Holding

LEMMA TypeInit == Init => TypeOK
<1>1. MaxDay \in Nat \ {0} /\ "off" \in Cadences
    BY DigestAssumption
<1> QED
    BY <1>1 DEF Init, TypeOK, IdleRun

LEMMA IInit == Init => IInv
<1> SUFFICES ASSUME Init PROVE IInv
    OBVIOUS
<1>1. TypeOK
    BY TypeInit
<1>2. OneClaim /\ KeyForDigest
    BY NoneAssumption DEF Init, OneClaim, KeyForDigest, IdleRun, Holds
<1>3. \A r \in Runs : KnownLast(run[r])
    BY DEF Init, IdleRun, KnownLast
<1> QED
    BY <1>1, <1>2, <1>3 DEF IInv
-----------------------------------------------------------------------------
(* The types. *)

\* A run that changes, alone, to a record that fits, with whatever else it changes.
LEMMA TypeRunChange ==
    ASSUME TypeOK, NEW r \in Runs, NEW x \in RunRecord, Begun(x), run' = [run EXCEPT ![r] = x],
           UNCHANGED today, settings' \in [cadence : Cadences, last : Keys \cup {None}],
           mails' \in [Keys -> Nat],
           late' \subseteq Keys, lost' \subseteq Keys, replaced' \subseteq Keys, restored' \subseteq Keys
    PROVE  TypeOK'
<1>1. run' \in [Runs -> RunRecord]
    BY RunFacts
<1>2. \A q \in Runs : Begun(run'[q])
    BY RunFacts
<1> QED
    BY <1>1, <1>2 DEF TypeOK, RunRecord, Begun

\* What each step makes of the run.
LEMMA StepRecord ==
    ASSUME TypeOK, NEW r \in Runs, RunStep(r)
    PROVE  \E x \in RunRecord :
              /\ Begun(x)
              /\ run' = [run EXCEPT ![r] = x]
              /\ \/ x = IdleRun
                 \/ StartRun(r) /\ x = [IdleRun EXCEPT !.pc = "list", !.today = today]
                 \/ ListAccount(r) /\ x = Listed(r) /\ settings.cadence # "off"
                 \/ ReadCounts(r) /\ x = [run[r] EXCEPT !.pc = "claim"]
                 \/ ClaimDigest(r) /\ x = [run[r] EXCEPT !.pc = "send"] /\ Claim(r)
                 \/ SendFails(r) /\ x = [run[r] EXCEPT !.pc = "release"]
<1>1. /\ run \in [Runs -> RunRecord] /\ run[r] \in RunRecord /\ Begun(run[r])
      /\ settings.cadence \in Cadences /\ settings.last \in Keys \cup {None}
      /\ today \in 1 .. MaxDay /\ MaxDay \in Nat
    BY RunFacts, DigestAssumption DEF TypeOK
<1>2. CASE StartRun(r)
    <2> DEFINE x == [IdleRun EXCEPT !.pc = "list", !.today = today]
    <2>1. x.pc = "list" /\ x.today = today
        BY DEF IdleRun
    <2>2. today \in 0 .. MaxDay /\ "off" \in Cadences
        BY <1>1, DigestAssumption
    <2>3. PICK y \in RunRecord : y = IdleRun
        BY IdleFacts
    <2>4. [y EXCEPT !.pc = "list", !.today = today] \in RunRecord
        BY <2>2 DEF RunRecord
    <2>5. x \in RunRecord /\ x.pc = "list" /\ x.today = today
        BY <2>1, <2>3, <2>4
    <2>6. Begun(x)
        BY <1>1, <2>5 DEF Begun
    <2> QED
        BY <1>2, <2>5, <2>6 DEF StartRun
<1>3. CASE ListAccount(r)
    <2>1. CASE settings.cadence = "off"
        BY <1>3, <2>1, IdleFacts DEF ListAccount
    <2>2. CASE settings.cadence # "off"
        <3>1. PICK b \in BOOLEAN : b = (\E q \in Runs : Holds(q, settings.last))
            OBVIOUS
        <3>2. Listed(r) = [run[r] EXCEPT !.pc = "count", !.cadence = settings.cadence,
                                         !.last = settings.last, !.heldThen = b]
            BY <3>1 DEF Listed
        <3>3. Listed(r) \in RunRecord /\ Listed(r).pc = "count"
              /\ Listed(r).today = run[r].today /\ Listed(r).cadence = settings.cadence
            BY <1>1, <3>2 DEF RunRecord
        <3>4. Begun(Listed(r))
            BY <1>1, <1>3, <2>2, <3>3 DEF Begun, ListAccount
        <3> QED
            BY <1>3, <2>2, <3>3, <3>4 DEF ListAccount
    <2> QED
        BY <2>1, <2>2
<1>4. CASE ReadCounts(r)
    <2> DEFINE x == [run[r] EXCEPT !.pc = "claim"]
    <2>1. x \in RunRecord /\ Begun(x)
        BY <1>1, <1>4 DEF RunRecord, Begun, ReadCounts
    <2> QED
        BY <1>1, <1>4, <2>1 DEF ReadCounts
<1>5. CASE ClaimDigest(r)
    <2> DEFINE x == [run[r] EXCEPT !.pc = "send"]
    <2>1. x \in RunRecord /\ Begun(x)
        BY <1>1, <1>5 DEF RunRecord, Begun, ClaimDigest
    <2>2. CASE Claim(r)
        <3>1. run' = [run EXCEPT ![r] = x]
            BY <1>1, <2>2 DEF Claim
        <3> QED
            BY <1>5, <2>1, <2>2, <3>1
    <2> QED
        BY <1>5, <2>2, IdleFacts DEF ClaimDigest, GoIdle
<1>6. CASE SendFails(r)
    <2> DEFINE x == [run[r] EXCEPT !.pc = "release"]
    <2>1. x \in RunRecord /\ Begun(x)
        BY <1>1, <1>6 DEF RunRecord, Begun, SendFails
    <2> QED
        BY <1>1, <1>6, <2>1 DEF SendFails
<1>7. CASE SkipAccount(r) \/ SendDigest(r) \/ ReleaseDigest(r) \/ RunEnds(r)
    BY <1>7, IdleFacts DEF SkipAccount, SendDigest, ReleaseDigest, RunEnds, GoIdle
<1> QED
    BY <1>2, <1>3, <1>4, <1>5, <1>6, <1>7 DEF RunStep

LEMMA TypeRun ==
    ASSUME TypeOK, NEW r \in Runs, RunStep(r)
    PROVE  TypeOK'
<1>1. PICK x \in RunRecord : Begun(x) /\ run' = [run EXCEPT ![r] = x]
    BY StepRecord
<1>2. /\ settings \in [cadence : Cadences, last : Keys \cup {None}]
      /\ mails \in [Keys -> Nat] /\ run[r].last \in Keys \cup {None}
      /\ late \subseteq Keys /\ lost \subseteq Keys /\ replaced \subseteq Keys /\ restored \subseteq Keys
    BY DEF TypeOK
<1>3. UNCHANGED today
    BY DEF RunStep, StartRun, ListAccount, ReadCounts, SkipAccount, ClaimDigest, SendDigest,
        SendFails, ReleaseDigest, RunEnds
<1>4. run[r].pc \notin {"idle", "list"} => KeyOf(r) \in Keys
    BY KeyIsKey, RunFacts
<1>5. settings' \in [cadence : Cadences, last : Keys \cup {None}]
    <2>1. CASE ClaimDigest(r)
        BY <1>2, <1>4, <2>1 DEF ClaimDigest, Claim
    <2>2. CASE ReleaseDigest(r)
        BY <1>2, <2>2 DEF ReleaseDigest
    <2> QED
        BY <1>2, <2>1, <2>2 DEF RunStep, StartRun, ListAccount, ReadCounts, SkipAccount,
            SendDigest, SendFails, RunEnds
<1>6. mails' \in [Keys -> Nat]
    <2>1. CASE SendDigest(r)
        <3>1. KeyOf(r) \in Keys /\ mails[KeyOf(r)] + 1 \in Nat
            BY <1>2, <1>4, <2>1 DEF SendDigest
        <3> QED
            BY <1>2, <2>1, <3>1 DEF SendDigest
    <2> QED
        BY <1>2, <2>1 DEF RunStep, StartRun, ListAccount, ReadCounts, SkipAccount, ClaimDigest,
            SendFails, ReleaseDigest, RunEnds
<1>7. late' \subseteq Keys
    BY <1>2, <1>4 DEF RunStep, StartRun, ListAccount, ReadCounts, SkipAccount, ClaimDigest,
        SendDigest, SendFails, ReleaseDigest, RunEnds
<1>8. lost' \subseteq Keys
    BY <1>2 DEF RunStep, StartRun, ListAccount, ReadCounts, SkipAccount, ClaimDigest,
        SendDigest, SendFails, ReleaseDigest, RunEnds
<1>9. replaced' \subseteq Keys
    BY <1>2 DEF RunStep, StartRun, ListAccount, ReadCounts, SkipAccount, ClaimDigest, Claim,
        SendDigest, SendFails, ReleaseDigest, RunEnds
<1>10. restored' \subseteq Keys
    BY <1>2 DEF RunStep, StartRun, ListAccount, ReadCounts, SkipAccount, ClaimDigest,
        SendDigest, SendFails, ReleaseDigest, RunEnds
<1> QED
    BY <1>1, <1>3, <1>5, <1>6, <1>7, <1>8, <1>9, <1>10, TypeRunChange

LEMMA TypeWorld ==
    ASSUME TypeOK, NewDay \/ \E c \in Cadences : SaveSettings(c)
    PROVE  TypeOK'
<1>1. CASE NewDay
    <2>1. today + 1 \in 1 .. MaxDay
        BY <1>1, DigestAssumption DEF TypeOK, NewDay
    <2> QED
        BY <1>1, <2>1 DEF TypeOK, NewDay
<1>2. ASSUME NEW c \in Cadences, SaveSettings(c) PROVE TypeOK'
    BY <1>2 DEF TypeOK, SaveSettings
<1> QED
    BY <1>1, <1>2
-----------------------------------------------------------------------------
(* The claims. *)

\* The last key stays, nobody comes to hold one, and a holder that stops leaves its key lost.
LEMMA QuietStep ==
    ASSUME IInv, TypeOK', NEW r \in Runs, NEW x \in RunRecord, run' = [run EXCEPT ![r] = x],
           UNCHANGED <<settings, mails, replaced, restored>>, lost \subseteq lost',
           Holding(x) => Holding(run[r]) /\ KeyFor(x) = KeyFor(run[r]),
           Holding(run[r]) => \/ Holding(x) /\ KeyFor(x) = KeyFor(run[r])
                              \/ KeyFor(run[r]) \in lost',
           KnownLast(x)
    PROVE  IInv'
<1>1. run'[r] = x /\ \A q \in Runs \ {r} : run'[q] = run[q]
    BY RunFacts DEF IInv
<1>2. \A k : \A q \in Runs : Holds(q, k)' <=> Holding(run'[q]) /\ KeyFor(run'[q]) = k
    BY DEF Holds, Holding, KeyOf, KeyFor
<1>3. \A k : \A q \in Runs : Holds(q, k) <=> Holding(run[q]) /\ KeyFor(run[q]) = k
    BY DEF Holds, Holding, KeyOf, KeyFor
<1>4. \A q \in Runs, k \in Keys : Holds(q, k)' => Holds(q, k)
    BY <1>1, <1>2, <1>3
<1>5. \A q \in Runs, k \in Keys : Holds(q, k) => Holds(q, k)' \/ k \in lost'
    BY <1>1, <1>2, <1>3
<1>6. \A k : Settled(k) => Settled(k)'
    BY DEF Settled
<1>7. OneClaim'
    BY <1>4 DEF IInv, OneClaim
<1>8. KeyForDigest'
    BY <1>5 DEF IInv, KeyForDigest
<1>9. \A q \in Runs : KnownLast(run[q])'
    <2>1. ASSUME NEW q \in Runs PROVE KnownLast(run[q])'
        <3>1. KnownLast(run'[q])
            BY <1>1 DEF IInv
        <3> QED
            BY <1>6, <3>1 DEF KnownLast
    <2> QED
        BY <2>1
<1> QED
    BY <1>7, <1>8, <1>9 DEF IInv

\* The claim: the key was not the last one, so nobody had it that counts.
LEMMA ClaimStep ==
    ASSUME IInv, TypeOK', NEW r \in Runs, ClaimDigest(r), Claim(r), settings.last # KeyOf(r)
    PROVE  IInv'
<1> DEFINE j == KeyOf(r)
<1>1. /\ run[r].pc = "claim" /\ run \in [Runs -> RunRecord] /\ run[r] \in RunRecord
      /\ j = KeyFor(run[r]) /\ j \in Keys /\ settings \in [cadence : Cadences, last : Keys \cup {None}]
    BY RunFacts, KeyIsKey DEF IInv, ClaimDigest, TypeOK
<1>2. PICK x \in RunRecord : x = [run[r] EXCEPT !.pc = "send"]
    BY <1>1 DEF RunRecord
<1>3. /\ x.pc = "send" /\ x.today = run[r].today /\ x.cadence = run[r].cadence
      /\ x.last = run[r].last /\ x.heldThen = run[r].heldThen
    BY <1>2 DEF RunRecord
<1>4. run'[r] = x /\ \A q \in Runs \ {r} : run'[q] = run[q]
    BY <1>1, <1>2 DEF Claim
<1>5. /\ settings'.last = j /\ UNCHANGED <<mails, lost, restored>>
      /\ replaced' = replaced \cup ({settings.last} \ {None, j})
    BY <1>1 DEF Claim, ClaimDigest
<1>6. KeyFor(x) = j
    BY <1>1, <1>3 DEF KeyFor
<1>7. \A k : \A q \in Runs \ {r} : Holds(q, k)' <=> Holds(q, k)
    BY <1>4 DEF Holds, KeyOf
<1>8. \A k : Holds(r, k)' <=> k = j
    BY <1>3, <1>4, <1>6 DEF Holds, KeyOf, KeyFor
<1>9. \A k : ~Holds(r, k)
    BY <1>1 DEF Holds
<1> HIDE DEF j
<1>10. OneClaim'
    <2>1. ASSUME NEW k \in Keys \ replaced', k # j
          PROVE  ~(mails[k] > 0) /\ \A q \in Runs : ~Holds(q, k)'
        <3>1. k \notin replaced /\ settings.last # k
            BY <1>5, <2>1, NoneAssumption
        <3>2. ~(mails[k] > 0) /\ \A q \in Runs : ~Holds(q, k)
            BY <2>1, <3>1 DEF IInv, OneClaim
        <3> QED
            BY <1>7, <1>8, <2>1, <3>2
    <2>2. ASSUME j \notin replaced'
          PROVE  ~(mails[j] > 0) /\ \A q \in Runs : ~Holds(q, j)
        <3>1. j \notin replaced /\ settings.last # j
            BY <1>5, <2>2 DEF j
        <3> QED
            BY <1>1, <3>1 DEF IInv, OneClaim
    <2>3. ASSUME NEW k \in Keys \ replaced'
          PROVE  /\ ~(mails'[k] > 0)
                 /\ \A q \in Runs : Holds(q, k)' =>
                        settings'.last = k /\ \A p \in Runs : Holds(p, k)' => p = q
        <3>1. CASE k = j
            BY <1>5, <1>7, <2>2, <2>3, <3>1
        <3>2. CASE k # j
            BY <1>5, <2>1, <2>3, <3>2
        <3> QED
            BY <3>1, <3>2
    <2> QED
        BY <2>3 DEF OneClaim
<1>11. KeyForDigest'
    BY <1>5, <1>8 DEF KeyForDigest
<1>12. \A q \in Runs : KnownLast(run[q])'
    <2>1. ASSUME NEW q \in Runs PROVE KnownLast(run[q])'
        <3>1. KnownLast(run[q])
            BY DEF IInv
        <3>2. \A k : Settled(k)' <=> Settled(k)
            BY <1>5 DEF Settled
        <3>3. CASE q = r
            BY <1>1, <1>3, <1>4, <3>1, <3>2, <3>3 DEF KnownLast
        <3>4. CASE q # r
            BY <1>4, <3>1, <3>2, <3>4 DEF KnownLast
        <3> QED
            BY <3>3, <3>4
    <2> QED
        BY <2>1
<1> QED
    BY <1>10, <1>11, <1>12 DEF IInv

\* A holder that stops: the others hold what they held.
LEMMA HolderStops ==
    ASSUME IInv, NEW r \in Runs, Holding(run[r]), GoIdle(r)
    PROVE  /\ KeyOf(r) \in Keys
           /\ Holds(r, KeyOf(r)) /\ \A k : Holds(r, k) => k = KeyOf(r)
           /\ \A k : ~Holds(r, k)'
           /\ \A k : \A q \in Runs \ {r} : Holds(q, k)' <=> Holds(q, k)
           /\ run'[r].pc = "idle" /\ \A q \in Runs \ {r} : run'[q] = run[q]
<1>1. run'[r] = IdleRun /\ \A q \in Runs \ {r} : run'[q] = run[q]
    BY RunFacts DEF IInv, GoIdle
<1>2. KeyOf(r) \in Keys
    BY RunFacts, KeyIsKey DEF IInv, Holding
<1> QED
    BY <1>1, <1>2 DEF Holds, Holding, KeyOf, IdleRun

\* The digest goes out: if nothing was claimed over the key it is the last one, and the first
\* email of it.
LEMMA SendStep ==
    ASSUME IInv, TypeOK', NEW r \in Runs, SendDigest(r)
    PROVE  IInv'
<1>0. PICK j : j = KeyOf(r)
    OBVIOUS
<1>1. Holding(run[r]) /\ GoIdle(r) /\ UNCHANGED <<settings, lost, replaced, restored>>
      /\ mails' = [mails EXCEPT ![j] = @ + 1]
    BY <1>0 DEF SendDigest, Holding
<1>2. /\ j \in Keys /\ Holds(r, j) /\ \A k : Holds(r, k) => k = j
      /\ \A k : ~Holds(r, k)'
      /\ \A k : \A q \in Runs \ {r} : Holds(q, k)' <=> Holds(q, k)
      /\ run'[r].pc = "idle" /\ \A q \in Runs \ {r} : run'[q] = run[q]
    BY <1>0, <1>1, HolderStops
<1>3. /\ mails \in [Keys -> Nat] /\ mails'[j] = mails[j] + 1
      /\ \A k \in Keys \ {j} : mails'[k] = mails[k]
    BY <1>1, <1>2 DEF IInv, TypeOK
<1>4. mails'[j] > 0 /\ \A k \in Keys : Settled(k) => Settled(k)'
    BY <1>1, <1>2, <1>3 DEF Settled
<1>5. OneClaim'
    <2>1. ASSUME j \notin replaced
          PROVE  mails'[j] = 1 /\ settings.last = j /\ \A q \in Runs : ~Holds(q, j)'
        <3>1. ~(mails[j] > 0) /\ settings.last = j /\ \A q \in Runs : Holds(q, j) => q = r
            BY <1>2, <2>1 DEF IInv, OneClaim
        <3>2. mails[j] \in Nat
            BY <1>2, <1>3
        <3>3. mails'[j] = 1
            BY <1>3, <3>1, <3>2
        <3>4. ASSUME NEW q \in Runs PROVE ~Holds(q, j)'
            BY <1>2, <3>1
        <3> QED
            BY <3>1, <3>3, <3>4
    <2>2. ASSUME NEW k \in Keys \ replaced, k # j
          PROVE  \A q \in Runs : Holds(q, k)' <=> Holds(q, k)
        BY <1>2, <2>2
    <2>3. ASSUME NEW k \in Keys \ replaced, mails'[k] > 0
          PROVE  mails'[k] = 1 /\ settings.last = k /\ \A q \in Runs : ~Holds(q, k)'
        <3>1. CASE k = j
            BY <2>1, <2>3, <3>1
        <3>2. CASE k # j
            BY <1>3, <2>2, <2>3, <3>2 DEF IInv, OneClaim
        <3> QED
            BY <3>1, <3>2
    <2>4. ASSUME NEW k \in Keys \ replaced, NEW q \in Runs, Holds(q, k)'
          PROVE  settings.last = k /\ \A p \in Runs : Holds(p, k)' => p = q
        <3>1. CASE k = j
            BY <2>1, <2>4, <3>1
        <3>2. CASE k # j
            BY <2>2, <2>4, <3>2 DEF IInv, OneClaim
        <3> QED
            BY <3>1, <3>2
    <2> QED
        BY <1>1, <2>3, <2>4 DEF OneClaim
<1>6. KeyForDigest'
    <2>1. ASSUME NEW k \in Keys, settings.last = k, k # j
          PROVE  Settled(k)' \/ \E q \in Runs : Holds(q, k)'
        <3>1. Settled(k) \/ \E q \in Runs : Holds(q, k)
            BY <2>1 DEF IInv, KeyForDigest, Settled
        <3> QED
            BY <1>2, <1>4, <2>1, <3>1
    <2> QED
        BY <1>1, <1>4, <2>1 DEF KeyForDigest, Settled
<1>7. \A q \in Runs : KnownLast(run[q])'
    BY <1>2, <1>4 DEF IInv, KnownLast
<1> QED
    BY <1>5, <1>6, <1>7 DEF IInv

\* The release: what is put back needed no holder as it was listed, or is marked.
LEMMA ReleaseStep ==
    ASSUME IInv, TypeOK', NEW r \in Runs, ReleaseDigest(r)
    PROVE  IInv'
<1> DEFINE j == KeyOf(r)
<1>1. Holding(run[r]) /\ GoIdle(r) /\ UNCHANGED <<mails, lost, replaced>> /\ run[r].pc = "release"
    BY DEF ReleaseDigest, Holding
<1>2. /\ j \in Keys /\ Holds(r, j) /\ \A k : Holds(r, k) => k = j
      /\ \A k : ~Holds(r, k)'
      /\ \A k : \A q \in Runs \ {r} : Holds(q, k)' <=> Holds(q, k)
      /\ run'[r].pc = "idle" /\ \A q \in Runs \ {r} : run'[q] = run[q]
    BY <1>1, HolderStops
<1>3. settings \in [cadence : Cadences, last : Keys \cup {None}] /\ restored \subseteq restored'
    BY DEF IInv, TypeOK, ReleaseDigest
<1>4. \A k \in Keys : Settled(k) => Settled(k)'
    BY <1>1, <1>3 DEF Settled
<1>5. KnownLast(run[r]) /\ \A q \in Runs : KnownLast(run[q])
    BY DEF IInv
<1>6. CASE settings.last # j
    <2>1. UNCHANGED settings
        BY <1>6 DEF ReleaseDigest
    <2>2. OneClaim'
        BY <1>1, <1>2, <2>1 DEF IInv, OneClaim
    <2>3. ASSUME NEW k \in Keys, settings.last = k
          PROVE  Settled(k)' \/ \E q \in Runs : Holds(q, k)'
        <3>1. Settled(k) \/ \E q \in Runs : Holds(q, k)
            BY <2>3 DEF IInv, KeyForDigest, Settled
        <3> QED
            BY <1>2, <1>4, <1>6, <2>3, <3>1
    <2>4. KeyForDigest'
        BY <2>1, <2>3 DEF KeyForDigest, Settled
    <2> QED
        BY <1>2, <1>4, <1>5, <2>2, <2>4 DEF IInv, KnownLast
<1>7. CASE settings.last = j
    <2>1. /\ settings'.last = run[r].last
          /\ restored' = restored \cup {k \in Keys : k = run[r].last /\ run[r].heldThen}
        BY <1>3, <1>7 DEF ReleaseDigest
    <2> HIDE DEF j
    <2>2. ASSUME NEW k \in Keys \ replaced
          PROVE  ~(mails[k] > 0) /\ \A q \in Runs : ~Holds(q, k)'
        <3>1. CASE k = j
            <4>1. ~(mails[j] > 0) /\ \A q \in Runs : Holds(q, j) => q = r
                BY <1>2, <2>2, <3>1 DEF IInv, OneClaim
            <4> QED
                BY <1>2, <3>1, <4>1
        <3>2. CASE k # j
            <4>1. ~(mails[k] > 0) /\ \A q \in Runs : ~Holds(q, k)
                BY <1>7, <2>2, <3>2 DEF IInv, OneClaim
            <4> QED
                BY <1>2, <4>1
        <3> QED
            BY <3>1, <3>2
    <2>3. OneClaim'
        BY <1>1, <2>2 DEF OneClaim
    <2>4. KeyForDigest'
        <3>1. ASSUME NEW k \in Keys, run[r].last = k PROVE Settled(k)'
            <4>1. CASE run[r].heldThen
                BY <2>1, <3>1, <4>1 DEF Settled
            <4>2. CASE ~run[r].heldThen
                BY <1>1, <1>4, <1>5, <3>1, <4>2 DEF KnownLast
            <4> QED
                BY <4>1, <4>2
        <3> QED
            BY <2>1, <3>1 DEF KeyForDigest, Settled
    <2> QED
        BY <1>2, <1>4, <1>5, <2>3, <2>4 DEF IInv, KnownLast
<1> QED
    BY <1>6, <1>7

LEMMA RunKeeps ==
    ASSUME IInv, NEW r \in Runs, RunStep(r)
    PROVE  IInv'
<1>1. TypeOK'
    BY TypeRun DEF IInv
<1>2. PICK x \in RunRecord :
        /\ Begun(x)
        /\ run' = [run EXCEPT ![r] = x]
        /\ \/ x = IdleRun
           \/ StartRun(r) /\ x = [IdleRun EXCEPT !.pc = "list", !.today = today]
           \/ ListAccount(r) /\ x = Listed(r) /\ settings.cadence # "off"
           \/ ReadCounts(r) /\ x = [run[r] EXCEPT !.pc = "claim"]
           \/ ClaimDigest(r) /\ x = [run[r] EXCEPT !.pc = "send"] /\ Claim(r)
           \/ SendFails(r) /\ x = [run[r] EXCEPT !.pc = "release"]
    BY StepRecord DEF IInv
<1>3. run[r] \in RunRecord /\ KnownLast(run[r]) /\ run \in [Runs -> RunRecord]
    BY RunFacts DEF IInv
<1>4. x = run'[r]
    BY <1>2, <1>3
<1>5. CASE StartRun(r)
    <2>1. x.pc = "list" /\ ~Holding(run[r])
        BY <1>3, <1>4, <1>5 DEF StartRun, IdleRun, Holding
    <2>2. UNCHANGED <<settings, mails, lost, replaced, restored>>
        BY <1>5 DEF StartRun
    <2> QED
        BY <1>1, <1>2, <2>1, <2>2, QuietStep DEF Holding, KnownLast
<1>6. CASE ListAccount(r)
    <2>1. UNCHANGED <<settings, mails, lost, replaced, restored>> /\ ~Holding(run[r])
        BY <1>6 DEF ListAccount, Holding
    <2>2. CASE x = IdleRun
        BY <1>1, <1>2, <2>1, <2>2, IdleFacts, QuietStep DEF KnownLast
    <2>3. CASE x = Listed(r)
        <3>1. PICK b \in BOOLEAN : b = (\E q \in Runs : Holds(q, settings.last))
            OBVIOUS
        <3>2. x = [run[r] EXCEPT !.pc = "count", !.cadence = settings.cadence,
                                 !.last = settings.last, !.heldThen = b]
            BY <2>3, <3>1 DEF Listed
        <3>3. x.pc = "count" /\ x.last = settings.last /\ x.heldThen = b
            BY <1>3, <3>2 DEF RunRecord
        <3>4. KnownLast(x)
            BY <3>1, <3>3 DEF KnownLast, IInv, KeyForDigest, Settled
        <3> QED
            BY <1>1, <1>2, <2>1, <3>3, <3>4, QuietStep DEF Holding
    <2>4. x = IdleRun \/ x = Listed(r)
        BY <1>3, <1>4, <1>6 DEF ListAccount
    <2> QED
        BY <2>2, <2>3, <2>4
<1>7. CASE ReadCounts(r) \/ SendFails(r)
    <2>1. /\ x.today = run[r].today /\ x.cadence = run[r].cadence
          /\ x.last = run[r].last /\ x.heldThen = run[r].heldThen
          /\ \/ run[r].pc = "count" /\ x.pc = "claim"
             \/ run[r].pc = "send" /\ x.pc = "release"
        BY <1>3, <1>4, <1>7 DEF ReadCounts, SendFails, RunRecord
    <2>2. UNCHANGED <<settings, mails, lost, replaced, restored>>
        BY <1>7 DEF ReadCounts, SendFails
    <2>3. KeyFor(x) = KeyFor(run[r]) /\ (Holding(x) <=> Holding(run[r]))
        BY <2>1 DEF KeyFor, Holding
    <2>4. KnownLast(x)
        BY <1>3, <2>1 DEF KnownLast
    <2> QED
        BY <1>1, <1>2, <2>2, <2>3, <2>4, QuietStep
<1>8. CASE SkipAccount(r)
    <2>1. x = IdleRun /\ UNCHANGED <<settings, mails, lost, replaced, restored>> /\ ~Holding(run[r])
        BY <1>3, <1>4, <1>8 DEF SkipAccount, Holding
    <2> QED
        BY <1>1, <1>2, <2>1, IdleFacts, QuietStep DEF KnownLast
<1>9. CASE ClaimDigest(r)
    <2>1. CASE Claim(r) /\ settings.last # KeyOf(r)
        BY <1>1, <1>9, <2>1, ClaimStep
    <2>2. CASE GoIdle(r) /\ UNCHANGED <<settings, replaced>>
        <3>1. x = IdleRun /\ UNCHANGED <<settings, mails, lost, replaced, restored>> /\ ~Holding(run[r])
            BY <1>3, <1>4, <1>9, <2>2 DEF ClaimDigest, GoIdle, Holding
        <3> QED
            BY <1>1, <1>2, <3>1, IdleFacts, QuietStep DEF KnownLast
    <2> QED
        BY <1>9, <2>1, <2>2 DEF ClaimDigest
<1>10. CASE RunEnds(r)
    <2>1. x = IdleRun /\ UNCHANGED <<settings, mails, replaced, restored>> /\ lost \subseteq lost'
        BY <1>3, <1>4, <1>10 DEF RunEnds, GoIdle
    <2>2. Holding(run[r]) => KeyFor(run[r]) \in lost'
        <3>1. Holding(run[r]) => KeyFor(run[r]) \in Keys /\ Holds(r, KeyFor(run[r]))
            BY RunFacts, KeyIsKey DEF IInv, Holding
        <3> QED
            BY <1>10, <3>1 DEF RunEnds
    <2> QED
        BY <1>1, <1>2, <2>1, <2>2, IdleFacts, QuietStep DEF KnownLast
<1> QED
    BY <1>1, <1>5, <1>6, <1>7, <1>8, <1>9, <1>10, SendStep, ReleaseStep DEF RunStep

\* Midnight, and a save of the owner: the last key and the runs stay as they are.
LEMMA WorldKeeps ==
    ASSUME IInv, (NewDay \/ \E c \in Cadences : SaveSettings(c)) \/ UNCHANGED vars
    PROVE  IInv'
<1>1. /\ UNCHANGED <<run, mails, late, lost, replaced, restored>> /\ settings'.last = settings.last
    BY DEF IInv, TypeOK, NewDay, SaveSettings, vars
<1>2. TypeOK'
    <2>1. CASE UNCHANGED vars
        BY <2>1 DEF vars, TypeOK, IInv
    <2> QED
        BY <2>1, TypeWorld DEF IInv
<1>3. \A k : \A r \in Runs : Holds(r, k)' <=> Holds(r, k)
    BY <1>1 DEF Holds, KeyOf
<1>4. OneClaim' /\ KeyForDigest'
    BY <1>1, <1>3 DEF IInv, OneClaim, KeyForDigest
<1>5. \A r \in Runs : KnownLast(run[r])'
    BY <1>1 DEF IInv, KnownLast, Settled
<1> QED
    BY <1>2, <1>4, <1>5 DEF IInv

LEMMA Invariance == Spec => []IInv
<1>1. IInv /\ [Next]_vars => IInv'
    BY RunKeeps, WorldKeeps DEF Next
<1> QED
    BY <1>1, IInit, PTL DEF Spec
-----------------------------------------------------------------------------
\* The settings row, the runs and the counts keep their types.
THEOREM DigestTypes == Spec => []TypeOK
<1>1. IInv => TypeOK
    BY DEF IInv
<1> QED
    BY <1>1, Invariance, PTL

\* A digest that no other was claimed over goes out in time once, however many runs are under
\* way, however long they last and whatever the owner saves.
THEOREM DigestsOnce == Spec => []DigestOnce
<1>1. IInv => DigestOnce
    BY DEF IInv, OneClaim, DigestOnce, TypeOK
<1> QED
    BY <1>1, Invariance, PTL

\* A key held as sent was sent, or a run holds it or ended with it, unless a run put it back that
\* had listed it while another held it: no failed send uses a digest up otherwise.
THEOREM KeysForDigests == Spec => []KeyForDigest
<1>1. IInv => KeyForDigest
    BY DEF IInv
<1> QED
    BY <1>1, Invariance, PTL
=============================================================================
