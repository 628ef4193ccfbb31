-------------------------- MODULE WalletWatchProofs --------------------------
(***************************************************************************)
(* Proofs about WalletWatch: only old enough movements of a wallet's own   *)
(* time are written, whatever the explorer answers; and when it lists every*)
(* row before it is old enough to be read, a cursor never claims more than *)
(* was written and each movement is written once.                          *)
(***************************************************************************)
EXTENDS WalletWatch, FiniteSetTheorems, WellFoundedInduction, TLAPS

\* The explorer lists a row before its block is old enough to be read.
TimelyIndexing == IndexDelay < Lag

IndexedInTime == \A r \in Rows : TimeOf(r) + IndexDelay < now => r \in indexed

\* The whole of the listing a pass is reading: nothing will be added to it any more.
Whole(s) == Listed(Rows, s.wallet, s.listing, s.first, s.last)

\* What the pages before page k of the listing V hold.
Before(V, k) == [r \in Rows |-> IF r \in V /\ Rank(r, V) < (k - 1) * PageSize THEN 1 ELSE 0]

\* A transfer a pass on wallet w may write.
Writable(e, w) ==
    /\ TimelyIndexing => e.ordinal = 0
    /\ e.row \in Movements
    /\ w \in SidesOf[e.row]
    /\ RegisteredAt[w] <= TimeOf(e.row)
    /\ TimeOf(e.row) + Lag <= now

\* The copy a pass took of the cursor table is true.
SeenTrue(s) ==
    TimelyIndexing => \A w \in Wallets : s.seen[w] # None => RecordedThrough(w, s.seen[w])

\* All of the wallet's stretch that the pass has read is written or waits to be.
Covered(s) ==
    \A r \in Owed(s.wallet) :
        /\ s.from < TimeOf(r)
        /\ TimeOf(r) <= s.reached
        /\ ListingOf[r] < s.listing
        => Movement(r) \in s.work \cup s.event \cup ledger

\* A pass that is reading a wallet knows its stretch, and what it is to write of it.
Reading(s) ==
    /\ s.from = WalletStart(s.wallet, s.seen)
    /\ s.from < s.horizon
    /\ s.horizon + Lag <= now
    /\ IsBlockAt(s.first, s.from)
    /\ IsBlockAt(s.last, s.horizon)
    /\ s.reached = None => ~AllComplete(s.ends)
    /\ s.reached # None => s.reached <= s.horizon
    /\ \A e \in s.work \cup s.event : Writable(e, s.wallet)
    /\ TimelyIndexing => Covered(s)

\* What it has read of a listing belongs there, and is its pages so far when rows are listed
\* in time.
ReadSoFar(s) ==
    /\ RowsRead(s.got) \subseteq Whole(s)
    /\ TimelyIndexing => s.got = Before(Whole(s), s.page)

PassInv(s) ==
    /\ SeenTrue(s)
    /\ s.pc \in {"scan", "record", "write"} => Reading(s)
    /\ s.pc = "scan" => s.listing \in Listings /\ ReadSoFar(s)
    /\ s.pc \in {"record", "write"} => s.listing = ListingCount + 1
    /\ s.pc # "write" => s.event = {}
    /\ s.pc = "write" => \E e \in s.event : s.event = {e}
    /\ s.pc \in {"idle", "choose"} =>
            s.work = {} /\ s.got = NoRows /\ s.listing = 1 /\ s.page = 1

\* What the record promises while rows are listed in time.
RecordTrue == TimelyIndexing => CursorTrue /\ WrittenOnce

IInv ==
    /\ TypeOK
    /\ IndexedInTime
    /\ RecordTrue
    /\ RecordedConfirmed
    /\ \A p \in Passes : PassInv(pass[p])
-----------------------------------------------------------------------------
(* The listing and its pages. *)

\* The rank of a row is a count, at most the size of the listing.
LEMMA RankBound ==
    ASSUME NEW V \in SUBSET Rows, NEW r
    PROVE  /\ Rank(r, V) \in Nat
           /\ Cardinality(V) \in Nat
           /\ Rank(r, V) <= Cardinality(V)
<1>1. IsFiniteSet(V)
    BY FS_Subset, ListingAssumption DEF ListingAssumption
<1>2. {q \in V : PlaceOf[q] < PlaceOf[r]} \in SUBSET V
    OBVIOUS
<1> QED
    BY <1>1, <1>2, FS_Subset, FS_CardinalityType DEF Rank

\* A row listed before another has no greater a rank.
LEMMA RankMonotone ==
    ASSUME NEW V \in SUBSET Rows, NEW q \in Rows, NEW r \in Rows, PlaceOf[q] < PlaceOf[r]
    PROVE  Rank(q, V) <= Rank(r, V)
<1> DEFINE A == {x \in V : PlaceOf[x] < PlaceOf[q]}
           B == {x \in V : PlaceOf[x] < PlaceOf[r]}
<1>1. PlaceOf \in [Rows -> Nat]
    BY ListingAssumption DEF ListingAssumption
<1>2. A \in SUBSET B
    BY <1>1
<1>3. IsFiniteSet(B)
    BY FS_Subset, ListingAssumption DEF ListingAssumption
<1> QED
    BY <1>2, <1>3, FS_Subset DEF Rank

\* Reading page k after the pages before it is having read the pages before k + 1.
LEMMA NextPage ==
    ASSUME NEW V \in SUBSET Rows, NEW k \in Nat \ {0}
    PROVE  [r \in Rows |-> Before(V, k)[r] + (IF r \in PageRows(V, k) THEN 1 ELSE 0)]
               = Before(V, k + 1)
<1>1. PageSize \in Nat
    BY PagingAssumption DEF PagingAssumption
<1>2. /\ k * PageSize \in Nat
      /\ (k - 1) * PageSize \in Int
      /\ (k - 1) * PageSize <= k * PageSize
      /\ (k + 1) - 1 = k
    BY <1>1, SMT
<1>3. ASSUME NEW r \in Rows
      PROVE  Before(V, k)[r] + (IF r \in PageRows(V, k) THEN 1 ELSE 0) = Before(V, k + 1)[r]
    <2>1. r \in V => Rank(r, V) \in Nat
        BY RankBound
    <2>2. CASE r \in V
        BY <1>2, <2>1, <2>2 DEF Before, PageRows
    <2>3. CASE r \notin V
        BY <2>3 DEF Before, PageRows
    <2> QED
        BY <2>2, <2>3
<1> QED
    BY <1>3 DEF Before

\* No page holds a row twice.
LEMMA BeforeType ==
    ASSUME NEW V, NEW k
    PROVE  /\ Before(V, k) \in [Rows -> Nat]
           /\ \A r \in Rows : Before(V, k)[r] <= 1
    BY DEF Before

\* Before the first page nothing is read.
LEMMA FirstPage ==
    ASSUME NEW V \in SUBSET Rows
    PROVE  Before(V, 1) = NoRows
<1>1. (1 - 1) * PageSize = 0
    BY PagingAssumption DEF PagingAssumption
<1> QED
    BY <1>1, RankBound DEF Before, NoRows

\* A pass that begins a listing has read nothing of it.
LEMMA NothingRead ==
    ASSUME NEW c, c.got = NoRows, c.page = 1
    PROVE  ReadSoFar(c)
<1>1. Whole(c) \in SUBSET Rows
    BY DEF Whole, Listed
<1>2. RowsRead(NoRows) = {}
    BY DEF RowsRead, NoRows
<1> QED
    BY <1>1, <1>2, FirstPage DEF ReadSoFar

\* A set of naturals that is not empty has a least element.
LEMMA LeastNatural ==
    ASSUME NEW S \in SUBSET Nat, S # {}
    PROVE  \E n \in S : \A m \in S : n <= m
<1> DEFINE L == {x \in Nat \X Nat : x[1] < x[2]}
<1>1. IsWellFoundedOn(L, Nat)
    BY NatLessThanWellFounded DEF OpToRel
<1>2. PICK n \in S : \A m \in S : <<m, n>> \notin L
    <2> HIDE DEF L
    <2> QED
        BY <1>1, WFMin
<1>3. ASSUME NEW m \in S PROVE n <= m
    <2>1. m \in Nat /\ n \in Nat
        OBVIOUS
    <2>2. ~(m < n)
        BY <1>2, <2>1
    <2> QED
        BY <2>1, <2>2
<1> QED
    BY <1>3

\* Some block is the last one the rows R lie in.
LEMMA CutBlockExists ==
    ASSUME NEW R \in SUBSET Rows, R # {}
    PROVE  /\ CutBlock(R) \in Blocks
           /\ \E r \in R : BlockOf[r] = CutBlock(R)
           /\ \A r \in R : BlockOf[r] <= CutBlock(R)
<1> DEFINE D == {MaxBlock - BlockOf[r] : r \in R}
<1>1. MaxBlock \in Nat /\ BlockOf \in [Rows -> Blocks]
    BY ChainAssumption, ListingAssumption DEF ChainAssumption, ListingAssumption
<1>2. D \in SUBSET Nat /\ D # {}
    BY <1>1 DEF Blocks
<1>3. PICK n \in D : \A m \in D : n <= m
    BY <1>2, LeastNatural
<1>4. PICK u \in R : n = MaxBlock - BlockOf[u]
    BY <1>3
<1>5. \A r \in R : BlockOf[r] <= BlockOf[u]
    BY <1>1, <1>3, <1>4 DEF Blocks
<1>6. \E b \in Blocks : /\ \E r \in R : BlockOf[r] = b
                        /\ \A r \in R : BlockOf[r] <= b
    BY <1>1, <1>4, <1>5
<1> QED
    BY <1>6 DEF CutBlock
-----------------------------------------------------------------------------
(* Closing a listing. *)

\* What a listing that is closed leaves of the pass's record.
LEMMA ClosedFields ==
    ASSUME NEW s \in PassRecord, NEW got, NEW ended,
           NEW c, c = ListingClosed(s, got, ended)
    PROVE  /\ c.seen = s.seen /\ c.todo = s.todo /\ c.wallet = s.wallet
           /\ c.from = s.from /\ c.horizon = s.horizon
           /\ c.first = s.first /\ c.last = s.last
           /\ c.event = s.event
           /\ c.listing = s.listing + 1
           /\ c.page = 1
           /\ c.got = NoRows
           /\ c.ends = Append(s.ends, EndingOf(got, ended))
           /\ c.work = s.work \cup EventsOf(s.wallet, KeptRows(RowsRead(got), ended = "complete"), got)
           /\ c.reached = IF s.reached = None \/ ReachedIn(s, got, ended) = None
                          THEN None ELSE Min2(s.reached, ReachedIn(s, got, ended))
           /\ c.pc = IF s.listing = ListingCount THEN "record" ELSE "scan"
    BY DEF PassRecord, ListingClosed

\* A read of the listing V holds rows of V; when rows are listed in time it holds V's pages
\* so far, and all of V when it is complete.
ReadOf(V, got, ended) ==
    /\ got \in [Rows -> Nat]
    /\ RowsRead(got) \subseteq V
    /\ TimelyIndexing =>
          \E k \in Nat \ {0} :
              /\ got = Before(V, k)
              /\ ended = "complete" => Cardinality(V) < (k - 1) * PageSize

\* The rows read are rows of the listing, each read once when rows are listed in time.
LEMMA ReadRowsListed ==
    ASSUME NEW V \in SUBSET Rows, NEW got, NEW ended, ReadOf(V, got, ended)
    PROVE  /\ got \in [Rows -> Nat]
           /\ TimelyIndexing => \A r \in Rows : got[r] <= 1
           /\ RowsRead(got) \subseteq V
    BY BeforeType DEF ReadOf

\* A row whose block comes before the last block that was read from is kept; a complete
\* read keeps every row.
LEMMA KeptCovers ==
    ASSUME TimelyIndexing,
           NEW V \in SUBSET Rows, NEW got, NEW ended, ReadOf(V, got, ended), NEW r \in V,
           \/ ended = "complete"
           \/ /\ KeptRows(RowsRead(got), FALSE) # {}
              /\ BlockOf[r] < CutBlock(RowsRead(got))
    PROVE  r \in KeptRows(RowsRead(got), ended = "complete") /\ got[r] > 0
<1>1. PICK k \in Nat \ {0} : /\ got = Before(V, k)
                             /\ ended = "complete" => Cardinality(V) < (k - 1) * PageSize
    BY DEF ReadOf
<1> DEFINE R == RowsRead(got)
           n == (k - 1) * PageSize
<1>2. n \in Int
    BY PagingAssumption DEF PagingAssumption
<1>3. \A q \in V : Rank(q, V) \in Nat /\ Rank(q, V) <= Cardinality(V) /\ Cardinality(V) \in Nat
    BY RankBound
<1>4. \A q \in V : q \in R <=> Rank(q, V) < n
    BY <1>1 DEF RowsRead, Before
<1>5. \A q \in V : q \in R => got[q] > 0
    BY DEF RowsRead
<1>6. CASE ended = "complete"
    <2> HIDE DEF n
    <2>1. Rank(r, V) < n
        BY <1>1, <1>2, <1>3, <1>6 DEF n
    <2> QED
        BY <2>1, <1>4, <1>5, <1>6 DEF KeptRows
<1>7. CASE ended # "complete"
    <2>1. R \subseteq V /\ R # {}
        BY <1>7, ReadRowsListed DEF KeptRows
    <2>2. PICK u \in R : BlockOf[u] = CutBlock(R)
        BY <2>1, CutBlockExists
    <2>3. PlaceOf[r] < PlaceOf[u]
        BY <1>7, <2>1, <2>2, ListingAssumption DEF ListingAssumption
    <2>4. Rank(r, V) <= Rank(u, V)
        BY <2>1, <2>3, RankMonotone
    <2>5. Rank(u, V) < n
        BY <1>4, <2>1
    <2>6. r \in R
        <3> HIDE DEF n, R
        <3> QED
            BY <1>2, <1>3, <1>4, <2>1, <2>4, <2>5
    <2> QED
        BY <1>5, <1>7, <2>6 DEF KeptRows
<1> QED
    BY <1>6, <1>7

\* The events of kept rows are writable; each kept row that is owed has its event.
LEMMA EventsWritable ==
    ASSUME NEW V \in SUBSET Rows, NEW got, NEW ended, ReadOf(V, got, ended),
           NEW w \in Wallets,
           \A r \in V : w \in SidesOf[r] /\ TimeOf(r) + Lag <= now,
           NEW kept, kept = KeptRows(RowsRead(got), ended = "complete")
    PROVE  /\ EventsOf(w, kept, got) \subseteq Event
           /\ \A e \in EventsOf(w, kept, got) : Writable(e, w)
           /\ \A r \in kept : r \in Owed(w) => Movement(r) \in EventsOf(w, kept, got)
<1>1. kept \subseteq V
    BY ReadRowsListed DEF KeptRows
<1>2. got \in [Rows -> Nat] /\ (TimelyIndexing => \A r \in Rows : got[r] <= 1)
    BY ReadRowsListed
<1>3. ASSUME NEW e \in EventsOf(w, kept, got)
      PROVE  e \in Event /\ Writable(e, w)
    <2>1. /\ e \in [row : kept \cap Movements, ordinal : 0 .. Cardinality(Rows)]
          /\ e.ordinal < got[e.row]
          /\ RegisteredAt[w] <= TimeOf(e.row)
        BY DEF EventsOf
    <2>2. Cardinality(Rows) \in Nat
        BY RankBound
    <2>3. e \in Event
        BY <1>1, <2>1, <2>2 DEF Event
    <2>4. TimelyIndexing => e.ordinal = 0
        BY <1>1, <1>2, <2>1, <2>2
    <2> QED
        BY <1>1, <2>1, <2>3, <2>4 DEF Writable
<1>4. ASSUME NEW r \in kept, r \in Owed(w)
      PROVE  Movement(r) \in EventsOf(w, kept, got)
    <2>1. Cardinality(Rows) \in Nat
        BY RankBound
    <2>2. r \in Movements /\ got[r] > 0
        BY <1>4 DEF Owed, KeptRows, RowsRead
    <2>3. TimeOf(r) \in Nat /\ RegisteredAt[w] \in Nat /\ OldestPair[w] \in Int
        BY <1>1, <1>4, ChainAssumption, ListingAssumption, WatchAssumption
        DEF ChainAssumption, ListingAssumption, WatchAssumption, TimeOf, None
    <2>4. RegisteredAt[w] <= TimeOf(r)
        BY <1>4, <2>3 DEF Owed, Max2
    <2> QED
        BY <1>4, <2>1, <2>2, <2>4 DEF EventsOf, Movement
<1> QED
    BY <1>3, <1>4
-----------------------------------------------------------------------------
(* A pass that is reading a listing. *)

\* The times of the model are naturals.
LEMMA Times ==
    /\ MaxBlock \in Nat
    /\ \A b \in Blocks : BlockTime[b] \in Nat
    /\ \A r \in Rows : BlockOf[r] \in Blocks /\ BlockOf[r] \in Nat /\ TimeOf(r) \in Nat
    /\ \A w \in Wallets : RegisteredAt[w] \in Nat /\ OldestPair[w] \in Nat \cup {None}
    /\ Lag \in Nat /\ Overlap \in Nat /\ IndexDelay \in Nat
    /\ None = -1
    BY ChainAssumption, ListingAssumption, WatchAssumption
    DEF ChainAssumption, ListingAssumption, WatchAssumption, TimeOf, Blocks, None

\* Where a wallet's read starts is a natural, not before its registration, so not
\* before the overlap.
LEMMA StartType ==
    ASSUME NEW w \in Wallets, NEW seen \in [Wallets -> Nat \cup {None}]
    PROVE  /\ WalletStart(w, seen) \in Nat
           /\ RegisteredAt[w] <= WalletStart(w, seen)
           /\ Overlap <= WalletStart(w, seen)
<1>1. Overlap <= RegisteredAt[w]
    BY WatchAssumption DEF WatchAssumption
<1>2. (IF seen[w] # None THEN seen[w] ELSE OldestPair[w]) \in Nat \cup {None}
    BY Times
<1> QED
    BY <1>1, <1>2, Times DEF WalletStart, Max2

\* Every row of the listing is of the wallet and old enough to be written.
LEMMA WholeOld ==
    ASSUME NEW s \in PassRecord, Reading(s), now \in Nat
    PROVE  /\ Whole(s) \in SUBSET Rows
           /\ \A r \in Whole(s) : s.wallet \in SidesOf[r] /\ TimeOf(r) + Lag <= now
<1>1. s.horizon \in Nat /\ s.last \in Blocks /\ s.first \in Blocks
    BY DEF PassRecord
<1>2. BlockTime[s.last] <= s.horizon /\ s.horizon + Lag <= now
    BY DEF Reading, IsBlockAt
<1>3. ASSUME NEW r \in Whole(s)
      PROVE  s.wallet \in SidesOf[r] /\ TimeOf(r) + Lag <= now
    <2>1. r \in Rows /\ s.wallet \in SidesOf[r] /\ BlockOf[r] <= s.last
        BY <1>1, Times DEF Whole, Listed
    <2>2. TimeOf(r) <= BlockTime[s.last]
        BY <1>1, <2>1, Times, ChainAssumption DEF ChainAssumption, TimeOf
    <2> QED
        BY <1>1, <1>2, <2>1, <2>2, Times
<1> QED
    BY <1>3 DEF Whole, Listed

\* No row is added to a listing while it is read.
LEMMA WholeIndexed ==
    ASSUME TimelyIndexing, IndexedInTime, indexed \subseteq Rows, now \in Nat,
           NEW s \in PassRecord, Reading(s)
    PROVE  Listed(indexed, s.wallet, s.listing, s.first, s.last) = Whole(s)
<1>1. ASSUME NEW r \in Whole(s) PROVE r \in indexed
    <2>1. r \in Rows /\ TimeOf(r) + Lag <= now
        BY WholeOld
    <2>2. TimeOf(r) + IndexDelay < now
        BY <2>1, Times DEF TimelyIndexing
    <2> QED
        BY <2>1, <2>2 DEF IndexedInTime
<1> QED
    BY <1>1 DEF Whole, Listed

\* The owed rows of the listing between the start and the horizon are all in it.
LEMMA OwedListed ==
    ASSUME NEW s \in PassRecord, Reading(s), NEW r \in Owed(s.wallet),
           s.from < TimeOf(r), TimeOf(r) <= s.horizon, ListingOf[r] = s.listing
    PROVE  r \in Whole(s)
<1>1. /\ s.horizon \in Nat /\ s.from \in Nat
      /\ s.last \in Blocks /\ s.first \in Blocks /\ s.last \in Nat /\ s.first \in Nat
    BY Times DEF PassRecord, Blocks
<1>2. r \in Rows /\ s.wallet \in SidesOf[r]
    BY ListingAssumption DEF Owed, ListingAssumption
<1>3. ~(BlockOf[r] < s.first)
    <2>1. BlockTime[s.first] <= s.from
        BY DEF Reading, IsBlockAt
    <2>2. BlockOf[r] < s.first => TimeOf(r) <= BlockTime[s.first]
        BY <1>1, <1>2, Times, ChainAssumption DEF ChainAssumption, TimeOf
    <2> QED
        BY <1>1, <1>2, <2>1, <2>2, Times
<1>4. ~(s.last < BlockOf[r])
    <2>1. s.last < BlockOf[r] => s.horizon < TimeOf(r)
        BY <1>1, <1>2, Times DEF Reading, IsBlockAt, TimeOf
    <2> QED
        BY <1>1, <1>2, <2>1, Times
<1> QED
    BY <1>1, <1>2, <1>3, <1>4, Times DEF Whole, Listed

\* How far a listing was read is a time, not past the horizon, or None, which a
\* complete listing never is; and the rows up to it were kept.
LEMMA ReachedSound ==
    ASSUME NEW s \in PassRecord, Reading(s), now \in Nat,
           NEW got, NEW ended, ReadOf(Whole(s), got, ended)
    PROVE  /\ ReachedIn(s, got, ended) \in Nat \cup {None}
           /\ ended = "complete" => ReachedIn(s, got, ended) # None
           /\ TimelyIndexing =>
                \A r \in Whole(s) : TimeOf(r) <= ReachedIn(s, got, ended)
                    => r \in KeptRows(RowsRead(got), ended = "complete")
<1> DEFINE R == RowsRead(got)
<1>1. /\ s.horizon \in Nat /\ s.from \in Nat /\ s.wallet \in Wallets
      /\ s.first \in Blocks /\ s.first \in Nat
      /\ s.seen \in [Wallets -> Nat \cup {None}]
    BY Times DEF PassRecord, Blocks
<1>2. Overlap <= s.from /\ s.from < s.horizon
    BY <1>1, StartType DEF Reading
<1>3. Whole(s) \in SUBSET Rows
    BY WholeOld
<1>4. CASE ended = "complete"
    <2>1. ReachedIn(s, got, ended) \in Nat
        BY <1>1, <1>2, <1>4, Times DEF ReachedIn
    <2>2. TimelyIndexing => \A r \in Whole(s) : r \in KeptRows(RowsRead(got), ended = "complete")
        BY <1>3, <1>4, KeptCovers
    <2> QED
        BY <2>1, <2>2, Times
<1>5. CASE ended # "complete" /\ KeptRows(R, FALSE) = {}
    <2>1. ReachedIn(s, got, ended) = None
        BY <1>5 DEF ReachedIn
    <2> QED
        BY <1>3, <1>5, <2>1, Times
<1>6. CASE ended # "complete" /\ KeptRows(R, FALSE) # {}
    <2>1. ReachedIn(s, got, ended) = BlockTime[CutBlock(R)] - 1
        BY <1>6 DEF ReachedIn
    <2>2. R \subseteq Whole(s) /\ R \subseteq Rows /\ R # {}
        BY <1>3, <1>6, ReadRowsListed DEF KeptRows
    <2>3. CutBlock(R) \in Blocks /\ CutBlock(R) \in Nat
        BY <2>2, CutBlockExists, Times DEF Blocks
    <2>4. PICK q \in R : BlockOf[q] < CutBlock(R)
        BY <1>6 DEF KeptRows
    <2>5. s.first <= BlockOf[q]
        BY <1>1, <2>2, <2>4, Times DEF Whole, Listed, PassRecord, Blocks
    <2>6. s.from < BlockTime[CutBlock(R)]
        BY <1>1, <2>2, <2>3, <2>4, <2>5, Times DEF Reading, IsBlockAt
    <2>7. ReachedIn(s, got, ended) \in Nat
        BY <1>1, <2>1, <2>3, <2>6, Times
    <2>8. ASSUME TimelyIndexing, NEW r \in Whole(s), TimeOf(r) <= ReachedIn(s, got, ended)
          PROVE  r \in KeptRows(R, ended = "complete")
        <3>1. TimeOf(r) < BlockTime[CutBlock(R)]
            BY <1>3, <2>1, <2>3, <2>8, Times
        <3>2. ~(CutBlock(R) <= BlockOf[r])
            BY <1>3, <2>3, <3>1, Times, ChainAssumption DEF ChainAssumption, TimeOf
        <3>3. BlockOf[r] < CutBlock(R)
            BY <1>3, <2>3, <3>2, Times
        <3> QED
            BY <1>3, <1>6, <2>8, <3>3, KeptCovers
    <2> QED
        BY <1>6, <2>7, <2>8
<1> QED
    BY <1>4, <1>5, <1>6

\* The reason a listing's read ends for; `dense_block` is decided afterwards.
LEMMA EndingType ==
    ASSUME NEW got, NEW ended \in Endings
    PROVE  /\ EndingOf(got, ended) \in Endings
           /\ EndingOf(got, ended) = "complete" <=> ended = "complete"
    BY DEF EndingOf, Endings

\* A pass that closes a listing it has read stays sound: what it read of the listing is
\* among its work, up to the second it takes as reached.
LEMMA ClosedSound ==
    ASSUME NEW s \in PassRecord, PassInv(s), s.pc = "scan", now \in Nat,
           NEW got, NEW ended \in Endings, ReadOf(Whole(s), got, ended),
           NEW c, c = ListingClosed(s, got, ended)
    PROVE  c \in PassRecord /\ PassInv(c)
<1> DEFINE kept == KeptRows(RowsRead(got), ended = "complete")
           at == ReachedIn(s, got, ended)
<1>1. Reading(s) /\ SeenTrue(s) /\ s.listing \in Listings /\ s.event = {}
    BY DEF PassInv
<1>2. /\ s.wallet \in Wallets /\ s.horizon \in Nat /\ s.from \in Nat
      /\ s.reached \in Nat \cup {None} /\ s.ends \in Seq(Endings)
      /\ s.work \subseteq Event /\ s.listing \in Nat
    BY <1>1 DEF PassRecord, Listings
<1>3. ListingCount \in Nat \ {0} /\ ListingOf \in [Rows -> Listings]
    BY ListingAssumption DEF ListingAssumption
<1>4. /\ at \in Nat \cup {None}
      /\ ended = "complete" => at # None
      /\ TimelyIndexing => \A r \in Whole(s) : TimeOf(r) <= at => r \in kept
    BY <1>1, ReachedSound
<1>5. /\ EventsOf(s.wallet, kept, got) \subseteq Event
      /\ \A e \in EventsOf(s.wallet, kept, got) : Writable(e, s.wallet)
      /\ \A r \in kept : r \in Owed(s.wallet) => Movement(r) \in EventsOf(s.wallet, kept, got)
    <2>1. /\ Whole(s) \in SUBSET Rows
          /\ \A r \in Whole(s) : s.wallet \in SidesOf[r] /\ TimeOf(r) + Lag <= now
        BY <1>1, WholeOld
    <2> HIDE DEF kept
    <2>2. kept = KeptRows(RowsRead(got), ended = "complete")
        BY DEF kept
    <2> QED
        BY <1>2, <2>1, <2>2, EventsWritable
<1>6. /\ c.seen = s.seen /\ c.todo = s.todo /\ c.wallet = s.wallet
      /\ c.from = s.from /\ c.horizon = s.horizon
      /\ c.first = s.first /\ c.last = s.last
      /\ c.event = s.event
      /\ c.listing = s.listing + 1
      /\ c.page = 1
      /\ c.got = NoRows
      /\ c.ends = Append(s.ends, EndingOf(got, ended))
      /\ c.work = s.work \cup EventsOf(s.wallet, kept, got)
      /\ c.reached = IF s.reached = None \/ at = None THEN None ELSE Min2(s.reached, at)
      /\ c.pc = IF s.listing = ListingCount THEN "record" ELSE "scan"
    BY ClosedFields
<1> HIDE DEF kept, at
<1>7. /\ c.reached \in Nat \cup {None}
      /\ c.reached # None => c.reached <= s.reached /\ c.reached <= at
      /\ c.reached # None => s.reached # None /\ at # None
    BY <1>2, <1>4, <1>6, Times DEF Min2
<1>8. EndingOf(got, ended) \in Endings /\ (EndingOf(got, ended) = "complete" <=> ended = "complete")
    BY EndingType
<1>9. c \in PassRecord
    <2>1. NoRows \in [Rows -> Nat] /\ 1 \in 1 .. MaxPages
        BY PagingAssumption DEF NoRows, PagingAssumption
    <2>2. c.ends \in Seq(Endings) /\ c.work \subseteq Event /\ c.listing \in 1 .. ListingCount + 1
        BY <1>1, <1>2, <1>3, <1>5, <1>6, <1>8 DEF Listings
    <2>3. c = [s EXCEPT !.work = c.work, !.reached = c.reached, !.ends = c.ends,
                        !.listing = c.listing, !.page = c.page, !.got = c.got, !.pc = c.pc]
        BY <1>6 DEF ListingClosed, kept, at
    <2>4. /\ c.reached \in Nat \cup {None} /\ c.page \in 1 .. MaxPages /\ c.got \in [Rows -> Nat]
          /\ c.pc \in {"idle", "choose", "scan", "record", "write"}
        BY <1>6, <1>7, <2>1
    <2> QED
        BY <2>2, <2>3, <2>4 DEF PassRecord
<1>10. Reading(c)
    <2>1. c.reached = None => ~AllComplete(c.ends)
        <3>1. CASE s.reached = None
            <4>1. PICK i \in DOMAIN s.ends : s.ends[i] # "complete"
                BY <1>1, <3>1 DEF Reading, AllComplete
            <4>2. i \in DOMAIN c.ends /\ c.ends[i] = s.ends[i]
                BY <1>2, <1>6, <1>8, <4>1
            <4> QED
                BY <4>1, <4>2 DEF AllComplete
        <3>2. CASE s.reached # None /\ c.reached = None
            <4>1. ended # "complete"
                BY <1>2, <1>4, <1>6, <3>2, Times DEF Min2
            <4>2. /\ Len(s.ends) + 1 \in DOMAIN c.ends
                  /\ c.ends[Len(s.ends) + 1] = EndingOf(got, ended)
                BY <1>2, <1>6, <1>8
            <4> QED
                BY <1>8, <4>1, <4>2 DEF AllComplete
        <3> QED
            BY <3>1, <3>2
    <2>2. c.reached # None => c.reached <= c.horizon
        BY <1>1, <1>2, <1>6, <1>7, Times DEF Reading
    <2>3. \A e \in c.work \cup c.event : Writable(e, c.wallet)
        BY <1>1, <1>5, <1>6 DEF Reading
    <2>4. ASSUME TimelyIndexing, NEW r \in Owed(c.wallet), c.from < TimeOf(r), TimeOf(r) <= c.reached,
                 ListingOf[r] < c.listing
          PROVE  Movement(r) \in c.work \cup c.event \cup ledger
        <3>1. r \in Rows /\ TimeOf(r) \in Nat
            BY <2>4, Times, ListingAssumption DEF Owed, ListingAssumption
        <3>2. c.reached # None
            BY <2>4, <3>1, Times
        <3>3. TimeOf(r) <= s.reached /\ TimeOf(r) <= at /\ TimeOf(r) <= s.horizon
            BY <1>1, <1>2, <1>4, <1>7, <2>4, <3>1, <3>2, Times DEF Reading
        <3>4. CASE ListingOf[r] < s.listing
            BY <1>1, <1>6, <2>4, <3>3, <3>4 DEF Reading, Covered
        <3>5. CASE ListingOf[r] = s.listing
            <4>1. r \in Whole(s)
                BY <1>1, <1>6, <2>4, <3>3, <3>5, OwedListed
            <4> QED
                BY <1>4, <1>5, <1>6, <2>4, <3>3, <4>1
        <3>6. ListingOf[r] \in Nat
            BY <1>3, <3>1 DEF Listings
        <3> QED
            BY <1>2, <1>6, <2>4, <3>4, <3>5, <3>6
    <2>5. TimelyIndexing => Covered(c)
        BY <2>4 DEF Covered
    <2> QED
        BY <1>1, <1>6, <2>1, <2>2, <2>3, <2>5 DEF Reading
<1>11. c.pc = "scan" => c.listing \in Listings /\ ReadSoFar(c)
    <2>1. Whole(c) \in SUBSET Rows
        BY DEF Whole, Listed
    <2>2. c.pc = "scan" => c.listing \in Listings
        BY <1>1, <1>2, <1>3, <1>6 DEF Listings
    <2> QED
        BY <1>6, <2>1, <2>2, NothingRead
<1>12. /\ c.pc \in {"record", "write"} => c.listing = ListingCount + 1
       /\ c.event = {} /\ SeenTrue(c)
    BY <1>1, <1>6 DEF SeenTrue
<1> QED
    BY <1>6, <1>9, <1>10, <1>11, <1>12 DEF PassInv
-----------------------------------------------------------------------------
(* What a step of one pass, or of anything else, leaves sound. *)

\* What was true of a pass stays true while the ledger grows and time passes.
LEMMA PassKept ==
    ASSUME NEW s \in PassRecord, PassInv(s), ledger \subseteq ledger',
           now \in Nat, now' \in Nat, now <= now'
    PROVE  PassInv(s)'
<1>1. SeenTrue(s)'
    BY DEF PassInv, SeenTrue, RecordedThrough
<1>2. ASSUME s.pc \in {"scan", "record", "write"} PROVE Reading(s)'
    <2>1. Reading(s)
        BY <1>2 DEF PassInv
    <2>2. ASSUME NEW e \in s.work \cup s.event PROVE Writable(e, s.wallet)'
        <3>1. Writable(e, s.wallet)
            BY <2>1 DEF Reading
        <3>2. TimeOf(e.row) \in Nat
            BY <3>1, Times, ListingAssumption DEF Writable, ListingAssumption
        <3> QED
            BY <3>1, <3>2, Times DEF Writable
    <2>3. s.horizon + Lag <= now'
        BY <2>1, Times DEF Reading, PassRecord
    <2>4. Covered(s) => Covered(s)'
        BY DEF Covered
    <2> QED
        BY <2>1, <2>2, <2>3, <2>4 DEF Reading
<1> QED
    BY <1>1, <1>2 DEF PassInv, ReadSoFar, Whole

\* The claims and the ledger's own invariants stay true while the ledger grows by
\* writable transfers and no cursor moves.
LEMMA LedgerKept ==
    ASSUME TypeOK, RecordTrue, RecordedConfirmed,
           NEW new \in SUBSET Event, ledger' = ledger \cup new,
           \A e \in new : \E w \in Wallets : Writable(e, w),
           now' \in Nat, now <= now', UNCHANGED cursor
    PROVE  RecordTrue' /\ RecordedConfirmed'
<1>1. TimelyIndexing => CursorTrue'
    BY DEF RecordTrue, CursorTrue, RecordedThrough
<1>2. TimelyIndexing => WrittenOnce'
    BY DEF RecordTrue, WrittenOnce, Writable
<1>3. ASSUME NEW e \in ledger'
      PROVE  /\ e.row \in Movements
             /\ TimeOf(e.row) + Lag <= now'
             /\ \E w \in SidesOf[e.row] : RegisteredAt[w] <= TimeOf(e.row)
    <2>1. /\ e.row \in Movements
          /\ TimeOf(e.row) + Lag <= now
          /\ \E w \in SidesOf[e.row] : RegisteredAt[w] <= TimeOf(e.row)
        BY <1>3 DEF RecordedConfirmed, Writable
    <2>2. TimeOf(e.row) \in Nat /\ now \in Nat
        BY <2>1, Times, ListingAssumption DEF ListingAssumption, TypeOK
    <2> QED
        BY <2>1, <2>2, Times
<1>4. RecordedConfirmed'
    BY <1>3 DEF RecordedConfirmed
<1> QED
    BY <1>1, <1>2, <1>4 DEF RecordTrue

\* A step that changes one pass leaves all of them sound when it leaves that one sound.
LEMMA OnePass ==
    ASSUME TypeOK, \A q \in Passes : PassInv(pass[q]),
           NEW p \in Passes, NEW c \in PassRecord, PassInv(c)',
           pass' = [pass EXCEPT ![p] = c],
           ledger \subseteq ledger', now' = now
    PROVE  /\ pass' \in [Passes -> PassRecord]
           /\ \A q \in Passes : PassInv(pass[q])'
<1>1. pass \in [Passes -> PassRecord] /\ now \in Nat
    BY DEF TypeOK
<1>2. pass' \in [Passes -> PassRecord]
    BY <1>1
<1>3. ASSUME NEW q \in Passes PROVE PassInv(pass[q])'
    <2>1. CASE q = p
        BY <1>1, <2>1
    <2>2. CASE q # p
        <3>1. pass'[q] = pass[q] /\ pass[q] \in PassRecord
            BY <1>1, <2>2
        <3>2. PassInv(pass[q])
            OBVIOUS
        <3>3. \A s \in PassRecord : PassInv(s) => PassInv(s)'
            BY <1>1, PassKept
        <3> QED
            BY <3>1, <3>2, <3>3
    <2> QED
        BY <2>1, <2>2
<1> QED
    BY <1>2, <1>3

\* A pass between two wallets holds nothing of the last one's listings.
Fresh(s) == s.event = {} /\ s.work = {} /\ s.got = NoRows /\ s.listing = 1 /\ s.page = 1

\* A pass that is not running is sound.
LEMMA IdleSound ==
    /\ IdlePass \in PassRecord
    /\ \A s \in PassRecord : s.pc = "choose" /\ Fresh(s) /\ SeenTrue(s) => PassInv(s)
    /\ PassInv(IdlePass)
<1>1. IdlePass \in PassRecord
    <2>1. /\ (CHOOSE w \in Wallets : TRUE) \in Wallets
          /\ 0 \in Blocks /\ 1 \in 1 .. ListingCount + 1 /\ 1 \in 1 .. MaxPages
          /\ NoRows \in [Rows -> Nat] /\ << >> \in Seq(Endings)
        BY WatchAssumption, ListingAssumption, PagingAssumption, Times
        DEF WatchAssumption, ListingAssumption, PagingAssumption, Blocks, NoRows
    <2> QED
        BY <2>1 DEF IdlePass, PassRecord, Statuses, Reasons
<1>2. \A s \in PassRecord : s.pc = "choose" /\ Fresh(s) /\ SeenTrue(s) => PassInv(s)
    BY DEF PassInv, Fresh
<1>3. PassInv(IdlePass)
    BY DEF PassInv, IdlePass, SeenTrue
<1> QED
    BY <1>1, <1>2, <1>3

\* A pass that has reported its wallet is sound.
LEMMA ReportedSound ==
    ASSUME NEW s \in PassRecord, SeenTrue(s),
           NEW status \in Statuses, NEW reason \in Reasons,
           NEW c, c = Reported(s, status, reason)
    PROVE  c \in PassRecord /\ PassInv(c)
<1>1. /\ c = [IdlePass EXCEPT !.pc = "choose", !.seen = s.seen, !.todo = s.todo \ {s.wallet},
                     !.late = s.late, !.wallet = s.wallet, !.ends = s.ends,
                     !.status = status, !.reason = reason]
      /\ Fresh(IdlePass)
    BY DEF Reported, IdlePass, Fresh
<1>2. c \in PassRecord
    <2>1. /\ s.seen \in [Wallets -> Nat \cup {None}] /\ s.todo \ {s.wallet} \in SUBSET Wallets
          /\ s.late \in BOOLEAN /\ s.wallet \in Wallets /\ s.ends \in Seq(Endings)
        BY DEF PassRecord
    <2> QED
        BY <1>1, <2>1, IdleSound DEF PassRecord
<1>3. c.pc = "choose" /\ c.seen = s.seen /\ Fresh(c)
    BY <1>1, IdleSound DEF PassRecord, Fresh
<1> QED
    BY <1>2, <1>3, IdleSound DEF SeenTrue

\* The first listing that did not run to its end has a reason of its own.
LEMMA ShortfallType ==
    ASSUME NEW ends \in Seq(Endings), ~AllComplete(ends)
    PROVE  FirstShortfall(ends) \in Reasons
<1> DEFINE D == {i \in DOMAIN ends : ends[i] # "complete"}
<1>1. D \in SUBSET Nat /\ D # {}
    BY DEF AllComplete
<1>2. PICK n \in D : \A m \in D : n <= m
    BY <1>1, LeastNatural
<1>3. \A j \in 1 .. n - 1 : j \in DOMAIN ends /\ j \notin D
    BY <1>2
<1>4. \E i \in DOMAIN ends : ends[i] # "complete" /\ \A j \in 1 .. i - 1 : ends[j] = "complete"
    BY <1>2, <1>3
<1> DEFINE i0 == CHOOSE i \in DOMAIN ends :
                    ends[i] # "complete" /\ \A j \in 1 .. i - 1 : ends[j] = "complete"
<1>5. i0 \in DOMAIN ends /\ ends[i0] # "complete"
    BY <1>4
<1>6. FirstShortfall(ends) = ends[i0]
    BY DEF FirstShortfall
<1> HIDE DEF i0
<1> QED
    BY <1>5, <1>6 DEF Reasons
-----------------------------------------------------------------------------
(* The inductive invariant. *)

LEMMA InitInv == Init => IInv
<1> SUFFICES ASSUME Init PROVE IInv
    OBVIOUS
<1>1. TypeOK
    <2>1. 0 \in 0 .. MaxTime /\ 0 \in 0 .. MaxFaults
        BY WatchAssumption DEF WatchAssumption
    <2> QED
        BY <2>1, IdleSound DEF Init, TypeOK
<1>2. IndexedInTime
    BY Times DEF Init, IndexedInTime
<1>3. RecordTrue /\ RecordedConfirmed
    BY DEF Init, RecordTrue, CursorTrue, WrittenOnce, RecordedConfirmed
<1>4. \A p \in Passes : PassInv(pass[p])
    BY IdleSound DEF Init
<1> QED
    BY <1>1, <1>2, <1>3, <1>4 DEF IInv

\* Time and the explorer's index.
LEMMA EnvironmentInv ==
    ASSUME IInv, Tick \/ \E r \in Rows : Index(r)
    PROVE  IInv'
<1>1. now \in Nat /\ pass \in [Passes -> PassRecord]
    BY WatchAssumption DEF IInv, TypeOK, WatchAssumption
<1>2. now' \in 0 .. MaxTime /\ now' \in Nat /\ now <= now'
    BY <1>1, WatchAssumption DEF IInv, TypeOK, Tick, Index, WatchAssumption
<1>3. ledger' = ledger /\ pass' = pass /\ UNCHANGED <<cursor, faults>>
    BY DEF Tick, Index
<1>4. TypeOK'
    BY <1>2, <1>3 DEF IInv, TypeOK, Tick, Index
<1>5. IndexedInTime'
    <2>1. CASE Tick
        <3>1. ASSUME NEW r \in Rows, TimeOf(r) + IndexDelay < now' PROVE r \in indexed'
            <4>1. TimeOf(r) + IndexDelay <= now
                BY <1>1, <2>1, <3>1, Times DEF Tick
            <4> QED
                BY <2>1, <4>1 DEF Tick
        <3> QED
            BY <3>1 DEF IndexedInTime
    <2>2. CASE \E r \in Rows : Index(r)
        BY <2>2 DEF Index, IInv, IndexedInTime
    <2> QED
        BY <2>1, <2>2
<1>6. RecordTrue' /\ RecordedConfirmed'
    <2>1. ledger' = ledger \cup {} /\ {} \in SUBSET Event
        BY <1>3
    <2> QED
        BY <1>2, <1>3, <2>1, LedgerKept DEF IInv
<1>7. ASSUME NEW p \in Passes PROVE PassInv(pass[p])'
    <2>1. PassInv(pass[p]) /\ pass[p] \in PassRecord
        BY <1>1 DEF IInv
    <2>2. \A s \in PassRecord : PassInv(s) => PassInv(s)'
        BY <1>1, <1>2, <1>3, PassKept
    <2> QED
        BY <1>3, <2>1, <2>2
<1> QED
    BY <1>4, <1>5, <1>6, <1>7 DEF IInv

\* A step of a pass that writes nothing and moves no cursor, and leaves the pass sound.
LEMMA QuietStep ==
    ASSUME IInv, NEW p \in Passes, NEW c \in PassRecord, PassInv(c),
           pass' = [pass EXCEPT ![p] = c],
           UNCHANGED <<now, indexed, ledger, cursor>>, faults' \in 0 .. MaxFaults
    PROVE  IInv'
<1>1. now \in Nat
    BY WatchAssumption DEF IInv, TypeOK, WatchAssumption
<1>2. PassInv(c)'
    BY <1>1, PassKept
<1>3. /\ pass' \in [Passes -> PassRecord]
      /\ \A q \in Passes : PassInv(pass[q])'
    BY <1>2, OnePass DEF IInv
<1>4. TypeOK' /\ IndexedInTime'
    BY <1>3 DEF IInv, TypeOK, IndexedInTime
<1>5. RecordTrue' /\ RecordedConfirmed'
    <2>1. ledger' = ledger \cup {} /\ {} \in SUBSET Event
        OBVIOUS
    <2> QED
        <3>1. now' = now /\ now' \in Nat /\ now <= now' /\ cursor' = cursor
            BY <1>1
        <3> QED
            BY <2>1, <3>1, LedgerKept DEF IInv
<1> QED
    BY <1>3, <1>4, <1>5 DEF IInv

LEMMA StartPassInv ==
    ASSUME IInv, NEW p \in Passes, StartPass(p) \/ EndPass(p)
    PROVE  IInv'
<1>1. CASE StartPass(p)
    <2> DEFINE c == [IdlePass EXCEPT !.pc = "choose", !.seen = cursor,
                                     !.todo = {w \in Wallets : RegisteredAt[w] <= now}]
    <2>1. c \in PassRecord /\ c.pc = "choose" /\ c.seen = cursor
        BY IdleSound DEF IInv, TypeOK, PassRecord
    <2>2. Fresh(c)
        BY DEF IdlePass, Fresh
    <2>3. SeenTrue(c)
        BY <2>1 DEF IInv, RecordTrue, CursorTrue, SeenTrue
    <2>4. pass' = [pass EXCEPT ![p] = c]
        BY <1>1 DEF StartPass
    <2> HIDE DEF c
    <2>5. PassInv(c)
        BY <2>1, <2>2, <2>3, IdleSound
    <2> QED
        BY <1>1, <2>1, <2>4, <2>5, QuietStep DEF StartPass, IInv, TypeOK
<1>2. CASE EndPass(p)
    BY <1>2, IdleSound, QuietStep DEF EndPass, IInv, TypeOK
<1> QED
    BY <1>1, <1>2

LEMMA TakeWalletInv ==
    ASSUME IInv, NEW p \in Passes, NEW w \in Wallets, TakeWallet(p, w)
    PROVE  IInv'
<1> DEFINE s == [pass[p] EXCEPT !.wallet = w, !.ends = << >>]
           from == WalletStart(w, s.seen)
           horizon == now - Lag
<1>1. /\ pass[p] \in PassRecord /\ PassInv(pass[p]) /\ pass[p].pc = "choose"
      /\ UNCHANGED <<now, indexed, ledger, cursor, faults>> /\ faults' \in 0 .. MaxFaults
      /\ now \in Nat
    <2>1. pass[p] \in PassRecord /\ PassInv(pass[p]) /\ now \in Nat /\ faults \in 0 .. MaxFaults
        BY WatchAssumption DEF IInv, TypeOK, WatchAssumption
    <2>2. s.pc = "choose" /\ UNCHANGED <<now, indexed, ledger, cursor, faults>>
        BY DEF TakeWallet
    <2>3. s.pc = pass[p].pc
        BY <2>1 DEF PassRecord
    <2> QED
        BY <2>1, <2>2, <2>3
<1>2. /\ s \in PassRecord /\ s.seen = pass[p].seen /\ s.wallet = w /\ s.ends = << >>
      /\ s.event = {} /\ s.pc = "choose" /\ s.work = pass[p].work
    <2>1. << >> \in Seq(Endings)
        OBVIOUS
    <2>2. pass[p].event = {}
        BY <1>1 DEF PassInv
    <2> QED
        BY <1>1, <2>1, <2>2 DEF PassRecord
<1>3. SeenTrue(s)
    BY <1>1, <1>2 DEF PassInv, SeenTrue
<1>4. ASSUME NEW status \in Statuses, NEW reason \in Reasons,
             pass' = [pass EXCEPT ![p] = Reported(s, status, reason)]
      PROVE  IInv'
    <2> HIDE DEF s
    <2>1. Reported(s, status, reason) \in PassRecord /\ PassInv(Reported(s, status, reason))
        BY <1>2, <1>3, ReportedSound
    <2> QED
        BY <1>1, <1>4, <2>1, QuietStep
<1>5. CASE pass' = [pass EXCEPT ![p] = Reported(s, "partial", "deadline")]
    <2>1. "partial" \in Statuses /\ "deadline" \in Reasons
        BY DEF Statuses, Reasons, Endings
    <2> QED
        BY <1>4, <1>5, <2>1
<1>6. CASE pass' = [pass EXCEPT ![p] = Reported(s, "idle", "too_new")]
    <2>1. "idle" \in Statuses /\ "too_new" \in Reasons
        BY DEF Statuses, Reasons
    <2> QED
        BY <1>4, <1>6, <2>1
<1>7. ASSUME from < horizon, NEW first \in Blocks, NEW last \in Blocks,
             IsBlockAt(first, from), IsBlockAt(last, horizon),
             pass' = [pass EXCEPT ![p] =
                        [s EXCEPT !.pc = "scan", !.from = from, !.horizon = horizon,
                                  !.first = first, !.last = last, !.reached = horizon,
                                  !.status = "none", !.reason = "none"]]
      PROVE  IInv'
    <2> DEFINE c == [s EXCEPT !.pc = "scan", !.from = from, !.horizon = horizon,
                              !.first = first, !.last = last, !.reached = horizon,
                              !.status = "none", !.reason = "none"]
    <2>1. s.seen \in [Wallets -> Nat \cup {None}]
        BY <1>2 DEF PassRecord
    <2>2. from \in Nat /\ horizon \in Nat /\ horizon # None
        BY <1>1, <1>7, <2>1, StartType, Times
    <2>3. s.listing = 1 /\ s.got = NoRows /\ s.page = 1 /\ s.work = {}
        BY <1>1, <1>2 DEF PassInv, PassRecord
    <2> HIDE DEF from, horizon
    <2>4. /\ c \in PassRecord
          /\ c.pc = "scan" /\ c.from = from /\ c.horizon = horizon /\ c.reached = horizon
          /\ c.first = first /\ c.last = last /\ c.seen = s.seen /\ c.wallet = w
          /\ c.listing = 1 /\ c.got = NoRows /\ c.page = 1
          /\ c.work = {} /\ c.event = {} /\ c.ends = << >>
        <3> HIDE DEF s
        <3> QED
            BY <1>2, <1>7, <2>2, <2>3 DEF PassRecord, Statuses, Reasons
    <2>5. pass' = [pass EXCEPT ![p] = c]
        BY <1>7
    <2> HIDE DEF c
    <2>6. Reading(c)
        <3>1. from = WalletStart(w, s.seen) /\ horizon + Lag <= now
            BY <1>1, Times DEF from, horizon
        <3>2. \A r \in Rows : ~(ListingOf[r] < 1)
            BY ListingAssumption DEF ListingAssumption, Listings
        <3>3. \A r \in Owed(w) : r \in Rows
            BY ListingAssumption DEF Owed, ListingAssumption
        <3> HIDE DEF s
        <3> QED
            BY <1>7, <2>2, <2>4, <3>1, <3>2, <3>3 DEF Reading, Covered
    <2>7. c.listing \in Listings /\ ReadSoFar(c)
        BY <2>4, NothingRead, ListingAssumption DEF ListingAssumption, Listings
    <2>8. PassInv(c)
        <3> HIDE DEF s
        <3> QED
            BY <1>3, <2>4, <2>6, <2>7 DEF PassInv, SeenTrue
    <2> QED
        BY <1>1, <2>4, <2>5, <2>8, QuietStep
<1> QED
    BY <1>5, <1>6, <1>7 DEF TakeWallet

\* What the steps below know of the pass they are a step of.
LEMMA PassFacts ==
    ASSUME IInv, NEW p \in Passes
    PROVE  /\ pass[p] \in PassRecord /\ PassInv(pass[p]) /\ SeenTrue(pass[p])
           /\ now \in Nat /\ faults \in 0 .. MaxFaults
           /\ pass[p].pc = "scan" => /\ Reading(pass[p])
                                     /\ Whole(pass[p]) \in SUBSET Rows
                                     /\ ReadSoFar(pass[p])
                                     /\ pass[p].page \in Nat \ {0}
           /\ pass[p].pc \in {"record", "write"} => Reading(pass[p])
<1>1. pass[p] \in PassRecord /\ PassInv(pass[p]) /\ now \in Nat /\ faults \in 0 .. MaxFaults
    BY WatchAssumption DEF IInv, TypeOK, WatchAssumption
<1>2. Whole(pass[p]) \in SUBSET Rows
    BY DEF Whole, Listed
<1>3. pass[p].page \in Nat \ {0}
    BY <1>1 DEF PassRecord
<1> QED
    BY <1>1, <1>2, <1>3 DEF PassInv

\* Closing the listing being read, whatever ended it.
LEMMA CloseInv ==
    ASSUME IInv, NEW p \in Passes, pass[p].pc = "scan",
           NEW got, NEW ended \in Endings, ReadOf(Whole(pass[p]), got, ended),
           pass' = [pass EXCEPT ![p] = ListingClosed(pass[p], got, ended)],
           UNCHANGED <<now, indexed, ledger, cursor>>, faults' \in 0 .. MaxFaults
    PROVE  IInv'
<1> DEFINE c == ListingClosed(pass[p], got, ended)
<1>1. c \in PassRecord /\ PassInv(c)
    BY PassFacts, ClosedSound
<1> QED
    BY <1>1, QuietStep

LEMMA ReadPageInv ==
    ASSUME IInv, NEW p \in Passes, ReadPage(p)
    PROVE  IInv'
<1> DEFINE s == pass[p]
           V == Listed(indexed, s.wallet, s.listing, s.first, s.last)
           got == [r \in Rows |-> s.got[r] + (IF r \in PageRows(V, s.page) THEN 1 ELSE 0)]
<1>1. /\ s \in PassRecord /\ PassInv(s) /\ s.pc = "scan" /\ Reading(s)
      /\ ReadSoFar(s) /\ s.page \in Nat \ {0} /\ s.got \in [Rows -> Nat]
      /\ Whole(s) \in SUBSET Rows
      /\ UNCHANGED <<now, indexed, ledger, cursor, faults>> /\ faults' \in 0 .. MaxFaults
    BY PassFacts DEF ReadPage, PassRecord
<1>2. V \subseteq Whole(s) /\ (TimelyIndexing => V = Whole(s))
    <2>1. V \subseteq Whole(s)
        BY DEF IInv, TypeOK, Listed, Whole
    <2> QED
        BY <1>1, <2>1, PassFacts, WholeIndexed DEF IInv, TypeOK
<1> HIDE DEF V, s
<1>3. /\ got \in [Rows -> Nat] /\ RowsRead(got) \subseteq Whole(s)
      /\ TimelyIndexing => got = Before(Whole(s), s.page + 1)
    <2>1. got \in [Rows -> Nat]
        BY <1>1
    <2>2. \A r \in Rows : got[r] > 0 => s.got[r] > 0 \/ r \in V
        BY <1>1 DEF PageRows
    <2>3. RowsRead(got) \subseteq Whole(s)
        BY <1>1, <1>2, <2>2 DEF ReadSoFar, RowsRead
    <2> QED
        BY <1>1, <1>2, <2>1, <2>3, NextPage DEF ReadSoFar
<1>4. \A e \in Endings :
        (e = "complete" => ShortPage(V, s.page)) => ReadOf(Whole(s), got, e)
    BY <1>1, <1>2, <1>3 DEF ReadOf, ShortPage
<1>5. \/ ShortPage(V, s.page) /\ pass' = [pass EXCEPT ![p] = ListingClosed(s, got, "complete")]
      \/ pass' = [pass EXCEPT ![p] = ListingClosed(s, got, "page_limit")]
      \/ /\ s.page # MaxPages
         /\ pass' = [pass EXCEPT ![p] = [s EXCEPT !.got = got, !.page = @ + 1]]
    BY DEF ReadPage, s, V
<1>6. "complete" \in Endings /\ "page_limit" \in Endings
    BY DEF Endings
<1> HIDE DEF got
<1>7. CASE ShortPage(V, s.page) /\ pass' = [pass EXCEPT ![p] = ListingClosed(s, got, "complete")]
    BY <1>1, <1>4, <1>6, <1>7, CloseInv DEF s
<1>8. CASE pass' = [pass EXCEPT ![p] = ListingClosed(s, got, "page_limit")]
    BY <1>1, <1>4, <1>6, <1>8, CloseInv DEF s
<1>9. CASE /\ s.page # MaxPages
           /\ pass' = [pass EXCEPT ![p] = [s EXCEPT !.got = got, !.page = @ + 1]]
    <2> DEFINE c == [s EXCEPT !.got = got, !.page = @ + 1]
    <2>1. s.page + 1 \in 1 .. MaxPages
        BY <1>1, <1>9, PagingAssumption DEF PassRecord, PagingAssumption
    <2>2. got \in [Rows -> Nat]
        BY <1>3
    <2>3. /\ c \in PassRecord
          /\ c.pc = "scan" /\ c.got = got /\ c.page = s.page + 1
          /\ c.seen = s.seen /\ c.wallet = s.wallet /\ c.from = s.from /\ c.horizon = s.horizon
          /\ c.first = s.first /\ c.last = s.last /\ c.reached = s.reached /\ c.ends = s.ends
          /\ c.listing = s.listing /\ c.work = s.work /\ c.event = s.event
        BY <1>1, <2>1, <2>2 DEF PassRecord
    <2>4. pass' = [pass EXCEPT ![p] = c]
        BY <1>9
    <2> HIDE DEF c
    <2>5. Reading(c) /\ Whole(c) = Whole(s)
        BY <1>1, <2>3 DEF Reading, Covered, Whole
    <2>6. PassInv(c)
        BY <1>1, <1>3, <2>3, <2>5 DEF PassInv, SeenTrue, ReadSoFar
    <2> QED
        BY <1>1, <2>3, <2>4, <2>6, QuietStep
<1> QED
    BY <1>5, <1>7, <1>8, <1>9

\* Closing the listing where it is.
LEMMA CutInv ==
    ASSUME IInv, NEW p \in Passes, pass[p].pc = "scan",
           NEW ended \in Endings \ {"complete"},
           pass' = [pass EXCEPT ![p] = ListingClosed(pass[p], pass[p].got, ended)],
           UNCHANGED <<now, indexed, ledger, cursor>>, faults' \in 0 .. MaxFaults
    PROVE  IInv'
<1>1. ReadOf(Whole(pass[p]), pass[p].got, ended)
    BY PassFacts DEF ReadOf, ReadSoFar, PassRecord
<1> QED
    BY <1>1, CloseInv

LEMMA CutListingInv ==
    ASSUME IInv, NEW p \in Passes, CutListing(p)
    PROVE  IInv'
<1>1. "deadline" \in Endings \ {"complete"}
    BY DEF Endings
<1> QED
    BY <1>1, PassFacts, CutInv DEF CutListing

\* Ending the wallet with a report, having written nothing.
LEMMA ReportInv ==
    ASSUME IInv, NEW p \in Passes, NEW s \in PassRecord, s.seen = pass[p].seen,
           NEW status \in Statuses, NEW reason \in Reasons,
           pass' = [pass EXCEPT ![p] = Reported(s, status, reason)],
           UNCHANGED <<now, indexed, ledger, cursor>>, faults' \in 0 .. MaxFaults
    PROVE  IInv'
<1>1. SeenTrue(s)
    BY PassFacts DEF SeenTrue
<1>2. Reported(s, status, reason) \in PassRecord /\ PassInv(Reported(s, status, reason))
    BY <1>1, ReportedSound
<1> QED
    BY <1>2, QuietStep

LEMMA EndUnmovedInv ==
    ASSUME IInv, NEW p \in Passes, EndUnmoved(p)
    PROVE  IInv'
<1> DEFINE why == FirstShortfall(pass[p].ends)
           status == IF why = "deadline" THEN "partial" ELSE "unavailable"
<1>1. Reading(pass[p]) /\ pass[p].reached = None /\ pass[p].ends \in Seq(Endings)
    BY PassFacts DEF EndUnmoved, PassRecord
<1>2. why \in Reasons /\ status \in Statuses
    BY <1>1, ShortfallType DEF Reading, Statuses
<1>3. pass' = [pass EXCEPT ![p] = Reported(pass[p], status, why)]
    BY DEF EndUnmoved
<1>4. /\ pass[p] \in PassRecord
      /\ UNCHANGED <<now, indexed, ledger, cursor>> /\ faults' \in 0 .. MaxFaults
    BY PassFacts DEF EndUnmoved
<1> HIDE DEF why, status
<1> QED
    BY <1>2, <1>3, <1>4, ReportInv

LEMMA FaultType == ASSUME IInv, Fault PROVE faults' \in 0 .. MaxFaults
    BY WatchAssumption DEF IInv, TypeOK, Fault, WatchAssumption

LEMMA ExplorerFailsInv ==
    ASSUME IInv, NEW p \in Passes, ExplorerFails(p)
    PROVE  IInv'
<1>1. UNCHANGED <<now, indexed, ledger, cursor>> /\ faults' \in 0 .. MaxFaults
    BY FaultType DEF ExplorerFails
<1>2. /\ "explorer_unavailable" \in Endings \ {"complete"}
      /\ "explorer_unavailable" \in Reasons /\ "unavailable" \in Statuses
    BY DEF Endings, Reasons, Statuses
<1>3. CASE /\ pass[p].pc = "scan"
           /\ pass' = [pass EXCEPT ![p] = ListingClosed(pass[p], pass[p].got, "explorer_unavailable")]
    BY <1>1, <1>2, <1>3, CutInv
<1>4. ASSUME NEW w \in pass[p].todo, NEW s,
             s = [pass[p] EXCEPT !.wallet = w, !.ends = <<"explorer_unavailable">>],
             pass' = [pass EXCEPT ![p] = Reported(s, "unavailable", "explorer_unavailable")]
      PROVE  IInv'
    <2>1. <<"explorer_unavailable">> \in Seq(Endings)
        BY <1>2
    <2>2. pass[p] \in PassRecord /\ w \in Wallets
        BY <1>4, PassFacts DEF PassRecord
    <2>3. s \in PassRecord /\ s.seen = pass[p].seen
        BY <1>4, <2>1, <2>2 DEF PassRecord
    <2> QED
        BY <1>1, <1>2, <1>4, <2>3, ReportInv
<1> QED
    BY <1>3, <1>4 DEF ExplorerFails

LEMMA DeadlineComesInv ==
    ASSUME IInv, NEW p \in Passes, DeadlineComes(p)
    PROVE  IInv'
<1> DEFINE s == pass[p]
           c == [s EXCEPT !.late = TRUE]
<1>1. s \in PassRecord /\ PassInv(s)
    BY PassFacts
<1>2. /\ c \in PassRecord
      /\ c.pc = s.pc /\ c.got = s.got /\ c.page = s.page
      /\ c.seen = s.seen /\ c.wallet = s.wallet /\ c.from = s.from /\ c.horizon = s.horizon
      /\ c.first = s.first /\ c.last = s.last /\ c.reached = s.reached /\ c.ends = s.ends
      /\ c.listing = s.listing /\ c.work = s.work /\ c.event = s.event
    BY <1>1 DEF PassRecord
<1>3. pass' = [pass EXCEPT ![p] = c] /\ UNCHANGED <<now, indexed, ledger, cursor>>
    BY DEF DeadlineComes
<1>4. faults' \in 0 .. MaxFaults
    BY FaultType DEF DeadlineComes
<1> HIDE DEF c, s
<1>5. (Reading(s) => Reading(c)) /\ Whole(c) = Whole(s)
    BY <1>2 DEF Reading, Covered, Whole
<1>6. PassInv(c)
    BY <1>1, <1>2, <1>5 DEF PassInv, SeenTrue, ReadSoFar
<1> QED
    BY <1>2, <1>3, <1>4, <1>6, QuietStep

LEMMA CrashInv ==
    ASSUME IInv, NEW p \in Passes, Crash(p)
    PROVE  IInv'
    BY IdleSound, FaultType, QuietStep DEF Crash

\* A step of a pass that adds writable transfers to the ledger and leaves the pass sound.
LEMMA WritingStep ==
    ASSUME IInv, NEW p \in Passes, NEW c \in PassRecord, PassInv(c)',
           NEW new \in SUBSET Event, ledger' = ledger \cup new,
           \A e \in new : \E w \in Wallets : Writable(e, w),
           pass' = [pass EXCEPT ![p] = c],
           UNCHANGED <<now, indexed, cursor>>, faults' \in 0 .. MaxFaults
    PROVE  IInv'
<1>1. now \in Nat /\ now' = now /\ now' \in Nat /\ now <= now'
    BY PassFacts
<1>2. /\ pass' \in [Passes -> PassRecord]
      /\ \A q \in Passes : PassInv(pass[q])'
    BY <1>1, OnePass DEF IInv
<1>3. TypeOK' /\ IndexedInTime'
    BY <1>2 DEF IInv, TypeOK, IndexedInTime
<1>4. RecordTrue' /\ RecordedConfirmed'
    BY <1>1, LedgerKept DEF IInv
<1> QED
    BY <1>2, <1>3, <1>4 DEF IInv

LEMMA TakeTransferInv ==
    ASSUME IInv, NEW p \in Passes, NEW e, TakeTransfer(p, e)
    PROVE  IInv'
<1> DEFINE s == pass[p]
           c == IF e \in ledger
                THEN [s EXCEPT !.work = @ \ {e}]
                ELSE [s EXCEPT !.work = @ \ {e}, !.event = {e}, !.pc = "write"]
<1>1. /\ s \in PassRecord /\ PassInv(s) /\ SeenTrue(s) /\ s.pc = "record" /\ Reading(s)
      /\ e \in s.work /\ pass' = [pass EXCEPT ![p] = c]
      /\ UNCHANGED <<now, indexed, ledger, cursor, faults>> /\ faults' \in 0 .. MaxFaults
    BY PassFacts DEF TakeTransfer
<1>2. s.work \subseteq Event /\ s.event = {} /\ s.listing = ListingCount + 1
    BY <1>1 DEF PassRecord, PassInv
<1>3. /\ c \in PassRecord
      /\ c.seen = s.seen /\ c.wallet = s.wallet /\ c.from = s.from /\ c.horizon = s.horizon
      /\ c.first = s.first /\ c.last = s.last /\ c.reached = s.reached /\ c.ends = s.ends
      /\ c.listing = s.listing /\ c.work = s.work \ {e}
      /\ c.pc = IF e \in ledger THEN "record" ELSE "write"
      /\ c.event = IF e \in ledger THEN {} ELSE {e}
    BY <1>1, <1>2 DEF PassRecord
<1> HIDE DEF c, s
<1>4. /\ c.work \cup c.event \subseteq s.work \cup s.event
      /\ s.work \cup s.event \cup ledger \subseteq c.work \cup c.event \cup ledger
    BY <1>1, <1>2, <1>3
<1>5. Reading(c)
    BY <1>1, <1>3, <1>4 DEF Reading, Covered
<1>6. PassInv(c)
    BY <1>1, <1>2, <1>3, <1>5 DEF PassInv, SeenTrue
<1> QED
    BY <1>1, <1>3, <1>6, QuietStep

LEMMA WriteTransferInv ==
    ASSUME IInv, NEW p \in Passes, WriteTransfer(p)
    PROVE  IInv'
<1>1. PICK s \in PassRecord : s = pass[p]
    BY PassFacts
<1>2. PICK c : c = [s EXCEPT !.event = {}, !.pc = "record"]
    OBVIOUS
<1>3. /\ PassInv(s) /\ SeenTrue(s) /\ s.pc = "write" /\ Reading(s)
      /\ ledger' = ledger \cup s.event
      /\ UNCHANGED <<now, indexed, cursor, faults>> /\ faults' \in 0 .. MaxFaults
      /\ now \in Nat /\ now' \in Nat /\ now <= now' /\ ledger \subseteq ledger'
    BY <1>1, PassFacts DEF WriteTransfer
<1>4. s.event \subseteq Event /\ s.wallet \in Wallets /\ s.listing = ListingCount + 1
    BY <1>1, <1>3 DEF PassRecord, PassInv
<1>5. /\ c \in PassRecord
      /\ c.seen = s.seen /\ c.wallet = s.wallet /\ c.from = s.from /\ c.horizon = s.horizon
      /\ c.first = s.first /\ c.last = s.last /\ c.reached = s.reached /\ c.ends = s.ends
      /\ c.listing = s.listing /\ c.work = s.work /\ c.pc = "record" /\ c.event = {}
    BY <1>1, <1>2 DEF PassRecord
<1>6. pass' = [pass EXCEPT ![p] = c]
    BY <1>1, <1>2 DEF WriteTransfer
<1>7. Reading(s)' /\ SeenTrue(s)'
    BY <1>3, PassKept DEF PassInv
<1>8. Reading(c)'
    <2>1. s.work \cup s.event \cup ledger' \subseteq c.work \cup c.event \cup ledger'
        BY <1>3, <1>5
    <2>2. c.work \cup c.event \subseteq s.work \cup s.event
        BY <1>5
    <2> QED
        BY <1>5, <1>7, <2>1, <2>2 DEF Reading, Covered
<1>9. PassInv(c)'
    BY <1>4, <1>5, <1>7, <1>8 DEF PassInv, SeenTrue
<1>10. \A e \in s.event : Writable(e, s.wallet)
    BY <1>3 DEF Reading
<1> QED
    BY <1>3, <1>4, <1>5, <1>6, <1>9, <1>10, WritingStep

\* Moving the cursor of the wallet a pass has read leaves the invariant, whatever the
\* report says.
LEMMA AdvancingStep ==
    ASSUME IInv, NEW p \in Passes, Advances(pass[p]), cursor' = Advanced(pass[p]),
           NEW status \in Statuses, NEW reason \in Reasons,
           pass' = [pass EXCEPT ![p] = Reported(pass[p], status, reason)],
           UNCHANGED <<now, indexed, ledger>>, faults' \in 0 .. MaxFaults
    PROVE  IInv'
<1>0. PICK s \in PassRecord : s = pass[p]
    BY PassFacts
<1> DEFINE w == s.wallet
           old == IF s.seen[w] = None THEN 0 ELSE s.seen[w]
           c == Reported(s, status, reason)
<1>1. /\ PassInv(s) /\ SeenTrue(s) /\ Reading(s) /\ s.pc = "record"
      /\ s.work = {} /\ s.reached # None
      /\ UNCHANGED <<now, indexed, ledger>>
      /\ now \in Nat /\ now' \in Nat /\ now <= now'
    BY <1>0, PassFacts DEF Advances
<1>2. /\ w \in Wallets /\ s.reached \in Nat /\ s.seen \in [Wallets -> Nat \cup {None}]
      /\ s.ends \in Seq(Endings) /\ s.event = {} /\ s.listing = ListingCount + 1
    BY <1>1 DEF PassRecord, PassInv
<1>3. cursor' = [cursor EXCEPT ![w] = Max2(s.reached, old)]
    BY <1>0 DEF Advanced
<1>4. pass' = [pass EXCEPT ![p] = c]
    BY <1>0
<1>6. c \in PassRecord /\ PassInv(c)
    BY <1>1, ReportedSound
<1> HIDE DEF c
<1>7. Max2(s.reached, old) \in Nat
    BY <1>2, Times DEF Max2
<1>8. TimelyIndexing => RecordedThrough(w, Max2(s.reached, old))
    <2> SUFFICES ASSUME TimelyIndexing, NEW r \in Owed(w), TimeOf(r) <= Max2(s.reached, old)
                 PROVE  Movement(r) \in ledger
        BY DEF RecordedThrough
    <2>1. r \in Rows /\ TimeOf(r) \in Nat /\ ListingOf[r] < s.listing
        BY <1>2, Times, ListingAssumption DEF Owed, ListingAssumption, Listings
    <2>2. /\ Max2(RegisteredAt[w], OldestPair[w]) < TimeOf(r)
          /\ RegisteredAt[w] \in Nat /\ OldestPair[w] \in Nat \cup {None}
        BY <1>2, Times DEF Owed
    <2>3. s.seen[w] # None /\ TimeOf(r) <= s.seen[w] => Movement(r) \in ledger
        BY <1>1, <1>2 DEF SeenTrue, RecordedThrough
    <2>4. CASE s.from < TimeOf(r) /\ TimeOf(r) <= s.reached
        BY <1>1, <1>2, <2>1, <2>4 DEF Reading, Covered
    <2>5. CASE ~(s.from < TimeOf(r))
        <3>1. s.from = WalletStart(w, s.seen) /\ s.from \in Nat
            BY <1>1 DEF Reading, PassRecord
        <3>2. s.seen[w] \in Nat \cup {None}
            BY <1>2
        <3>3. s.seen[w] # None /\ TimeOf(r) <= s.seen[w]
            BY <2>1, <2>2, <2>5, <3>1, <3>2, Times DEF WalletStart, Max2
        <3> QED
            BY <2>3, <3>3
    <2>6. CASE ~(TimeOf(r) <= s.reached)
        <3>1. s.seen[w] \in Nat \cup {None}
            BY <1>2
        <3>2. s.seen[w] # None /\ TimeOf(r) <= s.seen[w]
            BY <1>2, <2>1, <2>6, <3>1, Times DEF Max2
        <3> QED
            BY <2>3, <3>2
    <2> QED
        BY <2>4, <2>5, <2>6
<1> HIDE DEF old, w
<1>9. TimelyIndexing => CursorTrue'
    <2>1. cursor \in [Wallets -> Nat \cup {None}]
        BY DEF IInv, TypeOK
    <2>2. ASSUME TimelyIndexing, NEW x \in Wallets, cursor'[x] # None PROVE RecordedThrough(x, cursor'[x])
        BY <1>2, <1>3, <1>8, <2>1, <2>2 DEF IInv, RecordTrue, CursorTrue
    <2> QED
        BY <1>1, <2>2 DEF CursorTrue, RecordedThrough
<1>10. now' = now
    BY <1>1
<1>11. PassInv(c)'
    BY <1>1, <1>6, PassKept
<1>12. /\ pass' \in [Passes -> PassRecord]
       /\ \A q \in Passes : PassInv(pass[q])'
    BY <1>1, <1>4, <1>6, <1>11, OnePass DEF IInv
<1>13. TypeOK' /\ IndexedInTime'
    BY <1>1, <1>2, <1>3, <1>7, <1>12 DEF IInv, TypeOK, IndexedInTime
<1>14. (TimelyIndexing => WrittenOnce') /\ RecordedConfirmed'
    BY <1>1 DEF IInv, RecordTrue, WrittenOnce, RecordedConfirmed
<1> QED
    BY <1>9, <1>12, <1>13, <1>14 DEF IInv, RecordTrue

LEMMA AdvanceCursorInv ==
    ASSUME IInv, NEW p \in Passes, AdvanceCursor(p)
    PROVE  IInv'
<1> DEFINE ends == pass[p].ends
           status == IF AllComplete(ends) THEN "complete" ELSE "partial"
           reason == IF AllComplete(ends) THEN "none" ELSE FirstShortfall(ends)
<1>1. ends \in Seq(Endings) /\ faults' \in 0 .. MaxFaults
    BY PassFacts DEF PassRecord, AdvanceCursor
<1>2. status \in Statuses /\ reason \in Reasons
    BY <1>1, ShortfallType DEF Statuses, Reasons
<1>3. /\ Advances(pass[p]) /\ cursor' = Advanced(pass[p])
      /\ pass' = [pass EXCEPT ![p] = Reported(pass[p], status, reason)]
      /\ UNCHANGED <<now, indexed, ledger>>
    BY DEF AdvanceCursor
<1> HIDE DEF status, reason
<1> QED
    BY <1>1, <1>2, <1>3, AdvancingStep

LEMMA DatabaseFailsInv ==
    ASSUME IInv, NEW p \in Passes, DatabaseFails(p)
    PROVE  IInv'
<1>1. PICK s \in PassRecord : s = pass[p]
    BY PassFacts
<1>2. PICK c : c = Reported(s, "failed", "write_failed")
    OBVIOUS
<1>3. /\ SeenTrue(s) /\ Reading(s)
      /\ pass' = [pass EXCEPT ![p] = c]
      /\ UNCHANGED <<now, indexed>>
      /\ now \in Nat /\ now' \in Nat /\ now <= now'
    BY <1>1, <1>2, PassFacts DEF DatabaseFails
<1>4. faults' \in 0 .. MaxFaults
    BY FaultType DEF DatabaseFails
<1>5. "failed" \in Statuses /\ "write_failed" \in Reasons
    BY DEF Statuses, Reasons
<1>6. CASE ledger' \in {ledger, ledger \cup s.event} /\ UNCHANGED cursor
    <2>1. c \in PassRecord /\ PassInv(c)
        BY <1>2, <1>3, <1>5, ReportedSound
    <2>2. PICK new \in {{}, s.event} : ledger' = ledger \cup new
        BY <1>6
    <2>3. new \in SUBSET Event /\ \A e \in new : Writable(e, s.wallet)
        BY <1>3, <2>2 DEF PassRecord, Reading
    <2>4. s.wallet \in Wallets
        BY DEF PassRecord
    <2>5. PassInv(c)'
        BY <1>3, <2>1, <2>2, PassKept
    <2> QED
        BY <1>3, <1>4, <1>6, <2>1, <2>2, <2>3, <2>4, <2>5, WritingStep
<1>7. CASE Advances(s) /\ cursor' = Advanced(s) /\ UNCHANGED ledger
    BY <1>1, <1>2, <1>3, <1>4, <1>5, <1>7, AdvancingStep
<1> QED
    BY <1>1, <1>6, <1>7 DEF DatabaseFails

\* Every step of the watcher keeps the invariant.
LEMMA NextInv ==
    ASSUME IInv, [Next]_vars
    PROVE  IInv'
<1>1. CASE Tick
    BY <1>1, EnvironmentInv
<1>2. CASE \E r \in Rows : Index(r)
    BY <1>2, EnvironmentInv
<1>3. ASSUME NEW p \in Passes, PassStep(p) PROVE IInv'
    <2>1. CASE StartPass(p) \/ EndPass(p)
        BY <2>1, StartPassInv
    <2>2. CASE \E w \in Wallets : TakeWallet(p, w)
        BY <2>2, TakeWalletInv
    <2>3. CASE ReadPage(p) \/ CutListing(p)
        BY <2>3, ReadPageInv, CutListingInv
    <2>4. CASE \E e \in pass[p].work : TakeTransfer(p, e)
        BY <2>4, TakeTransferInv
    <2>5. CASE WriteTransfer(p)
        BY <2>5, WriteTransferInv
    <2>6. CASE EndUnmoved(p) \/ AdvanceCursor(p)
        BY <2>6, EndUnmovedInv, AdvanceCursorInv
    <2> QED
        BY <1>3, <2>1, <2>2, <2>3, <2>4, <2>5, <2>6 DEF PassStep
<1>4. ASSUME NEW p \in Passes, FaultStep(p) PROVE IInv'
    BY <1>4, ExplorerFailsInv, DatabaseFailsInv, DeadlineComesInv, CrashInv DEF FaultStep
<1>5. CASE UNCHANGED vars
    BY <1>5 DEF vars, IInv, TypeOK, IndexedInTime, RecordTrue, CursorTrue, RecordedThrough,
        WrittenOnce, RecordedConfirmed, PassInv, SeenTrue, Reading, Covered, ReadSoFar, Whole, Writable
<1> QED
    BY <1>1, <1>2, <1>3, <1>4, <1>5 DEF Next
-----------------------------------------------------------------------------
(* The theorems. *)

\* The invariant holds at every moment of a run of the watcher, however its passes
\* overlap, are cut, fail or die.
THEOREM Invariance == Spec => []IInv
<1>1. IInv /\ [Next]_vars => IInv'
    BY NextInv
<1> QED
    BY <1>1, InitInv, PTL DEF Spec

\* The cursor table, the ledger and the passes keep their types, whatever the explorer lists
\* and when: a pass never holds a malformed read, a cursor never turns negative.
THEOREM TypeCorrect == Spec => []TypeOK
<1>1. IInv => TypeOK
    BY DEF IInv
<1> QED
    BY <1>1, Invariance, PTL

\* A cursor never claims a transfer that is not in the ledger.
THEOREM CursorsTrue == TimelyIndexing => (Spec => []CursorTrue)
<1> SUFFICES ASSUME TimelyIndexing PROVE Spec => []CursorTrue
    OBVIOUS
<1>1. IInv => CursorTrue
    BY DEF IInv, RecordTrue
<1> QED
    BY <1>1, Invariance, PTL

\* No movement is written a second time under another name.
THEOREM WrittenOnly == TimelyIndexing => (Spec => []WrittenOnce)
<1> SUFFICES ASSUME TimelyIndexing PROVE Spec => []WrittenOnce
    OBVIOUS
<1>1. IInv => WrittenOnce
    BY DEF IInv, RecordTrue
<1> QED
    BY <1>1, Invariance, PTL

\* Nothing is written before it is old enough, nor from before a wallet's registration, however
\* late the explorer lists a row and however its pages shift.
THEOREM OnlyConfirmed == Spec => []RecordedConfirmed
<1>1. IInv => RecordedConfirmed
    BY DEF IInv
<1> QED
    BY <1>1, Invariance, PTL
-----------------------------------------------------------------------------
(* The watcher implements what it promises. *)

LEMMA PromiseInit == Init => Promise!Init
    BY DEF Init, Promise!Init

\* A step that writes nothing and moves no cursor is the passing of time, or nothing.
LEMMA PromiseQuiet ==
    ASSUME IInv, now' = now, UNCHANGED <<ledger, cursor>>
    PROVE  [Promise!Next]_Promise!vars
    BY DEF Promise!vars

\* Writing the transfer a pass holds records it, or nothing when it is there already.
LEMMA PromiseWrite ==
    ASSUME TimelyIndexing, IInv, NEW p \in Passes, ledger' = ledger \cup pass[p].event,
           now' = now, UNCHANGED cursor
    PROVE  [Promise!Next]_Promise!vars
<1>1. CASE ledger' = ledger
    BY <1>1, PromiseQuiet
<1>2. CASE ledger' # ledger
    <2>1. PassInv(pass[p]) /\ pass[p].pc = "write" /\ Reading(pass[p])
        BY <1>2, PassFacts DEF PassInv
    <2>2. PICK e \in Event : pass[p].event = {e}
        BY <2>1, PassFacts DEF PassInv, PassRecord
    <2>3. Writable(e, pass[p].wallet)
        BY <2>1, <2>2 DEF Reading
    <2>4. e = Movement(e.row) /\ e.row \in Movements
        BY <2>3 DEF Writable, Event, Movement
    <2>5. e \in MovementEvents
        BY <2>4 DEF MovementEvents
    <2>6. e \notin ledger /\ ledger' = ledger \cup {e} /\ TimeOf(e.row) + Lag <= now
        BY <1>2, <2>2, <2>3 DEF Writable
    <2>7. Promise!Record(e)
        BY <2>5, <2>6 DEF Promise!Record
    <2> QED
        BY <2>5, <2>7 DEF Promise!Next
<1> QED
    BY <1>1, <1>2

\* Moving a cursor is a claim, and a true one.
LEMMA PromiseClaim ==
    ASSUME TimelyIndexing, IInv, IInv', NEW p \in Passes, Advances(pass[p]), cursor' = Advanced(pass[p]),
           now' = now, UNCHANGED ledger
    PROVE  [Promise!Next]_Promise!vars
<1>1. PICK w \in Wallets : w = pass[p].wallet
    BY PassFacts DEF PassRecord
<1>2. PICK s \in PassRecord : s = pass[p]
    BY PassFacts
<1>3. PICK m : m = Max2(s.reached, IF s.seen[w] = None THEN 0 ELSE s.seen[w])
    OBVIOUS
<1>4. cursor' = [cursor EXCEPT ![w] = m] /\ s.reached # None
    BY <1>1, <1>2, <1>3 DEF Advances, Advanced
<1>5. m \in Nat
    <2>1. s.reached \in Nat /\ s.seen[w] \in Nat \cup {None}
        BY <1>4 DEF PassRecord
    <2> QED
        BY <1>3, <2>1 DEF Max2
<1>6. cursor \in [Wallets -> Nat \cup {None}]
    BY DEF IInv, TypeOK
<1>7. cursor'[w] = m /\ cursor' = [cursor EXCEPT ![w] = cursor'[w]] /\ m # None
    BY <1>4, <1>5, <1>6 DEF None
<1>8. \A r \in Owed(w) : TimeOf(r) <= m => Movement(r) \in ledger
    BY <1>4, <1>7 DEF IInv, RecordTrue, CursorTrue, RecordedThrough
<1>9. ASSUME NEW t \in OwedEvents(w) PROVE t \in MovementEvents /\ t.row \in Owed(w) /\ t = Movement(t.row)
    BY DEF OwedEvents, MovementEvents, Movement, Owed
<1>10. Promise!Claim(w)
    BY <1>4, <1>5, <1>7, <1>8, <1>9 DEF Promise!Claim
<1> QED
    BY <1>10 DEF Promise!Next

LEMMA PromiseStep ==
    ASSUME TimelyIndexing, IInv, IInv', [Next]_vars
    PROVE  [Promise!Next]_Promise!vars
<1>1. CASE Tick
    <2>1. now \in Nat
        BY WatchAssumption DEF IInv, TypeOK, WatchAssumption
    <2>2. Promise!Pass
        BY <1>1, <2>1 DEF Tick, Promise!Pass
    <2> QED
        BY <2>2 DEF Promise!Next
<1>2. CASE \E r \in Rows : Index(r)
    BY <1>2, PromiseQuiet DEF Index
<1>3. ASSUME NEW p \in Passes, PassStep(p) PROVE [Promise!Next]_Promise!vars
    <2>1. CASE WriteTransfer(p)
        BY <2>1, PromiseWrite DEF WriteTransfer
    <2>2. CASE AdvanceCursor(p)
        BY <2>2, PromiseClaim DEF AdvanceCursor
    <2>3. CASE \/ StartPass(p) \/ EndPass(p) \/ \E w \in Wallets : TakeWallet(p, w)
               \/ ReadPage(p) \/ CutListing(p) \/ \E e \in pass[p].work : TakeTransfer(p, e)
               \/ EndUnmoved(p)
        <3>1. now' = now /\ UNCHANGED <<ledger, cursor>>
            BY <2>3 DEF StartPass, EndPass, TakeWallet, ReadPage, CutListing, TakeTransfer, EndUnmoved
        <3> QED
            BY <3>1, PromiseQuiet
    <2> QED
        BY <1>3, <2>1, <2>2, <2>3 DEF PassStep
<1>4. ASSUME NEW p \in Passes, FaultStep(p) PROVE [Promise!Next]_Promise!vars
    <2>1. CASE DatabaseFails(p)
        <3>1. CASE UNCHANGED cursor /\ ledger' \in {ledger, ledger \cup pass[p].event}
            BY <2>1, <3>1, PromiseQuiet, PromiseWrite DEF DatabaseFails
        <3>2. CASE Advances(pass[p]) /\ cursor' = Advanced(pass[p]) /\ UNCHANGED ledger
            BY <2>1, <3>2, PromiseClaim DEF DatabaseFails
        <3> QED
            BY <2>1, <3>1, <3>2 DEF DatabaseFails
    <2>2. CASE ExplorerFails(p) \/ DeadlineComes(p) \/ Crash(p)
        <3>1. now' = now /\ UNCHANGED <<ledger, cursor>>
            BY <2>2 DEF ExplorerFails, DeadlineComes, Crash
        <3> QED
            BY <3>1, PromiseQuiet
    <2> QED
        BY <1>4, <2>1, <2>2 DEF FaultStep
<1>5. CASE UNCHANGED vars
    BY <1>5, PromiseQuiet DEF vars
<1> QED
    BY <1>1, <1>2, <1>3, <1>4, <1>5 DEF Next

\* The watcher keeps its promise: it writes each transfer once, when it is old enough,
\* removes none, and claims a second only when every transfer up to it is written.
THEOREM WatchKeepsPromise == TimelyIndexing => (Spec => KeepsPromise)
<1> SUFFICES ASSUME TimelyIndexing PROVE Spec => KeepsPromise
    OBVIOUS
<1>1. IInv /\ IInv' /\ [Next]_vars => [Promise!Next]_Promise!vars
    BY PromiseStep
<1> QED
    BY <1>1, PromiseInit, Invariance, PTL DEF Spec, KeepsPromise, Promise!Spec
=============================================================================
