------------------------ MODULE ReportVersionsProofs -------------------------
(***************************************************************************)
(* Proofs about ReportVersions, for any number of generators, events and   *)
(* page sizes: the versions of a day are a chain; one whose predecessor's  *)
(* words can be read is a later snapshot and does not say the same again;  *)
(* each holds what was recorded before its moment, and so does the one a   *)
(* call answers with.                                                      *)
(***************************************************************************)
EXTENDS ReportVersions, TLAPS

WriterRecord ==
    [pc : {"idle", "read", "newest", "insert", "done"}, at : Nat,
     name : Names \cup {None}, signs : BOOLEAN, after : Events \cup {None},
     rows : SUBSET Events, attempt : Nat, newest : Nat, answer : Nat]

\* A report's moment is not in the future.
Dated ==
    /\ \A w \in Writers : writer[w].at <= clock
    /\ \A i \in DOMAIN versions : versions[i].at <= clock

\* A generator at work has its labels.
Named == \A w \in Writers : writer[w].pc \in {"read", "newest", "insert"} => writer[w].name \in Names

\* What was recorded before a generator's moment it has read, or its next pages have.
Gathered ==
    \A w \in Writers :
        /\ writer[w].pc = "read" =>
              EarlierThan(writer[w].at) \subseteq writer[w].rows \cup Unread(writer[w].after)
        /\ writer[w].pc \in {"newest", "insert"} => EarlierThan(writer[w].at) \subseteq writer[w].rows

\* A generator that is to insert has seen that the newest version, as it was, will not do.
Beaten ==
    \A w \in Writers : writer[w].pc = "insert" =>
        /\ writer[w].newest <= Len(versions)
        /\ writer[w].newest < MaxVersions
        /\ writer[w].newest > 0 /\ versions[writer[w].newest].known =>
                ~KeepsNewest(writer[w], versions[writer[w].newest])

IInv ==
    /\ TypeOK
    /\ Dated
    /\ Named
    /\ Gathered
    /\ Beaten
    /\ HoldsEarlier
    /\ Chained
    /\ EachSaysMore
    /\ AnswerHolds
-----------------------------------------------------------------------------
LEMMA InitInv == Init => IInv
<1> SUFFICES ASSUME Init PROVE IInv
    OBVIOUS
<1> USE VersionsAssumption
<1>1. IdleWriter \in WriterRecord /\ IdleWriter.pc = "idle" /\ IdleWriter.at = 0
    BY DEF IdleWriter, WriterRecord
<1>2. TypeOK
    BY <1>1 DEF Init, TypeOK, WriterRecord
<1>3. Dated /\ Named /\ Gathered /\ Beaten /\ AnswerHolds
    BY <1>1 DEF Init, Dated, Named, Gathered, Beaten, AnswerHolds
<1>4. HoldsEarlier /\ Chained /\ EachSaysMore
    BY DEF Init, HoldsEarlier, Chained, EachSaysMore
<1> QED
    BY <1>2, <1>3, <1>4 DEF IInv

\* A step of the world: time passes, an event is recorded now, a label is changed.
LEMMA WorldKeeps ==
    ASSUME IInv, WorldStep
    PROVE  IInv'
<1> USE VersionsAssumption
<1>1. UNCHANGED <<versions, writer>> /\ clock' \in Nat /\ clock' >= clock /\ clock \in Nat
    BY DEF WorldStep, Tick, RecordEvent, Relabel, IInv, TypeOK
<1>2. recorded' \in [Events -> Nat] /\ name' \in Names
    BY <1>1 DEF WorldStep, Tick, RecordEvent, Relabel, IInv, TypeOK
<1>3. ASSUME NEW t \in Nat, t <= clock PROVE EarlierThan(t)' = EarlierThan(t)
    <2>1. CASE UNCHANGED recorded
        BY <2>1 DEF EarlierThan, Ledger
    <2>2. ASSUME NEW e \in Events, RecordEvent(e) PROVE EarlierThan(t)' = EarlierThan(t)
        <3>1. /\ recorded[e] = 0 /\ recorded'[e] = clock
              /\ \A f \in Events \ {e} : recorded'[f] = recorded[f]
            BY <2>2 DEF RecordEvent, IInv, TypeOK
        <3>2. e \notin EarlierThan(t) /\ e \notin EarlierThan(t)'
            BY <1>1, <1>3, <3>1 DEF EarlierThan, Ledger
        <3> QED
            BY <3>1, <3>2 DEF EarlierThan, Ledger
    <2> QED
        BY <2>1, <2>2 DEF WorldStep, Tick, Relabel
<1>4. Ledger \subseteq Ledger'
    <2>1. CASE UNCHANGED recorded
        BY <2>1 DEF Ledger
    <2>2. ASSUME NEW e \in Events, RecordEvent(e) PROVE Ledger \subseteq Ledger'
        BY <2>2 DEF RecordEvent, Ledger, IInv, TypeOK
    <2> QED
        BY <2>1, <2>2 DEF WorldStep, Tick, Relabel
<1>5. ASSUME NEW after PROVE Unread(after) \subseteq Unread(after)'
    BY <1>4 DEF Unread
<1>6. /\ \A w \in Writers : writer[w].at \in Nat /\ writer[w].at <= clock
      /\ \A i \in DOMAIN versions : versions[i].at \in Nat /\ versions[i].at <= clock
    <2>1. \A i \in DOMAIN versions : versions[i] \in Version
        BY DEF IInv, TypeOK
    <2> QED
        BY <2>1 DEF IInv, TypeOK, Dated, Version
<1>7. TypeOK'
    BY <1>1, <1>2 DEF IInv, TypeOK
<1>8. Dated'
    BY <1>1, <1>6 DEF Dated
<1>9. Named' /\ Beaten' /\ Chained' /\ EachSaysMore'
    BY <1>1 DEF IInv, Named, Beaten, Chained, EachSaysMore, KeepsNewest, WordsOf
<1>10. Gathered'
    <2>1. ASSUME NEW w \in Writers
          PROVE  EarlierThan(writer[w].at)' = EarlierThan(writer[w].at)
        <3>1. EarlierThan(writer[w].at)' = {e \in Ledger' : recorded'[e] < writer[w].at}
            BY <1>1 DEF EarlierThan
        <3> QED
            BY <1>3, <1>6, <3>1 DEF EarlierThan
    <2>2. ASSUME NEW w \in Writers
          PROVE  Unread(writer[w].after) \subseteq Unread(writer[w].after)'
        <3>1. Unread(writer[w].after)' =
                {e \in Ledger' : writer[w].after = None \/ (writer[w].after \in Events /\ Before(writer[w].after, e))}
            BY <1>1 DEF Unread, Before
        <3> QED
            BY <1>4, <3>1 DEF Unread
    <2> QED
        BY <1>1, <2>1, <2>2 DEF IInv, Gathered
<1>11. HoldsEarlier' /\ AnswerHolds'
    <2>1. ASSUME NEW t \in Nat, t <= clock
          PROVE  {e \in Ledger' : recorded'[e] < t} = {e \in Ledger : recorded[e] < t}
        BY <1>3, <2>1 DEF EarlierThan
    <2>2. HoldsEarlier'
        BY <1>1, <1>6, <2>1 DEF IInv, HoldsEarlier, EarlierThan
    <2>3. AnswerHolds'
        BY <1>1, <1>6, <2>1 DEF IInv, AnswerHolds, EarlierThan
    <2> QED
        BY <2>2, <2>3
<1> QED
    BY <1>7, <1>8, <1>9, <1>10, <1>11 DEF IInv
\* The words of a row that can no longer be read: nothing else of it changes.
LEMMA LoseFormatStep ==
    ASSUME IInv, NEW k \in DOMAIN versions, LoseFormat(k)
    PROVE  IInv'
<1>1. versions \in Seq(Version) /\ UNCHANGED <<clock, recorded, name, writer>>
    BY DEF LoseFormat, IInv, TypeOK
<1>2. /\ versions' \in Seq(Version) /\ Len(versions') = Len(versions)
      /\ DOMAIN versions' = DOMAIN versions
    <2>1. versions[k] \in Version
        BY <1>1
    <2>2. [versions[k] EXCEPT !.known = FALSE] \in Version
        BY <2>1 DEF Version
    <2>3. versions' = [versions EXCEPT ![k] = [versions[k] EXCEPT !.known = FALSE]]
        BY DEF LoseFormat
    <2> QED
        BY <1>1, <2>2, <2>3
<1>3. \A i \in DOMAIN versions :
        /\ versions'[i].at = versions[i].at /\ versions'[i].words = versions[i].words
        /\ versions'[i].signed = versions[i].signed /\ versions'[i].prev = versions[i].prev
        /\ versions'[i].known => versions[i].known
    <2>1. \A i \in DOMAIN versions : versions[i] \in Version
        BY <1>1
    <2> QED
        BY <2>1 DEF LoseFormat, Version
<1>4. TypeOK'
    BY <1>1, <1>2 DEF IInv, TypeOK
<1>5. Dated' /\ Named' /\ HoldsEarlier' /\ AnswerHolds'
    BY <1>1, <1>2, <1>3 DEF IInv, Dated, Named, HoldsEarlier, AnswerHolds, EarlierThan, Ledger
<1>6. Gathered'
    BY <1>1 DEF IInv, Gathered, EarlierThan, Unread, Ledger, Before
<1>7. Beaten'
    <2>1. ASSUME NEW w \in Writers, writer[w].pc = "insert",
                 writer[w].newest > 0, versions'[writer[w].newest].known
          PROVE  ~KeepsNewest(writer[w], versions'[writer[w].newest])
        <3>1. writer[w].newest \in DOMAIN versions
            BY <1>1, <2>1 DEF IInv, TypeOK, Beaten
        <3>2. ~KeepsNewest(writer[w], versions[writer[w].newest])
            BY <1>3, <2>1, <3>1 DEF IInv, Beaten
        <3> QED
            BY <1>3, <3>1, <3>2 DEF KeepsNewest
    <2> QED
        BY <1>1, <1>2, <2>1 DEF IInv, Beaten, KeepsNewest, WordsOf
<1>8. Chained' /\ EachSaysMore'
    <2>1. \A i \in DOMAIN versions : i > 1 => i - 1 \in DOMAIN versions
        BY <1>1
    <2>2. Chained'
        BY <1>2, <1>3, <2>1 DEF IInv, Chained
    <2>3. EachSaysMore'
        BY <1>2, <1>3, <2>1 DEF IInv, EachSaysMore
    <2> QED
        BY <2>2, <2>3
<1> QED
    BY <1>4, <1>5, <1>6, <1>7, <1>8 DEF IInv
-----------------------------------------------------------------------------
(* The generators. *)

\* A generator that changes, alone, to a state that fits the ledger and the versions.
LEMMA WriterKeeps ==
    ASSUME IInv, NEW w \in Writers, NEW x \in WriterRecord,
           writer' = [writer EXCEPT ![w] = x], UNCHANGED <<clock, recorded, name, versions>>,
           x.at <= clock,
           x.pc \in {"read", "newest", "insert"} => x.name \in Names,
           x.pc = "read" => EarlierThan(x.at) \subseteq x.rows \cup Unread(x.after),
           x.pc \in {"newest", "insert"} => EarlierThan(x.at) \subseteq x.rows,
           x.pc = "insert" => /\ x.newest <= Len(versions)
                              /\ x.newest < MaxVersions
                              /\ x.newest > 0 /\ versions[x.newest].known =>
                                    ~KeepsNewest(x, versions[x.newest]),
           x.pc = "done" => /\ x.answer \in DOMAIN versions
                            /\ EarlierThan(x.at) \subseteq versions[x.answer].words.events
    PROVE  IInv'
<1>1. writer'[w] = x /\ \A v \in Writers \ {w} : writer'[v] = writer[v]
    BY DEF IInv, TypeOK
<1>2. TypeOK'
    BY DEF IInv, TypeOK, WriterRecord
<1>3. Dated' /\ Named'
    BY <1>1 DEF IInv, Dated, Named
<1>4. HoldsEarlier' /\ Chained' /\ EachSaysMore'
    BY DEF IInv, HoldsEarlier, Chained, EachSaysMore, EarlierThan, Ledger
<1>5. Gathered'
    BY <1>1 DEF IInv, Gathered, EarlierThan, Unread, Ledger, Before
<1>6. Beaten'
    BY <1>1 DEF IInv, Beaten, KeepsNewest, WordsOf
<1>7. AnswerHolds'
    BY <1>1 DEF IInv, AnswerHolds, EarlierThan, Ledger
<1> QED
    BY <1>2, <1>3, <1>4, <1>5, <1>6, <1>7 DEF IInv

\* A generator that gives up.
LEMMA IdleKeeps ==
    ASSUME IInv, NEW w \in Writers, writer' = [writer EXCEPT ![w] = IdleWriter],
           UNCHANGED <<clock, recorded, name, versions>>
    PROVE  IInv'
<1>1. IdleWriter \in WriterRecord /\ IdleWriter.pc = "idle" /\ IdleWriter.at <= clock
    BY DEF IdleWriter, WriterRecord, IInv, TypeOK
<1> HIDE DEF IdleWriter
<1> QED
    BY <1>1, WriterKeeps

LEMMA StampStep ==
    ASSUME IInv, NEW w \in Writers, Stamp(w)
    PROVE  IInv'
<1>1. PICK signs \in BOOLEAN :
        writer' = [writer EXCEPT ![w] =
            [IdleWriter EXCEPT !.pc = "read", !.at = clock, !.name = name, !.signs = signs]]
    BY DEF Stamp
<1> DEFINE x == [IdleWriter EXCEPT !.pc = "read", !.at = clock, !.name = name, !.signs = signs]
<1>2. /\ x \in WriterRecord /\ x.pc = "read" /\ x.at = clock /\ x.name = name
      /\ x.after = None /\ clock \in Nat /\ name \in Names
    BY DEF IdleWriter, WriterRecord, IInv, TypeOK
<1>3. EarlierThan(x.at) \subseteq x.rows \cup Unread(x.after)
    BY <1>2 DEF EarlierThan, Unread
<1>4. UNCHANGED <<clock, recorded, name, versions>>
    BY DEF Stamp
<1>5. writer' = [writer EXCEPT ![w] = x]
    BY <1>1
<1>6. x.at <= clock /\ x.name \in Names
    BY <1>2
<1> HIDE DEF x
<1>7. x \in WriterRecord /\ x.pc = "read"
    BY <1>2
<1> QED
    BY <1>3, <1>4, <1>5, <1>6, <1>7, WriterKeeps

\* A page and what comes after its last row are all the rows there were after the row before.
LEMMA ReadPageStep ==
    ASSUME IInv, NEW w \in Writers, ReadPage(w)
    PROVE  IInv'
<1> USE VersionsAssumption
<1> DEFINE s == writer[w]
           U == Unread(s.after)
<1>1. /\ s \in WriterRecord /\ s.pc = "read" /\ s.at <= clock /\ s.name \in Names
      /\ EarlierThan(s.at) \subseteq s.rows \cup U
      /\ UNCHANGED <<clock, recorded, name, versions>>
    BY DEF ReadPage, IInv, TypeOK, WriterRecord, Dated, Named, Gathered
<1>2. PICK P \in SUBSET U :
        /\ IsPage(P, U)
        /\ \/ /\ Cardinality(P) < PageSize
              /\ writer' = [writer EXCEPT ![w].rows = @ \cup P, ![w].after = None, ![w].pc = "newest"]
           \/ /\ Cardinality(P) = PageSize
              /\ \E last \in P :
                    /\ \A e \in P \ {last} : Before(e, last)
                    /\ writer' = [writer EXCEPT ![w].rows = @ \cup P, ![w].after = last]
    BY DEF ReadPage
<1>3. U \subseteq Events /\ U \subseteq Ledger
    BY DEF Unread, Ledger
<1>4. CASE Cardinality(P) < PageSize
           /\ writer' = [writer EXCEPT ![w].rows = @ \cup P, ![w].after = None, ![w].pc = "newest"]
    <2> DEFINE x == [s EXCEPT !.rows = @ \cup P, !.after = None, !.pc = "newest"]
    <2>1. /\ x \in WriterRecord /\ x.pc = "newest" /\ x.at = s.at /\ x.name = s.name
          /\ x.rows = s.rows \cup P
        BY <1>1, <1>2, <1>3 DEF WriterRecord
    <2>2. P = U
        BY <1>2, <1>4 DEF IsPage
    <2>3. writer' = [writer EXCEPT ![w] = x]
        BY <1>4 DEF IInv, TypeOK
    <2> HIDE DEF x, U
    <2>4. EarlierThan(x.at) \subseteq x.rows
        BY <1>1, <2>1, <2>2
    <2> HIDE DEF s
    <2> QED
        BY <1>1, <2>1, <2>3, <2>4, WriterKeeps
<1>5. ASSUME NEW last \in P, Cardinality(P) = PageSize,
             writer' = [writer EXCEPT ![w].rows = @ \cup P, ![w].after = last]
      PROVE  IInv'
    <2> DEFINE x == [s EXCEPT !.rows = @ \cup P, !.after = last]
    <2>1. /\ x \in WriterRecord /\ x.pc = "read" /\ x.at = s.at /\ x.name = s.name
          /\ x.rows = s.rows \cup P /\ x.after = last
        BY <1>1, <1>2, <1>3, <1>5 DEF WriterRecord
    <2>2. U \ P \subseteq Unread(last)
        BY <1>2, <1>3, <1>5 DEF IsPage, Unread
    <2>3. writer' = [writer EXCEPT ![w] = x]
        BY <1>5 DEF IInv, TypeOK
    <2> HIDE DEF x, U
    <2>4. EarlierThan(x.at) \subseteq x.rows \cup Unread(x.after)
        BY <1>1, <2>1, <2>2
    <2> HIDE DEF s
    <2> QED
        BY <1>1, <2>1, <2>3, <2>4, WriterKeeps
<1> QED
    BY <1>2, <1>4, <1>5

LEMMA ReadNewestStep ==
    ASSUME IInv, NEW w \in Writers, ReadNewest(w)
    PROVE  IInv'
<1> USE VersionsAssumption
<1> DEFINE s == writer[w]
           n == Len(versions)
           kept == n > 0 /\ versions[n].known /\ KeepsNewest(s, versions[n])
<1>1. /\ s \in WriterRecord /\ s.pc = "newest" /\ s.at <= clock /\ s.name \in Names
      /\ EarlierThan(s.at) \subseteq s.rows
      /\ UNCHANGED <<clock, recorded, name, versions>>
    BY DEF ReadNewest, IInv, TypeOK, WriterRecord, Dated, Named, Gathered
<1>2. n \in Nat /\ versions \in Seq(Version) /\ writer \in [Writers -> WriterRecord]
    BY DEF IInv, TypeOK, WriterRecord
<1>3. CASE kept /\ writer' = [writer EXCEPT ![w] = DoneWriter(w, n)]
    <2> DEFINE x == DoneWriter(w, n)
    <2>1. x \in WriterRecord /\ x.pc = "done" /\ x.at = s.at /\ x.answer = n
        BY <1>1, <1>2 DEF DoneWriter, IdleWriter, WriterRecord
    <2>2. n \in DOMAIN versions /\ versions[n] \in Version
        BY <1>2, <1>3
    <2>3. EarlierThan(s.at) \subseteq versions[n].words.events
        <3>1. CASE versions[n].at >= s.at
            <4>1. EarlierThan(versions[n].at) \subseteq versions[n].words.events
                BY <2>2 DEF IInv, HoldsEarlier
            <4>2. \A e \in Ledger : recorded[e] \in Nat
                BY DEF Ledger, IInv, TypeOK
            <4>3. s.at \in Nat /\ versions[n].at \in Nat
                BY <1>1, <2>2 DEF Version, WriterRecord
            <4> HIDE DEF s, n
            <4>4. EarlierThan(s.at) \subseteq EarlierThan(versions[n].at)
                BY <3>1, <4>2, <4>3 DEF EarlierThan
            <4> QED
                BY <4>1, <4>4
        <3>2. CASE versions[n].words = WordsOf(s)
            BY <1>1, <3>2 DEF WordsOf
        <3> QED
            BY <1>3, <3>1, <3>2 DEF KeepsNewest
    <2>4. writer' = [writer EXCEPT ![w] = x]
        BY <1>3
    <2> HIDE DEF x
    <2> QED
        BY <1>1, <2>1, <2>2, <2>3, <2>4, WriterKeeps
<1>4. CASE writer' = [writer EXCEPT ![w] = IdleWriter]
    BY <1>1, <1>4, IdleKeeps
<1>5. CASE ~kept /\ ~Full(n) /\ writer' = [writer EXCEPT ![w].pc = "insert", ![w].newest = n]
    <2> DEFINE x == [s EXCEPT !.pc = "insert", !.newest = n]
    <2>1. /\ x \in WriterRecord /\ x.pc = "insert" /\ x.at = s.at /\ x.name = s.name
          /\ x.rows = s.rows /\ x.newest = n /\ x.signs = s.signs
        BY <1>1, <1>2 DEF WriterRecord
    <2>2. n < MaxVersions
        BY <1>2, <1>5 DEF Full
    <2>3. n > 0 /\ versions[n].known => ~KeepsNewest(x, versions[n])
        BY <1>5, <2>1 DEF KeepsNewest, WordsOf
    <2>4. writer' = [writer EXCEPT ![w] = x]
        BY <1>2, <1>5
    <2>5. x.newest <= Len(versions)
        BY <1>2, <2>1
    <2>6. x.newest > 0 /\ versions[x.newest].known => ~KeepsNewest(x, versions[x.newest])
        BY <2>1, <2>3
    <2> HIDE DEF x, n, s, kept
    <2> QED
        BY <1>1, <2>1, <2>2, <2>4, <2>5, <2>6, WriterKeeps
<1> QED
    BY <1>3, <1>4, <1>5 DEF ReadNewest

\* The insert that finds its number free: the newest version is the one that was read.
LEMMA WriteStep ==
    ASSUME IInv, NEW w \in Writers, writer[w].pc = "insert", Len(versions) = writer[w].newest,
           versions' = Append(versions, NewVersion(writer[w])),
           writer' = [writer EXCEPT ![w] = DoneWriter(w, writer[w].newest + 1)],
           UNCHANGED <<clock, recorded, name>>
    PROVE  IInv'
<1> USE VersionsAssumption
<1> DEFINE s == writer[w]
           n == Len(versions)
           v == NewVersion(s)
           x == DoneWriter(w, n + 1)
<1>1. /\ s \in WriterRecord /\ s.at <= clock /\ s.name \in Names
      /\ EarlierThan(s.at) \subseteq s.rows
      /\ n = s.newest /\ n < MaxVersions /\ n \in Nat
      /\ n > 0 /\ versions[n].known => ~KeepsNewest(s, versions[n])
      /\ versions \in Seq(Version)
    BY DEF IInv, TypeOK, WriterRecord, Dated, Named, Gathered, Beaten
<1>2. v.at = s.at /\ v.signed = s.signs /\ v.words = WordsOf(s) /\ v.words.events = s.rows
      /\ v.prev = (IF n = 0 THEN None ELSE n)
    BY <1>1 DEF NewVersion, WordsOf
<1>3. v \in Version
    BY <1>1 DEF NewVersion, WordsOf, Version, Words, WriterRecord
<1>4. x \in WriterRecord /\ x.pc = "done" /\ x.at = s.at /\ x.answer = n + 1
    <2>1. s.at \in Nat /\ n + 1 \in Nat
        BY <1>1 DEF WriterRecord
    <2> HIDE DEF n
    <2> QED
        BY <2>1 DEF DoneWriter, IdleWriter, WriterRecord
<1>5. writer' = [writer EXCEPT ![w] = x] /\ versions' = Append(versions, v)
    BY <1>1
<1>6. writer'[w] = x /\ \A u \in Writers \ {w} : writer'[u] = writer[u]
    BY <1>5 DEF IInv, TypeOK
<1>7. v.at \in Nat /\ s.at \in Nat /\ clock \in Nat
    BY <1>1, <1>2 DEF WriterRecord, IInv, TypeOK
<1> HIDE DEF v, x
<1>8. /\ versions' \in Seq(Version) /\ Len(versions') = n + 1 /\ DOMAIN versions' = 1 .. n + 1
      /\ DOMAIN versions = 1 .. n
      /\ versions'[n + 1] = v /\ \A i \in 1 .. n : versions'[i] = versions[i]
    BY <1>1, <1>3, <1>5
<1>9. \A t : EarlierThan(t)' = EarlierThan(t)
    BY DEF EarlierThan, Ledger
<1> HIDE DEF s, n
<1>9a. n \in Nat /\ \A i \in 1 .. n + 1 : i = n + 1 \/ i \in 1 .. n
    BY <1>1
<1>10. TypeOK'
    <2>1. Len(versions') <= MaxVersions
        BY <1>1, <1>8
    <2> QED
        BY <1>4, <1>5, <1>8, <2>1 DEF IInv, TypeOK, WriterRecord
<1>11. Dated'
    <2>1. \A i \in DOMAIN versions' : versions'[i].at <= clock
        BY <1>1, <1>2, <1>8 DEF IInv, Dated
    <2>2. \A u \in Writers : writer'[u].at <= clock
        BY <1>1, <1>4, <1>6 DEF IInv, Dated
    <2> QED
        BY <2>1, <2>2 DEF Dated
<1>12. Named'
    BY <1>4, <1>6 DEF IInv, Named
<1>13. Gathered'
    BY <1>4, <1>6 DEF IInv, Gathered, EarlierThan, Ledger, Unread, Before
<1>14. Beaten'
    <2>1. ASSUME NEW u \in Writers, writer'[u].pc = "insert"
          PROVE  /\ writer'[u].newest <= Len(versions')
                 /\ writer'[u].newest < MaxVersions
                 /\ writer'[u].newest > 0 /\ versions'[writer'[u].newest].known =>
                        ~KeepsNewest(writer'[u], versions'[writer'[u].newest])
        <3>1. u # w /\ writer'[u] = writer[u]
            BY <1>4, <1>6, <2>1
        <3>2. /\ writer[u].newest <= n /\ writer[u].newest < MaxVersions
              /\ writer[u].newest > 0 /\ versions[writer[u].newest].known =>
                    ~KeepsNewest(writer[u], versions[writer[u].newest])
            BY <2>1, <3>1 DEF IInv, Beaten, n
        <3>3. writer[u].newest \in Nat
            BY DEF IInv, TypeOK
        <3>4. writer[u].newest > 0 => versions'[writer[u].newest] = versions[writer[u].newest]
            BY <1>1, <1>8, <3>2, <3>3
        <3> QED
            BY <1>1, <1>8, <3>1, <3>2, <3>3, <3>4
    <2> QED
        BY <2>1 DEF Beaten, KeepsNewest, WordsOf
<1>15. HoldsEarlier'
    <2>1. ASSUME NEW i \in 1 .. n + 1
          PROVE  {e \in Ledger : recorded[e] < versions'[i].at} \subseteq versions'[i].words.events
        <3>1. CASE i = n + 1
            BY <1>1, <1>2, <1>8, <3>1 DEF EarlierThan
        <3>2. CASE i \in 1 .. n
            BY <1>8, <3>2 DEF IInv, HoldsEarlier, EarlierThan
        <3> QED
            BY <1>9a, <3>1, <3>2
    <2> QED
        BY <1>8, <2>1 DEF HoldsEarlier, EarlierThan, Ledger
<1>16. Chained'
    <2>1. n > 0 => versions[n].at \in Nat
        <3>1. n > 0 => versions[n] \in Version
            BY <1>1, <1>8
        <3> QED
            BY <3>1 DEF Version
    <2>2. n > 0 /\ versions[n].known => versions[n].at < v.at
        BY <1>1, <1>2, <1>7, <2>1 DEF KeepsNewest
    <2>3. ASSUME NEW i \in 1 .. n + 1
          PROVE  /\ versions'[i].prev = (IF i = 1 THEN None ELSE i - 1)
                 /\ i > 1 /\ versions'[i - 1].known => versions'[i - 1].at < versions'[i].at
        <3>1. CASE i = n + 1
            BY <1>1, <1>2, <1>8, <2>2, <3>1
        <3>2. CASE i \in 1 .. n
            <4>1. versions[i].prev = (IF i = 1 THEN None ELSE i - 1)
                BY <1>8, <3>2 DEF IInv, Chained
            <4>2. i > 1 /\ versions[i - 1].known => versions[i - 1].at < versions[i].at
                BY <1>8, <3>2 DEF IInv, Chained
            <4>3. i > 1 => i - 1 \in 1 .. n
                BY <1>1, <3>2
            <4> QED
                BY <1>8, <3>2, <4>1, <4>2, <4>3
        <3> QED
            BY <1>9a, <3>1, <3>2
    <2> QED
        BY <1>8, <2>3 DEF Chained
<1>17. EachSaysMore'
    <2>1. n > 0 /\ versions[n].known =>
            versions[n].words # v.words \/ (v.signed /\ ~versions[n].signed)
        BY <1>1, <1>2 DEF KeepsNewest
    <2>2. ASSUME NEW i \in 1 .. n + 1, i > 1, versions'[i - 1].known
          PROVE  \/ versions'[i].words # versions'[i - 1].words
                 \/ versions'[i].signed /\ ~versions'[i - 1].signed
        <3>1. i - 1 \in 1 .. n
            BY <1>1, <2>2
        <3>2. CASE i = n + 1
            <4>1. i - 1 = n /\ versions'[i] = v /\ versions'[i - 1] = versions[n] /\ n > 0
                BY <1>1, <1>8, <2>2, <3>1, <3>2
            <4> QED
                BY <2>1, <2>2, <4>1
        <3>3. CASE i \in 1 .. n
            BY <1>8, <2>2, <3>1, <3>3 DEF IInv, EachSaysMore
        <3> QED
            BY <1>9a, <3>2, <3>3
    <2> QED
        BY <1>8, <2>2 DEF EachSaysMore
<1>18. AnswerHolds'
    <2>1. ASSUME NEW u \in Writers, writer'[u].pc = "done"
          PROVE  /\ writer'[u].answer \in 1 .. n + 1
                 /\ EarlierThan(writer'[u].at) \subseteq versions'[writer'[u].answer].words.events
        <3>1. CASE u = w
            BY <1>1, <1>2, <1>4, <1>6, <1>8, <3>1
        <3>2. CASE u # w
            <4>1. /\ writer'[u] = writer[u] /\ writer[u].answer \in 1 .. n
                  /\ EarlierThan(writer[u].at) \subseteq versions[writer[u].answer].words.events
                BY <1>6, <1>8, <2>1, <3>2 DEF IInv, AnswerHolds
            <4> QED
                BY <1>1, <1>8, <4>1
        <3> QED
            BY <3>1, <3>2
    <2> QED
        BY <1>8, <2>1 DEF AnswerHolds, EarlierThan, Ledger
<1> QED
    BY <1>10, <1>11, <1>12, <1>13, <1>14, <1>15, <1>16, <1>17, <1>18 DEF IInv

LEMMA InsertStep ==
    ASSUME IInv, NEW w \in Writers, InsertVersion(w)
    PROVE  IInv'
<1> DEFINE s == writer[w]
           x == [s EXCEPT !.pc = "newest", !.attempt = @ + 1]
<1>1. /\ s \in WriterRecord /\ s.pc = "insert" /\ s.at <= clock /\ s.name \in Names
      /\ EarlierThan(s.at) \subseteq s.rows
      /\ UNCHANGED <<clock, recorded, name>>
    BY DEF InsertVersion, IInv, TypeOK, WriterRecord, Dated, Named, Gathered
<1>2. CASE Len(versions) = s.newest
    BY <1>1, <1>2, WriteStep DEF InsertVersion
<1>3. CASE UNCHANGED versions /\ writer' = [writer EXCEPT ![w] = IdleWriter]
    BY <1>1, <1>3, IdleKeeps
<1>4. CASE UNCHANGED versions /\ writer' = [writer EXCEPT ![w] = x]
    <2>1. /\ x \in WriterRecord /\ x.pc = "newest" /\ x.at = s.at /\ x.name = s.name
          /\ x.rows = s.rows
        <3>1. s.attempt + 1 \in Nat
            BY <1>1 DEF WriterRecord
        <3> HIDE DEF s
        <3> QED
            BY <1>1, <3>1 DEF WriterRecord
    <2> HIDE DEF x
    <2> QED
        BY <1>1, <1>4, <2>1, WriterKeeps
<1> QED
    BY <1>2, <1>3, <1>4 DEF InsertVersion

LEMMA Invariance == Spec => []IInv
<1>1. ASSUME IInv, [Next]_vars PROVE IInv'
    <2>1. CASE WorldStep
        BY <1>1, <2>1, WorldKeeps
    <2>5. ASSUME NEW i \in DOMAIN versions, LoseFormat(i) PROVE IInv'
        BY <1>1, <2>5, LoseFormatStep
    <2>2. ASSUME NEW w \in Writers, Stamp(w) PROVE IInv'
        BY <1>1, <2>2, StampStep
    <2>3. ASSUME NEW w \in Writers, GenerateStep(w) PROVE IInv'
        <3>1. CASE WriterFails(w)
            BY <1>1, <3>1, IdleKeeps DEF WriterFails
        <3> QED
            BY <1>1, <2>3, <3>1, ReadPageStep, ReadNewestStep, InsertStep DEF GenerateStep
    <2>4. CASE UNCHANGED vars
        BY <1>1, <2>4 DEF vars, IInv, TypeOK, Dated, Named, Gathered, Beaten, HoldsEarlier, Chained,
            EachSaysMore, AnswerHolds, EarlierThan, Ledger, Unread, Before, KeepsNewest, WordsOf
    <2> QED
        BY <1>1, <2>1, <2>2, <2>3, <2>4, <2>5 DEF Next
<1> QED
    BY <1>1, InitInv, PTL DEF Spec
-----------------------------------------------------------------------------
\* The versions of a day and the generators keep their types, and a day its cap.
THEOREM VersionTypes == Spec => []TypeOK
<1>1. IInv => TypeOK
    BY DEF IInv
<1> QED
    BY <1>1, Invariance, PTL

\* Each version commits to the one before it, and is a later snapshot when the words of that one
\* can be read, however many generators race.
THEOREM VersionsChain == Spec => []Chained
<1>1. IInv => Chained
    BY DEF IInv
<1> QED
    BY <1>1, Invariance, PTL

\* No version says again what the one before it says, when the words of that one can be read.
THEOREM VersionsSayMore == Spec => []EachSaysMore
<1>1. IInv => EachSaysMore
    BY DEF IInv
<1> QED
    BY <1>1, Invariance, PTL

\* A version holds every event recorded before its moment, whatever is recorded while its pages
\* are read and however large they are.
THEOREM VersionsHoldEarlier == Spec => []HoldsEarlier
<1>1. IInv => HoldsEarlier
    BY DEF IInv
<1> QED
    BY <1>1, Invariance, PTL

\* So does the version a call answers with, whoever wrote it.
THEOREM AnswersHold == Spec => []AnswerHolds
<1>1. IInv => AnswerHolds
    BY DEF IInv
<1> QED
    BY <1>1, Invariance, PTL
-----------------------------------------------------------------------------
(* One generator at a time. *)

\* The only generator at work has read, or will read, all that an earlier version holds.
Carried ==
    /\ \A i \in DOMAIN versions : versions[i].words.events \subseteq Ledger
    /\ \A w \in Writers : writer[w].rows \subseteq Ledger
    /\ \A w \in Writers, i \in DOMAIN versions :
          /\ writer[w].pc = "read" =>
                versions[i].words.events \subseteq writer[w].rows \cup Unread(writer[w].after)
          /\ writer[w].pc \in {"newest", "insert"} => versions[i].words.events \subseteq writer[w].rows

\* What is in the pages read or after them stays there over a page.
LEMMA PageCarries ==
    ASSUME IInv, NEW w \in Writers, ReadPage(w)
    PROVE  /\ UNCHANGED <<recorded, versions>>
           /\ \A v \in Writers \ {w} : writer'[v] = writer[v]
           /\ writer[w].pc = "read"
           /\ writer'[w].rows \subseteq writer[w].rows \cup Ledger
           /\ \/ /\ writer'[w].pc = "newest"
                 /\ writer[w].rows \cup Unread(writer[w].after) \subseteq writer'[w].rows
              \/ /\ writer'[w].pc = "read"
                 /\ writer[w].rows \cup Unread(writer[w].after)
                        \subseteq writer'[w].rows \cup Unread(writer'[w].after)
<1> DEFINE s == writer[w]
           U == Unread(s.after)
<1>1. writer \in [Writers -> WriterRecord]
    BY DEF IInv, TypeOK, WriterRecord
<1>2. s \in WriterRecord /\ s.pc = "read" /\ UNCHANGED <<recorded, versions>>
    BY <1>1 DEF ReadPage
<1>3. PICK P \in SUBSET U :
        /\ IsPage(P, U)
        /\ \/ /\ Cardinality(P) < PageSize
              /\ writer' = [writer EXCEPT ![w].rows = @ \cup P, ![w].after = None, ![w].pc = "newest"]
           \/ /\ Cardinality(P) = PageSize
              /\ \E last \in P :
                    /\ \A e \in P \ {last} : Before(e, last)
                    /\ writer' = [writer EXCEPT ![w].rows = @ \cup P, ![w].after = last]
    BY DEF ReadPage
<1>4. U \subseteq Events /\ U \subseteq Ledger
    BY DEF Unread, Ledger
<1>5. CASE Cardinality(P) < PageSize
           /\ writer' = [writer EXCEPT ![w].rows = @ \cup P, ![w].after = None, ![w].pc = "newest"]
    <2>1. writer'[w].pc = "newest" /\ writer'[w].rows = s.rows \cup P
          /\ \A v \in Writers \ {w} : writer'[v] = writer[v]
        BY <1>1, <1>2, <1>5 DEF WriterRecord
    <2>2. P = U
        BY <1>3, <1>5, VersionsAssumption DEF IsPage
    <2> QED
        BY <1>2, <1>4, <2>1, <2>2
<1>6. ASSUME NEW last \in P,
             writer' = [writer EXCEPT ![w].rows = @ \cup P, ![w].after = last]
      PROVE  /\ writer'[w].pc = "read" /\ writer'[w].rows = s.rows \cup P
             /\ \A v \in Writers \ {w} : writer'[v] = writer[v]
             /\ s.rows \cup U \subseteq writer'[w].rows \cup Unread(writer'[w].after)
    <2>1. /\ writer'[w].pc = "read" /\ writer'[w].rows = s.rows \cup P /\ writer'[w].after = last
          /\ \A v \in Writers \ {w} : writer'[v] = writer[v]
        BY <1>1, <1>2, <1>6 DEF WriterRecord
    <2>2. U \ P \subseteq Unread(last)
        BY <1>3, <1>4, <1>6, VersionsAssumption DEF IsPage, Unread
    <2> QED
        BY <2>1, <2>2
<1> QED
    BY <1>2, <1>3, <1>4, <1>5, <1>6

\* The inserted version holds all that the ones before it hold.
LEMMA InsertFuller ==
    ASSUME IInv, Carried, NewerIsFuller, \A v, w \in Writers : v = w,
           NEW w \in Writers, InsertVersion(w)
    PROVE  Carried' /\ NewerIsFuller'
<1>1. PICK s \in WriterRecord : s = writer[w]
    BY DEF IInv, TypeOK, WriterRecord
<1>2. writer \in [Writers -> WriterRecord] /\ versions \in Seq(Version)
    BY DEF IInv, TypeOK, WriterRecord
<1>3. s.pc = "insert" /\ UNCHANGED recorded
    BY <1>1 DEF InsertVersion
<1>4. /\ \A i \in DOMAIN versions : versions[i].words.events \subseteq s.rows
      /\ s.rows \subseteq Ledger
    BY <1>1, <1>3 DEF Carried
<1>5. CASE UNCHANGED versions
    <2>1. NewerIsFuller'
        BY <1>5 DEF NewerIsFuller
    <2>2. CASE writer' = [writer EXCEPT ![w] = IdleWriter]
        <3>1. IdleWriter.pc = "idle" /\ IdleWriter.rows = {}
            BY DEF IdleWriter
        <3>2. \A v \in Writers : writer'[v] = IdleWriter
            BY <1>2, <2>2
        <3> QED
            BY <1>3, <1>5, <2>1, <3>1, <3>2 DEF Carried, Ledger
    <2>3. CASE writer' = [writer EXCEPT ![w] = [s EXCEPT !.pc = "newest", !.attempt = @ + 1]]
        <3>1. PICK x : x = [s EXCEPT !.pc = "newest", !.attempt = @ + 1]
            OBVIOUS
        <3>2. x.pc = "newest" /\ x.rows = s.rows
            BY <3>1 DEF WriterRecord
        <3>3. \A v \in Writers : writer'[v] = x
            BY <1>2, <2>3, <3>1
        <3> QED
            BY <1>3, <1>4, <1>5, <2>1, <3>2, <3>3 DEF Carried, Ledger
    <2>4. CASE /\ versions' = Append(versions, NewVersion(s))
               /\ Len(versions) = s.newest
        <3>1. Len(versions') = Len(versions) + 1
            BY <1>2, <2>4
        <3> QED
            BY <1>2, <1>5, <3>1
    <2> QED
        BY <1>1, <2>2, <2>3, <2>4 DEF InsertVersion
<1>6. CASE ~UNCHANGED versions
    <2>1. PICK x, n : x = NewVersion(s) /\ n = Len(versions)
        OBVIOUS
    <2>2. x.words.events = s.rows
        BY <2>1 DEF NewVersion, WordsOf
    <2>3. versions' = Append(versions, x) /\ writer' = [writer EXCEPT ![w] = DoneWriter(w, s.newest + 1)]
        BY <1>1, <1>6, <2>1 DEF InsertVersion
    <2>4. /\ DOMAIN versions = 1 .. n /\ DOMAIN versions' = 1 .. n + 1 /\ n \in Nat
          /\ versions'[n + 1] = x /\ \A i \in 1 .. n : versions'[i] = versions[i]
        BY <1>2, <2>1, <2>3
    <2>5. \A v \in Writers : writer'[v].pc = "done" /\ writer'[v].rows = {}
        BY <1>2, <2>3 DEF DoneWriter, IdleWriter
    <2>6. \A i \in 1 .. n + 1 : versions'[i].words.events \subseteq s.rows
        BY <1>4, <2>2, <2>4
    <2>7. Ledger' = Ledger
        BY <1>3 DEF Ledger
    <2>8. Carried'
        BY <1>4, <2>4, <2>5, <2>6, <2>7 DEF Carried
    <2>9. ASSUME NEW i \in 1 .. n + 1, NEW j \in 1 .. n + 1, i < j
          PROVE  versions'[i].words.events \subseteq versions'[j].words.events
        <3>1. CASE j = n + 1
            BY <2>2, <2>4, <2>6, <3>1
        <3>2. CASE j # n + 1
            <4>1. i \in 1 .. n /\ j \in 1 .. n
                BY <2>4, <2>9, <3>2
            <4> QED
                BY <2>4, <2>9, <4>1 DEF NewerIsFuller
        <3> QED
            BY <3>1, <3>2
    <2> QED
        BY <2>4, <2>8, <2>9 DEF NewerIsFuller
<1> QED
    BY <1>5, <1>6

\* Every step of the only generator, and of the world, keeps what it carries.
LEMMA FullerStep ==
    ASSUME IInv, Carried, NewerIsFuller, \A v, w \in Writers : v = w, [Next]_vars
    PROVE  Carried' /\ NewerIsFuller'
<1>1. writer \in [Writers -> WriterRecord]
    BY DEF IInv, TypeOK, WriterRecord
<1>2. UNCHANGED versions => NewerIsFuller'
    BY DEF NewerIsFuller
<1>3. CASE WorldStep \/ UNCHANGED vars
    <2>1. UNCHANGED <<versions, writer>>
        BY <1>3 DEF WorldStep, Tick, RecordEvent, Relabel, vars
    <2>2. Ledger \subseteq Ledger'
        <3>1. CASE UNCHANGED recorded
            BY <3>1 DEF Ledger
        <3>2. ASSUME NEW e \in Events, RecordEvent(e) PROVE Ledger \subseteq Ledger'
            BY <3>2 DEF RecordEvent, Ledger, IInv, TypeOK
        <3> QED
            BY <1>3, <3>1, <3>2 DEF WorldStep, Tick, Relabel, vars
    <2>3. \A w \in Writers : Unread(writer[w].after) \subseteq Unread(writer[w].after)'
        BY <2>1, <2>2 DEF Unread
    <2> QED
        BY <1>2, <2>1, <2>2, <2>3 DEF Carried
<1>8. ASSUME NEW k \in DOMAIN versions, LoseFormat(k) PROVE Carried' /\ NewerIsFuller'
    <2>1. versions \in Seq(Version) /\ UNCHANGED <<recorded, writer>>
        BY <1>8 DEF LoseFormat, IInv, TypeOK
    <2>2. /\ DOMAIN versions' = DOMAIN versions
          /\ \A i \in DOMAIN versions : versions'[i].words = versions[i].words
        <3>1. \A i \in DOMAIN versions : versions[i] \in Version
            BY <2>1
        <3> QED
            BY <1>8, <3>1 DEF LoseFormat, Version
    <2>3. Ledger' = Ledger
        BY <2>1 DEF Ledger
    <2>4. \A w \in Writers : Unread(writer[w].after)' = Unread(writer[w].after)
        BY <2>1, <2>3 DEF Unread
    <2>5. Carried'
        BY <2>1, <2>2, <2>3, <2>4 DEF Carried
    <2>6. NewerIsFuller'
        BY <2>2 DEF NewerIsFuller
    <2> QED
        BY <2>5, <2>6
<1>4. ASSUME NEW w \in Writers, Stamp(w) PROVE Carried' /\ NewerIsFuller'
    <2>1. PICK x : /\ writer' = [writer EXCEPT ![w] = x]
                   /\ x.pc = "read" /\ x.rows = {} /\ x.after = None
        <3>1. PICK signs \in BOOLEAN :
                writer' = [writer EXCEPT ![w] =
                    [IdleWriter EXCEPT !.pc = "read", !.at = clock, !.name = name, !.signs = signs]]
            BY <1>4 DEF Stamp
        <3>2. PICK x : x = [IdleWriter EXCEPT !.pc = "read", !.at = clock, !.name = name, !.signs = signs]
            OBVIOUS
        <3>3. x.pc = "read" /\ x.rows = {} /\ x.after = None
            BY <3>2 DEF IdleWriter
        <3> QED
            BY <3>1, <3>2, <3>3
    <2>2. UNCHANGED <<recorded, versions>> /\ Ledger' = Ledger
        BY <1>4 DEF Stamp, Ledger
    <2>3. \A v \in Writers : writer'[v] = x
        BY <1>1, <2>1
    <2>4. Unread(None) = Ledger
        BY DEF Unread, Ledger
    <2>5. \A v \in Writers : Unread(writer[v].after)' = Ledger
        BY <2>1, <2>2, <2>3, <2>4 DEF Unread
    <2> QED
        BY <1>2, <2>1, <2>2, <2>3, <2>5 DEF Carried
<1>5. ASSUME NEW w \in Writers, ReadPage(w) PROVE Carried' /\ NewerIsFuller'
    <2>1. PICK x : x = writer'[w]
        OBVIOUS
    <2>2. /\ UNCHANGED <<recorded, versions>> /\ Ledger' = Ledger
          /\ \A v \in Writers : writer'[v] = x
        BY <1>5, <2>1, PageCarries DEF Ledger
    <2>3. \A a : Unread(a)' = Unread(a)
        BY <2>2 DEF Unread
    <2>4. \A v \in Writers : Unread(writer[v].after)' = Unread(x.after)
        BY <2>2 DEF Unread
    <2>5. /\ x.rows \subseteq Ledger
          /\ \A i \in DOMAIN versions :
                /\ x.pc = "read" => versions[i].words.events \subseteq x.rows \cup Unread(x.after)
                /\ x.pc \in {"newest", "insert"} => versions[i].words.events \subseteq x.rows
        BY <1>5, <2>1, <2>2, <2>3, PageCarries DEF Carried
    <2> QED
        BY <1>2, <2>2, <2>4, <2>5 DEF Carried
<1>6. ASSUME NEW w \in Writers, ReadNewest(w) \/ WriterFails(w) PROVE Carried' /\ NewerIsFuller'
    <2>1. PICK s \in WriterRecord : s = writer[w]
        BY <1>1
    <2>2. UNCHANGED <<recorded, versions>> /\ Ledger' = Ledger
        BY <1>6 DEF ReadNewest, WriterFails, Ledger
    <2>3. ASSUME NEW x, writer' = [writer EXCEPT ![w] = x],
                 \/ x.rows = {} /\ x.pc \in {"idle", "done"}
                 \/ x.rows = s.rows /\ x.pc = "insert" /\ s.pc = "newest"
          PROVE  Carried' /\ NewerIsFuller'
        <3>1. \A v \in Writers : writer'[v] = x
            BY <1>1, <2>3
        <3> QED
            BY <1>2, <2>1, <2>2, <2>3, <3>1 DEF Carried
    <2>4. CASE writer' = [writer EXCEPT ![w] = IdleWriter]
        <3>1. IdleWriter.rows = {} /\ IdleWriter.pc = "idle"
            BY DEF IdleWriter
        <3> QED
            BY <2>3, <2>4, <3>1
    <2>5. ASSUME NEW n, writer' = [writer EXCEPT ![w] = DoneWriter(w, n)]
          PROVE  Carried' /\ NewerIsFuller'
        <3>1. DoneWriter(w, n).rows = {} /\ DoneWriter(w, n).pc = "done"
            BY DEF DoneWriter, IdleWriter
        <3> QED
            BY <2>3, <2>5, <3>1
    <2>6. CASE writer' = [writer EXCEPT ![w] = [s EXCEPT !.pc = "insert", !.newest = Len(versions)]]
               /\ s.pc = "newest"
        <3>1. PICK y : y = [s EXCEPT !.pc = "insert", !.newest = Len(versions)]
            OBVIOUS
        <3>2. y.rows = s.rows /\ y.pc = "insert"
            BY <3>1 DEF WriterRecord
        <3> QED
            BY <2>3, <2>6, <3>1, <3>2
    <2>7. \/ writer' = [writer EXCEPT ![w] = IdleWriter]
          \/ \E n : writer' = [writer EXCEPT ![w] = DoneWriter(w, n)]
          \/ writer' = [writer EXCEPT ![w] = [s EXCEPT !.pc = "insert", !.newest = Len(versions)]]
             /\ s.pc = "newest"
        BY <1>1, <1>6, <2>1 DEF ReadNewest, WriterFails
    <2> QED
        BY <2>4, <2>5, <2>6, <2>7
<1>7. ASSUME NEW w \in Writers, InsertVersion(w) PROVE Carried' /\ NewerIsFuller'
    BY <1>7, InsertFuller
<1> QED
    BY <1>3, <1>4, <1>5, <1>6, <1>7, <1>8 DEF Next, GenerateStep

\* While one report of the day is made at a time, a newer version lacks nothing an older one
\* has.  (With two generators it may: see NewerIsFuller.)
THEOREM OneWriterFuller == (\A v, w \in Writers : v = w) => (Spec => []NewerIsFuller)
<1> SUFFICES ASSUME \A v, w \in Writers : v = w PROVE Spec => []NewerIsFuller
    OBVIOUS
<1>1. Init => Carried /\ NewerIsFuller
    BY DEF Init, Carried, NewerIsFuller, IdleWriter
<1>2. IInv /\ Carried /\ NewerIsFuller /\ [Next]_vars => Carried' /\ NewerIsFuller'
    BY FullerStep
<1> QED
    BY <1>1, <1>2, Invariance, PTL DEF Spec
=============================================================================
