--------------------------- MODULE ReportVersions ---------------------------
(***************************************************************************)
(* The versions of one agent's report for one UTC day: generateReport of   *)
(* src/lib/agentVault/reports.ts over insertReportVersion of               *)
(* reportStore.ts and the paged read of the ledger, events.ts.             *)
(*                                                                         *)
(* Several writers can be at it at once: the daily job, a second run of    *)
(* it, the owner's own request.  Each stamps its report before it reads,   *)
(* reads the ledger page by page while events are being recorded, and      *)
(* takes the next version number by an insert that skips one taken.        *)
(***************************************************************************)
EXTENDS Integers, Sequences, FiniteSets

CONSTANTS
    Events,         \* the day's events
    Second,         \* Second[e]: occurred_at
    Names,          \* what else a report says: the labels of the agent and its addresses
    Writers,        \* the generators that can be running at once
    PageSize,       \* PERIOD_PAGE
    MaxAttempts,    \* MAX_ATTEMPTS
    MaxVersions,    \* MAX_VERSIONS_PER_DAY
    MaxClock,       \* bound: the clock stops here
    None

ASSUME VersionsAssumption ==
    /\ Events \subseteq Nat
    /\ Second \in [Events -> Nat]
    /\ PageSize \in Nat \ {0}
    /\ MaxAttempts \in Nat
    /\ MaxVersions \in Nat
    /\ MaxClock \in Nat
    /\ None \notin Events

VARIABLES
    clock,
    recorded,       \* recorded[e]: the clock when e was written to the ledger, 0 if it was not
    name,           \* the labels as they are now
    versions,       \* the rows of agent_reports for this agent and day, by version
    writer          \* the generators: their local variables

vars == <<clock, recorded, name, versions, writer>>

Ledger == {e \in Events : recorded[e] > 0}

\* What a version says, and a row: its number is its place in `versions`.  `prev` stands for
\* prevRoot: the Merkle root of a row commits to everything in it.  `known`: the program reads
\* the words of the row; the number, the moment and the root have columns of their own.
Words == [events : SUBSET Events, name : Names]
Version == [at : Nat, words : Words, signed : BOOLEAN, prev : {None} \cup Nat, known : BOOLEAN]

\* pc: what the generator does next.  `after`: the last row of the page before.  `newest`: the
\* number of the newest version, as read.  `answer`: the version the call returned.
IdleWriter == [pc |-> "idle", at |-> 0, name |-> None, signs |-> FALSE, after |-> None,
               rows |-> {}, attempt |-> 0, newest |-> 0, answer |-> 0]

\* What is left of a call that answered.
DoneWriter(w, n) == [IdleWriter EXCEPT !.pc = "done", !.at = writer[w].at, !.answer = n]

Init ==
    /\ clock = 1
    /\ recorded = [e \in Events |-> 0]
    /\ name \in Names
    /\ versions = <<>>
    /\ writer = [w \in Writers |-> IdleWriter]
-----------------------------------------------------------------------------
Tick ==
    /\ clock < MaxClock
    /\ clock' = clock + 1
    /\ UNCHANGED <<recorded, name, versions, writer>>

RecordEvent(e) ==
    /\ recorded[e] = 0
    /\ recorded' = [recorded EXCEPT ![e] = clock]
    /\ UNCHANGED <<clock, name, versions, writer>>

Relabel(n) ==
    /\ name' = n
    /\ UNCHANGED <<clock, recorded, versions, writer>>

\* The words of a row are in a format the program does not know: it went back to a release
\* before the one that wrote them.
LoseFormat(i) ==
    /\ i \in DOMAIN versions
    /\ versions' = [versions EXCEPT ![i].known = FALSE]
    /\ UNCHANGED <<clock, recorded, name, writer>>

\* The report's moment is read, then the labels and the key; the ledger is read after.
Stamp(w) ==
    /\ writer[w].pc \in {"idle", "done"}
    /\ \E signs \in BOOLEAN :
        writer' = [writer EXCEPT ![w] =
                    [IdleWriter EXCEPT !.pc = "read", !.at = clock, !.name = name, !.signs = signs]]
    /\ UNCHANGED <<clock, recorded, name, versions>>

\* The order of the pages: by moment, then by id.
Before(e, f) == Second[e] < Second[f] \/ (Second[e] = Second[f] /\ e < f)

\* A plausible bug: the next page begins after the last row's second.
UnreadAfterSecond(after) ==
    {e \in Ledger : after = None \/ (after \in Events /\ Second[after] < Second[e])}

\* The rows a page can hold that begins after a row.
Unread(after) == {e \in Ledger : after = None \/ (after \in Events /\ Before(after, e))}

\* The first PageSize of U, or all of it.
IsPage(P, U) ==
    /\ P \subseteq U
    /\ \A e \in P, f \in U \ P : Before(e, f)
    /\ Cardinality(P) <= PageSize
    /\ P # U => Cardinality(P) = PageSize

\* readEventsInRange, one page: a short one is the last.
ReadPage(w) ==
    LET s == writer[w]
    IN  /\ s.pc = "read"
        /\ \E P \in SUBSET Unread(s.after) :
            /\ IsPage(P, Unread(s.after))
            /\ \/ /\ Cardinality(P) < PageSize
                  /\ writer' = [writer EXCEPT ![w].rows = @ \cup P, ![w].after = None,
                                              ![w].pc = "newest"]
               \/ /\ Cardinality(P) = PageSize
                  /\ \E last \in P :
                        /\ \A e \in P \ {last} : Before(e, last)
                        /\ writer' = [writer EXCEPT ![w].rows = @ \cup P, ![w].after = last]
        /\ UNCHANGED <<clock, recorded, name, versions>>

WordsOf(s) == [events |-> s.rows, name |-> s.name]
-----------------------------------------------------------------------------
(* The attempts to write: newest version read, kept or followed. *)

\* A plausible bug: the same words are written again.
KeepsNewestByMoment(s, v) == v.at >= s.at

\* The newest version is no older a snapshot, or says the same and a signature adds nothing.
KeepsNewest(s, v) ==
    v.at >= s.at \/ (v.words = WordsOf(s) /\ (v.signed \/ ~s.signs))

\* A plausible bug: an off-by-one.
FullOneMore(n) == n > MaxVersions

\* The day has all the versions it can have.
Full(n) == n >= MaxVersions

\* A newest version whose words cannot be read is not compared at all; its number is taken.
ReadNewest(w) ==
    LET s == writer[w]
        n == Len(versions)
        kept == n > 0 /\ versions[n].known /\ KeepsNewest(s, versions[n])
    IN  /\ s.pc = "newest"
        /\ \/ kept /\ writer' = [writer EXCEPT ![w] = DoneWriter(w, n)]
           \/ ~kept /\ Full(n) /\ writer' = [writer EXCEPT ![w] = IdleWriter]
           \/ ~kept /\ ~Full(n) /\ writer' = [writer EXCEPT ![w].pc = "insert", ![w].newest = n]
        /\ UNCHANGED <<clock, recorded, name, versions>>

NewVersion(s) ==
    [at |-> s.at, words |-> WordsOf(s), signed |-> s.signs,
     prev |-> IF s.newest = 0 THEN None ELSE s.newest, known |-> TRUE]

\* A plausible bug: the number is taken by the statement, the chain from what was read.
InsertVersionNext(w) ==
    LET s == writer[w]
    IN  /\ s.pc = "insert"
        /\ versions' = Append(versions, NewVersion(s))
        /\ writer' = [writer EXCEPT ![w] = DoneWriter(w, Len(versions) + 1)]
        /\ UNCHANGED <<clock, recorded, name>>

\* A plausible bug: a number taken by another writer is answered with that writer's version.
InsertVersionOnce(w) ==
    LET s == writer[w]
    IN  /\ s.pc = "insert"
        /\ versions' = IF Len(versions) = s.newest THEN Append(versions, NewVersion(s)) ELSE versions
        /\ writer' = [writer EXCEPT ![w] = DoneWriter(w, s.newest + 1)]
        /\ UNCHANGED <<clock, recorded, name>>

\* insertReportVersion: ON CONFLICT DO NOTHING.  The number was free and the row is written, or
\* another writer took it first and the newest version is read again, a few times.
InsertVersion(w) ==
    LET s == writer[w]
    IN  /\ s.pc = "insert"
        /\ \/ /\ Len(versions) = s.newest
              /\ versions' = Append(versions, NewVersion(s))
              /\ writer' = [writer EXCEPT ![w] = DoneWriter(w, s.newest + 1)]
           \/ /\ Len(versions) # s.newest
              /\ UNCHANGED versions
              /\ writer' = [writer EXCEPT
                    ![w] = IF s.attempt + 1 >= MaxAttempts THEN IdleWriter
                           ELSE [s EXCEPT !.pc = "newest", !.attempt = @ + 1]]
        /\ UNCHANGED <<clock, recorded, name>>

\* A statement fails, or the process ends: nothing but the generator is lost.
WriterFails(w) ==
    /\ writer[w].pc \in {"read", "newest", "insert"}
    /\ writer' = [writer EXCEPT ![w] = IdleWriter]
    /\ UNCHANGED <<clock, recorded, name, versions>>

GenerateStep(w) == ReadPage(w) \/ ReadNewest(w) \/ InsertVersion(w) \/ WriterFails(w)

WorldStep == Tick \/ (\E e \in Events : RecordEvent(e)) \/ (\E n \in Names : Relabel(n))

Next ==
    \/ WorldStep
    \/ \E i \in DOMAIN versions : LoseFormat(i)
    \/ \E w \in Writers : Stamp(w) \/ GenerateStep(w)

Spec == Init /\ [][Next]_vars
-----------------------------------------------------------------------------
TypeOK ==
    /\ clock \in Nat
    /\ recorded \in [Events -> Nat]
    /\ name \in Names
    /\ versions \in Seq(Version)
    /\ Len(versions) <= MaxVersions
    /\ writer \in [Writers ->
            [pc : {"idle", "read", "newest", "insert", "done"}, at : Nat,
             name : Names \cup {None}, signs : BOOLEAN, after : Events \cup {None},
             rows : SUBSET Events, attempt : Nat, newest : Nat, answer : Nat]]

EarlierThan(t) == {e \in Ledger : recorded[e] < t}

\* Safety: a version holds at least every event that was recorded before its moment, whatever
\* was being recorded while its pages were read (reports.ts: "the snapshot holds at least every
\* event recorded up to that moment").
HoldsEarlier == \A i \in DOMAIN versions : EarlierThan(versions[i].at) \subseteq versions[i].words.events

\* Safety: each version commits to the one before it, and is the later snapshot when the words
\* of the one before can be read, however many writers raced for the numbers (reports.ts: "the
\* newest version is never an older snapshot than the one before it").
Chained ==
    \A i \in DOMAIN versions :
        /\ versions[i].prev = (IF i = 1 THEN None ELSE i - 1)
        /\ i > 1 /\ versions[i - 1].known => versions[i - 1].at < versions[i].at

\* Safety: a version says something the one before it does not, or adds a signature to it, when
\* the words of the one before can be read.
EachSaysMore ==
    \A i \in DOMAIN versions : i > 1 /\ versions[i - 1].known =>
        \/ versions[i].words # versions[i - 1].words
        \/ versions[i].signed /\ ~versions[i - 1].signed

\* Safety: the report a call answers with holds every event recorded before the call began,
\* written by it or by another (reports.ts: "newest one already says the same").
AnswerHolds ==
    \A w \in Writers : writer[w].pc = "done" =>
        /\ writer[w].answer \in DOMAIN versions
        /\ EarlierThan(writer[w].at) \subseteq versions[writer[w].answer].words.events

\* Safety: no version lacks an event an older one has (reports.ts: "the later (and so fuller)
\* one").
NewerIsFuller ==
    \A i, j \in DOMAIN versions : i < j => versions[i].words.events \subseteq versions[j].words.events

\* Safety: a later version is a later snapshot, whether or not the words of the one before can
\* be read (reports.ts: "so the newest version is never an older snapshot than the one before
\* it").
NeverOlder ==
    \A i \in DOMAIN versions : i > 1 => versions[i - 1].at < versions[i].at
=============================================================================
