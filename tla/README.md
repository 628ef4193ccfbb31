# TLA+ models of Almstins

Almstins is a web application (Astro, TypeScript, Postgres) that keeps records about
crypto wallets: what an AI agent's wallet paid and to whom (the **Agent Vault**), who
owes whom (receivables), who controls an address (verify), milestones (Cairn), and taxes.
This directory models the parts whose correctness depends on the order of events, checks
them with TLC, and proves what matters most of them with TLAPS.

The paths below are relative to the repository; `agentVault/` is `src/lib/agentVault/`.

## 1. Inventory

### Components

| component | state it keeps | operations | what makes it correct |
|---|---|---|---|
| Agent Vault watcher (`watcher.ts`, `watchState.ts`, `explorer.ts`, `transfers.ts`) | one cursor per wallet; the ledger of events | a pass over a tin's wallets, by the daily job, the owner's button, the live page | a cursor never claims an unwritten transfer; a movement is written once; nothing too young is written; everything owed is written in the end |
| Day's pass (`syncPass.ts`, its cron route and workflow) | one row per wallet: day, order, status, count | list the due wallets, read them, mark them, answer `done` | each wallet once a day; counts exact over cuts; at `done` nothing of the day is left; nobody starves |
| Alert email (`alerts.ts`, `mailer.ts`, claims in `deliveryStore.ts`) | one claim per account, agent, address | claim, count, send, give back | about one email an hour; no hour spent without an email; no payment forgotten |
| Ledger of events (`events.ts`) | append-only rows | insert, count, list | identity of a movement |
| Reports and digests (`reportJob.ts`, `reports.ts`, `reportStore.ts`, `digest.ts`) | versions of a day's report, last digest key | generate, claim, send, release | a report's versions have no gaps or twins; a digest once a period |
| Registry of agents, wallets, destinations (`store.ts`, `vault.ts`, `entitlements.ts`, `trustChecks.ts`) | live rows, trust status | add within a plan's cap, remove, record trust | the cap under concurrent requests; no live row under a removed agent; nothing lifts `flagged` |
| Live reads (`liveRead.ts`) | one place in a process, a line of agents | take, hold, give up | one reader at a time, none for ever |
| Prices (`dailyPrices.ts`, `pricing.ts`) | a day's price per coin | write once, fill pending | a transfer is priced once, by its own day |
| Checks (`checkLog.ts`, `checkBudget.ts`, `link.ts`) | checked events, a budget | answer, record, link | a transfer inherits the right check |
| Receivables registry (`receivablesRegistry.ts`, `receivables/`) | receivables, claims, links to the parties, signed statements | create, ask, answer, claim, discharge, settle, withdraw | a link answers once; what was signed stays; claims fit the face value; a withdrawn record takes nothing new |
| Verify registry (`verify*.ts`) | entities, addresses, proofs | claim, prove by deposit, anchor | an address proven by its holder only |
| Cairn (`cairnRegistry.ts`) | milestones | propose, accept, complete | only legal lives |
| Key log, record proofs (`scripts/keylog.mjs`, `recordProof/`) | an append-only log, Merkle trees | append, verify | a log extends its past |
| Rate gate, cache lock (`rateGate.ts`, `cacheLock.ts`) | a queue; a lock row | schedule; acquire | the published limit; one holder |
| Mail sync, drips, heartbeat, accounts, billing, chain syncs, tax, pages | various | various | see `PROJECT.json` |

`PROJECT.json` lists each with its sources and, where it is not modelled, why.

### How the modelled ones interact

The workflow calls the cron route until it answers `done`; each call is one `runSyncCall`,
which lists due wallets and runs a *tin pass* (`runTinPass`) per tin. A tin pass copies the
cursor table, reads each wallet's three explorer listings page by page, writes each new
transfer, then the wallet's cursor. The button and the live page run the same pass, at any
time, with a shorter deadline. When the pass is over it calls the alert, without waiting,
once for each address it found an unmatched payment to. They share three tables and
nothing else; between two awaits any of the others may act.

Once a day is `done`, the report job makes each agent's report of it (`generateReport`,
which the owner can also ask for) and sends each account its digest. Agents, wallets and
destinations come and go through the registry, under the plan's caps and the account's
advisory lock. The receivables registry stands beside all this: its calls read a record,
then write in later statements, and a daily route (`chase-requests`) writes down the
requests nobody answered.

### What is hard

`PROJECT.json` "hazards" lists it line by line. In short: a copied cursor that is stale when
it is written back; a crash between the transfers and the cursor; cut reads and their
boundary in blocks and seconds; rows the explorer lists late, between two pages or after a
read; two calls of a day at once, or one across midnight; counts carried over a cut; an
hour claimed by a call that then fails, and read by another before it is given back; two
writers at one version number, each having stamped and read at its own time; a digest's key
put back after the owner saved other settings; requests at once for a plan's last place; a
slow check that ends after a newer one; a link answered twice, or revoked, expired or its
record withdrawn between two statements of its answer; claims summed before one more is
written.

## 2. Plan

Written, in this order:

1. `ExplorerListing`, `WalletWatch`, `TransferRecord`: the watcher and what it promises.
2. `SyncPass`: the day's pass.
3. `AlertEmail`: the alert.
4. `VaultPlan`, `VaultRegistry`: the plan's caps, removal, the trust ratchet, the check budget.
5. `ReportVersions`, `DigestClaim`: a day's report versions; the digest's claim and release.
6. `RequestLinks`, `ClaimLedger`: the links of a receivable and its financing claims.
7. A proof module for each of them.

Left, most important first:

8. `LiveRead`, `CacheLock`, `RateGate`: three small concurrent components.
9. The parties' book, the access grants' readers and the duplicate check of the receivables
   registry; then `VerifyDeposit` and `Cairn` in the shape of `RequestLinks`.
10. `KeyLog`: the append-only log and its Merkle proof, as functions checked against a
    reference definition.
11. `PriceFill`, `CheckLink`: pricing pending transfers; the link as a pure function.

## 3. Modules

| module | models | correspondence |
|---|---|---|
| `ExplorerListing` | the chain and the explorer | a row has a block, a place in the order, a listing and the tin's wallets on its sides; `PageRows` is paging by offset over what is indexed *now*, so a late row shifts later pages |
| `WalletWatch` | `runTinPass`, `watchWallet`, `scanAction`, the cursor table, the ledger | `pass[p]` holds the local variables of one run; one action per stretch between awaits: `StartPass` (the copy), `TakeWallet` (horizon and blocks), `ReadPage`, `CutListing`, `TakeTransfer` (the existence check), `WriteTransfer`, `AdvanceCursor`, `EndUnmoved`; faults are actions of their own |
| `TransferRecord` | what the watcher promises | abstract specification; `through` is the cursor, `recorded` the ledger |
| `SyncPass` | `runSyncCall`, its table | `call[c]` holds the locals of one call; a wallet's read is one action (how it ends, how many it wrote); a wallet may be registered or removed at any time; `wrote` (what the day's calls really wrote) and `left` (what may still be due after `done`) are history |
| `AlertEmail` | `alertCheck`, `claimAlert`, `releaseAlert`, `countUnmatchedPayments`, `sendVaultMail` | `pass[c].pc` names the await a call stands at; the claim's two statements are two actions; `emails`, `slow`, `lost` are history |
| `VaultPlan` | what the registry promises one account | abstract specification: admit and retire agents, take and leave places, never past a cap, none under a retired agent |
| `VaultRegistry` | the requests of `vault.ts` on the tables of `store.ts`, `trustPolicy.ts`, `checkBudget.ts` | `req[q]` holds a request's locals; a `db.batch` (lock, then statements) is one action, with its `WHERE` as guard and the partial unique index as the no-op; a screening answers anything; `made` is history |
| `ReportVersions` | `generateReport`, `insertReportVersion`, the paged read of the ledger | `writer[w]` stamps, reads page by page, compares with the newest version, inserts with `ON CONFLICT DO NOTHING` and tries again; events and labels change in between; a version's words may become unreadable (`LoseFormat`, a release taken back), and then nothing is compared with it |
| `DigestClaim` | the digest half of `runAgentReports`, `digestPeriod`, the settings row, its claims and the owner's saves | `run[r]` holds what a run listed; the claim compares the last key, the release puts back the key that was listed, if its own is still there; a save is one step, since whatever it read it may write any cadence at any time; `mails`, `late`, `lost`, `replaced`, `restored` are history |
| `RequestLinks` | `createInvite`, `revokeInvite`, `acceptInvite`, `confirmByToken`, `affirmClaimByToken`, `respondToOffer`, `recordLapse`, `deleteReceivable`, the `chase-requests` route | one receivable; `link` is the row of an invite, `said` the statements written for it in order; reading, spending the link, checking the record, inserting, affirming are actions of their own; a withdrawal reads the owner's claims (`CallWithdraw`), then its batch is one action; `asks` is chosen from `Plans` once; `own.overlooked`, `raced`, `lost` are history |
| `ClaimLedger` | `addClaim`, `dischargeClaim`, `addExtension`, `markUnpaid`, `reverifyReceivable`, `settleReceivable`, `deleteReceivable`, the lapse in `aging.ts` | one receivable; each call reads, then (a claim: sums, then) writes; calls of `addClaim` may overlap; a sum uses the settlement its call read at the start; `touched` is the date the lapse counts from; `missed`, `overtaken`, `early` are history |
| `*Proofs` | the theorems about the module they are named for | section 6 |
| `MC*` | instances for TLC | |

A ledger event of `WalletWatch` is named by its row and its ordinal: the transaction's hash
and the rest of the leg are properties of the row, and the ordinal counts equal rows before
it *in one read*, which is what `normalizeTransfers` does. The model's rows are pairwise
different movements, so ordinal 0 is the only right one.

Left out of the watcher, on purpose: prices and links (they never hold a transfer back; a
failure of theirs is `DatabaseFails`), malformed rows, a wallet with no readable
registration time (reported idle, never read), a start block after the end block (the blocks
are found from times in order), and the memo of horizon blocks. A removed wallet is not read
any more; its removal in the middle of a pass changes nothing the pass does.

Left out elsewhere: the parsing of pasted addresses and the unlimited plan (`VaultRegistry`,
where every cap is a number); the folding of events into a report's numbers
(`ReportVersions` keeps which events and labels a version was made of); the words of a
digest (`DigestClaim` says only whether there is something to send); documents, signatures
and the parties' names (`RequestLinks`, `ClaimLedger`). In `ClaimLedger` nothing
holds two calls of `addClaim` apart, as in the code: both may sum the headroom before either
writes, a gap `addClaim` documents. A claim another was inserted before, between its own sum
and its insert, is marked `overtaken`; one that was lapsed when a later claim was found to fit
and recorded is marked `missed`, because a dated update counts it again, as `addClaim` says.
`Headroom` is about the claims that are neither. The three reads of the sum (the claims, their
events, the re-verifications) are one step, and the face value does not change.

In `VaultRegistry` the budget of checks outlives the end of a process; in the code it is the
process's own, so after a restart a window may see more checks than its budget. One row a place
is checked with one destination allowed; what tests `OneHolder` there is mostly the agents'
keys, and the theorem is for any cap.

## 4. Runs

| run | instance | what it shows |
|---|---|---|
| `watch_paged` | 1 wallet, 2 listings, 3 rows, pages of 1, at most 2 pages, 2 passes, 2 faults | types; `CursorTrue`; `WrittenOnce`; `RecordedConfirmed`; the watcher implements `TransferRecord` (`KeepsPromise`) |
| `watch_live` | 2 wallets of one tin and a transfer between them, 3 rows in blocks of their own, pages of 1, at most 2 pages, rows listed up to a second late, 1 pass, 1 fault, fair | `OwedRecorded`: every owed transfer is written in the end, whatever fails; `CursorTrue` and `WrittenOnce` when one movement is in two wallets' listings and the overlap has to catch what was listed late |
| `watch_overlap_gap` | rows listed up to 2 s late, overlap 2 s, a cut read | **violated**: a cut read moves the cursor with no overlap, and the late row is never read |
| `sync_day` | 2 wallets, one of them registered on the way, one to a listing, 2 days, 3 calls a day, 1 removal | counts exact across cuts and midnight (`RecordedExact`), no second read (`FinishedStays`) |
| `sync_overlap` | 2 wallets of one tin, one of them registered on the way, 2 calls at once, 1 fault | `NeverOvercounted`; after `done` nothing is due but what was registered since, or listed by the other call before (`DoneStays`) |
| `sync_order` | 3 wallets of 2 tins, registered from the start, 3 days, one call each, fair | `EveryWalletRead` |
| `alert_passes` | 2 passes, 3 payments, a window of 2, calls that last up to 3, 2 faults | `OnePerWindow`, `ClaimForEmail` |
| `registry_desk` | 3 agents, 1 address; caps 2 agents, 1 destination, 1 wallet an agent; 2 requests at once, 1 check a window, 2 windows | the registry implements `VaultPlan` (`KeepsPlan`); `OneHolder`, `TrustHasReadout`, `FlagStays`, `BudgetHeld` |
| `reports_day` | 2 events of one second, 1 to a page, 2 writers, 2 attempts, at most 2 versions, any of which may become unreadable | `HoldsEarlier`, `Chained`, `EachSaysMore`, `AnswerHolds` |
| `digest_day` | 2 runs that may outlast their day, off, daily or weekly saved at any time, 2 days, sends that fail or go out late, at most 2 emails or lost keys | `DigestOnce`, `KeyForDigest` |
| `links_desk` | 2 links in the four pairs of questions that touch each other, 2 calls at once, one of which may be the withdrawal, a claim the owner records on the way, expiry after 1 of 2 seconds, 1 fault | `OneAnswer`, `AnswerKept`, `OwnLinksStop`, `SilenceOnce` |
| `claims_desk` | 2 claims, 1 lender, amounts 1 and 2 of a face value of 2, 2 calls at once, 4 days, lapse after 2 | `Headroom`, `SignedOnce`, `WithdrawnQuiet` |

`watch_overlap_gap` quotes a comment; `PROJECT.json` "findings" gives the quotation and the
line.

### What does not hold

Other statements of the code's comments and tests that TLC finds violated. Each has a
configuration beside the runs: `tlc -config X.cfg MCModule` shows the behaviour.

| configuration (module) | property | the statement | what happens |
|---|---|---|---|
| `WalletWatch_cursor_back` (`MCWalletWatch`) | `CursorForward` | `watchState.ts:122-123`, an older pass cannot move a cursor back | the pass compares with the copy it took when it began; it costs a longer read, no transfer |
| `WalletWatch_page_shift` (`MCWalletWatch`) | `WrittenOnce` | `watcher.ts:31-32`, `transfers.ts:24`, a movement is written once | a row listed between two pages makes the read take another row twice, and count it as a second equal movement |
| `WalletWatch_deadline` (`MCWalletWatch`) | `DeadlineCutReported` | `syncPass.ts:21-22`, a wallet the deadline cut is read on | not reported as cut when an earlier listing had ended for another reason |
| `AlertEmail_forgotten` (`MCAlertEmail`) | `FailedAlertCounted` | `alerts.ts:26-27`, `alerts.test.ts:666`, the next email counts a failed one's payments | a call reads another's claim before it is given back |
| `AlertEmail_early` (`MCAlertEmail`) | `HourApart` | `alerts.ts:29-30`, `deliveryStore.ts:212-214`, at most one an hour | a call that began before the hour was over takes a claim given back after it: early by the time from reading to claiming; emails claimed in the second their call read the clock are apart (`PromptCallsApart`) |
| `VaultRegistry_rename` (`MCVaultRegistry`) | `RenameLeavesKey` | `vault.ts:128`, a field left undefined is left alone | a rename writes back the key it read (`vault.ts:136-157`), and a link changed in between is lost |
| `ReportVersions_shrinks` (`MCReportVersions`) | `NewerIsFuller` | `reports.ts:126`, a later report is fuller | a writer that stamped later may have read its first pages earlier; with one writer at a time it holds (`OneWriterFuller`) |
| `ReportVersions_unread` (`MCReportVersions`) | `NeverOlder` | `reports.ts:126-129`, the newest version is never an older snapshot | when the words of the newest version cannot be read, nothing is compared (`reports.ts:120-135`), and a writer that stamped earlier adds its own |
| `DigestClaim_again` (`MCDigestClaim`) | `SentOnce` | `digest.ts:87-88`, a period is sent once | daily, weekly, daily again: the last key is another one |
| `DigestClaim_late` (`MCDigestClaim`) | `ArrivesOnce` | `digest.ts:87-88`, a period is sent once | a send that timed out goes out after its key was given back, and the next run sends again, which `mailer.ts:11-14` accepts |
| `DigestClaim_restored` (`MCDigestClaim`) | `HeldWasSent` | `deliveryStore.ts:164`, a failed send is given back for a re-run | a run lists the account while another holds the daily key, claims the weekly one, and both sends fail: the daily key is put back, and that digest is never sent |
| `RequestLinks_missed` (`MCRequestLinks`) | `EveryLinkStops` | `receivablesRegistry.ts:2832`, every outstanding link stops working | a claim, and a link about it not filed under the record, stored between the read of the owner's claims and the batch: the link stays open |
| `RequestLinks_silence` (`MCRequestLinks`) | `SilenceTrue` | `recordLapse`, "expired without a reply" | an answer in the expiry second, or one that was under way |
| `RequestLinks_written` (`MCRequestLinks`) | `SilenceWritten` | `chase-requests.ts:4`, every one is written down | a link is flagged, its statement fails, and nothing looks at it again |
| `ClaimLedger_settle` (`MCClaimLedger`) | `SettlementKeepsSum` | `receivablesRegistry.ts:1107-1108`, claims go on encumbering as before | a settlement counts lapsed claims again |

Also seen, without a configuration: two adjacent dense blocks whose rows together fill every
page are never passed; a call of the day started by hand while another runs can be marked
over by it; a read that fails half way is counted as zero; a lender's unfiled receipt link
is never listed as lapsed; two links to one offer can accept and decline it
(`receivablesRegistry.ts:4651`); a link whose creation read the record before its withdrawal
is stored open after it.

### Bounds

*Watcher.* A listing of three rows, pages of one and two pages a read give every case of
`scanAction`: complete on the first or a later page, cut with rows to keep, cut with nothing
to keep. In `watch_paged` blocks 2 and 3 share a second and one block is empty, so the
boundary between a block and a second is met. Two passes are what the properties are about
(each names at most two actors). `MaxTime` 5 lets a wallet be read at several horizons, with
the lag and the overlap each one second. Two faults put any two of outage, failed write, lost
answer, deadline and crash in any order; in `watch_live` one fault may come at any step.

*Day's pass.* One due wallet a listing makes a day need several calls; a transfer waiting per
wallet is enough for every count to be wrong by one; three calls let a cut be carried and
finished. *Alert.* The clock runs past one window, so two emails may follow each other, and a call may
outlast it, so a claim may be taken from a call that still holds it.
*Registry.* Two agents allowed of three and one destination of as many addresses as agents:
two requests race for every last place and for one under an agent being removed; two windows
let a check be refunded in the window after its own. *Reports.* Two events, one a page: an
event lands before, between and behind the pages. *Digest.* Two days let a key become
old and a run cross midnight; two runs and two cadences let a run claim over a key another
holds, and give back what it had listed; `MaxOutcomes` 2 counts a digest sent twice. *Links.* The four
pairs of `MCPlans` are those whose answers touch the same row: one offer, one claim, the
record's confirmation and its grants. *Claims.* Two claims of the whole face value overflow
it at once; four days with a lapse after two let a claim lapse, another take its room and the first be
revived, and let a day begin between a sum and its insert; two calls of `addClaim` at once
overflow the face value and one of them is overtaken. One lender stands for all: what tells
lenders apart is only which claims a re-verification touches, and with one it touches every
claim it can. The theorems are for any number of lenders.

`CHECK_DEADLOCK FALSE` stands where the bounded world stops: the clocks, days and windows
end, every link is answered, every claim discharged. The code's own loops are not bounded.

### Fairness

`WalletWatch!FairSpec`: the clock runs, every mined row is listed in the end, and each pass
is started again and takes its next step. The daily workflow starts passes and a pass has
no step that waits for another; faults are not fair and are bounded, so in the end a read
goes undisturbed. `SyncPass!FairSpec`: the next day comes and a call takes its next step.
`Regular` in `sync_order` states what the code needs for its order to reach everyone: the
job runs every day, ends before midnight, and its nine minutes are enough to end at least
one wallet. The horizon is bounded: with as many days as wallets each must be reached
within them. It is about wallets registered before the first day: a new one goes first, and
each puts the others off by the time of one read. The other components promise nothing that must happen: a request, a report or
an answer comes when somebody asks, so their specifications have no fairness.

## 5. Mutants

For every property of every passing run `PROJECT.json` names a definition and a changed form
of it (`InsertTinAnyKey`, `MarkWalletAdding`, ...), kept beside the definition in its module:
the bug a property exists to find. With it in place TLC finds the property violated.

## 6. Proofs

For every value of the constants that their assumptions allow, any number of actors and any
number of faults:

| module | theorem | property | assuming |
|---|---|---|---|
| `WalletWatchProofs` | `TypeCorrect` | `TypeOK` | |
| | `CursorsTrue` | `CursorTrue` | `TimelyIndexing` |
| | `WrittenOnly` | `WrittenOnce` | `TimelyIndexing` |
| | `OnlyConfirmed` | `RecordedConfirmed` | |
| | `WatchKeepsPromise` | `KeepsPromise`, the refinement of `TransferRecord` | `TimelyIndexing` |
| `SyncPassProofs` | `PassTypes` | `TypeOK` | |
| | `CountsHold` | `NeverOvercounted` | |
| | `DoneHolds` | `DoneStays` | |
| | `FinishedHold` | `FinishedStays` | `OneCall` |
| | `RowsAreExact` | `RecordedExact` | `OneCall`, `NoFaults` |
| `AlertEmailProofs` | `AlertTypes` | `TypeOK` | |
| | `EmailsApart` | `OnePerWindow` | |
| | `PromptCallsApart` | `PromptApart`: `HourApart` for calls that claim in the second they read the clock | |
| | `HoursHaveEmails` | `ClaimForEmail` | |
| `VaultRegistryProofs` | `RegistryTypes` | `TypeOK` | |
| | `HoldersAreOne` | `OneHolder` | |
| | `TrustIsReadout` | `TrustHasReadout` | |
| | `RegistryKeepsPlan` | `KeepsPlan`, the refinement of `VaultPlan` | |
| | `PlanIsHeld` | `PlanHeld`: the caps themselves, from the refinement | |
| | `FlagsStay` | `FlagStays` | |
| | `BudgetIsHeld` | `BudgetHeld` | |
| `ReportVersionsProofs` | `VersionTypes` | `TypeOK` | |
| | `VersionsChain` | `Chained` | |
| | `VersionsSayMore` | `EachSaysMore` | |
| | `VersionsHoldEarlier` | `HoldsEarlier` | |
| | `AnswersHold` | `AnswerHolds` | |
| | `OneWriterFuller` | `NewerIsFuller` | one writer at a time |
| `DigestClaimProofs` | `DigestTypes` | `TypeOK` | |
| | `DigestsOnce` | `DigestOnce` | |
| | `KeysForDigests` | `KeyForDigest` | |
| `RequestLinksProofs` | `LinkTypes` | `TypeOK` | |
| | `LinksAnswerOnce` | `OneAnswer` | |
| | `AnswersAreKept` | `AnswerKept` | |
| | `LinksStopWithRecord` | `OwnLinksStop` | |
| | `SilenceIsOnce` | `SilenceOnce` | |
| `ClaimLedgerProofs` | `LedgerTypes` | `TypeOK` | |
| | `ClaimsFit` | `Headroom` | |
| | `FirstIsKept` | `SignedOnce` | |
| | `WithdrawnIsQuiet` | `WithdrawnQuiet` | |

The assumptions, each with what shows that it is needed:

- `TimelyIndexing == IndexDelay < Lag`: the explorer lists a row before its block is old
  enough to be read. `watch_overlap_gap` and `WalletWatch_page_shift` violate the properties
  without it; `watch_live` shows that a read of rows listed within the overlap survives. Types
  and `OnlyConfirmed` need nothing of the explorer.
- `OneCall`: calls of the day do not overlap. With two, one's listing is stale when it marks;
  `sync_overlap` checks what is left then, and `CountsHold` and `DoneHolds` prove it.
- `NoFaults == MaxFaults = 0`: a call that dies between a read and its mark leaves transfers
  no row counts.
- One writer at a time, for `OneWriterFuller`: nothing enforces it. `ReportVersions_shrinks`
  violates the property with two.

The others are the assumptions of the constants, in the modules, which every run evaluates.

### The arguments

No property of the table is inductive by itself; each module's `IInv` adds what the actors
know half way. Types are a conjunct of each.

*Watcher.* A pass carries a copy of the cursors, half a listing and transfers not yet
written. `PassInv` says its copy is true; what it has read of the listing is exactly what the
pages so far hold of the *whole* listing (`Before`, which needs `TimelyIndexing`: nothing is
added to a stretch that old); and everything owed between its start and the second it will
claim (`reached`), in the listings it has closed, is in its work or in the ledger. The lemmas
on ranks and pages show that a short page ends a listing and that pages do not overlap; the
lemma on a closed listing, that a cut at the last block's second leaves nothing owed behind
it; then one lemma per action. The parts of the invariant that depend on
the explorer have `TimelyIndexing` as their premise, so the rest of it (types, and that a pass
holds only old enough rows of its wallet's own time) is inductive without.

*Day's pass.* `CallCounts`: what a call saw carried, and what it will add, were written, in
its own day. That is `NeverOvercounted` for any overlap, since counts only fall behind what
was written. `Left`, for `DoneStays`: a wallet of an answered day that is due, or that any call
has listed, is in the history `left`, since nothing else is listed or becomes due. `SInv` adds
`Aims` for calls that do not overlap: the wallets a call still holds are as it saw them and
due, so a mark changes no finished row. `Exact` adds that a row no call is about to mark equals what
was written, that nothing was written of a day after its row's, and that a pending mark is
what was carried plus what was read, which together are all that was written. `NextMoment`
needs that finitely many moments have a latest: `Highest` proves it by the least size of a
set that would have none.

*Alert.* `HoursSpent`: the hour of an email, or of a call that still holds one, is the last
one claimed, or is over. So whoever wins a claim wins it after every other hour is over, and
any two of them are `Far`. A call that outlasts the window loses its hour to another and does
not know; it gives back only its own, and if another has claimed the very same hour since, that
was over by then. That a spent hour has its email is inductive on its own (`ClaimStep`): each way a call stops holding the hour leaves an email or a
lost process, or gives the hour back.

*Registry.* `UnderLive`, that a live row is under a live agent, and `OneHolder` are inductive
with the types because every insert checks its agent and its place in the batch that writes.
The mapping takes live agents, removed agents and places of live rows to `VaultPlan`; the
counts of rows and of places agree because a place has one live row. Every step maps to one
step of the plan or to a stutter, and the caps then follow for the plan and so for the
registry. `BudgetHeld` needs what pastes have paid and neither made nor given back
(`PendingOf`): the checks made and pending of a window are within what the budget's entry says
was taken, while that window is open in it, and within the whole budget once it is over
(`Covered`); and a paste has paid for every row it added or will (`Paid`), so what it makes and
gives back was its own.

*Reports.* `Gathered`: what was recorded before a writer's moment it has read, or its next
pages have, because the order of pages is by second and id and an event recorded earlier
keeps its place. `Beaten`: a writer about to insert has compared the version that was newest,
and an insert of the next number succeeds only if it still is. `Carried`, for
`OneWriterFuller`: what any version holds the only writer at work has read, or has yet to read.

*Digest.* `OneClaim`: a key no other was claimed over has one holder or one email, and is the
last key as long as it has either, so a second claim of it finds it there. `KnownLast`: what a
run will put back it listed while nobody held it, and then it had been sent, lost with a
process, or put back so before; the key a run listed while another held it is `restored` once
it is put back. `DigestOnce` and `KeyForDigest` leave `replaced` and `restored` keys out, and
`DigestClaim_again` and `DigestClaim_restored` show that they must.

*Links.* `SpeaksFirst` and `SilentFirst`: whoever writes an answer or a silence has spent or
flagged the link, and nothing was written before. `Alone`: two such calls are never under way
for one link, because the spending is one guarded update. `LinksFit` has, for `OwnLinksStop`,
that a link about the owner's claim exists only once that claim is recorded: a withdrawal that
saw no claim either overlooked one or had no such link to revoke.

*Claims.* `LateWriters`: on a withdrawn record the only calls that write are those that were
under way at the withdrawal. `Headroom` is a sum over a set, and an induction over the set is
not to be had; a sum of naturals is the number of its units instead, the pairs of a member
and a number up to its amount, and with the library's facts on cardinality a claim that leaves
the sum lowers it and one that joins adds its amount. `HInv` then says that a call that found
room, and was not overtaken since, still has it beside the fitting claims that its sum did not
leave out (`PlaceKept`), and that these are within the face value (`Within`): its insert marks
the ones left out.

### Only model-checked

`OwedRecorded` and `EveryWalletRead` are liveness, out of the prover's reach. Every other
property of the passing runs is a theorem. Of section 4's table of what does not hold, `HourApart` and
`NewerIsFuller` are proved under the condition named there; of `NeverOlder`, `SentOnce`,
`HeldWasSent` and `EveryLinkStops` the weaker form a passing run checks is (`Chained`,
`DigestOnce`, `KeyForDigest`, `OwnLinksStop`). For `CursorForward`, `DeadlineCutReported`,
`FailedAlertCounted`, `RenameLeavesKey`, `ArrivesOnce`, `SilenceTrue`, `SilenceWritten` and
`SettlementKeepsSum` no condition the code keeps is known: they are only refuted.

## 7. Not modelled

Everything the table of components gives no module to; the plan says in which order it would
be. Live reads, the cache lock and the rate gate are small enough to be read; two of their
hazards are listed without a property. Of the Agent Vault, the list the owner looks at, the
exports and the folding of events into a report are reads. Of the receivables registry, the
parties' book, the duplicate check, the readers of a grant and the documents. The verify
registry and Cairn have lives of the same shape as a receivable's links and are not modelled
yet. Rendering, translations (most of the repository's lines), billing and the arithmetic of
taxes and prices depend on no order of events and are left to tests, or planned last as pure
functions.
