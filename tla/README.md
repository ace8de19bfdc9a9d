# Boroko Bookings: verification of the desktop's offline core

Boroko Bookings is a hotel, bar and restaurant system: an Electron desktop that
keeps working without the network, a Supabase server that is the final
authority, a manager PWA and a booking site. What a user does offline is stored
in files on the desktop and *replayed* later; what a user does online is
journalled first wherever money is involved. This directory holds TLA+ modules
for that core (the replay engine, its files, the two journals, the saves of an
open check and the local mesh between desks), TLC configurations that check them on small instances, and TLAPS
proofs of the results that hold for every instance.

Paths below are relative to the repository; `infrastructure.js`, `sync.js`,
`syncShared.js`, `syncStore.js` and the like are in `src/main/domains/`.

## 1. The system and its parts

| component | state | operations | hard behaviour | what makes it correct |
|---|---|---|---|---|
| Replay engine (`infrastructure.js`, `syncShared.js`, `shared/syncQueue.js`) | `sync-queue.json`, `sync-failed.json`; per pass: the working array, the dead letters, sets of completed, failed and earlier dead ids | `queueOperation`, `processSyncQueue`, sweep, contract probe, timers | callers write the same file while the pass awaits an RPC; two files and no transaction; crashes; late answers | nothing lost, nothing twice, parents first, budgets, review decisions kept, everything settles |
| Review actions (`sync.js`) | the same two files | retry, clear, sync now | they run between the steps of a pass | they neither lose nor resurrect work |
| Durable store (`syncStore.js`) | a file and its `.tmp`, the operation journal, health faults | durable write, rename or copy, promotion of a left-over `.tmp`, quarantine | crash inside a write; a blocked rename; a torn file | a write that returned survives; a read sees a whole array |
| POS submit journal (`posSubmitJournal.js`, `createPosOrder` in `pos.js`) | one attempt per submit intent: pending, provisional, committed | resolve, commit, provisional, reopen, clear, the banner's lookup | an answer that never came, retried by a user; the queue and the journal both hold the sale | one sale per basket; a sale with a receipt is not lost |
| Hotel folio intents (`hotelFolioIntentJournal.js`, `folioLedger.js`) | one entry per intent | prepare, mark, run once, retry, recover | a crash or a failed write between the RPC and the mark; users change | one posting per charge; nothing forgotten |
| Mesh merge and conflicts (`mesh/meshQueueMerge.js`, `meshConflict.js`) | a peer's summary, imported rows, cached bookings | compare, fetch, import, find conflicts, move to review | two desks hold copies of one operation; several reconciliations and a pass at once; each desk judges on its own | imports never duplicate or lose work; of clashing bookings one stands |
| Mesh locks (`mesh/meshLocks.js`) | local and remote locks with expiry | acquire, broadcast, register, release, prune | messages lost or reordered | advisory only, gone after two minutes |
| Mesh transport, discovery, security | sockets, peers, keys | I/O | packet loss | outside the models |
| Saves of an open check (`savePosTab`, `getPosTabs` in `pos.js`; `upsert_pos_tab`) | the cached check and its version, one queued row per check | hold online or offline, refresh, replay | the queued row is edited while a pass holds it; online holds go past it; late requests | the last hold called saved is kept; an earlier one never replaces a later one |
| POS, bookings, pool (`pos.js`, `bookings.js`, `pool.js`) | caches, and the payloads of queued rows | offline variants of each operation; some edit queued rows in place or reuse a queue id | an edit while the row is in flight | the last edit reaches the server |
| Property transitions | the server's staged operation | plan, apply, undo (online) | partial application on the server | outside the models |
| Caches and refresh | projections of the server | refresh, patch | staleness | not a source of truth |
| Sessions and logins | the signed-in user, `replayAuthReady` | login, unlock, logout | a replay before a login | no pass without a session |
| Backups and recovery | archives | create, restore | partial archive | outside the models |
| Finance and operations domains | caches | thin callers of `queueOperation` or of an RPC | none of their own | seen as `QueueOperation` |
| Server (SQL) | tables, idempotency receipts | RPCs | duplicated and late requests | once per key; refuses a dependent without its parent |
| Electron shell, renderer, PWA, sites | user interface | IPC | interleaving of handlers | seen as the interleaving of actions |

They interact through the two files (every domain module, the mesh and the
review actions read and write `sync-queue.json` and `sync-failed.json`), through
one promise (`state.syncQueuePromise`, at most one pass), through the submit
journal (the Till writes it, the engine commits, reopens and clears its
attempts), through signed requests between desks, through IPC handlers
that run at any `await`, and through RPCs to the server.

## 2. The modules

| module | what it is |
|---|---|
| `Rows` | the array operators of the engine: filter, splice, `collectNewDiskQueueArrivals`, `mergeDeadLetterQueues` |
| `SyncQueue` | the replay engine, the review actions, the timers, the link, the server's receipt, crashes |
| `AtomicFile` | what callers of `syncStore.js` rely on: a file whose content changes in one step, until a persistent fault |
| `DurableFile` | the file and its `.tmp` under `sync-queue.json` and `sync-failed.json`; implements `AtomicFile` |
| `SaleJournal` | a sale at the Till: submit journal, `createPosOrder` online and offline, the banner, the engine's part in it |
| `FolioIntent` | the folio intent journal around one online RPC |
| `MeshQueue` | desks that copy each other's queued bookings, park those that clash, and replay |
| `TabSaves` | an open bar check, held online and offline, whose queued row is edited while passes replay it |
| `MCSync`, `MCDurableFile`, `MCSale`, `MCFolio`, `MCMesh`, `MCTab` | small instances for TLC |
| `RowsTheorems` | lemmas on the operators of `Rows`, proved |
| `SyncQueueProofs` (types and custody), `SyncQueueReplayProofs` (copies, budgets, dependency order, review), `DurableFileProofs`, `SaleJournalProofs`, `FolioIntentProofs`, `MeshQueueProofs`, `TabSavesProofs` | the theorems of each component, proved |

The components meet in the queue files. `DurableFile` justifies that `SyncQueue`
and `MeshQueue` write them in one step; `MeshQueue` uses the array operators of
`Rows` and the whole-file writes of `SyncQueue`'s pass without its budgets;
`SaleJournal` sees the engine as what it does to one row and its attempt, and
`TabSaves` as what it does to one row whose payload changes.

### How `SyncQueue` corresponds to the code

JavaScript runs to completion between awaits. One action of the model is one
synchronous section of the code up to its first durable write; if the section
goes on to a second durable write, the action leaves it in `owed`, nothing else
runs until `CompleteWrite`, but `Crash` may fall in between. So the model has
exactly the interleavings of the event loop, and crashes between any two durable
writes.

| state | in the code |
|---|---|
| `queue`, `failed` | contents of `sync-queue.json` and `sync-failed.json` |
| `owed` | the second `writeSyncQueue`/`writeFailedSyncQueue` of a section |
| `pc` | where `_runSyncQueue` stands; `idle` is `state.syncQueuePromise === null` |
| `pending`, `inflight`, `dead` | `pending`, `item`, `deadLetter` |
| `completed`, `failedIds` | `completedQueueIds`, `failedQueueIds` |
| `priorIds`, `priorManual` | `_priorDeadLetter`: its ids, and those with `manualRetryOnly` |
| `deferred` | `deferredAttemptCount` |
| `stale` | `parked` in `requeueContractParkedHistoricalReplayItems`, held over the probe |
| `online` | `state.isOnline` |
| `wire`, `applied` | requests that reached the network, effects on the server (external) |
| `accepted`, `confirmed`, `cleared`, `manager`, `attempts` | history, read by no action except that `accepted` keeps an identity from being queued twice and limits the parents the server may miss |

Handlers: `QueueOperation` is `queueOperation`; `RetrySyncItems`,
`ClearSyncFailed` and `RunSyncNow` are the review actions; `TimerSweep` and
`StartPass` are the two timers (60 s reconnect, 120 s periodic), which sweep and
then start a pass or join the running one (`BeginPass` is what `StartPass` and
`RunSyncNow` share: the session, the link and the single promise). The pass: `ProbeContract` and
`ContractAnswer`, `LoadQueue`, then the loop's exits in the order of the code
(`PauseOffline`, `DetectCycle` with `DeadLetterCycle`, `DeferRow`,
`SkipDependent`, `Dispatch`), the answer (`Succeed`, `Fail`), `EndPass` and
`FinishPass`.

What is abstracted:

* A row keeps `_queue_id`, `_state`, `retryCount`, `manualRetryOnly`; `wait`
  stands for "`_next_retry_at` lies after the start of the pass" and, in the
  failed file, for "`lastAttemptedAt` is less than 30 minutes ago"; `park` for
  the outcome class `CONTRACT_MISSING`. A schedule is compared with the start of
  the pass, so `BecomeDue` lets schedules expire between passes. A failed row
  may come of age at any await, except a row that the running pass itself gave
  up: a pass is taken to be shorter than 30 minutes.
* Payloads, caches, journals and messages to the user are left out; dependencies
  are a constant of the operation. An identity is queued by its caller once.
* An answer is a success or one of four kinds of failure (`Verdicts`): a
  retryable class, a refusal recognised by its wording only (it keeps a
  schedule), a structured refusal, and a missing server contract (sales only).
  A transient failure leaves the request in `wire`: the server may execute it
  much later. A refusal means that the server does not hold the operation.
* The server applies an operation once per identity and refuses it while a
  parent that was queued is missing. `ServerExecute` and the link are external.
* A durable write is atomic here, which `DurableFile` justifies; one that throws out of the pass has the
  effect of `Crash`. One that is swallowed (`persistDeadLetterIncrementally`) is
  not modelled (section 6).
* `replayAuthReady` is assumed: without a session no pass starts.

### How `DurableFile` corresponds to the code

Here one action is one file system call, so that a crash or an exception can
fall between any two of them. `main` and `tmp` are the two files, each a whole
array, `Torn` (does not parse) or `Absent`; `aside` is what
`quarantineBadJsonFile` set aside; `pc`, `goal`, `why` are the call in progress,
what it writes and whether it serves a write, a promotion or the reset of a
damaged file; `tries` is `attempt`. `Write`, `OpenTmp`, `FillTmp`, `SyncTmp` and
`TmpFails` are `writeSyncQueue` and `writeJsonFileDurable`; `Rename`,
`CopyStarts`, `CopyEnds`, `CopyRefused`, `CopyStops` are the paths of
`replaceFileSync`; `Promote`, `DiscardTmp`, `ReadMain` and `Quarantine` are
`readSyncQueue`. The functions for `sync-failed.json` are the same line by line.

* A section reads a file before it writes it (`ready`), as every caller does;
  without that a write could truncate a temporary file it never looked at.
* Parsing and normalising the rows are left out; health faults are messages.
* What a completed call did survives a crash. `fsync` of the directory is left
  to the file system.
* `faults` records two events that callers cannot be protected from: all three
  tries of a replace fail, and an intact file cannot be read. After the first a
  read returns what it could not promote, and the next write truncates that
  temporary file while the file itself is older or half copied; after the second
  an intact file is treated as a damaged one. `AtomicFile` allows any content
  while it is `broken`, and is whole again when a write has returned
  (`Recovered`); `TornIsRecoverable` and `RecoveryCopyKept` name the exception.
* The refinement maps the content of the atomic file to what a read would return
  now (`Readable`): a valid temporary file goes before the file. So a write
  takes effect when its temporary file is filled, not when it is renamed, and a
  failed promotion or a crash after that moment changes nothing.

### How `SaleJournal` corresponds to the code

A sale is a submit intent. `journal[s]` is the status of its attempt in
`pos-submit-attempts.json`, `rows[s]` which of the two queue files hold its row,
`call` and `sending` the sale that the Till and the pass await; `completed` and
`dead` are the pass's `completedQueueIds` and the sales in its `deadLetter`. A
section with several durable writes makes the first in its own action and leaves
the others in `todo`, in the order of the code; nothing else runs until
`Proceed` has made them, but `Crash` may come between any two, and `WriteFails`
and `PassFails` may cut the section short. So `SubmitOffline` is
`queueOperation`, then `markPosSubmitAttemptProvisional`, then the receipt; a
dead letter is the failed file, then the journal (reopened or cleared, as
`shouldRetainPosSubmitJournal` says), then the queue; a retry is the queue, then
the failed file.

* The pass writes the *whole* queue file (`ReplayQueue`): every row on disk but
  those it has completed or holds dead. `WriteReplayQueue` is such a write for
  the sake of another row, and `DropRow`, `ReplaySends`, `ReplayPostponed` and
  `EndPass` are others. A sale that a manager retries while the pass holds it
  dead is therefore erased again, and `Flush` at the end of the run brings it
  back to the failed file. `undone` remembers such a retry until the sale is in a
  file with no pass to erase it.
* `Sweep` (the automatic requeues) cannot take a row that the running pass gave
  up, which is too young; `ManagerRetries` can.
* A row parked unsent (`ReplaySkips`) keeps its attempt as it is.
* `MaySubmit` is the hospitality terminal: it mints an intent for each new sale,
  or retries the envelope that is pending. `told` is what the operator knows to
  be sold, and no basket known to be sold is rung up again.
* The desktop has one operator at a time here; the scope of an attempt by lodge
  and user is left out (other users do not see it). The older `POS.jsx`, which
  keeps one intent per basket signature, is not modelled.
* A retry sends the bytes that were journalled, so the digest always matches.
* The server (external) looks up its receipt before it refuses: a refusal is
  given only where it holds nothing, and it may execute an abandoned request
  (`late`) at any time later.

### How `FolioIntent` corresponds to the code

`journal[i]` is the status in `hotel-folio-intents.json`. `SubmitIntent`,
`RetryIntent` and `RetryKnown` are the entry points, `Dispatch` is the mark and
the RPC, and the answers are the exits of `dispatchIntent` in its order: a
matching receipt, one whose mark fails, a refusal, an error raised before the
receipt is looked up (`Denied`), no answer, no receipt. `writeJournal` writes a
fresh temporary file and renames it, so a write is one step or none; every mark
may fail. `SignIn` changes the user at any await. `verdict[i]` is history: what a
mark as rejected rests on, the server's answer about the operation (`refused`), an
error that says nothing of it (`denied`), or the failure of the mark of an answer
without a matching receipt, which `dispatchIntent` catches as if it were an error
of the operation (`unsaved`).

### How `MeshQueue` corresponds to the code

Each desk has its files, its cache of bookings (`known`; `dated` are those whose
row came from the server and so carries the server's `created_at`), a replay
pass and several reconciliations. `run[n][r]` is one call of `syncMeshQueues`
with its locals and the await it is at: `StartSync`, `AskSummary`, `Compare`,
`AskItems`, `Import`, `FinishSync`, and `PeerFails` for the catch. Timer and
handshakes start runs without looking whether one is under way, and nothing in
the model prevents two either. `detectConflicts` has no await: its losers are
parked one after another, each by two writes in the code's order
(`ParkFromQueue`, `ParkInFailed`), and only a crash falls in between.

* A booking is its `_queue_id`; `Slot` stands for room and dates. Two contents
  under one id (identity conflicts) do not occur.
* The pass is the one of `SyncQueue` reduced to its whole-file writes and its
  sets; a dead letter's two writes are one step here, since `SyncQueue` covers
  the crash between them. Retrying a parked booking is left to `SyncQueue` too.
* The server (external) commits a booking if its slot is free.
* `Born[b]` is the time that travels with a queued booking, `Filed[b]` the one the
  server gives it when it commits. `Wins` compares whichever a desk's cache has:
  a row refreshed from the server wins against a booking taken after the commit
  and loses to one taken before it. In the run `mesh` commits are later than both
  bookings, so that a refresh changes who is first; a second booking taken after
  the commit of the first was checked once, with the same result (593 890
  states), and the theorems are about all times. Desks' clocks need not agree, so
  the order in which bookings are taken is not tied to `Born`.
* `BornAssumption` excludes that a booking is taken in the millisecond in which
  another one of its slot is taken or committed. The
  code breaks that tie by node id, but calls its own bookings `local`, so that
  two desks may each prefer the other's, or each its own.

### How `TabSaves` corresponds to the code

One check, on one terminal. `HoldOffline` and `HoldOnline` are the two branches
of `savePosTab`, `HoldConfirmed` and `HoldRejected` the ways an online hold ends
(`restoreLocalTabAfterRejectedSave`), `RefreshTabs` is `getPosTabs`. Holds are
numbered, and a save is its number and the version it `expects`; `local` is the
version in the cache. `queue`, `failed` and `committed` are the row `pos-tab-<id>`
in the two files and its mark; `mem`, `done` and `dead` are what a pass knows of
it. The pass is that of `SyncQueue` reduced to one row, with `ReplayOthers` for the
writes it makes for other rows. `Accepts` and `Execute` are `upsert_pos_tab`.

* Scope of the bar: every save of a check that exists must expect a version (the
  wrapper of 20260820180000). A new check is one without an id, as `POS.jsx` sends
  it; `HposTerminal.jsx` sends a fresh id and no version, which `savePosTab`
  refuses (`pos.js:4190`), so nothing is saved.
* Which failures keep the row for another attempt is left open (a refusal for
  the version always goes to review); `SyncQueue` has the budgets.
* `wire` holds at most one copy of each abandoned request.
* Other terminals, transfers, settlement and the joining of tables are left out;
  so is a second hold of the check while one awaits its answer (the screen waits).
* A section with two durable writes may end between them (`Requeue`, `Succeed`,
  `DeadLetter`). A crash of an offline hold between the
  cache and the queue leaves a cached check that was never called saved, which is
  also what a crash of an online hold leaves.
* `excused` names the holds that were put into the queue while a pass had the row,
  or had settled it, or while the row was marked committed, and those cleared by
  the manager. The pass writes its own copy over the first kind.

## 3. What the runs check

Bounds: `MaxFaults` counts transient failures and losses of the link,
`MaxCrashes` crashes; `MaxRetries` is 5 in the code and 1 or 2 here. With 2 an
operation is sent, comes back, and is dead-lettered at its next failure, which
is every path of the budget; with 1 the first failure dead-letters, which is
what chains and cycles are about. Every identity is queued once. No other
variable of `SyncQueue` is bounded: the files cannot grow past one row per
identity (`NoDuplicateRows`). `SaleJournal` and `FolioIntent` have no bound but
their constants. In `MeshQueue`, `Runs` bounds the reconciliations a desk makes.
Deadlock is not checked, except in `file`: when everything has settled and no
fault is left there may be nothing to do, and that is a proper end.

| run | instance | bounds | distinct states | checks |
|---|---|---|---|---|
| `crash` | a parent (a sale) and its dependent | 2 retries, 1 fault, 1 crash | 1 860 960 | `TypeOK`, `NoOperationLost`, `ReplayCustody`, `NoDuplicateRows`, `SingleCopies`, `BudgetSpentByAttempts`, `BudgetKept`, `ParentsAccounted`, `WaitsOnce`, `ParentsBeforeChildren` |
| `chain` | shift, sale in it, cash-up behind both | 1 retry | 2 676 887 | `NoDuplicateRows`, `ParentsBeforeChildren`, `NotSentWhileInReview`, `ConfirmedNotSentAgain`, `GivenUpBehindOpenParent` |
| `cycle` | two operations behind each other | 1 retry, 1 fault | 598 092 | `NoOperationLost`, `EventuallySettled` |
| `file` | three arrays, one of them empty | 1 damage | 141 078 | `TypeOK`, `TornIsRecoverable`, `FileInvariant`, `IsAtomic`, `RecoveryCopyKept`, `RecoveryKeepsContent` |
| `sale` | one basket under two intents | none | 1 685 045 | `TypeOK`, `OneSalePerBasket`, `ToldSaleKept`, `ProvisionalOwned` |
| `folio` | one charge under three intents, two users | none | 14 042 | `TypeOK`, `OnePosting`, `KeptInRecovery` |
| `mesh` | two desks, a booking each for one slot, one desk linked to the server | 2 and 1 reconciliations, 1 crash | 697 261 | `TypeOK`, `BookingKept`, `OneStands`, `NoDuplicateRows` |
| `tab` | one check | 3 holds, 1 crash | 364 680 | `TypeOK`, `LastHoldKept`, `UpdatedTabGuarded` |

Three arrays are the content before a write, the content after it and the empty
one, which a missing or damaged file reads as; the protocol never compares two
arrays otherwise. Two intents are a sale and the one that would double it, and
each pair of intents is what `OneSalePerBasket` is about; three folio intents add
two of one user beside one of another. Two reconciliations on one desk are the
least that can overlap; the clashing bookings are on different desks, which is
where no desk sees both from the start. Three holds are the least in which one
save waits in the queue, one in the pass or on the wire, and a third goes past
them; four holds were checked once, with the same result (4 963 000 states).

* **NoOperationLost**: an accepted operation is in one of the files until the
  server's success was seen or the manager cleared it, wherever a crash falls.
* **NoDuplicateRows**: no array the engine (or a desk of the mesh) works on holds
  an operation twice, although callers, sweeps, the manager, reconciliations and
  the pass all write the same file.
* **ParentsBeforeChildren**: nothing is sent before its parents are applied. It
  names three exceptions, all real: a parent the manager cleared, one whose retry
  was undone, and one this pass gave up unsent (run `skipped_parent`).
* **NotSentWhileInReview**, **ConfirmedNotSentAgain**: until the process first
  dies, what waits for the manager is not sent, and what was confirmed is not
  sent again.
* **SingleCopies**, **BudgetKept**, **ParentsAccounted**, **WaitsOnce**: the
  strengthenings that the proofs of section 4 use, checked here first.
* **GivenUpBehindOpenParent**: a dependent is given up only behind a parent that
  the server has not confirmed.
* **BudgetSpentByAttempts**: waits, outages and crashes never use up attempts.
* **EventuallySettled**: every queued operation is confirmed, or reaches the
  failed file, or was cleared.
* **IsAtomic**: callers cannot tell the two files from one that changes in one
  step. **TornIsRecoverable**, **RecoveryCopyKept**: a torn file always has a
  whole temporary file, which goes only when the file holds its value.
* **RecoveryKeepsContent**: what a read returns changes only with a write or by
  damage, even when promotions fail for good.
* **OneSalePerBasket**, **OnePosting**: whatever times out, executes late, is
  retried, queued or recovered, a basket is not sold twice and a charge is not
  posted twice, unless the operator was told that one of them failed (or a crash
  took the answer).
* **ToldSaleKept**, **ProvisionalOwned**: a sale the operator has a receipt for is
  on the server or in a file, and an attempt that no longer shows in the banner is
  owned by the queue, although the pass rewrites the whole file. Both name one
  exception, `undone`: a manager's retry that the pass under way takes back. It is
  real (see below).
* **KeptInRecovery**: a folio operation that is out, or that the server has or may
  still execute, is listed for recovery or confirmed in the journal. The
  exceptions are intents marked rejected for no reason that concerns the
  operation (`denied`, which the run `folio_rejected` shows, and `unsaved`, see
  below). A rejection that rests on the server's own refusal is none.
* **BookingKept**: the desk that took a booking keeps it until the server has it
  or a manager cleared it. The exception it names, `torn`, is real (see
  below), and there is no other.
* **OneStands**: the desks judge on their own, with caches that differ, and
  still never park all bookings of a slot without the server having one.
* **LastHoldKept**: the last hold of a check that was called saved has reached the
  server or is in a file, unless it was put behind a pass that had the row
  (`excused`). Each of these exceptions is needed: without it TLC finds the loss
  (see below).
* **UpdatedTabGuarded**: once the server has updated a check, no earlier hold
  replaces a later one, however late a request runs or a row is replayed.

A crash can leave an operation in both files, or confirmed and still queued. That
breaks `NotSentWhileInReview`, `ConfirmedNotSentAgain` and the exact form of
`GivenUpBehindOpenParent`, which therefore speak of a process that has not died
(`Lives`), and `chain`, which checks them, has no crash. A manager who retries an operation that the running pass has just
dead-lettered moves it to the queue file, and the pass, which still holds it dead,
rewrites the queue without it; until its final flush (`infrastructure.js:1999`) it
is in neither file, and a crash there loses it. This is the exception `Undone` that
the properties of `SyncQueue` carry, and `undone` in `SaleJournal`.

### Where the code and its own words differ

| run | what the code says | what the model shows |
|---|---|---|
| `skipped_parent` | "Skip items whose parent operation failed this run"; a child of a parent that "dead-lettered manual-only in this run" is parked (`infrastructure.js:904`, `913`) | A dependent parked behind its parent is put into `deadLetter` but not into `failedQueueIds` (`infrastructure.js:990`). To its own dependents it is in no tracking set and counts as resolved: the guest is refused, the guest's booking is parked, and the charge on that booking is sent in the same pass. The next pass, seeded from the failed file, would have parked it. |
| `sale_refused` | a structured rejection "is authoritative proof that this attempt did not commit" (`pos.js:3307`) | An offline sale is queued and a crash comes before its attempt is marked provisional. The banner offers it again; the online retry is refused and frees the Till, and the queued row is replayed and recorded. |
| `folio_rejected` | "This folio operation was definitively rejected. Correct the issue and begin a new operation." (`folioLedger.js:206`) | Any error that is not worded as a network failure marks the intent rejected, also one raised before the receipt is looked up. The server has a posting whose intent is still open (its confirmation could not be saved); a retry that is denied for the session or role hides it. |
| `tab_stale` | "Last-writer-wins per tab ... Otherwise later holds would replay stale lines" (`pos.js:4288`), "version conflicts dead-letter visibly instead of overwriting" (`pos.js:4285`) | A new check is held twice offline: one row, which expects the version 1 that a new check gets locally. A third hold goes online past the row and creates the check on the server, as version 1. The replayed row matches and puts the earlier lines back. |

### Losses that the properties name as exceptions

A property that holds names the histories in which the code does not keep it.
Each of these is a behaviour of the model: TLC shows it as soon as the exception
is taken out of the property.

| exception | in | what happens |
|---|---|---|
| `Undone`, `undone` | `NoOperationLost`, `WaitsOnce`, `ToldSaleKept`, `ProvisionalOwned` | The pass parks an operation, for instance a sale with a receipt; the manager retries it while the pass goes on. The retry moves it from the failed file to the queue file (`sync.js:378`), the pass's next write erases it there (`infrastructure.js:693`), and until the flush at the end of the run (`1999`) it is only in memory: a crash loses it, although "Dead letters must survive a crash mid-replay" (`infrastructure.js:702`). |
| `torn` | `BookingKept` | `moveQueuedBookingToManualReview` writes the queue without the booking (`meshConflict.js:112`) before the failed file with it, the order of which `infrastructure.js:2059` says that it "can lose a sale". A desk imports an earlier booking, parks its own and dies between the writes: no file of any desk has it. |
| `excused`, put behind a pass that has the row | `LastHoldKept` | A pass that has loaded the check's row keeps its own copy. A hold made offline while it runs edits the row on disk (`pos.js:4295`), and the pass's next write puts the earlier lines back. |
| `excused`, put behind a pass that has settled the row | `LastHoldKept` | Arrivals are known by their id (`infrastructure.js:681`), which is the same for every hold of a check. A hold queued after the pass replayed the check's row counts as completed and is erased. |
| `verdict` = `denied` | `KeptInRecovery` | Run `folio_rejected`. |
| `verdict` = `unsaved` | `KeptInRecovery`, `RejectedNotPosted` | An answer without a matching receipt is to be marked unknown (`folioLedger.js:162`). When that mark fails, its own error is caught as an error of the operation and the intent is marked rejected: it is posted perhaps, no longer listed, and no longer blocks a second posting. |

One more disagreement is no loss: "dead-letter reopens it" (`posSubmitJournal.js:298`)
is so only for a sale that was sent. One that is parked unsent, behind a parent
that can no longer succeed or in a cycle (`ReplaySkips`), keeps its provisional
attempt: the failed file shows it, the banner does not.

A parent the manager has cleared is in no tracking set either, so its child is
sent although `infrastructure.js:917` says that it is parked; that is the
exception `cleared` of `ParentsBeforeChildren`.

### Fairness

`Fairness` assumes that a pass goes on and is started again when there is
something to send (the 60 s and 120 s timers; an RPC answers or times out), that
the link comes back, that the server works on what it received, and that
schedules come due. `BecomeDue` has strong fairness because it can only be taken
between passes, which the timers keep starting; in the program time passes in
any case. Nothing is assumed of the manager, of callers or of the timers' sweep
into a running pass. The exception in `EventuallySettled` is real: a manager who
keeps retrying an operation in the very pass that dead-letters it keeps it (or
its dependent) from settling.

## 4. What is proved

Of `SyncQueue`, for every set of operations, dependency relation, set of sales, retry budget
and bound (the named assumptions of `SyncQueue`), with no bound on the length of
the arrays:

* `TypeCorrect`: `Spec => []TypeOK`.
* `CustodyInvariant`: `Spec => []ReplayCustody`.
* `NoLoss`: `Spec => []NoOperationLost`.

`NoOperationLost` is not inductive: the pass erases whatever row it holds
completed, dead or committed, whether or not anything else holds it. So
`ReplayCustody` adds why that is safe: completed operations are confirmed; a
row marked committed belongs to a confirmed operation; and an operation the pass
holds dead is in the failed file, with a flag that keeps the automatic sweep
from taking it back (`HeldBack`: manual, or too young), unless it was cleared,
confirmed, or its retry was undone. Both parts must also hold of the owed write
(`CustodyAcrossWrites`), since a crash may or may not let it happen.
`DeadLetterCustody`, `RequeueCustody` and `QueueWriteCustody` are the three
kinds of write; the step lemma has one step for each action.

Under the same assumptions `SyncQueueReplayProofs` proves what the engine does
with the operations it keeps:

* `NoDuplicates`: `Spec => []NoDuplicateRows`, from `OneCopy`
  (`[]SingleCopies`). Distinct arrays alone are not inductive: a dead letter is
  appended to `dead` and written to the failed file, and a failed attempt goes
  back behind the working set, so the rows of the pass, its dead letters and
  the owed write must also be disjoint.
* `OnlyAttemptsCharged`: `Spec => []BudgetSpentByAttempts`, from
  `BudgetInvariant` (`[]BudgetKept`). Rows reach the queue from the working set,
  from the row in flight and from the owed write, so all of them must have spent
  no more than their dispatches; and the row in flight must still have an attempt
  to be charged for.
* `ParentsComeFirst`: `ParentsFirst => (Spec => ParentsBeforeChildren)`, from
  `ParentsAlwaysAccounted` (`[]ParentsAccounted`): what a running pass does not
  see among its rows it holds failed, dead or completed, and nothing in the
  failed file escapes those sets. `ParentsFirst` says that a caller queues a
  parent before its dependents, as the domain modules do: they name the id of an
  operation that is already pending (for instance `bookings.js:1217`, `2467`,
  `2518`). Only the run `cycle` drops it, for
  operations that wait for each other.
* `ReviewIsNotSent`, `ConfirmedOnce`, `GivenUpWithReason`: the action properties
  `NotSentWhileInReview`, `ConfirmedNotSentAgain` and `GivenUpBehindOpenParent`,
  from `OneWait` (`[]WaitsOnce`): up to undone retries an operation waits for
  review or for replay and not for both, and a confirmed one for neither, also
  in the owed write. They hold for every `MaxCrashes`, and speak of the part of
  a behaviour before its first crash.

These invariants share one case analysis. `StepEffect` proves that every step is
one of fourteen effects on the sets of ids and rows (`Arrival`, `Sending`,
`Success`, `Parking`, `PutBack`, `Return`, ...), from the actions and the lemmas
on arrays; `KnownStep`, `ParentsStep` and `WaitsStep` are then about sets only.
`KnownRows`, that every id was queued by a caller and that confirmed means
applied, is an auxiliary invariant of that module.

`RowsTheorems` has what the array operators return: which ids, which rows, that
the type is kept, and when no id is held twice. The JavaScript filters are written there by ranking
indexes, not by recursion, so that this can be proved.

Of `DurableFile`, for every set of arrays and any number of writes, crashes,
failing calls, persistent faults and damages: `TypeCorrect`, `FileHolds`
(`FileInvariant`), `FileCorrect` (`TornIsRecoverable`), `CopyKept` (`RecoveryCopyKept`), `ContentKept`
(`RecoveryKeepsContent`) and `Atomicity` (`IsAtomic`).

The inductive invariant `FileInvariant` says what the temporary file is at each
point of a call (stale before it is opened, torn while it is filled, then the
value), and that a section about to write has the file's own content in it or
none: that is what makes truncating it harmless. `StepPromise` maps each file
system call to a step of `AtomicFile` or to none.

Of `SaleJournal`, for every set of intents and baskets: `TypeCorrect`,
`NoDoubleSale` (`OneSalePerBasket`), `NoToldSaleLost` (`ToldSaleKept`) and
`QueueOwnsProvisional` (`ProvisionalOwned`). None of the three is inductive. `Accounted`
says why a basket cannot be rung up again behind the Till's back: the operator
knows of an open sale, or its attempt is pending and blocks, or its receipt is
being made. `RowsTold` says the same of a sale that has a row, which an operator
may no longer see pending. Both rest on `SectionOK`, what the section under way
has already written at each of its writes, so that a crash between any two
leaves a state that satisfies them; with the guard of `resolvePosSubmitAttempt`
they give `OneOpen`, one open sale for a basket.
`ErasesSafely` says why the pass may rewrite the whole queue file without the
rows it has settled: the server has the completed ones, and one it holds dead is
in the failed file or on the server, was put back under the pass, or is a sale
that nobody counts on.

Of `FolioIntent`, for every set of intents, charges and users: `TypeCorrect`,
`NoDoublePosting` (`OnePosting`) and `NothingForgotten` (`KeptInRecovery`). The
invariant adds that an intent whose request is out is marked as submitted
(`OutIsMarked`), without which a mark could be made behind a request; that the
desk has seen how each resolved intent ended (`ResolvedSeen`); and that for a
charge one intent at most has neither been rejected nor gone unseen (`OneOpen`).

Of `MeshQueue`, for every number of desks, reconciliations and crashes and every
finite set of bookings: `TypeCorrect`, `NoBookingLost` (`BookingKept`),
`OneLeftStanding` (`OneStands`) and `OneRowEach` (`NoDuplicateRows`). For the first, the invariant says what the pass
may leave out of its whole-file writes: a settled row is on the server, in the
failed file or cleared (`GoneSettled`). For the second, a booking is parked only
when the server has one of its slot or an earlier one was taken (`ParkedBehind`),
so the first booking of a slot is never parked unless the server has one. This
holds for all times of taking and committing.
`BornAssumption` supplies that first booking. The last rests on `SingleRows`: the
working set of a pass is distinct as well and does not hold the row in flight,
which a lost answer puts back.

Of `TabSaves`, for every number of holds and crashes: `TypeCorrect`, `LastHold`
(`LastHoldKept`) and `VersionGuard` (`UpdatedTabGuarded`). For the first two the
invariant `KeptInv` says what the last hold called saved is when it has not reached
the server and is not excused: the row in the files and the row in the pass are
then the same one. For the third, `VersionsOK` says that a save that expects a
version the server gave out for an update is no older than what that version holds,
and that no copy expects a version the server has not reached.

## 5. What is only model-checked

`EventuallySettled`: liveness under fairness and `ENABLED` are outside the
prover. Every invariant and every action property of the passing runs is a
theorem. The violations are TLC's counterexamples.

## 6. Not modelled

Not modelled for a reason that will stay: transport, discovery and
cryptography of the mesh, user interfaces, reports, pricing and other data
shaping, backups, hardware, and the SQL functions themselves. They are most of
the repository's lines; the modules above cover the parts where concurrency,
crashes and lost answers decide.

Left out of a component that is modelled:

* The swallowed failure of `persistDeadLetterIncrementally`: with it an operation
  is only in memory until the end of the pass, and `NoOperationLost` and
  `ToldSaleKept` do not hold. The code logs it and goes on.
* Payloads of queued rows other than the saves of a check. So nothing is said of a
  second offline edit of a booking, a day use or a room type under a queue id that
  is already queued (`infrastructure.js:2239`), which is skipped.
* Mesh locks: advisory, with a two-minute expiry.
* Changes of existing bookings, group bookings, shifts and returns, and transfer
  and settlement of checks: their offline branches are `QueueOperation` to the engine.
* The pruning of committed attempts, and what a corrupt journal does (every sale
  or folio operation is refused until it is reconciled).
* Property transitions (online, staged on the server) and the PWA's own queue.
