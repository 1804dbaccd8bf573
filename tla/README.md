# A verification project for GaiaLog

GaiaLog collects environmental readings (air quality, water level, earthquakes, ...) from public
providers and writes each of them to the BSV chain in a transaction of its own. This directory holds
TLA+ models of the parts that decide *whether a reading is written, how often, and with which
output*, TLC runs that check them on small instances, and proofs of their main safety properties
for every value of the constants.

    tlc -config QueueTwoRestart.cfg MCWorkerQueue  # a run
    tlapm WorkerQueueProofs.tla                    # the proofs of a module

`PROJECT.json` maps every definition to the lines it models and lists the runs, the theorems, the
hazards, and for every property one mutation of the code under which TLC finds it violated.

## 1. The system

| component | state | operations | interacts with |
|---|---|---|---|
| **Collectors** (`worker-threads.ts`, `worker-auto-init.ts`, `run-workers.ts`) | timers, dedupe window, sweeps' cursors, the EMSC socket | collect, deduplicate, store a reading, enqueue it, re-arm | providers, stores, worker queue, write-dry mode |
| **Provider fetch** (`provider-fetch.ts`, `stores.ts`) | validators, budgets | fetch with retries under a budget | providers, collectors |
| **Worker queue** (`worker-queue.ts`, `queue-repository.ts`) | in-memory queues per process, table `worker_queue` | accept, hydrate, claim, process, retry, park, reclaim | chain writer, repositories, write-dry mode |
| **Chain writer** (`blockchain.ts`) | wallet index, masks of wallets, channel back-offs, tracked txids | choose a wallet, `writeToChain`, `broadcastTransaction`, confirmation checks | inventory, overlay submission, tx_log |
| **UTXO inventory** (`utxo-inventory.ts`) | table `overlay_admitted_utxos`: removed, locked, locked_by, role, cooldown | acquire, release, consume and admit change, admit split outputs, archive, reap | all users of outputs |
| **UTXO maintainer** (`utxo-maintainer.ts`) | interval, wallet back-offs | split a large output, archive a phantom, call the reaper | inventory, broadcast, overlay submission |
| **Overlay submission** (`overlay-service.ts`, `overlay-repository.ts`) | the same table, topics, audit | record outputs and retire inputs of a submitted transaction | inventory, spend-source client |
| **Spend-source client** (`spend-source.ts`) | failure counters and fallback time of each wallet | read, submit with retries, fall back | overlay submission, legacy listing |
| **Dust consolidation** (`utxo-auto-consolidate.ts`) | per-wallet cooldown | lock a batch, broadcast, commit or release or archive | inventory |
| **Funding admission** (`wallet-funding-admit.ts`) | cursor and last sweep of each address | compare balances, search the history, page through outputs, admit | inventory |
| **Write-dry mode** (`write-dry-mode.ts`) | mode, count of dry checks | evaluate | inventory, worker queue, collectors |
| **Confirmation worker** (`confirmation-worker.ts`) | candidates of a cycle | look up, confirm reading and tx_log | tx_log, explorer store |
| **tx_log and explorer store** (`repositories.ts`, `overlay-explorer-repository.ts`) | status per transaction, row per reading | upsert, confirm, remove | the writer, the worker, scripts, explorer sync |
| **Retention** (`retention.ts`) | marker of the last run, advisory lock | delete old rows in batches, once a day | all tables |
| **Legacy listing** (`utxo-provider.ts`) | cache, fetch under way, cooldown | list a wallet's outputs | spend-source client |
| **Operator's scripts** (`consolidate-wallet-utxos.ts`, `recovery-import-onchain-utxos.ts`, `backfill-…`, `archive-…`) | none of their own | consolidate, transfer, import, confirm, archive | inventory, tx_log, explorer store |
| Field mapping, validation, keys, observability, web application | | | not modelled (section 7) |

The hard behaviours: several processes share two tables with no coordinator but SQL predicates;
most statements of the queue are sent without being awaited and their errors dropped; a process
exits at any moment (a scheduled restart every thirty minutes, a kill, the heap guard) and does not
drain; a broadcast may be accepted and its answer lost; the bookkeeping after a broadcast is done
twice, by the inventory and by the overlay, in either order, with retries; locks and claims are
taken back by age.

What makes the components correct:

* queue: no reading is deleted before it is on the network, none is parked before its retries are
  used up, a claim is exclusive, what is claimed is settled in the end;
* inventory: one user per output, no satoshi counted twice, a spent output is never offered, an
  unspent one never forgotten, a removed row never returns, a lock never stays;
* collectors: a reading that stays listed reaches the queue, a station is asked again and again, a
  stream comes back, a fetch ends;
* confirmation: what is called confirmed is mined, a confirmed reading stays, no tracked txid is
  forgotten and none is tracked for ever;
* fallbacks: a pause of writes, a fallback of the breaker, a back-off of a channel or a wallet is earned
  and passes; funds that are there are found, funds that come in are admitted;
* retention and recovery: no second pass without a lost lock, and passes go on; a recovery leaves nothing behind the chain;
* consolidation: a batch is recorded once whatever fails around it, and a sweep that outlasts its
  locks does not take away those of its successors.

## 2. Modules

| module | models | extends |
|---|---|---|
| `ReadingLedger` | abstract specification of the queue | |
| `WorkerQueue` | worker queue over its table | instances `ReadingLedger` |
| `WorkerQueueProofs` | its theorems and the refinement | `WorkerQueue`, `TLAPS` |
| `MCWorkerQueue` | instances for TLC | `WorkerQueue` |
| `CoinLedger` | abstract specification of the inventory | |
| `UtxoInventory` | inventory, writer, splitter, reaper, overlay submission, network | instances `CoinLedger` |
| `UtxoInventoryProofs` | its theorems and the refinement | `UtxoInventory`, `TLAPS` |
| `MCUtxoInventory` | instances for TLC | `UtxoInventory` |
| `AutoConsolidate` | dust sweep beside writers and reaper, network | instances `CoinLedger` |
| `AutoConsolidateProofs` | its theorems and the refinement | `AutoConsolidate`, `TLAPS` |
| `MCAutoConsolidate` | instances for TLC | `AutoConsolidate` |
| `Collector` | a provider's listing, a feed's memory, `BaseWorker.run` | |
| `StationSweep` | collectors that page through a list of stations | |
| `EmscSocket` | the stream of earthquakes | |
| `ProviderFetch` | requests with retries, budget and validators | |
| `WriteDryMode` | the gate that pauses writes | |
| `FundingAdmit` | admission of coins from outside | |
| `WalletPick` | the writer's choice of a wallet | |
| `SpendSource` | the breaker of the overlay client | |
| `BroadcastChannels` | failover between broadcasters | |
| `CheckSchedule` | the schedule of confirmation checks | |
| `Confirmations` | all writers of a transaction's status | |
| `Retention` | the daily deletion | |
| `UtxoListing` | the legacy listing that callers share | |
| `Recovery` | consolidation script and recovery import | |
| `MCPipeline` | the fourteen above, one at a time, for TLC | all of them |
| `NumberLemmas` | lemmas on finite sets of numbers, remainders, places in a list and pages of it | `TLAPS` |
| `BeforeQueueProofs` | theorems of what stands before the queue | `StationSweep`, `ProviderFetch`, `EmscSocket`, `Collector`, `WriteDryMode`, `NumberLemmas` |
| `BesideWriterProofs` | theorems of what stands beside the writer | `WalletPick`, `SpendSource`, `BroadcastChannels`, `FundingAdmit`, `UtxoListing`, `NumberLemmas` |
| `AfterWriteProofs` | theorems of what comes after the broadcast, with retention and recovery | `CheckSchedule`, `Confirmations`, `Retention`, `Recovery`, `TLAPS` |
| `PipelineProofs` | what holds of the components holds of their composition | `MCPipeline`, the three above |

### WorkerQueue and ReadingLedger

State. `row` is the table: a status and a retry count per reading id (the id is deterministic, so
a reading is its id). `stale` holds the ids that have been `processing` for two minutes, which is all the
reclaim looks at. `copy` holds the `QueueItem` objects in memory: whose they are, where they are
(waiting in a queue, in a batch, before or after the on-chain check, between broadcast and link, on
a retry timer), `dbClaimed`, and the item's own retry count. `sql` holds the statements that have
been sent and not awaited. `hydrate`, `deferred`, `tick` and `dry` are the control state of a process.
`sent`, `attempts` and `returned` are history variables: no guard reads them except to decide that
the network knows a transaction.

Actions, in the order of the code: `AddToQueue` (push and un-awaited INSERT, after the capacity
check), `StartProcessing`, `HydrateReclaim` and `HydrateClaim` (one statement each), `HydrateError` (either fails, or
is executed without an answer, after which claimed rows are in nobody's memory), `TakeBatch`,
`ClaimBatch`/`ClaimError` (the UPDATE of `markQueueItemsProcessing`), `StartItem`, `CheckOnChain`,
`WriteAccepted`, `LinkTxId`, `HandleFailedItem`, `AlreadyKnown`, `RetryTimer`, `FinishBatch`; the
table executes (`Execute`) or never sees (`Lose`) a statement that was sent; rows grow old (`Age`),
failed rows are cleaned up; a process exits (`Crash`).

`ReadingLedger` says what the rest of the system may rely on: a reading that was filed waits, is held
or is parked; only a waiting one is taken; it goes when the network has it, or after it was parked; it is parked
when more than `maxRetries` attempts were made. `Entry` maps a row's status to its place there, `attempts`
and the readings with `sent > 0` are the rest of the mapping, and `QueueLedgerSpec` is the ledger's specification
under it. That a parked reading may be handed back is the code's doing: the `requeue` of an earlier
attempt is not awaited and may be executed after the `fail` of the last, or come from another holder.

Abstractions. Which waiting items enter a batch is open, so priorities and lanes are left out; the
capacity check is the global one. A batch item that is put back because the cached funding gate
closed is left out: the gate is evaluated in the same tick, and `TakeBatch` need not happen. Two
hydrations of one process at once (the first taking longer than the 60 s timer) are left out. Two
identical statements in flight are one: executing the second would change nothing unless another
statement of that row came between. `handleFailedItem`'s releasing of expired legacy locks touches
no state of this module.

### UtxoInventory and CoinLedger

State. `chain` and `parent` are the network: which outputs exist, are spent, or were forgotten with
their transaction. `row`, `lock`, `reserve` and `cool` are the columns of `overlay_admitted_utxos` the
code decides on. `task` holds the writes and splits in progress, `submits` the submissions whose
sender waits, `reads` the overlay's transactions that have looked for existing rows and not yet
written. A model value stands for an output; amounts, wallets and topics are left out, so which
output is large enough is an open choice.

Actions. Each function of `utxo-inventory.ts` is one transaction of the database and one action:
`Acquire`, `Release`, `Consume` (both `consumeAndAdmitChange` and `admitSplitOutputs`), `Archive`,
`Reap`. `Broadcast` is a transaction the network takes, reported as accepted or, with
`AnswersMayBeLost`, as an error; `Rebroadcast` one it already knows; `BroadcastFails` none.
`submitOverlayTransaction` is two steps, `SubmitRead` and `SubmitWrite`, because it reads which rows
exist in one statement and upserts the missing ones in another; a submission may be posted again
while it waits. `AcquireLost`, `ReleaseError`, `ConsumeError`, `SubmitAborts` and `SubmitError` are the
failures, `Crash`, `Forget`, `LockAges` and `CoolDown` the environment.

`CoinLedger` says what users of the inventory may rely on: an output is recorded once, taken when
free, handed back or retired, and never returns. `Status` maps a row to the state of the ledger, and
`LedgerSpec` is the ledger's specification under that mapping.

Abstractions. A write makes at most one change output and a split two. A transaction sent again
after the network forgot it is a new one. Rows that retention deletes are not modelled; it deletes
removed rows only. Topic counts are left out, no decision reads them.

### AutoConsolidate

State. `row`, `lock` and `cool` are the columns of the table, `chain` the network and `made` the outputs
each output was made from (a batch has many). `sweep` is where each process is in `consolidateWallet`
and the batch it works on; a process sweeps one batch at a time (`running` in `guardedCycle`).
`late` holds the inputs of the other users' transactions that the network has and the table does not.

Actions. `lockDustBatch` is one transaction of two statements and is modelled by two steps: `Pick`, the
SELECT that locks nothing, and `LockBatch`, the UPDATE that asks again whether a row is live and
unlocked and nothing else. `Broadcast`, `Rebroadcast`, `NotSent` and `MissingInputs` are the ends of the
broadcast: accepted, known already, none, and the message that `isMissingInputsError` looks for.
`CommitConsolidation`, `ReleaseBatch` and `ArchiveBatch` are one transaction each; `LockError`,
`CommitError` and `CleanupError` are their failures, executed or not. `Crash` ends a sweep anywhere.

The writers and splitters of `UtxoInventory` are there as far as a sweep can tell: `OthersTake`,
`OthersSpend`, `OthersRecord` (at any time later, whoever has the lock by then), `OthersStop` (never) and
`OthersRelease`. They share one lock owner: the sweep tells its own locks from all others, and how
they exclude each other is `UtxoInventory`'s subject.

Abstractions. Satoshis: an output is below `maxInputSats` (`Dust`) or not, the children of a dust
output are dust, a sweep's output is not. Whether a batch pays for itself is open, so the trigger,
the wallet's cooldown, the order of the batch and the number of batches per cycle are left out: they
decide when a batch is tried. The three cooldowns are one. Missing inputs may be reported of any
batch, because a parent that is not visible yet gives the same message.

### Before the queue: Collector, StationSweep, EmscSocket, ProviderFetch, WriteDryMode

`Collector` reduces each of the collectors in `data-collector.ts` to how it keeps from returning a
reading twice (its `Feed`: a mark of the newest time stamp, of a changed station, a drained buffer, or
none) and what it may read of a listing. `Collect` is `collectData`, with the mark and the collector's keys; `Offer`
is one turn of the loop of `run`, whose `dedupeStore.add` comes before anything else is known. A
reading is a time stamp; values, controls and datasets are an open choice. Marks of single stations are
one mark, a sweep over stations is `StationSweep`'s. Every collector has its record, taken from its code; the run
has four of them, one of each kind of mark, and the type theorem covers all.

`StationSweep` has the four ways in which a run goes on where the last one stopped: pages of the table
under a time budget, rounds of windows, one window a run, with the cursor in the database or in
memory. `pass.at = "cut"` marks a run that lost its place to a fault (a failing query, an exit), `"left"` one whose
budget ended within a short page: a normal branch of the code, which sends the cursor back to the start.

`EmscSocket` has the worker's two fields and every socket ever opened, whose handlers write to them.
`ProviderFetch` has two counters of a budget, the validators, and calls that wait, ask and parse.
`WriteDryMode` reads one wallet after the other while pools change.

### Beside the writer: WalletPick, SpendSource, BroadcastChannels, FundingAdmit, UtxoListing

Each of them is shared by concurrent calls that await between reading and writing the shared state:
the round-robin index and the two maps of masked wallets; the breaker's counters; the map of back-offs; the cache and
the fetch under way. Times are reduced to "has passed": a back-off is a set of channels, the fallback is
set, waning or over, a listing is fresh, two, fifteen minutes old or older. `FundingAdmit` has the sweep of one address over
several cycles, with outputs below and above the minimum and balances as sums. The chain's balance and the inventory's sum,
which a cycle requests side by side, are sums of one moment there.

### After the broadcast: CheckSchedule, Confirmations

`CheckSchedule` is the in-memory tracker: `tracked` is the map, `chase` the heap items and the running
checks with the generation they were made for. `Confirmations` leaves open when a check is due and has
everything that writes `tx_log.status` or the state of a row of `overlay_explorer_readings`: the writer's own upserts,
its checks and clean-up, the confirmation worker, the backfill and archive scripts, `promoteKnownConfirmed` and the
explorer sync. Each statement is one action, every failure is "executed or not". Retention, which deletes readings for
their age, confirmed ones too (`retention.ts:310-331`), is not among them: it writes no status.

### Retention and Recovery

`Retention` takes the advisory lock for what it is: held by a session, counted, released by a
statement that may run on another connection of the pool. `pooled`, chosen in the initial state, says whether the
processes share sessions, as through a pooler in transaction mode. The lock, the second reading of the marker and its
writing are statements of their own: any may fail, be executed without an answer and be tried again (`LockAnswerLost`,
`ClaimFails`), and the session that holds the lock may end between any two of them (`SessionEnds`). `passes` and
`lockLost` are history. `Recovery` has the writers as far as the two scripts meet what
they leave (a lost update, an orphan accepted, a lock), the consolidation with its transfer and its sweep of
phantoms, and the import with its two statements and its retries. The operator's procedure (stop the
writers, list, run one script at a time) is a guard.

## 3. Runs

| run | instance | shows | states |
|---|---|---|---|
| `queue_two_restart` | 2 processes, 1 exit, lost statements, unclear errors | `TypeOK`, `FirstHandExclusive`, `ParkedOnlyAfterAllRetries`, `LeavesTableOnlyWhenDone`, `QueueLedgerSpec` | 2.3 M |
| `queue_settles` | 1 process, fairness, funding outages | `SentOnce`, `ClaimedIsSettled` | 146 k |
| `queue_double_send` | 1 process, nothing fails | violates `NeverSentTwice` | |
| `queue_claim_fails` | claims fail | violates `FailedClaimReturnsBatch` | |
| `queue_skips` | statements delayed | violates `SkippedOnlyWhenClaimedOrGone` | |
| `inventory_faults` | 3 outputs, 2 processes, fairness, every fault, 1 exit | `TypeOK`, `Exclusive`, `NeverCountedTwice`, `LocksEnd` | 85 k |
| `inventory_reaped` | 3 outputs, locks reaped under their owner, overlapping submissions | `LedgerSpec` | 1.6 M |
| `inventory_honest` | 5 outputs, answered broadcasts, failing updates | `NeverOffersSpent`, `NothingStranded` | 283 k |
| `sweep_reaped` | 4 outputs, 2 sweeping processes and writers, every fault, locks reaped under their owner, exits | `TypeOK`, `CountedOnce`, `ForeignLocksKept`, `LedgerSpec` | 1.6 M |
| `pipeline` | one component at a time of the fourteen, see below | the properties below | 177 k |
| `collector_dry` | 1 feed, funding comes and goes | violates `SkippedIsRecollected` | |
| `retention_race` | 2 schedulers with 2 connections each | violates `OnePassAnInterval` | |

The run `pipeline` chooses a component in its initial state and runs it alone: their variables are
disjoint, so the product would show no more, and what one component sees of another (a queue that is full, funding that
ends, an answer that is lost) is an open choice in it.

| component | instance | shows |
|---|---|---|
| `Collector` | 2 readings, four feeds, one of each kind of mark | `ListedIsTaken`: of a feed that keeps no mark, a reading that stays listed is taken, over back-pressure, exits and pauses |
| `StationSweep` | 4 stations in pages of 2, one that cannot be asked | `EveryStationAsked`, wherever budgets end and stations come in; of the last, short page, unless budgets end within it again and again |
| `EmscSocket` | 2 sockets | `StreamComesBack`: no handler of an old socket leaves the worker without one |
| `ProviderFetch` | 2 callers, 2 attempts, a budget of 1 and 2 | `FetchEnds`, `NotModifiedWasParsed` |
| `WriteDryMode` | 2 wallets | `PausedOnEvidence`, `PauseEnds` |
| `FundingAdmit` | 3 outputs, pages of 1 | `FundingIsAdmitted` over failing cycles and moving pages |
| `WalletPick` | 2 writes, 2 wallets | `FundsAreFound` |
| `SpendSource` | 2 calls, threshold 3, shadow reads | `FallbackIsEarned`, `OverlayReturns` |
| `BroadcastChannels` | 2 calls, 3 channels | `PrimaryReturns` |
| `CheckSchedule` | 4 txids, one sent twice, room for 1, 2 checks | `NeverForgotten`, `TrackerBounded`, `TrackingEnds` |
| `Confirmations` | 1 transaction, accepted twice | `OnlyMinedIsConfirmed`, `ConfirmedReadingIsFinal` |
| `Retention` | 2 processes, 2 connections each, caps of 2 batches | `SecondPassNeedsLostLock`, `RetentionGoesOn` |
| `UtxoListing` | 2 callers | `ListingIsRecent` |
| `Recovery` | 2 outputs, 2 to come, batches of 2 | `RecoveryMends` |

Two of everything that interferes is what these hazards need: two calls that overlap, two wallets or
sockets or sessions of which one is the wrong one. `Confirmations` needs one transaction, as no
statement relates two except the choice of a batch; two acceptances give two sets of bookkeeping for one
txid. `MaxTracked = 1` below the number of txids makes the capacity bind, three attempts would only repeat the second. `FailureThreshold = 3`
is the least at which a double count can step over the threshold. Four stations in pages of two give a full page, a short
page and one behind the end. Deadlock is checked. `PipelineTypeOK` is the type invariant of the component
that runs.

Bounds of the queue. One reading suffices: no action of the code relates two readings except the
capacity of queues and batches, and the hazards are about several copies of one reading. Two slots
let a reading be in memory twice, in one process or two, which is what every interleaving of interest
needs; `MaxRetries = 1` gives a first attempt, a retry and the parking. One exit gives a reclaim
and a second life. `MaxSends`, as far as `sent` counts, is two where a property tells two transactions from one, and
one in `queue_two_restart`, where the properties ask only whether there was any. Batches and concurrency of two let two copies of a reading run side by side;
`queue_settles` has a concurrency of one because `SentOnce` needs it (`queue_double_send` is the same
instance with two).

Bounds of the inventory. Two tasks are needed for a conflict; a third would need a third lock owner
and no property speaks of three. A chain of parent, change and the change's change takes three
outputs, as do a split and the writes that spend its outputs; five let a split and writes with change follow each other. One exit orphans every lock of a
process. Deadlock is checked in the queue's runs. In the inventory's it is not: the supply of
outputs to come is finite and the model stops when it is used up and no submission is left.

Bounds of the sweep. Two recorded dust outputs make a batch of two, which is what a partial overlap of
two batches needs; one of the outputs to come is dust (a writer's) and one is not (a sweep's). Exits are
not bounded. It stops for the same reason as the inventory's runs, so deadlock is not checked.

Symmetry is used over slots, processes, outputs and tasks in the safety runs and never in the
runs with fairness.

What the violated properties say is quoted in `PROJECT.json` with the line that says it:

* `NeverSentTwice`: a reading that is accepted again while its first copy waits is claimed once for
  both copies (`owned` is a set of ids) and broadcast twice.
* `FailedClaimReturnsBatch`: when the claim throws, the items of the batch that had been claimed
  earlier are dropped, not returned.
* `SkippedOnlyWhenClaimedOrGone`: an item whose INSERT has not been executed yet is skipped as
  "already claimed or gone", and its row waits for the next start of a process.
* `SkippedIsRecollected`: a feed that keeps the newest time stamp advances it although its readings are
  skipped while writes are paused; they are not collected again, though the comment and the runbook say so.
* `OnePassAnInterval`: `retention.ts:547-549` says that "a cluster-wide advisory lock guards against two processes
  racing". The lock is taken and released on whatever connections the pool gives. Through a pooler in transaction mode,
  which `db.ts:20-29` selects for a Supabase pooler, the processes share sessions and such a lock is granted again to the
  session that holds it: both schedulers lock, both read the marker before one writes it. With sessions of their own
  the holder's session may be closed or dropped before its marker is written, and the other locks in between. What does hold is
  `SecondPassNeedsLostLock`: these are the only two ways, and no scheduler passes twice.

More disagreements were met and have no run of their own. Of the queue: rows that nobody holds stay
`processing` until the next start, and a start within two minutes does not reclaim them
(`queue-repository.ts:113-115`, `run-workers.ts:233-234`); a row that went back to `queued` for a retry
may be loaded by a second process while the first still holds it (`worker-queue.ts:298-299`); items on
retry timers are not counted by the capacity check, so the table outgrows it (`worker-queue.ts:169-170`).

Of collectors: `worker-threads.ts:166-169` says that skipped writes do not touch the dedupe store, but several
collectors add keys of their own to it in `collectData`.

Of broadcasting and confirmation:

* `blockchain.ts:2284-2285` says that confirmation polling will detect a stale announcement "and trigger a
  re-broadcast through TAAL on the next pass"; no code broadcasts again.
* `blockchain.ts:2428-2434` looks for `too-long-mempool-chain` in the joined errors of all channels first, so a
  channel that said "already known" is masked by another's limit.
* `overlay-explorer-repository.ts:527-529` removes "an unconfirmed reading whose TXID was never mined", but
  the caller gives up by attempts and age, and a transaction mined since loses its unconfirmed reading.
* `cleanUpFailedTx` writes `failed` over a `confirmed` that another writer set, and the backfill then skips
  the row (`backfill-explorer-confirmations.ts`), as it takes `failed` from `tx_log`.
* A transaction accepted while its wallet is on the legacy source is not submitted to the overlay, then or later.

Of retention: the runbook (`docs/operations-and-runbooks.md:161-163`) says that lock and marker keep the scheduler and
`/api/maintenance/retention` apart; the route takes neither.

Of the scripts:

* `recovery-import-onchain-utxos.ts:43-44` says "Archive + insert run in a single transaction per wallet";
  there is no `BEGIN`, each statement commits by itself. `RecoveryMends` holds because a rerun repairs. Only rows
  with `confirmed = false` are archived, so a confirmed row whose output was spent stays live.
* `consolidate-wallet-utxos.ts` says that a dry run never writes to the database, and it locks and releases a
  batch; that it uses `FOR UPDATE SKIP LOCKED`, which its `lockBatch` does not. One answer of missing inputs archives up to
  40 further batches without a broadcast; a transfer whose commit fails leaves its locks to the reaper.
* `utxo-provider.ts:388` shares the fetch under way and the cache between callers that want confirmed outputs
  only and those that do not.

## 4. Fairness

* `WorkerQueue!FairSpec`: weak fairness on the steps of a live process and of its items, which run on
  timers and promises that always fire; strong fairness on `TakeBatch`, because a funding outage may
  begin again before the next tick; weak fairness on `ResumeWrites`: an outage ends; and on the
  execution of sent statements. Nothing is assumed of the network: whether `writeToChain` succeeds,
  fails or says "already known" is one fair choice of three.
* `UtxoInventory!FairSpec`: a process goes on with its tasks unless it exits (the writer's fetches
  have a timeout), submissions are answered or given up (`postJsonWithRetry` is bounded), the
  overlay's transactions end, and the maintainer's interval calls the reaper, which assumes that its
  cycle returns: `cycle` calls the reaper after the splits, and a fetch without timeout could hold it.
* `MCPipeline!PipelineFairness`: `InTheEnd` is weak fairness on the steps that timers, timeouts and
  bounded retries bring about: a call's next step, the expiry of a back-off, a mask, a dedupe entry, a budget's
  window. `Often` is strong fairness on outcomes that the code tries again and again and that do not fail
  each time for good: the queue takes a reading now and then, an acquisition or a handshake succeeds, a page of a sweep and
  an admission succeed, a channel that answers does not turn every transaction down, a lock and a marker are written now
  and then, a call that waits for a budget does not always look at the wrong time, a run has time
  for one chunk of stations. Each is stated for the component it is about. That a session ends in the end is the pool's
  idle timeout or, with a pooler, the pooler's closing of its own idle connections, which is not this repository's code.
  Nothing is assumed of the
  outages themselves: that an overlay, a channel, an endpoint or a wallet stays well is the antecedent of the
  property.

## 5. Proofs

Every invariant and every action property that a run checks is a theorem too, for every value of the
constants. What a theorem assumes besides the modules' assumptions on their constants (finite sets,
natural bounds, Boolean flags) is named in its statement. No proof uses fairness.

### The queue

| theorem | says | by |
|---|---|---|
| `TypeCorrect` | `Spec => []TypeOK` | induction; the retry counts need `MayRetry` |
| `ParkedAfterRetries` | `Spec => []ParkedOnlyAfterAllRetries` | `RetriesWereTried`: a retry count in a row, an item or a statement under way never exceeds the attempts; without the statements the invariant is not inductive, for a late `requeue` writes an old count |
| `NothingLostFromTable` | `Spec => LeavesTableOnlyWhenDone` | `DoneWasSent`: whatever says that a reading is done (a linked txid, an item behind its broadcast, a `delete` under way) says so after the network took it |
| `QueueImplementsLedger` | `Spec => QueueLedgerSpec`: every step is one of `ReadingLedger`'s or a stutter | `DoneWasSent` for `Settle`, `RetriesWereTried` for `Park`, `StaleIsHeld` (what is old enough to be reclaimed is still `processing`) for the `HandBack` of a reclaim |
| `OneHolder` | `Spec => []FirstHandExclusive` | `FirstAttempt`: a claimed copy on its first attempt is over a row that says `processing`, so no claim can take the row again |
| `OneSendPerReading` | `OneWriter /\ Spec => []SentOnce` | `SingleFile`: `OneInFlight` (one item at most between `StartItem` and its end) and `SentIsLinked` (a linkable reading that was sent is linked, or about to be; one that passed the on-chain check was never sent) |

`OneWriter` is one process, a concurrency of one, no exit, no statement that fails silently and no
answer that leaves open whether the network took the transaction: the regime of `queue_settles`.
`queue_double_send` shows that the concurrency alone is enough to break `SentOnce`. An item
starts only where none is in flight (`StartsAlone`), which gives `OneInFlight`, and without it
`SentIsLinked` is not inductive: the check of one copy would come between broadcast and link of the other.

### The inventory

`TypeCorrect` has no assumption on faults. The four of `Books` below assume `Orderly == LocksOutlastWork /\
~SubmitsOverlap`: no lock grows 15 minutes old while its work goes on, and the overlay works on one
submission of an output at a time. All faults (lost answers, failing transactions and submissions, exits,
forgotten transactions) are allowed. The three of `Ahead` assume `Steady == ~UpdatesMayFail /\
~NetworkForgets` instead: the inventory's own transactions succeed, and what the network has seen it
keeps; locks may be reaped under their owners, submissions overlap, be lost or fail, processes exit and
answers get lost. The last two assume `Honest`: `Orderly`, broadcasts whose answer arrives, a network that forgets nothing, no exit, and that the inventory's update or the
submission to the overlay works, not necessarily both.

| theorem | says | by |
|---|---|---|
| `OneTaskPerOutput` | `Orderly /\ Spec => []Exclusive` | `Books` |
| `CountedOnce` | `Orderly /\ Spec => []NeverCountedTwice` | `Books` |
| `NoResurrection` | `Orderly /\ Spec => RemovedIsFinal` | `Books` |
| `ImplementsLedger` | `Orderly /\ Spec => LedgerSpec`: every step is one of `CoinLedger`'s or a stutter | `Books` |
| `CountedOnceIfSteady` | `Steady /\ Spec => []NeverCountedTwice` | `Ahead` |
| `SteadyImplementsLedger` | `Steady /\ Spec => LedgerSpec` | `Ahead` |
| `NoResurrectionIfSteady` | `Steady /\ Spec => RemovedIsFinal` | `Ahead` |
| `OffersUnspentOnly` | `Honest /\ Spec => []NeverOffersSpent` | `Books /\ Faithful` |
| `NoChangeStranded` | `Honest /\ Spec => []NothingStranded` | `Books /\ Faithful` |

`Books` is `TypeOK`; `Family` (tasks and submissions carry recorded inputs and the outputs made from
them, an output to come has no row); `NeverCountedTwice`; `Fresh` (what a read of the overlay saw
still holds when it is used); and `Alone` (the output of a task is locked, that of a submission is locked or
gone, neither lock is stale, nobody else works on it). `Alone` is why `Fresh` is preserved: nobody
else records outputs of that input between the read and the write.

`Faithful` ties the table to the network: `Truthful` (an accepted task and a submission have spent their
input, no other task has; what is spent is removed, or live and still to be retired by whoever spent it; what is
removed is spent), `SeenIsRecorded` (what a read of the overlay did not miss is recorded), `Entered` (as
long as the inventory's own update works, it comes before the submission) and `NothingStranded`. `Entered`
is why a submission may fail where updates do not, and `Truthful` why updates may fail where
submissions do not; where both may fail the invariant is lost, see section 6.

`Ahead` is `TypeOK`, `Family`, `NeverCountedTwice` and `InventoryFirst`: an output has one transaction
(`SpendsOnce`: an accepted task has spent its input, and its outputs are all that were made from it); the outputs
of a removed row's transaction are recorded; and as the inventory's own update comes before the
submission and succeeds, a submission finds its input removed and its outputs recorded, so a read of the
overlay misses nothing. It says nothing of locks: two tasks may well have the same output, but the network
takes one of their transactions.

`RemovedIsFinal` follows from `LedgerSpec`, where a retired output is never `Fresh` again, so no run states it
on its own. Where both regimes end: with failing updates *and* overlapping submissions `RemovedIsFinal` is false. An
update fails, two postings of the submission both see no row, the first records the output, it is spent
and removed, and the upsert of the second sets `removed = false` again. Reaped locks with failing updates are not
covered by a theorem either. `LocksOutlastWork` is justified for the writer, whose requests time out within
seconds; the splitter's broadcast and its look-up of a parent have no timeout
(`broadcast-raw-tx.ts:72,93,113`, `utxo-maintainer.ts:182-201`), so it rests on the network's.

### The sweep

The first four hold over reaped locks and every fault, with no assumption.

| theorem | says | by |
|---|---|---|
| `TypeCorrect` | `Spec => []TypeOK` | induction |
| `SweptOnce` | `Spec => []CountedOnce` | `Outputs`: an output to come was made from nothing and has no row, rows in a batch and late inputs are recorded, an accepted batch made its output. `Whole`, the count that `commitConsolidation` compares, is what makes the output's row a new one (`NewOutput`) |
| `SweepImplementsLedger` | `Spec => LedgerSpec` | the same invariant: a commit is `Replace(inputs, {output})`, an archived batch `Replace(rows, {})`, a locked batch `Take(rows)` |
| `LocksRespected` | `Spec => ForeignLocksKept` | the same invariant: a commit's output had no lock; every other unlocking asks for the owner |
| `BatchesStayApart` | `LocksOutlastWork /\ Spec => []BatchesApart` | `Held`: a row of a working batch is locked by its sweep, with a young lock, or removed; likewise a late input by the others; batches at work are disjoint |

That `CountedOnce` holds here with reaped locks and in `UtxoInventory` only without them is no
contradiction: the overlay's submission, which reads and upserts in two steps, is not part of this
module; `OthersRecord` does its work in one.

### The pipeline

Each of the fourteen components has its type theorem, for any number of callers, transactions,
wallets, stations, outputs and attempts, and these have a safety theorem besides:

| module | theorem | says | by |
|---|---|---|---|
| `AfterWriteProofs` | `NoEntryForgotten` | `[]NeverForgotten` | `NeverForgotten` is inductive over `ScheduleTypeInv`: every action leaves the item or check that follows an entry alone (`StaysFollowed`) or makes the one that follows it next (`ScheduledFollows`, `DroppedFollows`) |
| | `MapStaysBounded` | `[]TrackerBounded` | cardinalities: an entry is added below the capacity only, and replaced otherwise |
| | `ConfirmedMeansMined` | `[]OnlyMinedIsConfirmed` | `Evidence`: whatever is under way between a look-up and an update (a check, a txid of a cycle, the backfill's batch, a decoded reading) is about a transaction that is mined; `MinedStays` keeps it true |
| | `ConfirmedStaysConfirmed` | `ConfirmedReadingIsFinal` | types; each statement's condition |
| | `PassesAreMarked` | `[]SecondPassNeedsLostLock` | `PassedIsMarked`: who has passed has written the marker and begins nothing anew; and as long as sessions are not shared and no lock was lost, `LockBacksPass` (from its lock to its marker a scheduler holds the lock on a session of its own, and the marker it has read again is still due), `DueIsUnpassed` and `LocksAreCounted` |
| | `RecoveryHasMended` | `[]RecoveryMends` | `RescueIsAlone` (the writers are off, so what was listed is what the network has), `ConfirmedIsKnown`, `RescueAdvances` (what has been written is confirmed and free) |
| `BeforeQueueProofs` | `NoPauseWithoutEvidence` | `PausedOnEvidence` | `CountHasEvidence`: the one counter never exceeds what was read of any wallet; `ReadInOrder`, so that a cycle's end is about all wallets |
| | `NothingMissedAsUnmodified` | `[]NotModifiedWasParsed` | `ValidatorsWereParsed`: of the cache and of every request on its way |
| `BesideWriterProofs` | `NoUnearnedFallback` | `[]FallbackIsEarned` | `CountersFollow`: counters and failed posts stay within a factor of two, both ways |
| | `ListingsAreRecent` | `[]ListingIsRecent` | `WaitsForAFetch`: who waits, waits for a fetch under way, and for one that may fall back on old listings only by his own option or by sharing another's call |

`PassesAreMarked` has no hypothesis: shared sessions and lost locks are states of the model, and the theorem says that
without them there is no second pass. `OnlyMinedIsConfirmed` rests on a block staying a
block: the model has no reorganisation, and the code handles none.

Two of the type theorems say more than shapes. `SweepTypeCorrect` needs `PageIsPart`: what a page has
asked and has left is no more than its size, and the page lies within the list; that a window has no more
stations than its limit is counted by their places, which stay apart when the cursor turns the list
(`TurnKeepsApart`). `AdmitTypeCorrect` has the cursor of the paging within the list although the list
shrinks between two pages, from the same counting of places (`PageWithin`).

`PipelineProofs` composes them. Each step of the pipeline is a step of a component or leaves that
component's variables alone, so a behaviour of the pipeline is one of every component
(`PipelineIsEach`); `PipelineTypeCorrect`, `PipelineIsSafe` and `PipelineStepsAreSafe` follow. So nothing
that the run `pipeline` finds true of its states and steps is particular to its bounds.

### Only model-checked

The liveness properties (`ClaimedIsSettled`, `LocksEnd` and the eleven of `pipeline`): fairness and
`ENABLED` are out of the prover's reach.

## 6. Limits of what is promised

`NeverOffersSpent` and `NothingStranded` hold with answered broadcasts and submissions that arrive. They
are false in the code when the process exits between the broadcast's acceptance and its bookkeeping,
when the answer is lost, or when both ways of recording fail: the reaper then frees an output that is
spent, and the change is unknown to the inventory. The repository's answer is a recovery script
(`scripts/recovery-import-onchain-utxos.ts`): `RecoveryMends` says what it restores. An archived output
whose parent was only not visible yet is lost in the same way, and comes back in the same way.

The sweep promises less than its comments may suggest. One missing input makes `archivePhantomBatch`
remove the *whole* batch (`utxo-auto-consolidate.ts:473-480`), the spendable rows with it. And after a
failed commit the spent inputs are released with a cooldown of thirty minutes
(`utxo-auto-consolidate.ts:499-507`), after which a sweep or a writer takes them again and the network
refuses them. Neither counts a value twice, as `SweptOnce` shows; both leave the rest to the recovery
script.

`ListedIsTaken` is about feeds without a mark. A feed that keeps the newest time stamp loses for good what
the queue did not take when it was offered, as `collector_dry` shows for paused writes; back-pressure has the same
effect. `EveryStationAsked` does not promise the stations of a last, short page if the budget ends within it every time:
the cursor goes back to the start (`worker-threads.ts:606-608`, `1282-1285`), and what the budget never reaches is left
out for good, which a list shorter than a page makes likely. `FundingIsAdmitted` assumes that restarts leave time for
a sweep over all pages, while the code says that a restart every thirty minutes did not (`wallet-funding-admit.ts:248-253`)
and relies on the history then. A reading may be sent twice after an ambiguous answer or an early reclaim; nothing forbids it. `FallbackIsEarned` allows the double
count of a listing within a count, so a fallback may come after half as many failed posts as the threshold.

## 7. Not modelled

The mapping of providers' fields, validation and controls, observability, key handling, the web application,
migrations and one-off imports: they keep no shared state that the write path decides on, or are stateless.
Amounts and fees are left out but for the balances of `FundingAdmit` and the sizes of `WalletPick`: how
many outputs a split makes and which dust pays for itself is arithmetic without protocol. Of the reservations of `utxo-locks.ts`
nothing is left to model, as nothing in the code reserves an output any more. The AIS stream is a buffer that is
drained, without its socket. The explorer sync's paging, lookup queries and BEEF storage are left out; what
the sync writes is in `Confirmations`. Which rows a batch of retention deletes is left open. `PROJECT.json` lists every
component with its reason.

## 8. What is left

1. Joint models of neighbours that are open choices of each other now: `WriteDryMode` with
   `Collector` and `WorkerQueue`, `SpendSource` with the submissions of `UtxoInventory`.
2. Split and fee arithmetic as operators against a reference definition.
