--------------------------- MODULE Confirmations ---------------------------
(* From acceptance to confirmation: the writer's bookkeeping and its checks (blockchain.ts), the  *)
(* confirmation worker, the backfill and archive scripts and the explorer sync, which all write   *)
(* tx_log and overlay_explorer_readings with nothing but SQL predicates between them. When a      *)
(* check is due, superseded or given up is CheckSchedule's subject and left open here.            *)
EXTENDS Naturals, FiniteSets

CONSTANTS
  Times,        \* acceptances of one transaction, numbered: the network may take it a second time
  Txs,          \* transactions
  CycleBatch    \* BATCH_SIZE of the confirmation worker

ASSUME ConfirmationAssumption == IsFiniteSet(Txs) /\ CycleBatch \in Nat \ {0}

VARIABLES
  network,    \* what has become of a transaction
  txLog,      \* tx_log.status
  explorer,   \* the row of overlay_explorer_readings
  workersUp,  \* the worker process runs
  bookkeeping,\* where the bookkeeping and the check of an acceptance are
  adding,     \* acceptances whose addReading has been sent and not awaited
  todo,       \* candidates left in the confirmation worker's cycle
  applying,   \* where applyConfirmation is for a txid of the cycle
  backfill,   \* the backfill's mined rows, and which update is next
  synced      \* readings the explorer sync has decoded and not yet added

stores   == <<txLog, explorer>>
cycle    == <<todo, applying>>
scripts  == <<backfill, synced>>
confirmationVars == <<network, stores, workersUp, bookkeeping, adding, cycle, scripts>>

Acceptances == Txs \X Times

ConfirmationTypeOK ==
  /\ network  \in [Txs -> {"unsent", "mempool", "mined", "dropped"}]
  /\ txLog    \in [Txs -> {"none", "pending", "confirmed", "failed"}]
  /\ explorer \in [Txs -> {"none", "unconfirmed", "confirmed"}]
  /\ workersUp \in BOOLEAN
  /\ bookkeeping \in [Acceptances -> {"new", "logging", "tracked", "confirming", "failing", "removing", "over"}]
  /\ adding \subseteq Acceptances
  /\ todo \subseteq Txs
  /\ applying \in [Txs -> {"no", "reading", "log"}]
  /\ backfill \in [at : {"idle", "reading", "log"}, mined : SUBSET Txs]
  /\ synced \in [Txs -> {"no", "unconfirmed", "confirmed"}]

----------------------------------------------------------------------------
SeenIsMined(t) == network[t] \in {"mempool", "mined"}
Mined(t)     == network[t] = "mined"
Unconfirmed  == {t \in Txs : explorer[t] = "unconfirmed"}

\* upsertTxLog writes its status over whatever is there; the workers' UPDATEs need a row.
Upserted(t, status)   == [txLog EXCEPT ![t] = status]
LogConfirmed(S)       == [t \in Txs |-> IF t \in S /\ txLog[t] # "none" THEN "confirmed" ELSE txLog[t]]
\* INSERT ... ON CONFLICT DO NOTHING
Added(t, state)       == IF explorer[t] = "none" THEN state ELSE explorer[t]
\* UPDATE ... SET confirmed = true WHERE NOT confirmed
ReadingConfirmed(S)   == [t \in Txs |-> IF t \in S /\ explorer[t] # "none" THEN "confirmed" ELSE explorer[t]]
\* DELETE ... WHERE confirmed = false
RemovedAnyway(t)      == "none"
Removed(t)            == IF explorer[t] = "unconfirmed" THEN "none" ELSE explorer[t]

ConfirmationInit ==
  /\ network = [t \in Txs |-> "unsent"]
  /\ txLog = [t \in Txs |-> "none"] /\ explorer = [t \in Txs |-> "none"]
  /\ workersUp = TRUE
  /\ bookkeeping = [a \in Acceptances |-> "new"] /\ adding = {}
  /\ todo = {} /\ applying = [t \in Txs |-> "no"]
  /\ backfill = [at |-> "idle", mined |-> {}] /\ synced = [t \in Txs |-> "no"]

----------------------------------------------------------------------------
(* The writer, after an acceptance.                                         *)

Goes(a, from, to) == bookkeeping[a] = from /\ bookkeeping' = [bookkeeping EXCEPT ![a] = to]

\* addReading is sent and not awaited, the upsert of 'pending' is awaited.
Accepted(a) ==
  /\ workersUp /\ Goes(a, "new", "logging")
  /\ \A i \in Times : i < a[2] => bookkeeping[<<a[1], i>>] # "new"
  /\ network[a[1]] # "dropped"
  /\ network' = [network EXCEPT ![a[1]] = IF @ = "unsent" THEN "mempool" ELSE @]
  /\ adding' = adding \cup {a}
  /\ UNCHANGED <<stores, workersUp, cycle, scripts>>

\* The row is inserted, or the error is swallowed.
AddReading(a) ==
  /\ a \in adding /\ adding' = adding \ {a}
  /\ explorer' \in {[explorer EXCEPT ![a[1]] = Added(a[1], "unconfirmed")], explorer}
  /\ UNCHANGED <<network, txLog, workersUp, bookkeeping, cycle, scripts>>

\* The upsert of 'pending' succeeds or is swallowed; then the txid is tracked, or skipped.
LogPending(a) ==
  /\ \E to \in {"tracked", "over"} : Goes(a, "logging", to)
  /\ txLog' \in {Upserted(a[1], "pending"), txLog}
  /\ UNCHANGED <<network, explorer, workersUp, adding, cycle, scripts>>

\* A check is answered with confirmations. Any other answer leaves everything here as it is.
CheckFindsMined(a) ==
  /\ Mined(a[1]) /\ Goes(a, "tracked", "confirming")
  /\ UNCHANGED <<network, stores, workersUp, adding, cycle, scripts>>

\* The upsert of 'confirmed', which may throw, executed or not: then the check is repeated.
CheckConfirms(a) ==
  /\ \/ Goes(a, "confirming", "over") /\ txLog' = Upserted(a[1], "confirmed")
     \/ Goes(a, "confirming", "tracked") /\ txLog' \in {Upserted(a[1], "confirmed"), txLog}
  /\ UNCHANGED <<network, explorer, workersUp, adding, cycle, scripts>>

\* The item is superseded, or its checks are used up or too old, whatever the network would say now.
CheckGivesUp(a) ==
  /\ \E to \in {"failing", "over"} : Goes(a, "tracked", to)
  /\ UNCHANGED <<network, stores, workersUp, adding, cycle, scripts>>

\* cleanUpFailedTx: 'failed' over any status, then the unconfirmed reading; errors are swallowed.
CleanUpLog(a) ==
  /\ Goes(a, "failing", "removing")
  /\ txLog' \in {Upserted(a[1], "failed"), txLog}
  /\ UNCHANGED <<network, explorer, workersUp, adding, cycle, scripts>>
CleanUpReading(a) ==
  /\ Goes(a, "removing", "over")
  /\ explorer' \in {[explorer EXCEPT ![a[1]] = Removed(a[1])], explorer}
  /\ UNCHANGED <<network, txLog, workersUp, adding, cycle, scripts>>

----------------------------------------------------------------------------
(* The confirmation worker.                                                 *)

\* runCycle takes its candidates from the unconfirmed rows of the windows.
CycleStarts ==
  /\ workersUp /\ todo = {} /\ \A t \in Txs : applying[t] = "no"
  /\ \E S \in SUBSET Unconfirmed : S # {} /\ Cardinality(S) <= CycleBatch /\ todo' = S
  /\ UNCHANGED <<network, stores, workersUp, bookkeeping, adding, applying, scripts>>

\* lookupTxStatus: mined; 404, an error or not mined; or 429 and 503, which end the cycle.
CycleLooksUp(t) ==
  /\ t \in todo /\ \A u \in Txs : applying[u] = "no"
  /\ \/ /\ Mined(t)
        /\ applying' = [applying EXCEPT ![t] = "reading"]
        /\ todo' = todo \ {t}
     \/ todo' \in {todo \ {t}, {}} /\ UNCHANGED applying
  /\ UNCHANGED <<network, stores, workersUp, bookkeeping, adding, scripts>>

\* confirmReading and the update of the outputs; an error ends this txid, the rest is not done.
CycleConfirmsReading(t) ==
  /\ applying[t] = "reading"
  /\ \/ explorer' = ReadingConfirmed({t}) /\ applying' = [applying EXCEPT ![t] = "log"]
     \/ explorer' \in {ReadingConfirmed({t}), explorer} /\ applying' = [applying EXCEPT ![t] = "no"]
  /\ UNCHANGED <<network, txLog, workersUp, bookkeeping, adding, todo, scripts>>

CycleConfirmsLog(t) ==
  /\ applying[t] = "log"
  /\ txLog' \in {LogConfirmed({t}), txLog}
  /\ applying' = [applying EXCEPT ![t] = "no"]
  /\ UNCHANGED <<network, explorer, workersUp, bookkeeping, adding, todo, scripts>>

----------------------------------------------------------------------------
(* The operator's scripts and the explorer sync, each a process of its own. *)

\* fetchBatch skips what tx_log calls failed; lookupMany keeps what is mined.
BackfillLooksUp ==
  /\ backfill.at = "idle"
  /\ \E S \in SUBSET {t \in Unconfirmed : txLog[t] # "failed" /\ Mined(t)} :
       S # {} /\ backfill' = [at |-> "reading", mined |-> S]
  /\ UNCHANGED <<network, stores, workersUp, bookkeeping, adding, cycle, synced>>

\* One UPDATE for the batch, or, when it fails, rows one by one and no tx_log.
BackfillConfirmsReadings ==
  /\ backfill.at = "reading"
  /\ \/ /\ explorer' = ReadingConfirmed(backfill.mined)
        /\ backfill' = [backfill EXCEPT !.at = "log"]
     \/ /\ \E S \in SUBSET backfill.mined : explorer' = ReadingConfirmed(S)
        /\ backfill' = [at |-> "idle", mined |-> {}]
  /\ UNCHANGED <<network, txLog, workersUp, bookkeeping, adding, cycle, synced>>

BackfillConfirmsLog ==
  /\ backfill.at = "log"
  /\ txLog' \in {LogConfirmed(backfill.mined), txLog}
  /\ backfill' = [at |-> "idle", mined |-> {}]
  /\ UNCHANGED <<network, explorer, workersUp, bookkeeping, adding, cycle, synced>>

\* promoteKnownConfirmed: one statement over rows that tx_log calls confirmed.
PromoteKnownConfirmed ==
  /\ \E S \in SUBSET {t \in Unconfirmed : txLog[t] = "confirmed"} :
       S # {} /\ explorer' = ReadingConfirmed(S)
  /\ UNCHANGED <<network, txLog, workersUp, bookkeeping, adding, cycle, scripts>>

\* archive-stuck-tx-log runs only while the workers are stopped.
ArchiveStuck ==
  /\ ~workersUp
  /\ \E S \in SUBSET {t \in Txs : txLog[t] = "pending"} :
       S # {} /\ txLog' = [t \in Txs |-> IF t \in S THEN "failed" ELSE txLog[t]]
  /\ UNCHANGED <<network, explorer, workersUp, bookkeeping, adding, cycle, scripts>>

\* ExplorerSyncWorker decodes a transaction of an address' history: confirmed if its details give a
\* height ...
SyncDecodes(t) ==
  /\ network[t] \in {"mempool", "mined"} /\ synced[t] = "no"
  /\ \E state \in {"unconfirmed", "confirmed"} :
       /\ state = "confirmed" => Mined(t)
       /\ synced' = [synced EXCEPT ![t] = state]
  /\ UNCHANGED <<network, stores, workersUp, bookkeeping, adding, cycle, backfill>>

\* ... and adds its batch later; what is there stays as it is, an error drops the batch.
SyncAddsBatch ==
  /\ \E t \in Txs : synced[t] # "no"
  /\ synced' = [t \in Txs |-> "no"]
  /\ explorer' \in {explorer, [t \in Txs |-> IF synced[t] = "no" THEN explorer[t] ELSE Added(t, synced[t])]}
  /\ UNCHANGED <<network, txLog, workersUp, bookkeeping, adding, cycle, backfill>>

----------------------------------------------------------------------------
(* The environment.                                                         *)

NetworkMoves(t) ==
  /\ network[t] = "mempool"
  /\ \E s \in {"mined", "dropped"} : network' = [network EXCEPT ![t] = s]
  /\ UNCHANGED <<stores, workersUp, bookkeeping, adding, cycle, scripts>>

\* The worker process exits: checks and candidates are in memory only.
WorkersExit ==
  /\ workersUp /\ workersUp' = FALSE
  /\ bookkeeping' = [a \in Acceptances |-> IF bookkeeping[a] = "new" THEN "new" ELSE "over"]
  /\ adding' = {}
  /\ todo' = {} /\ applying' = [t \in Txs |-> "no"]
  /\ UNCHANGED <<network, stores, scripts>>

WorkersStart ==
  /\ ~workersUp /\ workersUp' = TRUE
  /\ UNCHANGED <<network, stores, bookkeeping, adding, cycle, scripts>>

WriterStep(a) ==
  \/ Accepted(a) \/ AddReading(a) \/ LogPending(a)
  \/ CheckFindsMined(a) \/ CheckConfirms(a) \/ CheckGivesUp(a) \/ CleanUpLog(a) \/ CleanUpReading(a)

CycleStep ==
  \/ CycleStarts
  \/ \E t \in Txs : CycleLooksUp(t) \/ CycleConfirmsReading(t) \/ CycleConfirmsLog(t)

ScriptStep ==
  \/ BackfillLooksUp \/ BackfillConfirmsReadings \/ BackfillConfirmsLog
  \/ PromoteKnownConfirmed \/ ArchiveStuck \/ SyncAddsBatch
  \/ \E t \in Txs : SyncDecodes(t)

ConfirmationNext ==
  \/ \E a \in Acceptances : WriterStep(a)
  \/ CycleStep \/ ScriptStep
  \/ \E t \in Txs : NetworkMoves(t)
  \/ WorkersExit \/ WorkersStart

ConfirmationSpec == ConfirmationInit /\ [][ConfirmationNext]_confirmationVars

----------------------------------------------------------------------------
\* No store calls a transaction confirmed that is not in a block, whichever of the writers of the
\* status came last, one store copied from the other, and however old the answer it acts on.
OnlyMinedIsConfirmed ==
  \A t \in Txs : txLog[t] = "confirmed" \/ explorer[t] = "confirmed" => Mined(t)

\* No writer of a status removes a confirmed reading or shows it as unconfirmed again, though a
\* given-up check cleans up, and late inserts and the sync write the same row. (Retention deletes old
\* readings, confirmed ones too, for their age: retention.ts:310-331, not part of this module.)
ConfirmedReadingIsFinal ==
  [][\A t \in Txs : explorer[t] = "confirmed" => explorer'[t] = "confirmed"]_confirmationVars

=============================================================================
