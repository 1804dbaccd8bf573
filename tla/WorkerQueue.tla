---------------------------- MODULE WorkerQueue ----------------------------
(***************************************************************************)
(* The durable work queue of the chain writer: lib/worker-queue.ts (one    *)
(* in-memory queue per worker process) over lib/queue-repository.ts (the   *)
(* table worker_queue all processes share).                                *)
(*                                                                         *)
(* A reading is accepted by addToQueue, which pushes a QueueItem into      *)
(* memory and sends an INSERT nobody awaits.  A tick takes a batch, claims *)
(* its rows in the table, and runs the items through the on-chain check    *)
(* and writeToChain.  A failure puts the item on a retry timer and sends   *)
(* the row back to 'queued'.  A starting process reclaims rows that have   *)
(* been 'processing' for two minutes and claims the queued ones.           *)
(*                                                                         *)
(* Abstractions: a reading is its deterministic id (type:source_hash); the *)
(* choice of which waiting items enter a batch (priority, lane, arrival)   *)
(* is left open; the two-minute age of a row is a flag set by Age; the     *)
(* table is one SQL statement per step.                                    *)
(***************************************************************************)
EXTENDS Naturals, FiniteSets

CONSTANTS
  Workers,           \* worker processes (run-workers, or web processes that start the queue)
  Readings,          \* readings, named by generateItemId
  Linkable,          \* the readings of the four families that have a table with a txid column
  Slots,             \* bound: QueueItem objects alive at once, over all processes
  NoCopy,            \* an unused slot
  MaxRetries,        \* bsvConfig.transaction.maxRetries
  QueueLimit,        \* bsvConfig.queue.maxQueueSize (or the item's maxInFlight)
  BatchSize,         \* maxItemsPerBatch
  Concurrency,       \* BSV_QUEUE_CONCURRENCY
  ClaimLimit,        \* BSV_QUEUE_HYDRATE_MAX_ITEMS
  ReclaimIsTimely,   \* no row reaches two minutes while a live process holds it
  StatementsMayFail, \* a SQL statement may fail or lose its answer
  ErrorsAreDefinite, \* a writeToChain error means the network has no transaction
  FundingMayDry,     \* write-dry mode may pause the writes
  MaxCrashes,        \* bound: process exits in a behaviour
  MaxSends           \* bound: as far as the history counts a reading's transactions

ASSUME QueueAssumption ==
  /\ IsFiniteSet(Slots) /\ Linkable \subseteq Readings
  /\ MaxRetries \in Nat \ {0}
  /\ QueueLimit \in Nat /\ BatchSize \in Nat /\ Concurrency \in Nat
  /\ ClaimLimit \in Nat /\ MaxCrashes \in Nat /\ MaxSends \in Nat \ {0}
  /\ {ReclaimIsTimely, StatementsMayFail, ErrorsAreDefinite, FundingMayDry} \subseteq BOOLEAN

VARIABLES
  row,       \* worker_queue: status and retry_count of each id
  stale,     \* ids 'processing' with updated_at more than two minutes old
  sql,       \* statements sent without being awaited, not yet executed
  linked,    \* readings whose reading row carries a txid
  copy,      \* the QueueItem objects in the processes' memories
  hydrate,   \* where each process is in startProcessing's hydration
  deferred,  \* processes whose 60 s hydration timer is armed
  tick,      \* where each process is in processQueue
  dry,       \* processes whose writes are paused for funding
  crashes,   \* process exits so far
  sent,      \* history: transactions the network accepted for a reading, up to MaxSends
  attempts,  \* history: writeToChain calls for a reading, up to MaxRetries + 1
  returned   \* history: readings sent back to 'queued' by a retry or a reclaim

table   == <<row, stale>>
process == <<hydrate, deferred, tick, dry, crashes>>
history == <<sent, attempts, returned>>
vars    == <<row, stale, sql, linked, copy, hydrate, deferred, tick, dry, crashes,
             sent, attempts, returned>>

-----------------------------------------------------------------------------
Statuses   == {"absent", "queued", "processing", "failed"}
Places     == {"waiting", "batched", "running", "checked", "sent", "timer"}
Row        == [status : Statuses, retries : 0 .. MaxRetries]
NoRow      == [status |-> "absent", retries |-> 0]
Copy       == [w : Workers, id : Readings, at : Places, claimed : BOOLEAN,
               retries : 0 .. MaxRetries]
Statement  == [op : {"insert", "delete", "fail", "requeue"}, id : Readings,
               n : 0 .. MaxRetries]

ASSUME NoCopyAssumption == NoCopy \notin Copy

\* Every variable keeps its shape; in particular no row, item or statement carries a
\* retry count above the configured maximum, however often a reading is retried,
\* handed over by a restart and retried again.
TypeOK ==
  /\ row \in [Readings -> Row]
  /\ stale \subseteq Readings
  /\ sql \subseteq Statement
  /\ linked \subseteq Linkable
  /\ copy \in [Slots -> Copy \cup {NoCopy}]
  /\ hydrate \in [Workers -> {"down", "reclaim", "claim", "idle"}]
  /\ deferred \subseteq Workers
  /\ tick \in [Workers -> {"idle", "claiming", "running"}]
  /\ dry \subseteq Workers
  /\ crashes \in 0 .. MaxCrashes
  /\ sent \in [Readings -> 0 .. MaxSends]
  /\ attempts \in [Readings -> 0 .. MaxRetries + 1]
  /\ returned \subseteq Readings

-----------------------------------------------------------------------------
Up(w)       == hydrate[w] # "down"
Free        == {c \in Slots : copy[c] = NoCopy}
Held        == Slots \ Free
At(w, P)    == {c \in Held : copy[c].w = w /\ copy[c].at \in P}
Batch(w)    == At(w, {"batched", "running", "checked", "sent"})
\* The items addToQueue counts: the two queues and processingQueue.  Neither the
\* rest of the running batch nor the items on a retry timer are in any of them.
Counted(w)  == At(w, {"waiting", "running", "checked", "sent"})
Unclaimed(w) == {c \in At(w, {"batched"}) : ~copy[c].claimed}
AtMost(n, bound) == IF n <= bound THEN n ELSE bound
\* WHERE status = 'queued', of both claiming statements.
ClaimsProcessingToo(i) == row[i].status \in {"queued", "processing"}
ClaimsParkedToo(i) == row[i].status \in {"queued", "failed"}
Claimable(i)     == row[i].status = "queued"
Send(op, c, n)   == [op |-> op, id |-> copy[c].id, n |-> n]
Move(c, place)   == [copy EXCEPT ![c].at = place]
Drop(c)          == [copy EXCEPT ![c] = NoCopy]

Init ==
  /\ row = [i \in Readings |-> NoRow]
  /\ stale = {} /\ sql = {} /\ linked = {}
  /\ copy = [c \in Slots |-> NoCopy]
  /\ hydrate = [w \in Workers |-> "down"]
  /\ deferred = {} /\ dry = {} /\ crashes = 0
  /\ tick = [w \in Workers |-> "idle"]
  /\ sent = [i \in Readings |-> 0]
  /\ attempts = [i \in Readings |-> 0]
  /\ returned = {}

-----------------------------------------------------------------------------
(* Accepting a reading.                                                     *)

AddToQueue(w, i, c) ==
  /\ Up(w) /\ c \in Free
  /\ Cardinality(Counted(w)) < QueueLimit
  /\ copy' = [copy EXCEPT ![c] = [w |-> w, id |-> i, at |-> "waiting",
                                  claimed |-> FALSE, retries |-> 0]]
  /\ sql' = sql \cup {[op |-> "insert", id |-> i, n |-> 0]}
  /\ UNCHANGED <<table, linked, process, history>>

(* startProcessing and its hydration.                                       *)

StartProcessing(w) ==
  /\ hydrate[w] = "down"
  /\ hydrate' = [hydrate EXCEPT ![w] = "reclaim"]
  /\ UNCHANGED <<table, sql, linked, copy, deferred, tick, dry, crashes, history>>

Reclaim ==
  /\ row' = [i \in Readings |-> IF i \in stale THEN [row[i] EXCEPT !.status = "queued"]
                                               ELSE row[i]]
  /\ stale' = {}
  /\ returned' = returned \cup stale

HydrateReclaim(w) ==
  /\ hydrate[w] = "reclaim"
  /\ Reclaim
  /\ IF w \in dry
     THEN hydrate' = [hydrate EXCEPT ![w] = "idle"] /\ deferred' = deferred \cup {w}
     ELSE hydrate' = [hydrate EXCEPT ![w] = "claim"] /\ UNCHANGED deferred
  /\ UNCHANGED <<sql, linked, copy, tick, dry, crashes, sent, attempts>>

MarkProcessing(S) ==
  /\ row' = [i \in Readings |-> IF i \in S THEN [row[i] EXCEPT !.status = "processing"]
                                           ELSE row[i]]
  /\ stale' = stale \ S

\* LIMIT: all queued rows, or as many as it allows.
ToLimit(S) ==
  /\ Cardinality(S) <= ClaimLimit
  /\ (\A i \in Readings : Claimable(i) => i \in S) \/ Cardinality(S) = ClaimLimit

\* CLAIM_SQL: the queued rows of g's range become 'processing' and are pushed into memory.
HydrateClaim(w) ==
  /\ hydrate[w] = "claim"
  /\ \E D \in SUBSET Free : \E g \in [D -> {i \in Readings : Claimable(i)}] :
       LET S == {g[c] : c \in D} IN
       /\ \A c, d \in D : g[c] = g[d] => c = d
       /\ ToLimit(S) /\ MarkProcessing(S)
       /\ copy' = [c \in Slots |->
                     IF c \in D THEN [w |-> w, id |-> g[c], at |-> "waiting",
                                      claimed |-> TRUE, retries |-> row[g[c]].retries]
                                ELSE copy[c]]
  /\ hydrate' = [hydrate EXCEPT ![w] = "idle"]
  /\ deferred' = deferred \ {w}
  /\ UNCHANGED <<sql, linked, tick, dry, crashes, history>>

\* A statement fails, or is executed and its answer lost, after which claimed rows are in nobody's
\* memory. query() tries again; the first hydration that throws is not repeated, one run by the
\* timer is.
HydrateError(w) ==
  /\ StatementsMayFail
  /\ \/ hydrate[w] \in {"reclaim", "claim"} /\ UNCHANGED <<table, returned>>
     \/ hydrate[w] = "reclaim" /\ Reclaim
     \/ /\ hydrate[w] = "claim" /\ UNCHANGED returned
        /\ \E S \in SUBSET {i \in Readings : Claimable(i)} : ToLimit(S) /\ MarkProcessing(S)
  /\ UNCHANGED hydrate \/ hydrate' = [hydrate EXCEPT ![w] = "idle"]
  /\ UNCHANGED <<sql, linked, copy, deferred, tick, dry, crashes, sent, attempts>>

HydrateTimer(w) ==
  /\ hydrate[w] = "idle" /\ w \in deferred
  /\ hydrate' = [hydrate EXCEPT ![w] = "reclaim"]
  /\ UNCHANGED <<table, sql, linked, copy, deferred, tick, dry, crashes, history>>

-----------------------------------------------------------------------------
(* processQueue.                                                            *)

TakeBatch(w) ==
  /\ Up(w) /\ tick[w] = "idle" /\ w \notin dry
  /\ \E B \in SUBSET At(w, {"waiting"}) :
       /\ B # {} /\ Cardinality(B) <= BatchSize
       /\ B = At(w, {"waiting"}) \/ Cardinality(B) = BatchSize
       /\ copy' = [c \in Slots |-> IF c \in B THEN [copy[c] EXCEPT !.at = "batched"]
                                              ELSE copy[c]]
       /\ tick' = [tick EXCEPT ![w] = IF \E c \in B : ~copy[c].claimed THEN "claiming"
                                                                      ELSE "running"]
  /\ UNCHANGED <<table, sql, linked, hydrate, deferred, dry, crashes, history>>

\* markQueueItemsProcessing takes the rows still 'queued'.  An item whose row was
\* not taken is not runnable and is forgotten.
Owned(w) == {i \in Readings : Claimable(i) /\ \E c \in Unclaimed(w) : copy[c].id = i}

ClaimBatch(w) ==
  /\ tick[w] = "claiming"
  /\ MarkProcessing(Owned(w))
  /\ copy' = [c \in Slots |->
                IF c \notin Unclaimed(w) THEN copy[c]
                ELSE IF copy[c].id \in Owned(w) THEN [copy[c] EXCEPT !.claimed = TRUE]
                ELSE NoCopy]
  /\ tick' = [tick EXCEPT ![w] = "running"]
  /\ UNCHANGED <<sql, linked, hydrate, deferred, dry, crashes, history>>

\* The claim throws, before or after the table executed it: the unclaimed items go
\* back to their queue, the rest of the batch is referenced by nothing any more.
ClaimError(w) ==
  /\ StatementsMayFail
  /\ tick[w] = "claiming"
  /\ MarkProcessing(Owned(w)) \/ UNCHANGED table
  /\ copy' = [c \in Slots |->
                IF c \in Unclaimed(w) THEN [copy[c] EXCEPT !.at = "waiting"]
                ELSE IF c \in Batch(w) THEN NoCopy
                ELSE copy[c]]
  /\ tick' = [tick EXCEPT ![w] = "idle"]
  /\ UNCHANGED <<sql, linked, hydrate, deferred, dry, crashes, history>>

FinishBatch(w) ==
  /\ tick[w] = "running" /\ Batch(w) = {}
  /\ tick' = [tick EXCEPT ![w] = "idle"]
  /\ UNCHANGED <<table, sql, linked, copy, hydrate, deferred, dry, crashes, history>>

-----------------------------------------------------------------------------
(* processItem.                                                             *)

StartItem(c) ==
  /\ c \in Held /\ copy[c].at = "batched" /\ tick[copy[c].w] = "running"
  /\ Cardinality(At(copy[c].w, {"running", "checked", "sent"})) < Concurrency
  /\ copy' = Move(c, "running")
  /\ UNCHANGED <<table, sql, linked, process, history>>

\* hasAirQualityTxId and its siblings: the reading's row carries a txid.
SeesAttempt(i) == attempts[i] > 0
NeverOnChain(i) == FALSE
OnChain(i) == i \in linked

\* A reading whose row has a txid is completed without a broadcast.
CheckOnChain(c) ==
  /\ c \in Held /\ copy[c].at = "running"
  /\ IF OnChain(copy[c].id)
     THEN copy' = Drop(c) /\ sql' = sql \cup {Send("delete", c, 0)}
     ELSE copy' = Move(c, "checked") /\ UNCHANGED sql
  /\ UNCHANGED <<table, linked, process, history>>

\* An error of the check is swallowed and the item proceeds.
CheckError(c) ==
  /\ StatementsMayFail
  /\ c \in Held /\ copy[c].at = "running"
  /\ copy' = Move(c, "checked")
  /\ UNCHANGED <<table, sql, linked, process, history>>

CountSend(i)    == sent' = [sent EXCEPT ![i] = AtMost(@ + 1, MaxSends)]
CountAttempt(i) == attempts' = [attempts EXCEPT ![i] = AtMost(@ + 1, MaxRetries + 1)]

\* writeToChain returned a txid: the row's DELETE is sent before the txid is linked.
WriteAccepted(c) ==
  /\ c \in Held /\ copy[c].at = "checked"
  /\ CountSend(copy[c].id) /\ CountAttempt(copy[c].id)
  /\ copy' = Move(c, "sent")
  /\ sql' = sql \cup {Send("delete", c, 0)}
  /\ UNCHANGED <<table, linked, process, returned>>

LinkTxId(c) ==
  /\ c \in Held /\ copy[c].at = "sent"
  /\ linked' = linked \cup ({copy[c].id} \cap Linkable)
  /\ copy' = Drop(c)
  /\ UNCHANGED <<table, sql, process, history>>

LinkError(c) ==
  /\ StatementsMayFail
  /\ c \in Held /\ copy[c].at = "sent"
  /\ copy' = Drop(c)
  /\ UNCHANGED <<table, sql, linked, process, history>>

ParksOneEarly(c) == copy[c].retries + 1 < MaxRetries
RetriesOnceMore(c) == copy[c].retries <= MaxRetries
MayRetry(c) == copy[c].retries + 1 <= MaxRetries

\* writeToChain threw.  When its error is not definite (a broadcast that timed out
\* after the network took the transaction) the reading has been sent all the same.
HandleFailedItem(c) ==
  /\ c \in Held /\ copy[c].at = "checked"
  /\ CountAttempt(copy[c].id)
  /\ UNCHANGED sent \/ (~ErrorsAreDefinite /\ CountSend(copy[c].id))
  /\ LET n == copy[c].retries + 1 IN
     IF MayRetry(c)
     THEN /\ copy' = [copy EXCEPT ![c].at = "timer", ![c].retries = n]
          /\ sql' = sql \cup {Send("requeue", c, n)}
          /\ returned' = returned \cup {copy[c].id}
     ELSE /\ copy' = Drop(c)
          /\ sql' = sql \cup {Send("fail", c, 0)}
          /\ UNCHANGED returned
  /\ UNCHANGED <<table, linked, process>>

\* The network says it already has this transaction: completed, with no txid to link.
AlreadyKnown(c) ==
  /\ c \in Held /\ copy[c].at = "checked"
  /\ MayRetry(c)
  /\ CountAttempt(copy[c].id)
  /\ \/ sent[copy[c].id] > 0 /\ UNCHANGED sent
     \/ ~ErrorsAreDefinite /\ CountSend(copy[c].id)
  /\ copy' = Drop(c)
  /\ sql' = sql \cup {Send("delete", c, 0)}
  /\ UNCHANGED <<table, linked, process, returned>>

RetryUnclaimed(c) ==
  /\ c \in Held /\ copy[c].at = "timer"
  /\ copy' = [copy EXCEPT ![c].at = "waiting", ![c].claimed = FALSE]
  /\ UNCHANGED <<table, sql, linked, process, history>>

\* The retry timer puts the item back in front of its queue, still marked as claimed.
RetryTimer(c) ==
  /\ c \in Held /\ copy[c].at = "timer"
  /\ copy' = Move(c, "waiting")
  /\ UNCHANGED <<table, sql, linked, process, history>>

-----------------------------------------------------------------------------
(* The statements that are sent without being awaited.                      *)

After(s) ==
  CASE s.op = "insert"  -> IF row[s.id].status = "absent"
                           THEN [status |-> "queued", retries |-> 0] ELSE row[s.id]
    [] s.op = "delete"  -> NoRow
    [] s.op = "fail"    -> IF row[s.id].status = "absent"
                           THEN NoRow ELSE [row[s.id] EXCEPT !.status = "failed"]
    [] s.op = "requeue" -> IF row[s.id].status = "absent"
                           THEN NoRow ELSE [status |-> "queued", retries |-> s.n]

Execute(s) ==
  /\ s \in sql
  /\ row' = [row EXCEPT ![s.id] = After(s)]
  /\ stale' = IF s.op = "insert" THEN stale ELSE stale \ {s.id}
  /\ sql' = sql \ {s}
  /\ UNCHANGED <<linked, copy, process, history>>

\* Every one of them ends in .catch(() => {}); one an exiting process
\* had not sent yet is never executed.
Lose(s) ==
  /\ s \in sql
  /\ StatementsMayFail \/ crashes > 0
  /\ sql' = sql \ {s}
  /\ UNCHANGED <<table, linked, copy, process, history>>

-----------------------------------------------------------------------------
(* Time, funding and process exits.                                         *)

Age(i) ==
  /\ row[i].status = "processing" /\ i \notin stale
  /\ ReclaimIsTimely => ~\E c \in Held : copy[c].id = i /\ copy[c].claimed
  /\ stale' = stale \cup {i}
  /\ UNCHANGED <<row, sql, linked, copy, process, history>>

CleanupOldFailed(i) ==
  /\ row[i].status = "failed"
  /\ row' = [row EXCEPT ![i] = NoRow]
  /\ UNCHANGED <<stale, sql, linked, copy, process, history>>

PauseForFunding(w) ==
  /\ FundingMayDry /\ Up(w) /\ w \notin dry
  /\ dry' = dry \cup {w}
  /\ UNCHANGED <<table, sql, linked, copy, hydrate, deferred, tick, crashes, history>>

ResumeWrites(w) ==
  /\ w \in dry
  /\ dry' = dry \ {w}
  /\ UNCHANGED <<table, sql, linked, copy, hydrate, deferred, tick, crashes, history>>

\* A kill, an out-of-memory exit or gracefulShutdown, which does not drain.
Crash(w) ==
  /\ Up(w) /\ crashes < MaxCrashes
  /\ crashes' = crashes + 1
  /\ hydrate' = [hydrate EXCEPT ![w] = "down"]
  /\ tick' = [tick EXCEPT ![w] = "idle"]
  /\ deferred' = deferred \ {w} /\ dry' = dry \ {w}
  /\ copy' = [c \in Slots |-> IF c \in Held /\ copy[c].w = w THEN NoCopy ELSE copy[c]]
  /\ UNCHANGED <<table, sql, linked, history>>

-----------------------------------------------------------------------------
ProcessStep(w) ==
  \/ \E i \in Readings, c \in Slots : AddToQueue(w, i, c)
  \/ StartProcessing(w)
  \/ HydrateReclaim(w) \/ HydrateClaim(w) \/ HydrateError(w) \/ HydrateTimer(w)
  \/ TakeBatch(w) \/ ClaimBatch(w) \/ ClaimError(w) \/ FinishBatch(w)
  \/ PauseForFunding(w) \/ ResumeWrites(w) \/ Crash(w)

ItemStep(c) ==
  \/ StartItem(c) \/ CheckOnChain(c) \/ CheckError(c)
  \/ WriteAccepted(c) \/ LinkTxId(c) \/ LinkError(c)
  \/ HandleFailedItem(c) \/ AlreadyKnown(c) \/ RetryTimer(c)

TableStep ==
  \/ \E s \in sql : Execute(s) \/ Lose(s)
  \/ \E i \in Readings : Age(i) \/ CleanupOldFailed(i)

Next ==
  \/ \E w \in Workers : ProcessStep(w)
  \/ \E c \in Slots : ItemStep(c)
  \/ TableStep

Spec == Init /\ [][Next]_vars

\* The process and its item loop keep running, the database answers, and a funding
\* outage ends.  The network decides freely whether writeToChain succeeds; TakeBatch
\* needs strong fairness because an outage can begin again before the next tick.
BatchProgress(w) ==
  /\ WF_vars(StartProcessing(w)) /\ WF_vars(HydrateReclaim(w)) /\ WF_vars(HydrateClaim(w))
  /\ WF_vars(HydrateTimer(w)) /\ WF_vars(ResumeWrites(w)) /\ SF_vars(TakeBatch(w))
  /\ WF_vars(ClaimBatch(w)) /\ WF_vars(FinishBatch(w))
  /\ WF_vars(\E c \in At(w, {"batched"}) : StartItem(c))

ItemProgress(c) ==
  /\ WF_vars(CheckOnChain(c)) /\ WF_vars(LinkTxId(c)) /\ WF_vars(RetryTimer(c))
  /\ WF_vars(WriteAccepted(c) \/ HandleFailedItem(c) \/ AlreadyKnown(c))

StatementProgress(i) ==
  /\ WF_vars(\E s \in sql : s.id = i /\ Execute(s))
  /\ WF_vars(Age(i))

FairSpec ==
  /\ Spec
  /\ \A w \in Workers : BatchProgress(w)
  /\ \A c \in Slots : ItemProgress(c)
  /\ \A i \in Readings : StatementProgress(i)

-----------------------------------------------------------------------------
(* What the queue guarantees.                                               *)

\* A reading nobody has retried or reclaimed, and the network has not yet taken, is in
\* the hands of one process at most, however many processes accepted it, started or
\* died: the 'queued' predicate of markQueueItemsProcessing and of CLAIM_SQL is a claim.
FirstHandExclusive ==
  \A i \in Readings : i \notin returned /\ sent[i] = 0 =>
    \A c, d \in Held :
      /\ copy[c].id = i /\ copy[c].claimed
      /\ copy[d].id = i /\ copy[d].claimed
      => copy[c].w = copy[d].w

\* A row leaves worker_queue only if the network has a transaction for its reading, or
\* the row was parked as failed and aged out: no interleaving of late INSERTs, retries,
\* claims, lost statements and process exits deletes work that was never done.
LeavesTableOnlyWhenDone ==
  [][\A i \in Readings :
       row[i].status # "absent" /\ row'[i].status = "absent"
       => sent[i] > 0 \/ row[i].status = "failed"]_vars

\* A reading is parked as failed only after maxRetries + 1 broadcasts of it failed, also
\* when its attempts were spread over several processes by restarts and reclaims.
ParkedOnlyAfterAllRetries ==
  \A i \in Readings : row[i].status = "failed" => attempts[i] > MaxRetries

\* With one writing process that sends one item at a time, no statement failing and
\* every write error definite, no reading with a txid column is broadcast twice.
SentOnce == \A i \in Linkable : sent[i] <= 1

\* While its process lives, the database answers and funding returns, an item whose row
\* was claimed ends with its reading on the network or with its retries used up: the
\* tick, the batch's workers, the retry timer and the funding pause cannot strand it.
ClaimedIsSettled ==
  \A i \in Readings :
    (\E c \in Held : copy[c].id = i /\ copy[c].claimed)
      ~> (sent[i] > 0 \/ attempts[i] > MaxRetries)

\* The queue implements the ledger of readings (ReadingLedger): a row is claimed when it is
\* queued, deleted when the network has its reading or after it was parked, and parked when
\* its retries are used up, in whatever order statements, restarts and reclaims come.
Place == [absent |-> "unfiled", queued |-> "waiting", processing |-> "held", failed |-> "parked"]
Entry == [i \in Readings |-> Place[row[i].status]]
Delivered == {i \in Readings : sent[i] > 0}
Ledger == INSTANCE ReadingLedger WITH entry <- Entry, tries <- attempts, delivered <- Delivered
QueueLedgerSpec == Ledger!Spec

-----------------------------------------------------------------------------
(* Why the safety properties hold: what else is true in every state.        *)

\* A retry count, wherever it is kept, never exceeds the broadcasts that were tried.
RetriesWereTried ==
  /\ \A i \in Readings :
       row[i].retries <= attempts[i] /\ (row[i].status = "failed" => attempts[i] > MaxRetries)
  /\ \A c \in Held : copy[c].retries <= attempts[copy[c].id]
  /\ \A s \in sql : s.n <= attempts[s.id] /\ (s.op = "fail" => attempts[s.id] > MaxRetries)

\* Whatever says that a reading is done says so after the network took it.
DoneWasSent ==
  /\ \A i \in linked : sent[i] > 0
  /\ \A c \in Held : copy[c].at = "sent" => sent[copy[c].id] > 0
  /\ \A s \in sql : s.op = "delete" => sent[s.id] > 0

\* A reading in its first attempt: its row has no history, only INSERTs of it are under
\* way, and whoever holds its claim holds it over a row that says 'processing'.
FirstAttempt ==
  \A i \in Readings : i \notin returned /\ sent[i] = 0 =>
    /\ row[i].status # "failed" /\ row[i].retries = 0
    /\ \A s \in sql : s.id = i => s.op = "insert"
    /\ \A c \in Held : copy[c].id = i =>
         copy[c].retries = 0 /\ (copy[c].claimed => row[i].status = "processing")

\* What the reclaim takes back is held: a row that left 'processing' is young again.
StaleIsHeld == \A i \in stale : row[i].status = "processing"

\* A process that sends one item at a time has one at most between StartItem and its end.
OneInFlight ==
  \A c, d \in Held :
    /\ copy[c].at \in {"running", "checked", "sent"}
    /\ copy[d].at \in {"running", "checked", "sent"}
    /\ copy[c].w = copy[d].w
    => c = d

\* A linkable reading the network took has its txid, or the item that is about to link it;
\* so one that passed the on-chain check, with nothing else in flight, was never sent.
SentIsLinked ==
  /\ \A i \in Linkable :
       sent[i] > 0 => i \in linked \/ \E c \in Held : copy[c].at = "sent" /\ copy[c].id = i
  /\ \A c \in Held : copy[c].at = "checked" /\ copy[c].id \in Linkable => sent[copy[c].id] = 0

-----------------------------------------------------------------------------
(* What comments of the code say and the code does not do.                  *)

\* queue-repository.ts: "so a reading cannot be sent twice on the addToQueue path", however
\* many items of a batch are worked on at once.
NeverSentTwice == SentOnce

\* worker-queue.ts: "Fail closed: put them back", "returning the batch to the queue".
FailedClaimReturnsBatch ==
  [][\A w \in Workers :
       tick[w] = "claiming" /\ tick'[w] = "idle" /\ hydrate'[w] # "down"
       => \A c \in Batch(w) : copy'[c] # NoCopy]_vars

\* worker-queue.ts: an item is skipped because of "a row another worker already claimed,
\* or one that has already left the queue".
SkippedOnlyWhenClaimedOrGone ==
  [][\A w \in Workers, c \in Slots :
       tick[w] = "claiming" /\ tick'[w] = "running" /\ c \in Unclaimed(w)
         /\ copy'[c] = NoCopy
       => row[copy[c].id].status # "absent"
          \/ sent[copy[c].id] > 0 \/ attempts[copy[c].id] > MaxRetries]_vars

=============================================================================
