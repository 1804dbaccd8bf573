--------------------------- MODULE UtxoInventory ---------------------------
(***************************************************************************)
(* The inventory of spendable outputs, overlay_admitted_utxos, and those   *)
(* who use it: writeToChain (lib/blockchain.ts), the splitter and the      *)
(* stale-lock reaper (lib/utxo-maintainer.ts) and the overlay's submission *)
(* handler (lib/overlay-service.ts).  Each function of                     *)
(* lib/utxo-inventory.ts is one transaction of the database and one step.  *)
(*                                                                         *)
(* A task is one writeToChain or one split between its acquisition and the *)
(* end of its bookkeeping.  The network is a set of outputs with their     *)
(* true state.  An output is a model value: satoshis are left out, so      *)
(* which output is large enough is an open choice, and so are wallet and   *)
(* topic.                                                                  *)
(***************************************************************************)
EXTENDS Naturals, FiniteSets

CONSTANTS
  Coins,             \* outputs, those of the transactions still to come included
  Funded,            \* the outputs that exist and are recorded at the start
  Processes,         \* processes; the lock owner id is one per process
  Tasks,             \* bound: writes and splits in progress at once
  None,              \* no task, no lock, no parent
  LocksOutlastWork,  \* no lock grows older than 15 minutes while its work goes on
  AnswersMayBeLost,  \* an accepted broadcast may be reported as an error
  UpdatesMayFail,    \* a transaction of the inventory may throw
  SubmitsMayFail,    \* a submission to the overlay may fail for good
  SubmitsOverlap,    \* the overlay may be at work on two submissions of one output at once
  NetworkForgets,    \* an accepted transaction may drop out of the mempool
  MaxCrashes         \* bound: process exits in a behaviour

ASSUME InventoryAssumption ==
  /\ Funded \subseteq Coins /\ MaxCrashes \in Nat
  /\ {LocksOutlastWork, AnswersMayBeLost, UpdatesMayFail, SubmitsMayFail,
      SubmitsOverlap, NetworkForgets} \subseteq BOOLEAN

VARIABLES
  chain,    \* the network: state of each output
  parent,   \* the network: the output whose spending made this one
  row,      \* overlay_admitted_utxos: presence and removed
  lock,     \* locked, locked_by and whether locked_at is more than 15 minutes ago
  reserve,  \* rows with utxo_role 'reserve'
  cool,     \* rows with acquirable_at in the future
  task,     \* the tasks in progress
  submits,  \* submissions to the overlay whose sender waits for the answer
  reads,    \* transactions of the overlay that have looked for the rows of a submission
  crashes   \* process exits so far

net   == <<chain, parent>>
table == <<row, lock, reserve, cool>>
posts == <<submits, reads>>
vars  == <<chain, parent, row, lock, reserve, cool, task, submits, reads, crashes>>

Kinds == {"write", "split"}
Lock  == [by : Processes, old : BOOLEAN]
Task  == [p : Processes, kind : Kinds, at : {"holding", "failed", "accepted"},
          coin : Coins, outs : SUBSET Coins]
Submission == [coin : Coins, outs : SUBSET Coins]
Read  == [sub : Submission, nth : 1 .. 2, missing : SUBSET Coins]

ASSUME NoneAssumption == None \notin Task \cup Lock \cup Coins

\* The tables, the network and the tasks keep their shape; only live rows are locked.
TypeOK ==
  /\ chain \in [Coins -> {"unborn", "unspent", "spent", "forgotten"}]
  /\ parent \in [Coins -> Coins \cup {None}]
  /\ row \in [Coins -> {"absent", "live", "removed"}]
  /\ lock \in [Coins -> Lock \cup {None}]
  /\ \A c \in Coins : lock[c] # None => row[c] = "live"
  /\ reserve \subseteq Coins /\ cool \subseteq Coins
  /\ task \in [Tasks -> Task \cup {None}]
  /\ submits \subseteq Submission /\ reads \subseteq Read
  /\ crashes \in 0 .. MaxCrashes

-----------------------------------------------------------------------------
Busy        == {t \in Tasks : task[t] # None}
At(s)       == {t \in Busy : task[t].at = s}
Pending     == submits \cup {r.sub : r \in reads}
Unborn      == {c \in Coins : chain[c] = "unborn"}
End(t)      == task' = [task EXCEPT ![t] = None]
Goes(t, s)  == task' = [task EXCEPT ![t].at = s]

\* Outputs of the transaction that spends c, as long as the network knows it.
Made(c) == {o \in Coins : parent[o] = c /\ chain[o] # "forgotten"}

\* A write has its change or no output at all, a split has several.
Shape(kind, O) == IF kind = "write" THEN Cardinality(O) <= 1 ELSE Cardinality(O) = 2

\* locked = false, locked_by = NULL, locked_at = NULL; with removed = true or alone.
KeepsLock(S) == lock
Unlocked(S) == [c \in Coins |-> IF c \in S THEN None ELSE lock[c]]

\* WHERE removed = false AND locked = false AND acquirable_at <= now() and the role; the
\* splitter may take a pool row.
Allowed(c, kind) == row[c] = "live" /\ c \notin cool /\ (kind = "write" => c \notin reserve)
AcquirableLocked(c, kind) == Allowed(c, kind)
Acquirable(c, kind) == Allowed(c, kind) /\ lock[c] = None

Init ==
  /\ chain = [c \in Coins |-> IF c \in Funded THEN "unspent" ELSE "unborn"]
  /\ parent = [c \in Coins |-> None]
  /\ row = [c \in Coins |-> IF c \in Funded THEN "live" ELSE "absent"]
  /\ lock = [c \in Coins |-> None]
  /\ reserve \in SUBSET Funded
  /\ cool = {} /\ submits = {} /\ reads = {} /\ crashes = 0
  /\ task = [t \in Tasks |-> None]

-----------------------------------------------------------------------------
(* writeToChain and doSplit, from the acquisition to the broadcast's answer. *)

\* The UPDATE of acquireInventoryUtxo; acquireSplittableInput makes the row a reserve.
LockRow(p, kind, c) ==
  /\ Acquirable(c, kind)
  /\ lock' = [lock EXCEPT ![c] = [by |-> p, old |-> FALSE]]
  /\ reserve' = IF kind = "split" THEN reserve \cup {c} ELSE reserve
  /\ UNCHANGED <<net, row, cool, posts, crashes>>

Acquire(t, p, kind, c) ==
  /\ t \in Tasks \ Busy
  /\ LockRow(p, kind, c)
  /\ task' = [task EXCEPT ![t] = [p |-> p, kind |-> kind, at |-> "holding",
                                  coin |-> c, outs |-> {}]]

\* The row is locked but its new owner never learns which: the commit's answer is lost, or
\* writeToChain throws before it builds the transaction.
AcquireLost(p, kind, c) ==
  /\ UpdatesMayFail
  /\ LockRow(p, kind, c)
  /\ UNCHANGED task

Answer(t, O) == \/ task' = [task EXCEPT ![t].at = "accepted", ![t].outs = O]
                \/ AnswersMayBeLost /\ Goes(t, "failed")

\* The network takes the transaction; its sender may hear of it as an error.  A transaction
\* whose parent is unknown is taken too (SEEN_IN_ORPHAN_MEMPOOL) and makes phantoms.
Broadcast(t) ==
  /\ t \in At("holding") /\ chain[task[t].coin] \in {"unspent", "forgotten"}
  /\ \E O \in SUBSET Unborn :
       /\ Shape(task[t].kind, O)
       /\ chain' = [c \in Coins |-> IF c \in O THEN chain[task[t].coin]
                                    ELSE IF c = task[t].coin /\ chain[c] = "unspent" THEN "spent"
                                    ELSE chain[c]]
       /\ parent' = [c \in Coins |-> IF c \in O THEN task[t].coin ELSE parent[c]]
       /\ Answer(t, O)
  /\ UNCHANGED <<table, posts, crashes>>

\* The same payload on the same output is the same transaction; the network knows it.
Rebroadcast(t) ==
  /\ t \in At("holding") /\ chain[task[t].coin] = "spent"
  /\ Shape(task[t].kind, Made(task[t].coin))
  /\ Answer(t, Made(task[t].coin))
  /\ UNCHANGED <<net, table, posts, crashes>>

\* No transaction: the input does not cover the fee, every channel refuses it or is down.
BroadcastFails(t) ==
  /\ t \in At("holding")
  /\ Goes(t, "failed")
  /\ UNCHANGED <<net, table, posts, crashes>>

-----------------------------------------------------------------------------
(* The bookkeeping after the answer.                                         *)

\* releaseUtxo: only the owner's lock.  The cooldown follows a failed broadcast, not a
\* split whose input is too small, and BSV_PROPAGATION_GRACE_MS may be 0.
Releasable(t) == lock[task[t].coin] # None /\ lock[task[t].coin].by = task[t].p
Release(t) ==
  /\ t \in At("failed")
  /\ IF Releasable(t)
     THEN /\ lock' = Unlocked({task[t].coin})
          /\ cool' \in {cool, cool \cup {task[t].coin}}
     ELSE UNCHANGED <<lock, cool>>
  /\ End(t)
  /\ UNCHANGED <<net, row, reserve, posts, crashes>>

\* archivePhantomUtxo, when the parent of a split's input is not known on chain: it was
\* dropped, or it is not visible yet.
Archive(t) ==
  /\ t \in At("failed") /\ task[t].kind = "split" /\ NetworkForgets
  /\ parent[task[t].coin] # None
  /\ IF row[task[t].coin] = "live"
     THEN /\ row' = [row EXCEPT ![task[t].coin] = "removed"]
          /\ lock' = Unlocked({task[t].coin})
     ELSE UNCHANGED <<row, lock>>
  /\ End(t)
  /\ UNCHANGED <<net, reserve, cool, posts, crashes>>

ReleaseError(t) ==
  /\ UpdatesMayFail
  /\ t \in At("failed")
  /\ End(t)
  /\ UNCHANGED <<net, table, posts, crashes>>

\* submitAcceptedTx follows consumeAndAdmitChange or admitSplitOutputs, failed or not.
SubmitOf(t) == submits' = submits \cup {[coin |-> task[t].coin, outs |-> task[t].outs]}

\* Both ask for removed = false, not for the lock; otherwise they throw, and the error is
\* only logged.
Consumable(c) == row[c] = "live"
Consume(t) ==
  /\ t \in At("accepted")
  /\ IF Consumable(task[t].coin)
     THEN /\ row' = [c \in Coins |-> IF c \in task[t].outs THEN "live"
                                     ELSE IF c = task[t].coin THEN "removed" ELSE row[c]]
          /\ lock' = Unlocked(task[t].outs \cup {task[t].coin})
          /\ cool' \in {cool \ task[t].outs, cool \cup task[t].outs}
          /\ \E R \in SUBSET task[t].outs :
               /\ task[t].kind = "write" => R = {}
               /\ reserve' = (reserve \ task[t].outs) \cup R
     ELSE UNCHANGED table
  /\ SubmitOf(t) /\ End(t)
  /\ UNCHANGED <<net, reads, crashes>>

ConsumeError(t) ==
  /\ UpdatesMayFail
  /\ t \in At("accepted")
  /\ SubmitOf(t) /\ End(t)
  /\ UNCHANGED <<net, table, reads, crashes>>

\* submitOverlayTransaction, one transaction of several statements: getExistingOutputs looks
\* for the rows of the outputs; an output that had none is upserted, which unlocks a row
\* that has come in the meantime and makes it live; the input is marked removed whoever
\* locks it.
Missing(s) == {c \in s.outs : row[c] = "absent"}

\* Bound: two postings of a submission at work at once.
SubmitRead(s, n) ==
  /\ s \in submits
  /\ \A r \in reads : r.sub.coin = s.coin => SubmitsOverlap /\ <<r.sub, r.nth>> # <<s, n>>
  /\ n = 2 => \E r \in reads : r.sub = s
  /\ reads' = reads \cup {[sub |-> s, nth |-> n, missing |-> Missing(s)]}
  /\ UNCHANGED <<net, table, task, submits, crashes>>

InsertedAnyway(r) == r.sub.outs
InsertedUnlessLocked(r) == {c \in r.missing : lock[r.sub.coin] = None}
Inserted(r) == r.missing
RetiredUnlessLocked(r) == {c \in {r.sub.coin} : row[c] = "live" /\ lock[c] = None}
Retired(r) == {c \in {r.sub.coin} : row[c] = "live"}

\* The answer may be late, and postJsonWithRetry posts the same submission again.
SubmitWrite(r) ==
  /\ r \in reads
  /\ row' = [c \in Coins |-> IF c \in Inserted(r) THEN "live"
                             ELSE IF c \in Retired(r) THEN "removed" ELSE row[c]]
  /\ lock' = Unlocked(Inserted(r) \cup Retired(r))
  /\ reserve' = reserve \ Inserted(r)
  /\ reads' = reads \ {r}
  /\ submits' \in {submits, submits \ {r.sub}}
  /\ UNCHANGED <<net, cool, task, crashes>>

SubmitAborts(r) ==
  /\ UpdatesMayFail \/ crashes > 0
  /\ r \in reads
  /\ reads' = reads \ {r}
  /\ UNCHANGED <<net, table, task, submits, crashes>>

\* The retries are used up, or the process that retries is gone.  The overlay may be at work.
SubmitError(s) ==
  /\ s \in submits
  /\ SubmitsMayFail \/ crashes > 0
  /\ submits' = submits \ {s}
  /\ UNCHANGED <<net, table, task, reads, crashes>>

-----------------------------------------------------------------------------
(* Time, the reaper, process exits and the mempool.                          *)

WorkedOn(c) == (\E t \in Busy : task[t].coin = c) \/ (\E s \in Pending : s.coin = c)

LockAges(c) ==
  /\ lock[c] # None /\ ~lock[c].old
  /\ LocksOutlastWork => ~WorkedOn(c)
  /\ lock' = [lock EXCEPT ![c] = [by |-> lock[c].by, old |-> TRUE]]
  /\ UNCHANGED <<net, row, reserve, cool, task, posts, crashes>>

CoolDown(c) ==
  /\ c \in cool
  /\ cool' = cool \ {c}
  /\ UNCHANGED <<net, row, lock, reserve, task, posts, crashes>>

\* reapStaleLocks, whoever the owner is.
NeverStale(c) == FALSE
AnyLock(c) == lock[c] # None
Stale(c) == lock[c] # None /\ lock[c].old
Reap ==
  /\ \E c \in Coins : Stale(c)
  /\ lock' = Unlocked({c \in Coins : Stale(c)})
  /\ UNCHANGED <<net, row, reserve, cool, task, posts, crashes>>

\* The tasks of the process vanish, their locks stay.
Crash(p) ==
  /\ crashes < MaxCrashes
  /\ crashes' = crashes + 1
  /\ task' = [t \in Tasks |-> IF t \in Busy /\ task[t].p = p THEN None ELSE task[t]]
  /\ UNCHANGED <<net, table, posts>>

Forget(c) ==
  /\ NetworkForgets
  /\ chain[c] = "spent" /\ \A o \in Made(c) : chain[o] = "unspent"
  /\ chain' = [o \in Coins |-> IF o \in Made(c) THEN "forgotten"
                               ELSE IF o = c THEN "unspent" ELSE chain[o]]
  /\ UNCHANGED <<parent, table, task, posts, crashes>>

-----------------------------------------------------------------------------
Lookup(t) == \E p \in Processes, kind \in Kinds, c \in Coins : Acquire(t, p, kind, c)
Send(t)   == Broadcast(t) \/ Rebroadcast(t) \/ BroadcastFails(t)
GiveUp(t) == Release(t) \/ Archive(t) \/ ReleaseError(t)
Ends(r)   == SubmitWrite(r) \/ SubmitAborts(r)
Answered(s) == SubmitError(s) \/ \E r \in reads : r.sub = s /\ SubmitWrite(r) /\ s \notin submits'
Book(t)   == Consume(t) \/ ConsumeError(t)

Next ==
  \/ \E t \in Tasks : Lookup(t) \/ Send(t) \/ GiveUp(t) \/ Book(t)
  \/ \E p \in Processes, kind \in Kinds, c \in Coins : AcquireLost(p, kind, c)
  \/ \E s \in submits : (\E n \in 1 .. 2 : SubmitRead(s, n)) \/ SubmitError(s)
  \/ \E r \in reads : SubmitWrite(r) \/ SubmitAborts(r)
  \/ \E c \in Coins : LockAges(c) \/ CoolDown(c) \/ Forget(c)
  \/ \E p \in Processes : Crash(p)
  \/ Reap

Spec == Init /\ [][Next]_vars

\* A process goes on with its tasks unless it exits; submissions are answered; the
\* maintainer keeps its interval, so a lock that is left alone grows old and is reaped.
FairSpec ==
  /\ Spec
  /\ \A t \in Tasks : WF_vars(Send(t)) /\ WF_vars(GiveUp(t)) /\ WF_vars(Book(t))
  /\ \A c \in Coins : /\ WF_vars(\E s \in submits : s.coin = c /\ Answered(s))
                      /\ WF_vars(\E r \in reads : r.sub.coin = c /\ Ends(r))
  /\ \A c \in Coins : WF_vars(LockAges(c))
  /\ WF_vars(Reap)

-----------------------------------------------------------------------------
(* Properties.                                                               *)

\* FOR UPDATE SKIP LOCKED, the locked column, the owner check of releaseUtxo and the age
\* limit of reapStaleLocks together: two writes or splits never work on the same output,
\* over crashes, failing transactions, lost answers and late submissions.
Exclusive ==
  \A t, u \in Busy : task[t].coin = task[u].coin => t = u

\* consumeAndAdmitChange, admitSplitOutputs and submitOverlayTransaction record the outputs
\* of a transaction only together with the removal of its input: the inventory never holds
\* the same satoshis twice.
NeverCountedTwice ==
  \A o \in Coins : row[o] # "absent" /\ parent[o] # None => row[parent[o]] = "removed"

\* The two upserts of the inventory reset removed: none of them ever brings back a row
\* that was removed.
RemovedIsFinal ==
  [][\A c \in Coins : row[c] = "removed" => row'[c] = "removed"]_vars

\* With broadcasts answered and either of the two ways of recording a transaction working:
\* no row that acquireInventoryUtxo can return is already spent.
NeverOffersSpent ==
  \A c \in Coins : row[c] = "live" /\ lock[c] = None => chain[c] = "unspent"

\* Under the same conditions no change and no split output is forgotten: every unspent
\* output is in the inventory or on its way into it.
NothingStranded ==
  \A c \in Coins : chain[c] = "unspent" =>
    \/ row[c] = "live"
    \/ \E t \in At("accepted") : c \in task[t].outs
    \/ \E s \in submits : c \in s.outs

\* docs/operations-and-runbooks.md, "Stale UTXO locks": no lock lasts for ever, whatever
\* became of its owner.
LocksEnd == \A c \in Coins : (lock[c] # None) ~> (lock[c] = None)

\* The inventory implements the ledger of coins (CoinLedger): recorded once, held by one at
\* a time, handed back or retired for good.
Status == [c \in Coins |-> CASE row[c] = "absent" -> "unrecorded"
                             [] row[c] = "removed" -> "retired"
                             [] row[c] = "live" /\ lock[c] = None -> "free"
                             [] OTHER -> "held"]
Ledger == INSTANCE CoinLedger WITH state <- Status
LedgerSpec == Ledger!Spec

-----------------------------------------------------------------------------
(* What makes the invariants above inductive.                                *)

\* Tasks and submissions carry recorded inputs and the outputs made from them.
Related(s) == row[s.coin] # "absent" /\ \A o \in s.outs : parent[o] = s.coin
Family ==
  /\ \A c \in Unborn : parent[c] = None /\ row[c] = "absent"
  /\ \A t \in Busy : Related(task[t])
  /\ \A s \in Pending : Related(s)

\* What a read saw still holds when it is used.
Fresh ==
  \A r \in reads : r.missing \subseteq r.sub.outs /\ \A o \in r.missing : row[o] = "absent"

\* The coin of a task is locked, the coin of a submission is locked or gone, neither lock
\* is stale, and nobody else works on that coin.
Guarded(c) == lock[c] # None /\ ~lock[c].old
Settled(s) == (row[s.coin] = "removed" \/ Guarded(s.coin)) /\ \A t \in Busy : task[t].coin # s.coin
Alone ==
  /\ \A t \in Busy : Guarded(task[t].coin)
  /\ \A t, u \in Busy : task[t].coin = task[u].coin => t = u
  /\ \A s \in Pending : Settled(s)
  /\ \A r, q \in reads : r.sub.coin = q.sub.coin => r = q

\* How the books follow the network while answers are definite and submissions arrive: an
\* accepted task and a submission have spent their input and no other task has; what is spent
\* is removed, or live and still to be retired by whoever spent it; what is removed is spent.
SpentBy(c) == (\E t \in At("accepted") : task[t].coin = c) \/ (\E s \in submits : s.coin = c)
Truthful ==
  /\ crashes = 0 /\ \A c \in Coins : chain[c] # "forgotten"
  /\ \A t \in Busy : chain[task[t].coin] = IF task[t].at = "accepted" THEN "spent" ELSE "unspent"
  /\ \A s \in Pending : chain[s.coin] = "spent"
  /\ \A c \in Coins : chain[c] = "spent" => row[c] = "removed" \/ (row[c] = "live" /\ SpentBy(c))
  /\ \A c \in Coins : row[c] = "removed" => chain[c] = "spent"

\* What a read did not miss is recorded.
SeenIsRecorded == \A r \in reads : \A o \in r.sub.outs \ r.missing : row[o] # "absent"

\* As long as the inventory's own update does not fail it comes before the submission.
Entered ==
  UpdatesMayFail \/ \A s \in Pending : row[s.coin] = "removed" /\ \A o \in s.outs : row[o] # "absent"

\* While the inventory's updates succeed and the network forgets nothing, whoever holds which
\* lock: an output has one transaction; once it is removed, the outputs of that transaction are
\* recorded, and no submission is made before.
Children(c) == {o \in Coins : parent[o] = c}
SpendsOnce(x) == x.at = "accepted" => chain[x.coin] = "spent" /\ x.outs = Children(x.coin)
InventoryFirst ==
  /\ \A c \in Coins : chain[c] # "forgotten"
  /\ \A o \in Coins : parent[o] # None => chain[parent[o]] = "spent"
  /\ \A t \in Busy : SpendsOnce(task[t])
  /\ \A c \in Coins : row[c] = "removed" =>
       chain[c] = "spent" /\ \A o \in Children(c) : row[o] # "absent"
  /\ \A s \in Pending : row[s.coin] = "removed" /\ \A o \in s.outs : row[o] # "absent"
  /\ \A r \in reads : r.missing = {}

=============================================================================
