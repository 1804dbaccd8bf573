-------------------------- MODULE AutoConsolidate --------------------------
(***************************************************************************)
(* The dust sweep (lib/utxo-auto-consolidate.ts): a process locks a batch  *)
(* of small outputs of the inventory, spends them in one transaction and   *)
(* commits the result.  It runs unattended, in any process, beside the     *)
(* writers and splitters of UtxoInventory, which are reduced here to what  *)
(* they do to a row: take it, spend and replace it, stop, or give it back. *)
(*                                                                         *)
(* Satoshis are left out: an output is below the split floor (Dust) or     *)
(* not, and whether a batch is worth its fee is an open choice.  So are    *)
(* the trigger, the order of the batch and the confirmation of its rows.   *)
(***************************************************************************)
EXTENDS Naturals, FiniteSets

CONSTANTS
  Coins,             \* outputs, those of the transactions still to come included
  Funded,            \* the outputs that exist and are recorded at the start
  Dust,              \* the outputs below maxInputSats
  Processes,         \* processes that sweep
  Others,            \* the lock owner of every writer and splitter
  None,              \* no sweep, no lock, no output
  BatchSize,         \* BATCH_SIZE
  LocksOutlastWork,  \* no lock grows older than 15 minutes while its work goes on
  UpdatesMayFail     \* a transaction of the inventory may throw, executed or not

ASSUME SweepAssumption ==
  /\ Funded \subseteq Coins /\ Dust \subseteq Coins
  /\ BatchSize \in Nat
  /\ {LocksOutlastWork, UpdatesMayFail} \subseteq BOOLEAN
  /\ Others \notin Processes

VARIABLES
  chain,   \* the network: state of each output
  made,    \* the network: the outputs whose spending made this one
  row,     \* overlay_admitted_utxos: presence and removed
  lock,    \* locked, locked_by and whether locked_at is more than 15 minutes ago
  cool,    \* rows with acquirable_at in the future
  sweep,   \* the batch each process is working on
  late     \* inputs of the others' transactions that are not recorded yet

net   == <<chain, made>>
table == <<row, lock, cool>>
vars  == <<chain, made, row, lock, cool, sweep, late>>

Lock  == [by : Processes \cup {Others}, old : BOOLEAN]
Sweep == [at : {"picked", "locked", "failed", "missing", "accepted"},
          ins : SUBSET Coins, out : Coins \cup {None}]

ASSUME NoneAssumption == None \notin Sweep \cup Lock \cup Coins

\* The tables keep their shape; only live rows are locked; an accepted batch has an output.
TypeOK ==
  /\ chain \in [Coins -> {"unborn", "unspent", "spent"}]
  /\ made \in [Coins -> SUBSET Coins]
  /\ row \in [Coins -> {"absent", "live", "removed"}]
  /\ lock \in [Coins -> Lock \cup {None}]
  /\ \A c \in Coins : lock[c] # None => row[c] = "live"
  /\ cool \subseteq Coins /\ late \subseteq Coins
  /\ sweep \in [Processes -> Sweep \cup {None}]
  /\ \A p \in Processes : sweep[p] # None /\ sweep[p].at = "accepted" => sweep[p].out \in Coins

-----------------------------------------------------------------------------
Active     == {p \in Processes : sweep[p] # None}
At(s)      == {p \in Active : sweep[p].at = s}
Ins(p)     == sweep[p].ins
Unborn     == {c \in Coins : chain[c] = "unborn"}
Unlocked(S) == [c \in Coins |-> IF c \in S THEN None ELSE lock[c]]
Free(c)    == row[c] = "live" /\ lock[c] = None
MineAnyway(p) == {c \in Ins(p) : lock[c] # None}
Mine(p) == {c \in Ins(p) : lock[c] # None /\ lock[c].by = p}
Goes(p, s) == sweep' = [sweep EXCEPT ![p].at = s]
Stops(p)   == sweep' = [sweep EXCEPT ![p] = None]

Init ==
  /\ chain = [c \in Coins |-> IF c \in Funded THEN "unspent" ELSE "unborn"]
  /\ made = [c \in Coins |-> {}]
  /\ row = [c \in Coins |-> IF c \in Funded THEN "live" ELSE "absent"]
  /\ lock = [c \in Coins |-> None]
  /\ cool = {} /\ late = {}
  /\ sweep = [p \in Processes |-> None]

-----------------------------------------------------------------------------
(* lockDustBatch: a SELECT without row locks, then a guarded UPDATE.         *)

Eligible(c) == Free(c) /\ c \in Dust /\ c \notin cool

Pick(p) ==
  /\ p \notin Active
  /\ \E S \in SUBSET {c \in Coins : Eligible(c)} :
       /\ S # {} /\ Cardinality(S) <= BatchSize
       /\ sweep' = [sweep EXCEPT ![p] = [at |-> "picked", ins |-> S, out |-> None]]
  /\ UNCHANGED <<net, table, late>>

\* WHERE removed = false AND locked = false; the other conditions are not asked again.
TakenAnyway(p) == Ins(p)
Taken(p) == {c \in Ins(p) : Free(c)}
LockRows(p) ==
  lock' = [c \in Coins |-> IF c \in Taken(p) THEN [by |-> p, old |-> FALSE] ELSE lock[c]]

LockBatch(p) ==
  /\ p \in At("picked")
  /\ LockRows(p)
  /\ IF Taken(p) = {} THEN Stops(p)
     ELSE sweep' = [sweep EXCEPT ![p].at = "locked", ![p].ins = Taken(p)]
  /\ UNCHANGED <<net, row, cool, late>>

\* It throws, and the rows are locked or not.
LockError(p) ==
  /\ UpdatesMayFail
  /\ p \in At("picked")
  /\ LockRows(p) \/ UNCHANGED lock
  /\ Stops(p)
  /\ UNCHANGED <<net, row, cool, late>>

-----------------------------------------------------------------------------
(* consolidateWallet, from the locked batch to its broadcast.                *)

\* The batch does not pay for itself, it cannot be built, or no channel takes it.
NotSent(p) ==
  /\ p \in At("locked")
  /\ Goes(p, "failed")
  /\ UNCHANGED <<net, table, late>>

Accepted(p, o) == sweep' = [sweep EXCEPT ![p].at = "accepted", ![p].out = o]

\* The network takes the transaction.  When the answer of the first channel is lost, the
\* others may take it for an error or for missing inputs.
Broadcast(p) ==
  /\ p \in At("locked") /\ \A c \in Ins(p) : chain[c] = "unspent"
  /\ \E o \in Unborn \ Dust :
       /\ chain' = [c \in Coins |-> IF c \in Ins(p) THEN "spent"
                                    ELSE IF c = o THEN "unspent" ELSE chain[c]]
       /\ made' = [made EXCEPT ![o] = Ins(p)]
       /\ Accepted(p, o) \/ Goes(p, "failed") \/ Goes(p, "missing")
  /\ UNCHANGED <<table, late>>

\* The same rows in the same order make the same transaction, and the network knows it.
Rebroadcast(p) ==
  /\ p \in At("locked")
  /\ \E o \in Coins \ Dust : made[o] = Ins(p) /\ Accepted(p, o)
  /\ UNCHANGED <<net, table, late>>

\* isMissingInputsError: one input is spent already, or its parent is not visible yet.
MissingInputs(p) ==
  /\ p \in At("locked")
  /\ Goes(p, "missing")
  /\ UNCHANGED <<net, table, late>>

-----------------------------------------------------------------------------
(* The bookkeeping.                                                          *)

\* releaseBatch: only what this process has locked, with a cooldown.
ReleaseBatch(p) ==
  /\ p \in At("failed")
  /\ lock' = Unlocked(Mine(p))
  /\ cool' = cool \cup Mine(p)
  /\ Stops(p)
  /\ UNCHANGED <<net, row, late>>

\* archivePhantomBatch: every row of the batch that is live, whoever has locked it.
Marked(p) == {c \in Ins(p) : row[c] = "live"}
ArchiveBatch(p) ==
  /\ p \in At("missing")
  /\ row' = [c \in Coins |-> IF c \in Marked(p) THEN "removed" ELSE row[c]]
  /\ lock' = Unlocked(Marked(p))
  /\ Stops(p)
  /\ UNCHANGED <<net, cool, late>>

\* commitConsolidation: one transaction, which throws unless it marks the whole batch.
Unchecked(p) == TRUE
Whole(p) == Marked(p) = Ins(p)
SpentIfMine(p) == Mine(p)
Spent(p) == Ins(p)
Record(p) ==
  LET o == sweep[p].out IN
  /\ row' = [c \in Coins |-> IF c = o THEN "live" ELSE IF c \in Spent(p) THEN "removed" ELSE row[c]]
  /\ lock' = Unlocked(Spent(p) \cup {o})
  /\ cool' = cool \cup {o}

CommitConsolidation(p) ==
  /\ p \in At("accepted")
  /\ IF Whole(p) THEN Record(p) /\ Stops(p) ELSE UNCHANGED table /\ Goes(p, "failed")
  /\ UNCHANGED <<net, late>>

CommitError(p) ==
  /\ UpdatesMayFail
  /\ p \in At("accepted")
  /\ (Whole(p) /\ Record(p)) \/ UNCHANGED table
  /\ Goes(p, "failed")
  /\ UNCHANGED <<net, late>>

\* releaseBatch or archivePhantomBatch throws: the cycle goes on, the locks stay.
CleanupError(p) ==
  /\ UpdatesMayFail
  /\ p \in At("failed") \cup At("missing")
  /\ Stops(p)
  /\ UNCHANGED <<net, table, late>>

-----------------------------------------------------------------------------
(* Writers and splitters, and the reaper (see UtxoInventory).                *)

OthersTake(c) ==
  /\ Free(c) /\ c \notin cool
  /\ lock' = [lock EXCEPT ![c] = [by |-> Others, old |-> FALSE]]
  /\ UNCHANGED <<net, row, cool, sweep, late>>

HeldByOthers(c) == lock[c] # None /\ lock[c].by = Others
AtWork(c) == HeldByOthers(c) /\ (LocksOutlastWork => ~lock[c].old)

\* The broadcast of a transaction with smaller outputs; the bookkeeping may come late,
\* after the reaper, or never.
OthersSpend(c, O) ==
  /\ AtWork(c) /\ chain[c] = "unspent"
  /\ O \subseteq Unborn /\ (c \in Dust => O \subseteq Dust)
  /\ chain' = [d \in Coins |-> IF d \in O THEN "unspent" ELSE IF d = c THEN "spent" ELSE chain[d]]
  /\ made' = [d \in Coins |-> IF d \in O THEN {c} ELSE made[d]]
  /\ late' = late \cup {c}
  /\ UNCHANGED <<table, sweep>>

\* consumeAndAdmitChange, admitSplitOutputs or the overlay's submission: the outputs are
\* recorded and the input is retired, whoever has locked it by now.
OthersRecord(c) ==
  /\ c \in late
  /\ LET O == {o \in Coins : made[o] = {c} /\ row[o] = "absent"} IN
     row' = [d \in Coins |-> IF d \in O THEN "live" ELSE IF d = c THEN "removed" ELSE row[d]]
  /\ lock' = Unlocked({c})
  /\ late' = late \ {c}
  /\ UNCHANGED <<net, cool, sweep>>

\* The process exits, or both ways of recording fail: a row that is live and spent.
OthersStop(c) ==
  /\ c \in late
  /\ late' = late \ {c}
  /\ UNCHANGED <<net, table, sweep>>

OthersRelease(c) ==
  /\ AtWork(c) /\ c \notin late
  /\ lock' = Unlocked({c})
  /\ cool' = cool \cup {c}
  /\ UNCHANGED <<net, row, sweep, late>>

LockAges(c) ==
  /\ lock[c] # None /\ ~lock[c].old
  /\ LocksOutlastWork => c \notin late /\ \A p \in Active : c \notin Ins(p)
  /\ lock' = [lock EXCEPT ![c] = [by |-> lock[c].by, old |-> TRUE]]
  /\ UNCHANGED <<net, row, cool, sweep, late>>

CoolDown(c) ==
  /\ c \in cool
  /\ cool' = cool \ {c}
  /\ UNCHANGED <<net, row, lock, sweep, late>>

Stale(c) == lock[c] # None /\ lock[c].old
Reap ==
  /\ \E c \in Coins : Stale(c)
  /\ lock' = Unlocked({c \in Coins : Stale(c)})
  /\ UNCHANGED <<net, row, cool, sweep, late>>

\* A process exits at any point of its sweep; the locks stay.
Crash(p) ==
  /\ p \in Active
  /\ Stops(p)
  /\ UNCHANGED <<net, table, late>>

-----------------------------------------------------------------------------
SweepStep(p) ==
  \/ Pick(p) \/ LockBatch(p) \/ LockError(p)
  \/ NotSent(p) \/ Broadcast(p) \/ Rebroadcast(p) \/ MissingInputs(p)
  \/ ReleaseBatch(p) \/ ArchiveBatch(p)
  \/ CommitConsolidation(p) \/ CommitError(p) \/ CleanupError(p)
  \/ Crash(p)

RowStep(c) ==
  \/ OthersTake(c) \/ OthersRecord(c) \/ OthersStop(c) \/ OthersRelease(c) \/ LockAges(c) \/ CoolDown(c)
  \/ \E O \in SUBSET Coins : OthersSpend(c, O)

Next ==
  \/ \E p \in Processes : SweepStep(p)
  \/ \E c \in Coins : RowStep(c)
  \/ Reap

Spec == Init /\ [][Next]_vars

-----------------------------------------------------------------------------
(* Properties.                                                               *)

\* "Inputs are marked spent and the new output admitted in ONE database transaction, so
\* inventory can never double-count the consolidation": over reaped locks, second
\* broadcasts of a batch, lost answers of the commit and exits.
CountedOnce ==
  \A o \in Coins : row[o] # "absent" => \A c \in made[o] : row[c] = "removed"

\* A sweep whose locks were reaped while it worked does not hand back a row that somebody
\* else has taken since: a live row is unlocked by its owner or by the reaper.
ForeignLocksKept ==
  [][\A c \in Coins :
       lock[c] # None /\ lock'[c] = None /\ row'[c] = "live" =>
         \/ lock[c].old
         \/ lock[c].by = Others /\ sweep' = sweep
         \/ lock[c].by # Others /\ sweep'[lock[c].by] # sweep[lock[c].by]]_vars

\* With the sweep among its users the inventory still implements the ledger of coins
\* (CoinLedger): the upsert of commitConsolidation brings no retired output back.
Status == [c \in Coins |-> CASE row[c] = "absent" -> "unrecorded"
                             [] row[c] = "removed" -> "retired"
                             [] row[c] = "live" /\ lock[c] = None -> "free"
                             [] OTHER -> "held"]
Ledger == INSTANCE CoinLedger WITH state <- Status
LedgerSpec == Ledger!Spec

\* Two sweeps never work on the same output, and never on one a writer holds, unless locks
\* are reaped under them.
Working(p) == p \in Active /\ sweep[p].at # "picked"
BatchesApart ==
  \A p \in Processes : Working(p) =>
    /\ \A c \in Ins(p) : ~HeldByOthers(c)
    /\ \A q \in Processes \ {p} : Working(q) => Ins(p) \cap Ins(q) = {}

=============================================================================
