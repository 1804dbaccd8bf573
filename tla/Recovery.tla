------------------------------ MODULE Recovery ------------------------------
(* The operator's scripts: consolidate-wallet-utxos.ts, which may leave the inventory behind the  *)
(* chain, and recovery-import-onchain-utxos.ts, which brings it up to it again.                  *)
EXTENDS Naturals, FiniteSets

CONSTANTS
  Holdings,     \* outputs of a wallet, those still to come included, as numbers
  AtStart,      \* those it begins with, confirmed
  LockBatch,    \* a consolidation's batch
  UpsertBatch,  \* INSERT_BATCH_SIZE
  SweepLimit    \* batches archived after one answer of missing inputs

ASSUME RecoveryAssumption ==
  /\ AtStart \subseteq Holdings /\ Holdings \subseteq Nat /\ IsFiniteSet(Holdings)
  /\ {LockBatch, UpsertBatch, SweepLimit} \subseteq Nat \ {0}

VARIABLES
  ledger,   \* what the network knows of an output
  entry,   \* its row in overlay_admitted_utxos
  locks,   \* the rows that are locked
  online,  \* gaialog-workers and gaialog-utxo-replenish run
  script,  \* the consolidation: where it is, which transaction it builds, its inputs and outputs
  rescue   \* the recovery: where it is, and of the discovered outputs those still to be written

recoveryVars == <<ledger, entry, locks, online, script, rescue>>

Script(at, kind, inputs, outputs) ==
  [at |-> at, kind |-> kind, inputs |-> inputs, outputs |-> outputs, swept |-> 0]
NoScript == Script("off", "consolidation", {}, {})
NoRescue == [at |-> "idle", found |-> {}, left |-> {}]

RecoveryTypeOK ==
  /\ ledger \in [Holdings -> {"unknown", "unspent", "spent"}]
  /\ entry \in [Holdings -> {"absent", "unconfirmed", "confirmed", "removed"}]
  /\ locks \subseteq Holdings /\ online \in BOOLEAN
  /\ script \in [at : {"off", "locked", "sent", "sweeping"}, kind : {"consolidation", "transfer"},
                 inputs : SUBSET Holdings, outputs : SUBSET Holdings, swept : 0..SweepLimit]
  /\ rescue \in [at : {"idle", "discovered", "upserting", "done"},
                 found : SUBSET Holdings, left : SUBSET Holdings]

RecoveryInit ==
  /\ ledger = [o \in Holdings |-> IF o \in AtStart THEN "unspent" ELSE "unknown"]
  /\ entry = [o \in Holdings |-> IF o \in AtStart THEN "confirmed" ELSE "absent"]
  /\ locks = {} /\ online = TRUE /\ script = NoScript /\ rescue = NoRescue

LiveRow(o) == entry[o] \in {"unconfirmed", "confirmed"}
Fresh   == {o \in Holdings : entry[o] = "absent" /\ ledger[o] = "unknown"}
\* The next outputs that a transaction makes.
New(count) ==
  {S \in SUBSET Fresh : Cardinality(S) = count /\ \A o \in S, later \in Fresh \ S : o < later}
OnOffer == {o \in Holdings : LiveRow(o) /\ o \notin locks}

Mark(outputs, row) == [o \in Holdings |-> IF o \in outputs THEN row ELSE entry[o]]
OnChain(spent, made) ==
  [o \in Holdings |-> IF o \in spent THEN "spent" ELSE IF o \in made THEN "unspent" ELSE ledger[o]]
Spendable(inputs) == \A o \in inputs : ledger[o] = "unspent"

----------------------------------------------------------------------------
(* The writers, as far as the scripts meet what they leave.                  *)

\* An orphan is accepted although its parent is unknown: its change is a phantom. The inventory's
\* update of either may be lost.
WriterSpends ==
  /\ online
  /\ \E o \in OnOffer, made \in New(1) :
       /\ \/ Spendable({o}) /\ ledger' = OnChain({o}, made)
          \/ ledger[o] = "unknown" /\ UNCHANGED ledger
       /\ \/ entry' = [Mark(made, "unconfirmed") EXCEPT ![o] = "removed"]
          \/ ledger' # ledger /\ UNCHANGED entry
  /\ UNCHANGED <<locks, online, script, rescue>>

WriterFindsMissing ==
  /\ online
  /\ \E o \in OnOffer : ~Spendable({o}) /\ entry' = Mark({o}, "removed")
  /\ UNCHANGED <<ledger, locks, online, script, rescue>>

OutputConfirmed ==
  /\ online
  /\ \E o \in Holdings : entry[o] = "unconfirmed" /\ ledger[o] # "unknown" /\ entry' = Mark({o}, "confirmed")
  /\ UNCHANGED <<ledger, locks, online, script, rescue>>

\* The reaper, of locks whose script has gone.
Reap ==
  /\ online /\ locks \ script.inputs # {}
  /\ locks' = locks \cap script.inputs
  /\ UNCHANGED <<ledger, entry, online, script, rescue>>

----------------------------------------------------------------------------
(* consolidateWallet and rebalanceWallets.                                   *)

Batches(size) == {b \in SUBSET OnOffer : b # {} /\ Cardinality(b) <= size}

ScriptLocks ==
  /\ script.at = "off" /\ rescue.at = "idle"
  /\ \E kind \in {"consolidation", "transfer"}, batch \in Batches(LockBatch) :
       /\ script' = Script("locked", kind, batch, {})
       /\ locks' = locks \cup batch
  /\ UNCHANGED <<ledger, entry, online, rescue>>

MadeBy(kind) == IF kind = "transfer" THEN 2 ELSE 1
Released == locks' = locks \ script.inputs /\ script' = NoScript

\* Broadcast; when the answer is lost the script takes it for a refusal.
ScriptSends ==
  /\ script.at = "locked" /\ Spendable(script.inputs)
  /\ \E made \in New(MadeBy(script.kind)) :
       /\ ledger' = OnChain(script.inputs, made)
       /\ \/ script' = [script EXCEPT !.at = "sent", !.outputs = made] /\ UNCHANGED locks
          \/ Released
  /\ UNCHANGED <<entry, online, rescue>>
ScriptRefused ==
  /\ script.at = "locked" /\ Released
  /\ UNCHANGED <<ledger, entry, online, rescue>>

Archived ==
  /\ entry' = [o \in Holdings |-> IF o \in script.inputs /\ LiveRow(o) THEN "removed" ELSE entry[o]]
  /\ locks' = locks \ script.inputs

\* archivePhantomBatch, of all inputs although one alone may be missing.
ScriptMissesInputs ==
  /\ script.at = "locked" /\ script.kind = "consolidation" /\ ~Spendable(script.inputs)
  /\ Archived /\ script' = Script("sweeping", "consolidation", {}, {})
  /\ UNCHANGED <<ledger, online, rescue>>
\* What else is offered is locked and archived without a broadcast.
SweepLocks ==
  /\ script.at = "sweeping" /\ script.inputs = {} /\ script.swept < SweepLimit
  /\ \E batch \in Batches(LockBatch) :
       script' = [script EXCEPT !.inputs = batch, !.swept = @ + 1] /\ locks' = locks \cup batch
  /\ UNCHANGED <<ledger, entry, online, rescue>>
SweepArchives ==
  /\ script.at = "sweeping" /\ script.inputs # {}
  /\ Archived /\ script' = [script EXCEPT !.inputs = {}]
  /\ UNCHANGED <<ledger, online, rescue>>
PhantomSweepEnds ==
  /\ script.at = "sweeping" /\ script.inputs = {} /\ script' = NoScript
  /\ UNCHANGED <<ledger, entry, locks, online, rescue>>

\* commitConsolidation, commitTransfer: one transaction, for all inputs or none.
Commits ==
  /\ \A o \in script.inputs : LiveRow(o)
  /\ entry' = [o \in Holdings |-> IF o \in script.inputs THEN "removed"
                                  ELSE IF o \in script.outputs THEN "unconfirmed" ELSE entry[o]]
ScriptCommits ==
  /\ script.at = "sent" /\ Commits /\ Released
  /\ UNCHANGED <<ledger, online, rescue>>
\* The consolidation releases its inputs, the transfer leaves them to the reaper.
CommitFails ==
  /\ script.at = "sent"
  /\ \/ Commits /\ Released
     \/ UNCHANGED entry /\ script.kind = "consolidation" /\ Released
     \/ UNCHANGED entry /\ script.kind = "transfer" /\ script' = NoScript /\ UNCHANGED locks
  /\ UNCHANGED <<ledger, online, rescue>>

ScriptExits ==
  /\ script.at # "off" /\ script' = NoScript
  /\ UNCHANGED <<ledger, entry, locks, online, rescue>>

----------------------------------------------------------------------------
(* The recovery. The operator stops the writers, lists what is unspent, and runs one script at a  *)
(* time; the recovery itself checks for the writers only.                                         *)

WritersStop ==
  /\ online /\ online' = FALSE
  /\ UNCHANGED <<ledger, entry, locks, script, rescue>>
WritersStart ==
  /\ ~online /\ online' = TRUE
  /\ rescue.at \in {"idle", "done"} /\ rescue' = NoRescue
  /\ UNCHANGED <<ledger, entry, locks, script>>

Discover ==
  /\ ~online /\ script.at = "off" /\ rescue.at = "idle"
  /\ rescue' = [at |-> "discovered", found |-> {o \in Holdings : ledger[o] = "unspent"}, left |-> {}]
  /\ UNCHANGED <<ledger, entry, locks, online, script>>

\* Every row that is not confirmed, a real one too, which the next statements revive.
ArchivePhantoms ==
  /\ rescue.at = "discovered"
  /\ entry' = [o \in Holdings |-> IF entry[o] = "unconfirmed" THEN "removed" ELSE entry[o]]
  /\ locks' = {o \in locks : entry[o] # "unconfirmed"}
  /\ rescue' = [rescue EXCEPT !.at = "upserting", !.left = rescue.found]
  /\ UNCHANGED <<ledger, online, script>>

LeavesRemoved(row) == IF row = "absent" THEN "confirmed" ELSE row
OnConflict(row)    == "confirmed"
UpsertReal ==
  /\ rescue.at = "upserting"
  /\ \E batch \in SUBSET rescue.left :
       /\ Cardinality(batch) = IF Cardinality(rescue.left) < UpsertBatch THEN Cardinality(rescue.left)
                               ELSE UpsertBatch
       /\ entry' = [o \in Holdings |-> IF o \in batch THEN OnConflict(entry[o]) ELSE entry[o]]
       /\ locks' = locks \ batch
       /\ rescue' = [rescue EXCEPT !.left = @ \ batch, !.at = IF rescue.left = batch THEN "done" ELSE @]
  /\ UNCHANGED <<ledger, online, script>>

\* A statement fails, executed or not, or the script dies: it is run again on the same files.
RecoveryFails ==
  /\ rescue.at = "upserting" /\ rescue' = [rescue EXCEPT !.at = "discovered", !.left = {}]
  /\ UNCHANGED <<ledger, entry, locks, online, script>>

RecoveryNext ==
  \/ WriterSpends \/ WriterFindsMissing \/ OutputConfirmed \/ Reap
  \/ ScriptLocks \/ ScriptSends \/ ScriptRefused \/ ScriptMissesInputs
  \/ SweepLocks \/ SweepArchives \/ PhantomSweepEnds \/ ScriptCommits \/ CommitFails \/ ScriptExits
  \/ WritersStop \/ WritersStart \/ Discover \/ ArchivePhantoms \/ UpsertReal \/ RecoveryFails

RecoverySpec == RecoveryInit /\ [][RecoveryNext]_recoveryVars

----------------------------------------------------------------------------
\* Whatever updates of the inventory were lost, and wherever a script ended, an earlier run of the
\* recovery included: a recovery that ends has every unspent output in the inventory, confirmed and
\* free, and nothing the network never knew. (A confirmed row whose output was spent stays.)
RecoveryMends ==
  rescue.at = "done" =>
    \A o \in Holdings :
      /\ ledger[o] = "unspent" => entry[o] = "confirmed" /\ o \notin locks
      /\ LiveRow(o) => ledger[o] # "unknown"

----------------------------------------------------------------------------
(* Why a recovery mends: what else is true in every state.                   *)

\* While it runs nothing else does, so what it discovered is what the network has.
RescueIsAlone ==
  rescue.at # "idle" =>
    ~online /\ script.at = "off" /\ rescue.found = {o \in Holdings : ledger[o] = "unspent"}

\* No row is confirmed of an output that the network never knew.
ConfirmedIsKnown == \A o \in Holdings : entry[o] = "confirmed" => ledger[o] # "unknown"

\* Once the phantoms are archived no row is unconfirmed, and what is written is confirmed and free.
RescueAdvances ==
  rescue.at \in {"upserting", "done"} =>
    /\ rescue.left \subseteq rescue.found /\ \A o \in Holdings : entry[o] # "unconfirmed"
    /\ \A o \in rescue.found \ rescue.left : entry[o] = "confirmed" /\ o \notin locks
    /\ rescue.at = "done" => rescue.left = {}
=============================================================================
