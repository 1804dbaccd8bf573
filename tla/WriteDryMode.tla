---------------------------- MODULE WriteDryMode ----------------------------
(* The gate that pauses writes while no wallet holds a pool output that pays for one              *)
(* (write-dry-mode.ts): a cycle reads the wallets one after the other and then decides.           *)
EXTENDS Naturals

CONSTANT GateWallets   \* walletManager.getWalletCount(), once the wallets are loaded

ASSUME GateAssumption == GateWallets \in Nat \ {0}

Gates == 1..GateWallets

VARIABLES
  usable,    \* the wallets whose largest pool output reaches the floor
  gateCycle, \* the wallet to be read next and what was read of the others; 0: no cycle runs
  checks,    \* consecutiveDryChecks, up to the two that count
  paused,    \* state.dry
  low        \* history: in how many of the last cycles, up to two, each wallet was read and was low

gateVars == <<usable, gateCycle, checks, paused, low>>

Unread == [w \in Gates |-> "unread"]

GateTypeOK ==
  /\ usable \subseteq Gates
  /\ gateCycle \in [next : 0..(GateWallets + 1), read : [Gates -> {"unread", "usable", "low", "failed"}]]
  /\ checks \in 0..2 /\ paused \in BOOLEAN /\ low \in [Gates -> 0..2]

GateInit ==
  /\ usable = {} /\ gateCycle = [next |-> 0, read |-> Unread]
  /\ checks = 0 /\ paused = FALSE /\ low = [w \in Gates |-> 0]

----------------------------------------------------------------------------
\* runCycle; a tick of the timer while a cycle runs does nothing.
GateCycleStarts ==
  /\ gateCycle.next = 0 /\ gateCycle' = [next |-> 1, read |-> Unread]
  /\ UNCHANGED <<usable, checks, paused, low>>

\* getInventoryDiagnostic answers for the next wallet, or fails.
ReadWallet(w, result) ==
  /\ gateCycle.next = w
  /\ result \in {IF w \in usable THEN "usable" ELSE "low", "failed"}
  /\ gateCycle' = [next |-> w + 1, read |-> [gateCycle.read EXCEPT ![w] = result]]
  /\ UNCHANGED <<usable, checks, paused, low>>

SomethingRead(read) == \E w \in Gates : read[w] # "failed"
Conclusive(read)    == \A w \in Gates : read[w] # "failed"

UsableOfAll(read) == Conclusive(read) /\ \E w \in Gates : read[w] = "usable"
AnyUsable(read)   == \E w \in Gates : read[w] = "usable"

OneMore(n) == IF n = 2 THEN 2 ELSE n + 1

\* One usable wallet clears the gate, whatever failed; two full readings in a row close it; a read
\* that failed starts the count again.
Evaluate ==
  /\ gateCycle.next = GateWallets + 1
  /\ CASE AnyUsable(gateCycle.read) -> checks' = 0 /\ paused' = FALSE
       [] ~AnyUsable(gateCycle.read) /\ ~Conclusive(gateCycle.read) -> checks' = 0 /\ UNCHANGED paused
       [] OTHER -> checks' = OneMore(checks) /\ paused' = (paused \/ checks >= 1)
  /\ low' = [w \in Gates |-> IF gateCycle.read[w] = "low" THEN OneMore(low[w]) ELSE 0]
  /\ gateCycle' = [next |-> 0, read |-> Unread]
  /\ UNCHANGED usable

\* The process is restarted: the gate opens.
GateRestarts ==
  /\ gateCycle' = [next |-> 0, read |-> Unread] /\ checks' = 0 /\ paused' = FALSE
  /\ low' = [w \in Gates |-> 0] /\ UNCHANGED usable

\* Outputs are spent, split or admitted.
PoolChanges(w) ==
  /\ usable' = IF w \in usable THEN usable \ {w} ELSE usable \cup {w}
  /\ UNCHANGED <<gateCycle, checks, paused, low>>

GateStep ==
  GateCycleStarts \/ Evaluate \/ \E w \in Gates, result \in {"usable", "low", "failed"} : ReadWallet(w, result)
GateNext == GateStep \/ GateRestarts \/ \E w \in Gates : PoolChanges(w)

GateSpec == GateInit /\ [][GateNext]_gateVars

ReadsUsable == \E w \in usable : ReadWallet(w, "usable")

----------------------------------------------------------------------------
\* Writes are not paused because the database could not be read: when the gate closes, every
\* wallet was read, and was low, in both of the last two cycles.
PausedOnEvidence ==
  [][~paused /\ paused' => \A w \in Gates : low'[w] = 2]_gateVars

\* A wallet with funds opens the gate, though the reads of all the others fail for ever.
PauseEnds == \A w \in Gates : <>[](w \in usable) => []<>~paused
=============================================================================
