---------------------------- MODULE FundingAdmit ----------------------------
(* How coins sent to a wallet from outside come into the inventory (wallet-funding-admit.ts): a   *)
(* cycle compares the chain's balance with the inventory's, looks at the recent history and then  *)
(* pages through the address's unspent outputs, from where the last cycle stopped.                *)
EXTENDS Naturals, FiniteSets

CONSTANTS
  OutputCount,    \* outputs to the wallet's address, in the order in which they are listed
  Funding,        \* those of at least MIN_SATS
  PageLimit,
  PagesPerCycle

ASSUME AdmitAssumption ==
  /\ OutputCount \in Nat \ {0} /\ Funding \subseteq 1..OutputCount
  /\ PageLimit \in Nat \ {0} /\ PagesPerCycle \in Nat \ {0}

Outputs == 1..OutputCount
MinSats == 2     \* what a funding output is worth; the others are worth 1
Admittable(S) == S \cap Funding
NotSwept == [balance |-> 0, aged |-> TRUE]

VARIABLES
  chain,        \* per output, what Bitails says of it
  row,          \* per output, its row of overlay_admitted_utxos; "revived" is live again
  admitCursor,  \* ScanState of the address: its cursor
  swept,        \* ... the balance at the last sweep's end, and whether that is SWEEP_BACKOFF_MS ago
  scan          \* the cycle: where it is, its page and cursor, its candidates and the balance it read

admitVars == <<chain, row, admitCursor, swept, scan>>

ScanAt(at, page, from, found, balance) ==
  [at |-> at, page |-> page, from |-> from, found |-> found, balance |-> balance]
Rests == ScanAt("timer", 0, 0, {}, 0)

SumOf(S) == Cardinality(S) + (MinSats - 1) * Cardinality(Admittable(S))
Unspent  == {o \in Outputs : chain[o] = "unspent"}
Live     == {o \in Outputs : row[o] \in {"live", "revived"}}

AdmitTypeOK ==
  /\ chain \in [Outputs -> {"absent", "unspent", "spent"}]
  /\ row \in [Outputs -> {"none", "live", "removed", "revived"}]
  /\ admitCursor \in 0..OutputCount /\ swept \in [balance : 0..SumOf(Outputs), aged : BOOLEAN]
  /\ scan \in [at : {"timer", "history", "pages", "admits", "restarted"}, page : 0..(PagesPerCycle - 1),
               from : 0..OutputCount, found : SUBSET Funding, balance : 0..SumOf(Outputs)]

AdmitInit ==
  /\ chain = [o \in Outputs |-> "absent"] /\ row = [o \in Outputs |-> "none"]
  /\ admitCursor = 0 /\ swept = NotSwept /\ scan = Rests

----------------------------------------------------------------------------
Gap == SumOf(Live) + MinSats <= SumOf(Unspent)
Worthwhile == admitCursor > 0 \/ swept.aged \/ SumOf(Unspent) # swept.balance

\* The balances are compared: with no gap the cursor goes back to the start, and a new sweep waits
\* until the last one is old or the balance has moved. The two sums are requested side by side and
\* taken here for sums of one moment.
CycleBegins ==
  /\ scan.at \in {"timer", "restarted"}
  /\ IF Gap THEN UNCHANGED admitCursor ELSE admitCursor' = 0
  /\ scan' = IF Gap /\ Worthwhile THEN ScanAt("history", 0, 0, {}, SumOf(Unspent)) ELSE Rests
  /\ UNCHANGED <<chain, row, swept>>

Admits(found) ==
  row' = [o \in Outputs |->
            IF o \notin found THEN row[o]
            ELSE IF row[o] = "none" THEN "live" ELSE IF row[o] = "removed" THEN "revived" ELSE row[o]]
News(found) == \E o \in found : o \notin Live

\* discoverFundingViaHistory: what it finds, of the recent history and of requests that answer, is
\* checked output by output and kept, ...
SearchHistory ==
  /\ scan.at = "history" /\ scan.found = {}
  /\ \E found \in SUBSET (Funding \cap Unspent) :
       scan' = IF found # {} THEN [scan EXCEPT !.found = found]
               ELSE [scan EXCEPT !.at = "pages", !.from = admitCursor]
  /\ UNCHANGED <<chain, row, admitCursor, swept>>
\* ... then admitted, which ends the cycle if it brings anything; otherwise, and when it fails, the
\* pages follow.
AdmitHistory ==
  /\ scan.at = "history" /\ scan.found # {}
  /\ \/ /\ News(scan.found) /\ Admits(scan.found) /\ admitCursor' = 0 /\ scan' = Rests
     \/ /\ scan' = [scan EXCEPT !.at = "pages", !.found = {}, !.from = admitCursor]
        /\ UNCHANGED <<row, admitCursor>>
  /\ UNCHANGED <<chain, swept>>

Position(o) == Cardinality({p \in Unspent : p < o})
PageFrom(from) == {o \in Unspent : Position(o) >= from /\ Position(o) < from + PageLimit}

SweepEnds(balance) == [balance |-> balance, aged |-> FALSE]
Rows      == PageFrom(scan.from)
FoundNow  == scan.found \cup Admittable(Rows)
ShortPage == Cardinality(Rows) < PageLimit
AtLastPage == ShortPage \/ scan.page + 1 = PagesPerCycle

\* scanUnspentForFunding: page after page, ...
NextPage ==
  /\ scan.at = "pages" /\ ~AtLastPage
  /\ scan' = [scan EXCEPT !.page = @ + 1, !.from = @ + PageLimit, !.found = FoundNow]
  /\ UNCHANGED <<chain, row, admitCursor, swept>>
\* ... until a short one ends the sweep, or the page budget the cycle's share of it.
LastPage ==
  /\ scan.at = "pages" /\ AtLastPage
  /\ admitCursor' = IF ShortPage THEN 0 ELSE scan.from + PageLimit
  /\ swept' = IF ShortPage THEN SweepEnds(scan.balance) ELSE swept
  /\ scan' = ScanAt("admits", 0, 0, FoundNow, 0)
  /\ UNCHANGED <<chain, row>>

AdmitFound ==
  /\ scan.at = "admits" /\ Admits(scan.found) /\ scan' = Rests
  /\ UNCHANGED <<chain, admitCursor, swept>>

\* Bitails fails, at whichever page, or the database: the cycle is over; its pages leave nothing
\* behind, and candidates that were not admitted are dropped.
CycleFails ==
  /\ scan.at = "admits" \/ (scan.at = "pages" /\ AtLastPage)
  /\ scan' = Rests
  /\ UNCHANGED <<chain, row, admitCursor, swept>>

NeverAges == FALSE
Ages      == ~swept.aged
SweepAges ==
  /\ Ages /\ swept' = [swept EXCEPT !.aged = TRUE]
  /\ UNCHANGED <<chain, row, admitCursor, scan>>

\* The scan state is in memory, and PM2 restarts the workers every half hour.
AdmitRestarts ==
  /\ admitCursor' = 0 /\ swept' = NotSwept /\ scan' = ScanAt("restarted", 0, 0, {}, 0)
  /\ UNCHANGED <<chain, row>>

----------------------------------------------------------------------------
\* An output is confirmed: one of the program's own has its row, one from outside has none.
Confirmed(o) ==
  /\ chain[o] = "absent" /\ \A p \in Outputs : p < o => chain[p] # "absent"
  /\ chain' = [chain EXCEPT ![o] = "unspent"]
  /\ row' \in {row, [row EXCEPT ![o] = "live"]}
  /\ UNCHANGED <<admitCursor, swept, scan>>
Spent(o) ==
  /\ chain[o] = "unspent" /\ chain' = [chain EXCEPT ![o] = "spent"]
  /\ UNCHANGED <<row, admitCursor, swept, scan>>
\* The row goes when its output is spent, or is archived in error, once.
RowRemoved(o) ==
  /\ row[o] = "live" \/ (row[o] = "revived" /\ chain[o] = "spent")
  /\ row' = [row EXCEPT ![o] = "removed"]
  /\ UNCHANGED <<chain, admitCursor, swept, scan>>

AdmitStep == CycleBegins \/ SearchHistory \/ AdmitHistory \/ NextPage \/ LastPage \/ AdmitFound
AdmitNext ==
  \/ AdmitStep \/ CycleFails \/ SweepAges \/ AdmitRestarts
  \/ \E o \in Outputs : Confirmed(o) \/ Spent(o) \/ RowRemoved(o)

AdmitSpec == AdmitInit /\ [][AdmitNext]_admitVars

----------------------------------------------------------------------------
\* Coins that stay unspent on chain come into the inventory in the end, though pages shift as
\* outputs before them are spent, a sweep takes several cycles, an admission fails after the cursor
\* has moved on, and a sweep that found nothing is not repeated at once. Two things are assumed:
\* rows of spent outputs do not hide the gap for good, and restarts, which lose the cursor, leave
\* time for a sweep. The second is optimistic: the code says of long lists that the restarts every
\* thirty minutes had kept paging from ever completing (wallet-funding-admit.ts:248-253).
FundingIsAdmitted ==
  \A o \in Funding :
    ~<>[](chain[o] = "unspent" /\ o \notin Live /\ Gap /\ scan.at # "restarted")
=============================================================================
