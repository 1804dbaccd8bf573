---------------------------- MODULE ReadingLedger ----------------------------
(***************************************************************************)
(* What the work queue promises of a reading it has filed, whatever its    *)
(* processes do: it is held by a claim on a waiting reading only, it leaves *)
(* the ledger when the network has it, or after it was parked, and it is   *)
(* parked when more than MaxRetries attempts to send it were made.         *)
(***************************************************************************)
EXTENDS Naturals

CONSTANTS Readings, MaxRetries

VARIABLES
  entry,      \* where each reading is in the ledger
  tries,      \* attempts to send it, up to MaxRetries + 1
  delivered   \* the readings that the network has

Entries == {"unfiled", "waiting", "held", "parked"}
Moves(S, place) == entry' = [i \in Readings |-> IF i \in S THEN place ELSE entry[i]]

Init ==
  /\ entry = [i \in Readings |-> "unfiled"]
  /\ tries = [i \in Readings |-> 0]
  /\ delivered = {}

File(i) ==
  /\ entry[i] = "unfiled"
  /\ Moves({i}, "waiting") /\ UNCHANGED <<tries, delivered>>

Hold(S) ==
  /\ \A i \in S : entry[i] = "waiting"
  /\ Moves(S, "held") /\ UNCHANGED <<tries, delivered>>

\* To be tried again; a retry that comes late takes back what has been parked meanwhile.
HandBack(S) ==
  /\ \A i \in S : entry[i] \in {"held", "parked"}
  /\ Moves(S, "waiting") /\ UNCHANGED <<tries, delivered>>

\* The network takes the reading, or does not.
Try(i) ==
  /\ tries' = [tries EXCEPT ![i] = IF @ > MaxRetries THEN @ ELSE @ + 1]
  /\ delivered' \in {delivered, delivered \cup {i}}
  /\ UNCHANGED entry

Settle(i) ==
  /\ i \in delivered
  /\ Moves({i}, "unfiled") /\ UNCHANGED <<tries, delivered>>

Park(i) ==
  /\ entry[i] \in {"waiting", "held"} /\ tries[i] > MaxRetries
  /\ Moves({i}, "parked") /\ UNCHANGED <<tries, delivered>>

AgeOut(i) ==
  /\ entry[i] = "parked"
  /\ Moves({i}, "unfiled") /\ UNCHANGED <<tries, delivered>>

Next ==
  \/ \E S \in SUBSET Readings : Hold(S) \/ HandBack(S)
  \/ \E i \in Readings : File(i) \/ Try(i) \/ Settle(i) \/ Park(i) \/ AgeOut(i)

Spec == Init /\ [][Next]_<<entry, tries, delivered>>

=============================================================================
