----------------------------- MODULE CoinLedger -----------------------------
(***************************************************************************)
(* What the shared inventory of spendable outputs promises, whatever its   *)
(* users do: an output is recorded once, held by one user at a time, may   *)
(* be handed back, and once it is retired it never comes back.             *)
(***************************************************************************)
CONSTANTS Coins, Funded

VARIABLE state

Fresh == {c \in Coins : state[c] = "unrecorded"}
Open  == {c \in Coins : state[c] \in {"free", "held"}}

Init == state = [c \in Coins |-> IF c \in Funded THEN "free" ELSE "unrecorded"]

Take(S) ==
  /\ \A c \in S : state[c] = "free"
  /\ state' = [c \in Coins |-> IF c \in S THEN "held" ELSE state[c]]

HandBack(S) ==
  /\ \A c \in S : state[c] = "held"
  /\ state' = [c \in Coins |-> IF c \in S THEN "free" ELSE state[c]]

\* Some outputs are retired and others are recorded, in one step.
Replace(S, T) ==
  /\ S \subseteq Open /\ T \subseteq Fresh
  /\ state' = [c \in Coins |-> IF c \in S THEN "retired"
                               ELSE IF c \in T THEN "free" ELSE state[c]]

Next ==
  \/ \E S \in SUBSET Coins : Take(S)
  \/ \E S \in SUBSET Coins : HandBack(S)
  \/ \E S, T \in SUBSET Coins : Replace(S, T)

Spec == Init /\ [][Next]_state

=============================================================================
