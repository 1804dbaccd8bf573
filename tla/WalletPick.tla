----------------------------- MODULE WalletPick -----------------------------
(* getFirstWalletWithSpendableUtxos (blockchain.ts): concurrent writes look for a funded wallet   *)
(* round-robin, over awaited acquisitions, sharing the round-robin index and the two maps that    *)
(* mask wallets: known to be empty for a minute, and backed off for a long mempool chain.         *)
EXTENDS Naturals

CONSTANTS
  Picks,        \* writes that look for a wallet at the same time
  WalletCount,  \* wifsForSend.length
  Funds,        \* what wallets may hold: for each pass, the largest row it may take
  Busy          \* wallets whose chains of unconfirmed transactions may grow too long

Sizes  == {"small", "large"}
Passes == {"confirmed", "any"}
Levels == [Passes -> Sizes \cup {"none"}]
Broke  == [pass \in Passes |-> "none"]
Wallets == 0..(WalletCount - 1)

ASSUME PickAssumption ==
  /\ WalletCount \in Nat \ {0} /\ Busy \subseteq Wallets
  /\ Funds \subseteq Levels /\ Broke \in Funds

VARIABLES
  funds,
  rrIndex,
  emptyUntil, \* walletEmptyUntil: wallets whose minute has not passed
  chained,    \* wallets backed off after MEMPOOL_CHAIN_LIMIT (utxo-maintainer.ts)
  pick        \* how far a write has come

pickVars == <<funds, rrIndex, emptyUntil, chained, pick>>

NotPicking == [doing |-> "none", need |-> "small", pass |-> "confirmed", i |-> 0, wallet |-> 0]

PickTypeOK ==
  /\ funds \in [Wallets -> Funds] /\ rrIndex \in Wallets
  /\ emptyUntil \subseteq Wallets /\ chained \subseteq Wallets
  /\ pick \in [Picks -> [doing : {"none", "starts", "acquires"}, need : Sizes,
                         pass : Passes, i : Wallets, wallet : Wallets]]

PickInit ==
  /\ funds = [w \in Wallets |-> Broke] /\ rrIndex = 0
  /\ emptyUntil = {} /\ chained = {}
  /\ pick = [p \in Picks |-> NotPicking]

Serves(w, need, pass) == funds[w][pass] \in {need, "large"}

StartPick(p) ==
  /\ pick[p].doing = "none"
  /\ \E size \in Sizes : pick' = [pick EXCEPT ![p] = [NotPicking EXCEPT !.doing = "starts", !.need = size]]
  /\ UNCHANGED <<funds, rrIndex, emptyUntil, chained>>

\* Up to the next acquisition nothing is awaited: masked wallets are passed over, a second pass
\* takes unconfirmed rows too, and after it the write gives up. Turns are counted from the index
\* as it is now, which other writes have moved on.
Open(pass, from, masked) ==
  {[pass |-> pass, i |-> i] : i \in {j \in from..(WalletCount - 1) : (rrIndex + j) % WalletCount \notin masked}}
Scan(p, pass, from, empty) ==
  LET open(ps, f) == Open(ps, f, empty \cup chained)
      turns == IF open(pass, from) = {} /\ pass = "confirmed" THEN open("any", 0) ELSE open(pass, from)
      first == CHOOSE t \in turns : \A u \in turns : t.i <= u.i
  IN  pick' = [pick EXCEPT ![p] =
        IF turns = {} THEN NotPicking
        ELSE [doing |-> "acquires", need |-> pick[p].need, pass |-> first.pass, i |-> first.i,
              wallet |-> (rrIndex + first.i) % WalletCount]]

ScanWallets(p) ==
  /\ pick[p].doing = "starts" /\ Scan(p, "confirmed", 0, emptyUntil)
  /\ UNCHANGED <<funds, rrIndex, emptyUntil, chained>>

Acquired(p) ==
  LET q == pick[p]
  IN  /\ q.doing = "acquires" /\ Serves(q.wallet, q.need, q.pass)
      /\ rrIndex' = (q.wallet + 1) % WalletCount
      /\ emptyUntil' = emptyUntil \ {q.wallet}
      /\ pick' = [pick EXCEPT ![p] = NotPicking]
      /\ UNCHANGED <<funds, chained>>

\* Only the last pass takes a wallet for empty, for writes of every size.
FoundEmpty(p) ==
  LET q == pick[p]
      empty == IF q.pass = "any" THEN emptyUntil \cup {q.wallet} ELSE emptyUntil
  IN  /\ q.doing = "acquires" /\ ~Serves(q.wallet, q.need, q.pass)
      /\ emptyUntil' = empty /\ Scan(p, q.pass, q.i + 1, empty)
      /\ UNCHANGED <<funds, rrIndex, chained>>

\* The acquisition throws: the wallet is passed over.
AcquireFails(p) ==
  /\ pick[p].doing = "acquires" /\ Scan(p, pick[p].pass, pick[p].i + 1, emptyUntil)
  /\ UNCHANGED <<funds, rrIndex, emptyUntil, chained>>

NeverAgain(w) == FALSE
MinutePassed(w) == w \in emptyUntil
EmptyRunsOut(w) ==
  /\ MinutePassed(w) /\ emptyUntil' = emptyUntil \ {w}
  /\ UNCHANGED <<funds, rrIndex, chained, pick>>
ChainLimit(w) ==
  /\ w \in Busy \ chained /\ chained' = chained \cup {w}
  /\ UNCHANGED <<funds, rrIndex, emptyUntil, pick>>
ChainRunsOut(w) ==
  /\ w \in chained /\ chained' = chained \ {w}
  /\ UNCHANGED <<funds, rrIndex, emptyUntil, pick>>
FundsChange(w) ==
  /\ \E f \in Funds \ {funds[w]} : funds' = [funds EXCEPT ![w] = f]
  /\ UNCHANGED <<rrIndex, emptyUntil, chained, pick>>

Picking(p) == ScanWallets(p) \/ Acquired(p) \/ FoundEmpty(p) \/ AcquireFails(p)
WalletMoves(w) == EmptyRunsOut(w) \/ ChainLimit(w) \/ ChainRunsOut(w) \/ FundsChange(w)

PickNext ==
  \/ \E p \in Picks : StartPick(p) \/ Picking(p)
  \/ \E w \in Wallets : WalletMoves(w)

PickSpec == PickInit /\ [][PickNext]_pickVars

----------------------------------------------------------------------------
\* Funds are found: when some wallet keeps a row that is large enough for every write, writes that
\* go on looking get rows again and again. Overlapping scans move the index under each other, a
\* large write masks a wallet for the small ones, errors pass wallets over: nothing starves them all.
FundsAreFound ==
  \A w \in Wallets :
    []<>(\E p \in Picks : pick[p] # NotPicking) /\ <>[](funds[w]["any"] = "large" /\ w \notin chained)
      => []<><<\E p \in Picks : Acquired(p)>>_pickVars
=============================================================================
