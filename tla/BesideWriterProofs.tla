------------------------- MODULE BesideWriterProofs -------------------------
(* Theorems about what stands beside the writer: WalletPick, SpendSource, BroadcastChannels,      *)
(* FundingAdmit and UtxoListing, for any number of calls, wallets, outputs and callers.           *)
EXTENDS WalletPick, SpendSource, BroadcastChannels, FundingAdmit, UtxoListing, NumberLemmas

----------------------------------------------------------------------------
(* WalletPick: types.                                                                             *)

PickRecord == [doing : {"none", "starts", "acquires"}, need : Sizes,
               pass : Passes, i : Wallets, wallet : Wallets]

LEMMA WalletsAre ==
  /\ 0 \in Wallets /\ Wallets \in SUBSET Nat /\ WalletCount \in Nat \ {0}
  /\ \A w \in Wallets : w \in Nat /\ w + 1 \in Nat
  /\ \A n \in Nat : n % WalletCount \in Wallets
<1>1. WalletCount \in Nat \ {0} BY PickAssumption DEF PickAssumption
<1>2. ASSUME NEW n \in Nat PROVE n % WalletCount \in Wallets
  BY <1>1, RemainderRange DEF Wallets
<1> QED BY <1>1, <1>2 DEF Wallets

LEMMA NotPickingIs == NotPicking \in PickRecord
BY WalletsAre DEF NotPicking, PickRecord, Sizes, Passes

LEMMA PickTypeInit == PickInit => PickTypeOK
<1> SUFFICES ASSUME PickInit PROVE PickTypeOK OBVIOUS
<1>1. funds \in [Wallets -> Funds] BY PickAssumption DEF PickInit, PickAssumption
<1>2. pick \in [Picks -> PickRecord] BY NotPickingIs DEF PickInit
<1>3. rrIndex \in Wallets BY WalletsAre DEF PickInit
<1> QED BY <1>1, <1>2, <1>3 DEF PickInit, PickTypeOK, PickRecord

LEMMA PickIs ==
  ASSUME PickTypeOK, NEW p \in Picks
  PROVE  /\ pick[p] \in PickRecord /\ pick \in [Picks -> PickRecord]
         /\ pick[p].need \in Sizes /\ pick[p].pass \in Passes
         /\ pick[p].i \in Wallets /\ pick[p].wallet \in Wallets
BY DEF PickTypeOK, PickRecord

\* A scan comes to the first of the turns that are open, or gives up.
LEMMA ScanType ==
  ASSUME PickTypeOK, NEW p \in Picks, NEW pass \in Passes, NEW from \in Nat, NEW empty,
         Scan(p, pass, from, empty)
  PROVE  pick' \in [Picks -> PickRecord]
<1> DEFINE open(ps, f) == Open(ps, f, empty \cup chained)
           turns == IF open(pass, from) = {} /\ pass = "confirmed" THEN open("any", 0) ELSE open(pass, from)
           first == CHOOSE t \in turns : \A u \in turns : t.i <= u.i
<1>1. turns \subseteq [pass : Passes, i : Wallets]
  <2>1. ASSUME NEW ps \in Passes, NEW f \in Nat PROVE open(ps, f) \subseteq [pass : Passes, i : Wallets]
    BY WalletsAre DEF Open, Wallets
  <2>2. open("any", 0) \subseteq [pass : Passes, i : Wallets] BY <2>1 DEF Passes
  <2>3. open(pass, from) \subseteq [pass : Passes, i : Wallets] BY <2>1
  <2> HIDE DEF open
  <2> QED BY <2>2, <2>3
<1>2. pick' = [pick EXCEPT ![p] =
        IF turns = {} THEN NotPicking
        ELSE [doing |-> "acquires", need |-> pick[p].need, pass |-> first.pass, i |-> first.i,
              wallet |-> (rrIndex + first.i) % WalletCount]]
  BY DEF Scan
<1>3. ASSUME turns # {} PROVE first \in turns
  <2> DEFINE I == {t.i : t \in turns}
  <2> HIDE DEF turns
  <2>1. I \in SUBSET Nat BY <1>1, WalletsAre
  <2>2. I # {} BY <1>3
  <2>3. PICK n \in I : \A m \in I : n <= m
    <3> HIDE DEF I
    <3> QED BY <2>1, <2>2, HasLeast
  <2>4. PICK t \in turns : t.i = n BY <2>3
  <2>5. \A u \in turns : t.i <= u.i BY <2>3, <2>4
  <2> QED BY <2>5
<1> HIDE DEF turns, first
<1>4. CASE turns = {} BY <1>2, <1>4, NotPickingIs DEF PickTypeOK, PickRecord
<1>5. CASE turns # {}
  <2>1. first.pass \in Passes /\ first.i \in Wallets BY <1>1, <1>3, <1>5
  <2>2. rrIndex + first.i \in Nat
    <3>1. rrIndex \in Wallets BY DEF PickTypeOK
    <3>2. rrIndex \in Nat /\ first.i \in Nat BY <2>1, <3>1, WalletsAre
    <3> QED BY <3>2
  <2>3. (rrIndex + first.i) % WalletCount \in Wallets BY <2>2, WalletsAre
  <2>4. [doing |-> "acquires", need |-> pick[p].need, pass |-> first.pass, i |-> first.i,
         wallet |-> (rrIndex + first.i) % WalletCount] \in PickRecord
    BY <2>1, <2>3, PickIs DEF PickRecord
  <2>5. pick \in [Picks -> PickRecord] BY PickIs
  <2> QED BY <1>2, <1>5, <2>4, <2>5
<1> QED BY <1>4, <1>5

LEMMA PickingType ==
  ASSUME PickTypeOK, NEW p \in Picks, Picking(p)
  PROVE  PickTypeOK'
<1>1. pick[p].i + 1 \in Nat /\ pick[p].pass \in Passes /\ pick[p].wallet \in Wallets
  BY PickIs, WalletsAre, Zenon
<1>2. CASE ScanWallets(p)
  <2>1. "confirmed" \in Passes BY DEF Passes
  <2>2. pick' \in [Picks -> PickRecord] BY <1>2, <2>1, ScanType DEF ScanWallets
  <2> QED BY <1>2, <2>2 DEF ScanWallets, PickTypeOK, PickRecord
<1>3. CASE Acquired(p)
  <2>1. pick' \in [Picks -> PickRecord] BY <1>3, PickIs, NotPickingIs DEF Acquired
  <2>2. (pick[p].wallet + 1) % WalletCount \in Wallets
    <3>1. pick[p].wallet + 1 \in Nat BY <1>1, WalletsAre, Zenon
    <3> QED BY <3>1, WalletsAre, Zenon
  <2>3. rrIndex' \in Wallets BY <1>3, <2>2 DEF Acquired
  <2> QED BY <1>3, <2>1, <2>3 DEF Acquired, PickTypeOK, PickRecord
<1>4. CASE FoundEmpty(p)
  <2> DEFINE empty == IF pick[p].pass = "any" THEN emptyUntil \cup {pick[p].wallet} ELSE emptyUntil
  <2>1. Scan(p, pick[p].pass, pick[p].i + 1, empty) /\ emptyUntil' = empty
    BY <1>4 DEF FoundEmpty
  <2>2. empty \subseteq Wallets BY <1>1 DEF PickTypeOK
  <2> HIDE DEF empty
  <2>3. pick' \in [Picks -> PickRecord] BY <1>1, <2>1, ScanType
  <2> QED BY <1>4, <2>1, <2>2, <2>3 DEF FoundEmpty, PickTypeOK, PickRecord
<1>5. CASE AcquireFails(p)
  <2>1. pick' \in [Picks -> PickRecord] BY <1>1, <1>5, ScanType DEF AcquireFails
  <2> QED BY <1>5, <2>1 DEF AcquireFails, PickTypeOK, PickRecord
<1> QED BY <1>2, <1>3, <1>4, <1>5 DEF Picking

LEMMA PickTypeStep == PickTypeOK /\ [PickNext]_pickVars => PickTypeOK'
<1> SUFFICES ASSUME PickTypeOK, [PickNext]_pickVars PROVE PickTypeOK' OBVIOUS
<1>1. ASSUME NEW p \in Picks, StartPick(p) PROVE PickTypeOK'
  <2>1. PICK size \in Sizes :
          pick' = [pick EXCEPT ![p] = [NotPicking EXCEPT !.doing = "starts", !.need = size]]
    BY <1>1 DEF StartPick
  <2>2. [NotPicking EXCEPT !.doing = "starts", !.need = size] \in PickRecord
    BY NotPickingIs DEF PickRecord
  <2>3. pick' \in [Picks -> PickRecord] BY <2>1, <2>2, PickIs
  <2> QED BY <1>1, <2>3 DEF StartPick, PickTypeOK, PickRecord
<1>2. ASSUME NEW w \in Wallets, WalletMoves(w) PROVE PickTypeOK'
  <2>1. funds' \in [Wallets -> Funds]
    BY <1>2 DEF WalletMoves, EmptyRunsOut, ChainLimit, ChainRunsOut, FundsChange, PickTypeOK
  <2>2. emptyUntil' \subseteq Wallets /\ chained' \subseteq Wallets
    BY <1>2 DEF WalletMoves, EmptyRunsOut, ChainLimit, ChainRunsOut, FundsChange, PickTypeOK
  <2>3. UNCHANGED <<rrIndex, pick>>
    BY <1>2 DEF WalletMoves, EmptyRunsOut, ChainLimit, ChainRunsOut, FundsChange
  <2> QED BY <2>1, <2>2, <2>3 DEF PickTypeOK
<1>3. CASE UNCHANGED pickVars BY <1>3 DEF pickVars, PickTypeOK
<1> QED BY <1>1, <1>2, <1>3, PickingType DEF PickNext

\* The index and the wallets that writes have come to are wallets, whoever moves the index on.
THEOREM PickTypeCorrect == PickSpec => []PickTypeOK
BY PickTypeInit, PickTypeStep, PTL DEF PickSpec

----------------------------------------------------------------------------
(* Each failed post moves its counter by one, or by two for a listing within a count, and a       *)
(* success clears it: the counter and the failed posts stay within a factor of each other. Their  *)
(* lower bound is what keeps the history within its range.                                        *)

CountersFollow ==
  /\ failures["submit"] = failed["submit"]
  /\ failed["lookup"] <= failures["lookup"] /\ failures["lookup"] <= 2 * failed["lookup"]

SourceInv == SourceTypeOK /\ CountersFollow

LEMMA CountersAreNumbers ==
  ASSUME SourceInv
  PROVE  /\ failures \in [Kinds -> 0..FailureThreshold - 1] /\ failed \in [Kinds -> 0..FailureThreshold]
         /\ failures["lookup"] \in 0..FailureThreshold - 1 /\ failures["submit"] \in 0..FailureThreshold - 1
         /\ failed["lookup"] \in 0..FailureThreshold /\ failed["submit"] \in 0..FailureThreshold
         /\ 0 \in 0..FailureThreshold - 1 /\ 0 \in 0..FailureThreshold
<1>1. failures \in [Kinds -> 0..FailureThreshold - 1] /\ failed \in [Kinds -> 0..FailureThreshold]
  BY DEF SourceInv, SourceTypeOK
<1>2. "lookup" \in Kinds /\ "submit" \in Kinds BY DEF Kinds
<1>3. 0 \in 0..FailureThreshold - 1 /\ 0 \in 0..FailureThreshold
  BY SpendSourceAssumption DEF SpendSourceAssumption
<1> QED BY <1>1, <1>2, <1>3

LEMMA SourceInitInv == SourceInit => SourceInv
BY SpendSourceAssumption DEF SourceInit, SourceInv, SourceTypeOK, CountersFollow, Kinds, SpendSourceAssumption

LEMMA SucceededInv ==
  ASSUME SourceInv, NEW kind \in Kinds, Succeeded(kind)
  PROVE  /\ failures' \in [Kinds -> 0..FailureThreshold - 1]
         /\ failed' \in [Kinds -> 0..FailureThreshold]
         /\ CountersFollow'
<1> USE CountersAreNumbers, SpendSourceAssumption DEF SpendSourceAssumption
<1>1. failures' = [failures EXCEPT ![kind] = 0] /\ failed' = [failed EXCEPT ![kind] = 0]
  BY DEF Succeeded, RegisterSuccess
<1>2. kind = "lookup" \/ kind = "submit" BY DEF Kinds
<1>3. failures' \in [Kinds -> 0..FailureThreshold - 1] /\ failed' \in [Kinds -> 0..FailureThreshold]
  BY <1>1
<1>4. CountersFollow' BY <1>1, <1>2 DEF CountersFollow, SourceInv, Kinds
<1> QED BY <1>3, <1>4

LEMMA FailureInv ==
  ASSUME SourceInv, NEW kind \in Kinds, NEW n \in {1, 2}, n = 2 => kind = "lookup",
         RegisterFailure(kind, n)
  PROVE  /\ failures' \in [Kinds -> 0..FailureThreshold - 1]
         /\ failed' \in [Kinds -> 0..FailureThreshold]
         /\ fallback' \in {"over", "set", "waning"}
         /\ CountersFollow'
<1> USE CountersAreNumbers, SpendSourceAssumption DEF SpendSourceAssumption
<1>0. kind = "lookup" \/ kind = "submit" BY DEF Kinds
<1>1. CASE failures[kind] + n >= FailureThreshold
  <2>1. (failures[kind] + n) % FailureThreshold \in 0..(FailureThreshold - 1)
    <3>1. failures[kind] + n \in Nat BY <1>0
    <3> QED BY <3>1, RemainderRange
  <2>2. /\ failures' = [k \in Kinds |-> IF k = kind THEN (failures[k] + n) % FailureThreshold ELSE 0]
        /\ failed' = [k \in Kinds |-> failures'[k]] /\ fallback' = "set"
    BY <1>1 DEF RegisterFailure
  <2>3. failures' \in [Kinds -> 0..FailureThreshold - 1] BY <2>1, <2>2
  <2>4. \A k \in Kinds : failed'[k] = failures'[k] BY <2>2
  <2>5. CountersFollow'
    <3>1. "lookup" \in Kinds /\ "submit" \in Kinds BY DEF Kinds
    <3>2. failures'["lookup"] \in 0..FailureThreshold - 1 BY <2>3, <3>1
    <3> QED BY <2>4, <3>1, <3>2 DEF CountersFollow
  <2>6. failed' \in [Kinds -> 0..FailureThreshold] BY <2>2, <2>3
  <2> QED BY <2>2, <2>3, <2>5, <2>6
<1>2. CASE ~(failures[kind] + n >= FailureThreshold)
  <2>1. /\ failures' = [failures EXCEPT ![kind] = @ + n] /\ failed' = [failed EXCEPT ![kind] = @ + 1]
        /\ fallback' = fallback
    BY <1>2 DEF RegisterFailure
  <2>2. failed[kind] <= failures[kind] BY <1>0 DEF SourceInv, CountersFollow
  <2>3. failures' \in [Kinds -> 0..FailureThreshold - 1] BY <1>0, <1>2, <2>1
  <2>4. failed' \in [Kinds -> 0..FailureThreshold] BY <1>0, <1>2, <2>1, <2>2
  <2>5. CountersFollow' BY <1>0, <2>1 DEF CountersFollow, SourceInv, Kinds
  <2>6. fallback' \in {"over", "set", "waning"} BY <2>1 DEF SourceInv, SourceTypeOK
  <2> QED BY <2>3, <2>4, <2>5, <2>6
<1> QED BY <1>1, <1>2

LEMMA SourceStepInv == SourceInv /\ [SourceNext]_sourceVars => SourceInv'
<1> SUFFICES ASSUME SourceInv, [SourceNext]_sourceVars PROVE SourceInv' OBVIOUS
<1> USE DEF SourceTypeOK, CountersFollow
<1>1. ASSUME NEW u \in Uses, StartRead(u) \/ StartSubmit(u) PROVE SourceInv'
  BY <1>1 DEF StartRead, StartSubmit, SourceInv
<1>2. ASSUME NEW u \in Uses, UseEnds(u) PROVE SourceInv'
  <2>1. overlayUp' = overlayUp
    BY <1>2 DEF UseEnds, CountWithoutTotal, ReadAnswered, ReadFails, SubmitAccepted, SubmitNotAccepted
  <2>2. use' \in [Uses -> {"none", "count", "counted by list", "list", "submit"}]
    BY <1>2 DEF UseEnds, CountWithoutTotal, ReadAnswered, ReadFails, SubmitAccepted, SubmitNotAccepted,
       Done, SourceInv
  <2>3. CASE \E kind \in Kinds : Succeeded(kind)
    <3>1. fallback' = fallback BY <2>3 DEF Succeeded
    <3> QED BY <2>1, <2>2, <2>3, <3>1, SucceededInv DEF SourceInv
  <2>4. CASE \E kind \in Kinds, n \in {1, 2} : (n = 2 => kind = "lookup") /\ RegisterFailure(kind, n)
    BY <2>1, <2>2, <2>4, FailureInv DEF SourceInv
  <2>5. CASE ReadFails(u)
    <3>1. RegisterFailure("lookup", 1) \/ RegisterFailure("lookup", 2) BY <2>5 DEF ReadFails
    <3> QED BY <2>4, <3>1 DEF Kinds
  <2>6. SubmitNotAccepted(u) => RegisterFailure("submit", 1) BY DEF SubmitNotAccepted
  <2>7. CountWithoutTotal(u) \/ ReadAnswered(u) => Succeeded("lookup")
    BY DEF CountWithoutTotal, ReadAnswered
  <2>8. SubmitAccepted(u) => Succeeded("submit") BY DEF SubmitAccepted
  <2> QED BY <1>2, <2>3, <2>4, <2>5, <2>6, <2>7, <2>8 DEF UseEnds, Kinds
<1>3. CASE CooldownPasses BY <1>3 DEF CooldownPasses, SourceInv
<1>4. CASE OverlayChanges BY <1>4 DEF OverlayChanges, SourceInv
<1>5. CASE UNCHANGED sourceVars BY <1>5 DEF sourceVars, SourceInv
<1> QED BY <1>1, <1>2, <1>3, <1>4, <1>5 DEF SourceNext

\* The counters stay below the threshold, also when a double count steps over it.
THEOREM SourceTypeCorrect == SourceSpec => []SourceTypeOK
BY SourceInitInv, SourceStepInv, PTL DEF SourceSpec, SourceInv

\* However the answers of overlapping calls and of shadow reads are ordered, a fallback follows
\* failed posts of its kind, half as many as the threshold at least, with no success in between.
THEOREM NoUnearnedFallback == SourceSpec => []FallbackIsEarned
<1>1. SourceInv => FallbackIsEarned
  BY CountersAreNumbers DEF SourceInv, CountersFollow, FallbackIsEarned
<1> QED BY <1>1, SourceInitInv, SourceStepInv, PTL DEF SourceSpec

----------------------------------------------------------------------------
(* BroadcastChannels: types.                                                                      *)

LEMMA ChannelsTypeInit == ChannelsInit => ChannelsTypeOK
BY DEF ChannelsInit, ChannelsTypeOK

LEMMA TurnIs ==
  ASSUME NEW ch \in Channels \cup {"none"}, NEW doing \in {"comes", "waits", "waits again"}
  PROVE  Turn(ch, doing) \in Turns \cup {NoCall}
BY DEF Turn, Turns, NoCall

LEMMA FollowingIs == ASSUME NEW ch \in Channels PROVE Following(ch) \in Channels \cup {"none"}
BY DEF Following, Channels, Arcs

LEMMA TurnsToIs ==
  ASSUME ChannelsTypeOK, NEW c \in Calls, NEW turn \in Turns \cup {NoCall}, TurnsTo(c, turn),
         healthy' = healthy, backedOff' \subseteq Channels
  PROVE  ChannelsTypeOK'
BY DEF ChannelsTypeOK, TurnsTo

LEMMA FallsThroughIs ==
  ASSUME ChannelsTypeOK, NEW c \in Calls, NEW ch \in Channels, FallsThrough(c, ch),
         healthy' = healthy, backedOff' \subseteq Channels
  PROVE  ChannelsTypeOK'
<1>1. Turn(Following(ch), "comes") \in Turns \cup {NoCall} BY FollowingIs, TurnIs
<1> QED BY <1>1, TurnsToIs DEF FallsThrough

LEMMA ChannelTurnType ==
  ASSUME ChannelsTypeOK, NEW c \in Calls, NEW ch \in Channels, ChannelTurn(c, ch) \/ RetriesRaw(c, ch)
  PROVE  ChannelsTypeOK'
<1>1. backedOff \subseteq Channels BY DEF ChannelsTypeOK
<1>2. CASE Skip(c, ch) BY <1>1, <1>2, FallsThroughIs DEF Skip
<1>3. CASE Ask(c, ch)
  <2>1. Turn(ch, "waits") \in Turns \cup {NoCall} BY TurnIs
  <2> QED BY <1>1, <1>3, <2>1, TurnsToIs DEF Ask
<1>4. CASE Accepts(c, ch) BY <1>1, <1>4, TurnsToIs DEF Accepts
<1>5. CASE Rejects(c, ch) BY <1>1, <1>5, FallsThroughIs DEF Rejects
<1>6. CASE Fails(c, ch)
  <2>1. backedOff' \subseteq Channels BY <1>1, <1>6 DEF Fails
  <2> QED BY <1>6, <2>1, FallsThroughIs DEF Fails
<1>7. CASE RetriesRaw(c, ch)
  <2>1. backedOff' \subseteq Channels BY <1>1, <1>7 DEF RetriesRaw
  <2>2. Turn(ch, "waits again") \in Turns \cup {NoCall} BY TurnIs
  <2> QED BY <1>7, <2>1, <2>2, TurnsToIs DEF RetriesRaw
<1> QED BY <1>2, <1>3, <1>4, <1>5, <1>6, <1>7 DEF ChannelTurn

LEMMA ChannelsTypeStep == ChannelsTypeOK /\ [ChannelsNext]_channelVars => ChannelsTypeOK'
<1> SUFFICES ASSUME ChannelsTypeOK, [ChannelsNext]_channelVars PROVE ChannelsTypeOK' OBVIOUS
<1>1. ASSUME NEW c \in Calls, BroadcastTransaction(c) PROVE ChannelsTypeOK'
  <2>1. Turn("taal_arc", "comes") \in Turns \cup {NoCall} BY TurnIs DEF Channels, Arcs
  <2>2. backedOff' \subseteq Channels BY <1>1 DEF BroadcastTransaction, ChannelsTypeOK
  <2> QED BY <1>1, <2>1, <2>2, TurnsToIs DEF BroadcastTransaction
<1>2. ASSUME NEW c \in Calls, BroadcastStep(c) PROVE ChannelsTypeOK'
  BY <1>2, ChannelTurnType
     DEF BroadcastStep, TaalTurn, GorillaPoolTurn, WhatsOnChainTurn, Channels, Arcs
<1>3. ASSUME NEW ch \in Channels, BackoffEnds(ch) \/ ChannelChanges(ch) PROVE ChannelsTypeOK'
  BY <1>3 DEF BackoffEnds, ChannelChanges, ChannelsTypeOK
<1>4. CASE ConfirmationCheckFails
  BY <1>4 DEF ConfirmationCheckFails, ChannelsTypeOK, Channels
<1>5. CASE UNCHANGED channelVars BY <1>5 DEF channelVars, ChannelsTypeOK
<1> QED BY <1>1, <1>2, <1>3, <1>4, <1>5 DEF ChannelsNext

\* A call is at one of the three channels or over: falling through never leads past the last.
THEOREM ChannelsTypeCorrect == ChannelsSpec => []ChannelsTypeOK
BY ChannelsTypeInit, ChannelsTypeStep, PTL DEF ChannelsSpec

----------------------------------------------------------------------------
(* FundingAdmit: types. What is left of the list behind a page is counted by its outputs' places. *)

ScanPlaces == {"timer", "history", "pages", "admits", "restarted"}
Balances   == 0..SumOf(Outputs)
ScanRecord == [at : ScanPlaces, page : 0..(PagesPerCycle - 1), from : 0..OutputCount,
               found : SUBSET Funding, balance : Balances]
SweptRecord == [balance : Balances, aged : BOOLEAN]

LEMMA OutputsAre ==
  /\ OutputCount \in Nat \ {0} /\ PageLimit \in Nat \ {0} /\ PagesPerCycle \in Nat \ {0}
  /\ Outputs \in SUBSET Nat /\ IsFiniteSet(Outputs) /\ Cardinality(Outputs) = OutputCount
  /\ 0 \in 0..OutputCount /\ 0 \in 0..(PagesPerCycle - 1)
<1>1. OutputCount \in Nat \ {0} /\ PageLimit \in Nat \ {0} /\ PagesPerCycle \in Nat \ {0}
  BY AdmitAssumption DEF AdmitAssumption
<1>2. Outputs \in SUBSET Nat BY <1>1 DEF Outputs
<1>3. IsFiniteSet(Outputs) /\ Cardinality(Outputs) = OutputCount BY <1>1, FS_Interval DEF Outputs
<1> QED BY <1>1, <1>2, <1>3

\* No part of the outputs is worth more than all of them.
LEMMA SumGrows ==
  ASSUME NEW S \in SUBSET Outputs
  PROVE  SumOf(S) \in Balances
<1> DEFINE A == Admittable(S)
           B == Admittable(Outputs)
<1>1. IsFiniteSet(Outputs) BY OutputsAre
<1>2. IsFiniteSet(S) /\ Cardinality(S) <= Cardinality(Outputs) BY <1>1, FS_Subset
<1>3. A \in SUBSET B /\ B \in SUBSET Outputs BY DEF Admittable
<1> HIDE DEF A, B
<1>4. IsFiniteSet(B) BY <1>1, <1>3, FS_Subset
<1>5. IsFiniteSet(A) /\ Cardinality(A) <= Cardinality(B) BY <1>3, <1>4, FS_Subset
<1>6. /\ Cardinality(S) \in Nat /\ Cardinality(Outputs) \in Nat
      /\ Cardinality(A) \in Nat /\ Cardinality(B) \in Nat
  BY <1>1, <1>2, <1>4, <1>5, FS_CardinalityType
<1>7. SumOf(S) = Cardinality(S) + Cardinality(A) /\ SumOf(Outputs) = Cardinality(Outputs) + Cardinality(B)
  BY <1>6 DEF SumOf, MinSats, A, B
<1> QED BY <1>2, <1>5, <1>6, <1>7 DEF Balances

LEMMA BalancesAre ==
  /\ 0 \in Balances /\ SumOf(Unspent) \in Balances /\ Unspent \in SUBSET Outputs
<1>1. Unspent \in SUBSET Outputs BY DEF Unspent
<1>2. SumOf(Outputs) \in Balances BY SumGrows
<1> QED BY <1>1, <1>2, SumGrows DEF Balances

LEMMA ScanIs ==
  ASSUME NEW at \in ScanPlaces, NEW page \in 0..(PagesPerCycle - 1), NEW from \in 0..OutputCount,
         NEW found \in SUBSET Funding, NEW balance \in Balances
  PROVE  ScanAt(at, page, from, found, balance) \in ScanRecord
BY DEF ScanAt, ScanRecord

LEMMA RestsIs == Rests \in ScanRecord /\ ScanAt("restarted", 0, 0, {}, 0) \in ScanRecord
BY OutputsAre, BalancesAre, ScanIs DEF Rests, ScanPlaces

LEMMA NotSweptIs == NotSwept \in SweptRecord
BY BalancesAre DEF NotSwept, SweptRecord

LEMMA AdmitParts ==
  AdmitTypeOK <=>
    /\ chain \in [Outputs -> {"absent", "unspent", "spent"}]
    /\ row \in [Outputs -> {"none", "live", "removed", "revived"}]
    /\ admitCursor \in 0..OutputCount /\ swept \in SweptRecord /\ scan \in ScanRecord
BY DEF AdmitTypeOK, SweptRecord, ScanRecord, ScanPlaces, Balances

LEMMA AdmitTypeInit == AdmitInit => AdmitTypeOK
<1> SUFFICES ASSUME AdmitInit PROVE AdmitTypeOK OBVIOUS
<1>1. scan \in ScanRecord /\ swept \in SweptRecord BY RestsIs, NotSweptIs DEF AdmitInit
<1>2. admitCursor \in 0..OutputCount BY OutputsAre DEF AdmitInit
<1> QED BY <1>1, <1>2, AdmitParts DEF AdmitInit

LEMMA AdmitsIs ==
  ASSUME AdmitTypeOK, NEW found, Admits(found)
  PROVE  row' \in [Outputs -> {"none", "live", "removed", "revived"}]
BY DEF Admits, AdmitTypeOK

\* A full page ends within the list, so the next one does not start behind it.
LEMMA FullPageWithin ==
  ASSUME AdmitTypeOK, ~ShortPage
  PROVE  scan.from + PageLimit \in 0..OutputCount
<1>1. scan \in ScanRecord BY AdmitParts
<1>2. scan.from \in Nat BY <1>1, OutputsAre DEF ScanRecord
<1>3. IsFiniteSet(Unspent) /\ Unspent \in SUBSET Nat /\ Cardinality(Unspent) <= OutputCount
  BY OutputsAre, BalancesAre, FS_Subset
<1>4. Rows = {o \in Unspent : Rank(Unspent, o) >= scan.from /\ Rank(Unspent, o) < scan.from + PageLimit}
  BY DEF Rows, PageFrom, Position, Rank
<1>5. Rows \in SUBSET Unspent /\ \A o \in Rows : Rank(Unspent, o) >= scan.from BY <1>4
<1>6. IsFiniteSet(Rows) /\ Cardinality(Rows) \in Nat
  BY <1>3, <1>5, FS_Subset, FS_CardinalityType
<1>7. Cardinality(Rows) >= PageLimit BY <1>6, OutputsAre DEF ShortPage
<1>8. Rows # {}
  <2>1. Cardinality(Rows) # 0 BY <1>6, <1>7, OutputsAre
  <2> QED BY <1>6, <2>1, FS_EmptySet
<1>9. scan.from + Cardinality(Rows) <= Cardinality(Unspent)
  BY <1>2, <1>3, <1>5, <1>8, PageWithin
<1>10. Cardinality(Unspent) \in Nat BY <1>3, FS_CardinalityType
<1> QED BY <1>2, <1>3, <1>6, <1>7, <1>9, <1>10, OutputsAre

LEMMA FoundIs == ASSUME AdmitTypeOK PROVE FoundNow \in SUBSET Funding
<1>1. scan.found \in SUBSET Funding BY AdmitParts DEF ScanRecord
<1> QED BY <1>1 DEF FoundNow, Admittable

LEMMA CycleBeginsType == ASSUME AdmitTypeOK, CycleBegins PROVE AdmitTypeOK'
<1>1. admitCursor' \in 0..OutputCount BY OutputsAre DEF CycleBegins, AdmitTypeOK
<1>2. ScanAt("history", 0, 0, {}, SumOf(Unspent)) \in ScanRecord
  BY OutputsAre, BalancesAre, ScanIs DEF ScanPlaces
<1>3. scan' \in ScanRecord BY <1>2, RestsIs DEF CycleBegins
<1> QED BY <1>1, <1>3, AdmitParts DEF CycleBegins, AdmitTypeOK, ScanRecord, ScanPlaces, Balances

LEMMA HistoryType == ASSUME AdmitTypeOK, SearchHistory \/ AdmitHistory PROVE AdmitTypeOK'
<1>1. scan \in ScanRecord /\ admitCursor \in 0..OutputCount BY AdmitParts
<1>2. CASE SearchHistory
  <2>1. PICK found \in SUBSET (Funding \cap Unspent) :
          scan' \in {[scan EXCEPT !.found = found], [scan EXCEPT !.at = "pages", !.from = admitCursor]}
    BY <1>2 DEF SearchHistory
  <2>2. scan' \in ScanRecord BY <1>1, <2>1 DEF ScanRecord, ScanPlaces
  <2> QED BY <1>2, <2>2 DEF SearchHistory, AdmitTypeOK, ScanRecord, ScanPlaces, Balances
<1>3. CASE AdmitHistory
  <2>1. scan' \in {Rests, [scan EXCEPT !.at = "pages", !.found = {}, !.from = admitCursor]}
    BY <1>3 DEF AdmitHistory
  <2>2. scan' \in ScanRecord BY <1>1, <2>1, RestsIs DEF ScanRecord, ScanPlaces
  <2>3. admitCursor' \in 0..OutputCount BY <1>1, <1>3, OutputsAre DEF AdmitHistory
  <2>4. row' \in [Outputs -> {"none", "live", "removed", "revived"}]
    <3>1. Admits(scan.found) \/ row' = row BY <1>3 DEF AdmitHistory
    <3> QED BY <3>1, AdmitsIs DEF AdmitTypeOK
  <2> QED BY <1>3, <2>2, <2>3, <2>4 DEF AdmitHistory, AdmitTypeOK, ScanRecord, ScanPlaces, Balances
<1> QED BY <1>2, <1>3

LEMMA PagesType == ASSUME AdmitTypeOK, NextPage \/ LastPage PROVE AdmitTypeOK'
<1>1. scan \in ScanRecord /\ swept \in SweptRecord /\ FoundNow \in SUBSET Funding BY AdmitParts, FoundIs
<1>2. CASE NextPage
  <2>1. scan' = [scan EXCEPT !.page = @ + 1, !.from = @ + PageLimit, !.found = FoundNow]
    BY <1>2 DEF NextPage
  <2>2. ~ShortPage /\ scan.page + 1 # PagesPerCycle BY <1>2 DEF NextPage, AtLastPage
  <2>3. scan.from + PageLimit \in 0..OutputCount BY <2>2, FullPageWithin
  <2>4. scan.page + 1 \in 0..(PagesPerCycle - 1)
    <3>1. scan.page \in 0..(PagesPerCycle - 1) BY <1>1 DEF ScanRecord
    <3> QED BY <2>2, <3>1, OutputsAre
  <2>5. scan' \in ScanRecord BY <1>1, <2>1, <2>3, <2>4 DEF ScanRecord
  <2> QED BY <1>2, <2>5 DEF NextPage, AdmitTypeOK, ScanRecord, ScanPlaces, Balances
<1>3. CASE LastPage
  <2>1. admitCursor' \in 0..OutputCount
    <3>1. admitCursor' = IF ShortPage THEN 0 ELSE scan.from + PageLimit BY <1>3 DEF LastPage
    <3>2. CASE ShortPage BY <3>1, <3>2, OutputsAre
    <3>3. CASE ~ShortPage BY <3>1, <3>3, FullPageWithin
    <3> QED BY <3>2, <3>3
  <2>2. swept' \in SweptRecord
    <3>1. swept' \in {swept, [balance |-> scan.balance, aged |-> FALSE]}
      BY <1>3 DEF LastPage, SweepEnds
    <3>2. scan.balance \in Balances BY <1>1 DEF ScanRecord
    <3>3. [balance |-> scan.balance, aged |-> FALSE] \in SweptRecord BY <3>2 DEF SweptRecord
    <3> QED BY <1>1, <3>1, <3>3
  <2>3. scan' \in ScanRecord
    <3>1. ScanAt("admits", 0, 0, FoundNow, 0) \in ScanRecord
      BY <1>1, OutputsAre, BalancesAre, ScanIs DEF ScanPlaces
    <3> QED BY <1>3, <3>1 DEF LastPage
  <2> QED BY <1>3, <2>1, <2>2, <2>3 DEF LastPage, AdmitTypeOK, ScanRecord, SweptRecord, ScanPlaces, Balances
<1> QED BY <1>2, <1>3

LEMMA AdmitTypeStep == AdmitTypeOK /\ [AdmitNext]_admitVars => AdmitTypeOK'
<1> SUFFICES ASSUME AdmitTypeOK, [AdmitNext]_admitVars PROVE AdmitTypeOK' OBVIOUS
<1> USE DEF ScanRecord, SweptRecord, ScanPlaces, Balances
<1>1. CASE AdmitFound
  <2>1. scan' \in ScanRecord BY <1>1, RestsIs DEF AdmitFound
  <2>2. row' \in [Outputs -> {"none", "live", "removed", "revived"}] BY <1>1, AdmitsIs DEF AdmitFound
  <2> QED BY <1>1, <2>1, <2>2 DEF AdmitFound, AdmitTypeOK
<1>2. CASE CycleFails
  <2>1. scan' \in ScanRecord BY <1>2, RestsIs DEF CycleFails
  <2> QED BY <1>2, <2>1 DEF CycleFails, AdmitTypeOK
<1>3. CASE SweepAges
  <2>1. swept' \in SweptRecord BY <1>3 DEF SweepAges, AdmitTypeOK
  <2> QED BY <1>3, <2>1 DEF SweepAges, AdmitTypeOK
<1>4. CASE AdmitRestarts
  <2>1. scan' \in ScanRecord /\ swept' \in SweptRecord /\ admitCursor' \in 0..OutputCount
    BY <1>4, RestsIs, NotSweptIs, OutputsAre DEF AdmitRestarts
  <2> QED BY <1>4, <2>1 DEF AdmitRestarts, AdmitTypeOK
<1>5. ASSUME NEW o \in Outputs, Confirmed(o) \/ Spent(o) \/ RowRemoved(o) PROVE AdmitTypeOK'
  BY <1>5 DEF Confirmed, Spent, RowRemoved, AdmitTypeOK
<1>6. CASE UNCHANGED admitVars BY <1>6 DEF admitVars, AdmitTypeOK
<1> QED BY <1>1, <1>2, <1>3, <1>4, <1>5, <1>6, CycleBeginsType, HistoryType, PagesType
    DEF AdmitNext, AdmitStep

\* The cursor never stands behind the end of the list, though the list shrinks between two pages,
\* and no balance exceeds what was ever sent to the wallet.
THEOREM AdmitTypeCorrect == AdmitSpec => []AdmitTypeOK
BY AdmitTypeInit, AdmitTypeStep, PTL DEF AdmitSpec

----------------------------------------------------------------------------
(* A listing is asked for once at a time, and whoever waits for it either made the call that is   *)
(* under way, with the option that call has, or shares it.                                        *)

WaitsForAFetch ==
  \A a \in Askers : answer[a].age = Waiting =>
    /\ fetching # "no"
    /\ fetching = "degraded" => answer[a].degraded \/ answer[a].shared

ListingInv == ListingTypeOK /\ WaitsForAFetch /\ ListingIsRecent

AnswerRecord == [degraded : BOOLEAN, shared : BOOLEAN, age : ListingAge \cup {Waiting}]

\* What the cache gives is in it, and no older than the caller's option allows.
LEMMA FromCacheIsRecent ==
  ASSUME ListingTypeOK, NEW degraded \in BOOLEAN
  PROVE  /\ FromCache(degraded) \in ListingAge
         /\ FromCache(degraded) \in 0..Oldest =>
              FromCache(degraded) <= IF degraded THEN 2 ELSE 1
BY DEF ListingTypeOK, FromCache, AllowedAge, ListingAge, Oldest, Empty

LEMMA ListingInitInv == ListingInit => ListingInv
<1> SUFFICES ASSUME ListingInit PROVE ListingInv OBVIOUS
<1>1. \A a \in Askers : answer[a].age = Empty BY DEF ListingInit, Answer
<1>2. ListingTypeOK BY DEF ListingInit, ListingTypeOK, Answer, ListingAge
<1>3. WaitsForAFetch /\ ListingIsRecent
  BY <1>1 DEF WaitsForAFetch, ListingIsRecent, Oldest, Empty, Waiting
<1> QED BY <1>2, <1>3 DEF ListingInv

\* One caller gets an answer that its option allows, or starts to wait.
LEMMA GetsInv ==
  ASSUME ListingInv, NEW a \in Askers, NEW given \in AnswerRecord,
         answer' = [answer EXCEPT ![a] = given],
         given.age \in 0..Oldest => given.age <= IF given.degraded \/ given.shared THEN 2 ELSE 1
  PROVE  /\ answer' \in [Askers -> AnswerRecord]
         /\ ListingIsRecent'
         /\ \A b \in Askers : answer'[b] = IF b = a THEN given ELSE answer[b]
<1>1. answer \in [Askers -> AnswerRecord] BY DEF ListingInv, ListingTypeOK, AnswerRecord
<1>2. \A b \in Askers : answer'[b] = IF b = a THEN given ELSE answer[b] BY <1>1
<1>3. answer' \in [Askers -> AnswerRecord] BY <1>1
<1>4. ListingIsRecent' BY <1>2 DEF ListingInv, ListingIsRecent
<1> QED BY <1>2, <1>3, <1>4

LEMMA AskListingInv ==
  ASSUME ListingInv, NEW a \in Askers, NEW degraded \in BOOLEAN, AskListing(a, degraded)
  PROVE  ListingInv'
<1>1. cached' = cached /\ cooling' = cooling /\ answer[a].age # Waiting BY DEF AskListing
<1>2. ListingTypeOK BY DEF ListingInv
<1>3. Waiting \notin 0..Oldest /\ Waiting \notin ListingAge /\ 0 \in ListingAge
  BY DEF Waiting, Oldest, Empty, ListingAge
<1>4. ASSUME answer' \in [Askers -> AnswerRecord], ListingIsRecent', WaitsForAFetch',
             fetching' \in {"no", "strict", "degraded"}
      PROVE  ListingInv'
  BY <1>1, <1>2, <1>4 DEF ListingInv, ListingTypeOK, AnswerRecord
<1>5. CASE fetching # "no" /\ Gets(a, degraded, TRUE, Waiting) /\ UNCHANGED fetching
  <2> DEFINE given == Answer(degraded, TRUE, Waiting)
  <2>1. given \in AnswerRecord BY DEF Answer, AnswerRecord
  <2>2. given.shared /\ given.age = Waiting BY DEF Answer
  <2>3. answer' = [answer EXCEPT ![a] = given] BY <1>5 DEF Gets
  <2> HIDE DEF given
  <2>4. /\ answer' \in [Askers -> AnswerRecord] /\ ListingIsRecent'
        /\ \A b \in Askers : answer'[b] = IF b = a THEN given ELSE answer[b]
    BY <1>3, <2>1, <2>2, <2>3, GetsInv
  <2>5. WaitsForAFetch' BY <1>5, <2>2, <2>4 DEF ListingInv, WaitsForAFetch
  <2> QED BY <1>2, <1>4, <1>5, <2>4, <2>5 DEF ListingTypeOK
<1>6. ASSUME NEW age \in ListingAge, Gets(a, degraded, FALSE, age), UNCHANGED fetching,
             age \in 0..Oldest => age <= IF degraded THEN 2 ELSE 1
      PROVE  ListingInv'
  <2> DEFINE given == Answer(degraded, FALSE, age)
  <2>1. given \in AnswerRecord BY DEF Answer, AnswerRecord
  <2>2. given.degraded = degraded /\ given.age = age BY DEF Answer
  <2>3. answer' = [answer EXCEPT ![a] = given] BY <1>6 DEF Gets
  <2> HIDE DEF given
  <2>4. age \in 0..Oldest => age <= IF given.degraded \/ given.shared THEN 2 ELSE 1
    <3>1. CASE degraded
      <4>1. given.degraded BY <2>2, <3>1
      <4> QED BY <1>6, <3>1, <4>1
    <3>2. CASE ~degraded
      <4>1. age \in 0..Oldest => age <= 1 BY <1>6, <3>2
      <4>2. 1 <= IF given.degraded \/ given.shared THEN 2 ELSE 1 OBVIOUS
      <4> QED BY <4>1, <4>2 DEF Oldest
    <3> QED BY <3>1, <3>2
  <2>5. /\ answer' \in [Askers -> AnswerRecord] /\ ListingIsRecent'
        /\ \A b \in Askers : answer'[b] = IF b = a THEN given ELSE answer[b]
    BY <2>1, <2>2, <2>3, <2>4, GetsInv
  <2>6. WaitsForAFetch' BY <1>3, <1>6, <2>2, <2>5 DEF ListingInv, WaitsForAFetch
  <2> QED BY <1>2, <1>4, <1>6, <2>5, <2>6 DEF ListingTypeOK
<1>7. CASE fetching = "no" /\ cached = 0 /\ Gets(a, degraded, FALSE, 0) /\ UNCHANGED fetching
  <2>1. 0 <= IF degraded THEN 2 ELSE 1 OBVIOUS
  <2> QED BY <1>3, <1>6, <1>7, <2>1
<1>8. CASE /\ fetching = "no" /\ cached # 0 /\ cooling
           /\ Gets(a, degraded, FALSE, FromCache(degraded)) /\ UNCHANGED fetching
  BY <1>2, <1>6, <1>8, FromCacheIsRecent
\* The first to ask waits for its own call.
<1>9. CASE /\ fetching = "no" /\ cached # 0 /\ ~cooling
           /\ Gets(a, degraded, FALSE, Waiting)
           /\ fetching' = IF degraded THEN "degraded" ELSE "strict"
  <2> DEFINE given == Answer(degraded, FALSE, Waiting)
  <2>1. given \in AnswerRecord BY DEF Answer, AnswerRecord
  <2>2. given.degraded = degraded /\ given.age = Waiting BY DEF Answer
  <2>3. answer' = [answer EXCEPT ![a] = given] BY <1>9 DEF Gets
  <2> HIDE DEF given
  <2>4. /\ answer' \in [Askers -> AnswerRecord] /\ ListingIsRecent'
        /\ \A b \in Askers : answer'[b] = IF b = a THEN given ELSE answer[b]
    BY <1>3, <2>1, <2>2, <2>3, GetsInv
  <2>5. \A b \in Askers : answer[b].age # Waiting BY <1>9 DEF ListingInv, WaitsForAFetch
  <2>6. WaitsForAFetch' BY <1>9, <2>2, <2>4, <2>5 DEF WaitsForAFetch
  <2> QED BY <1>4, <1>9, <2>4, <2>6
<1> QED BY <1>5, <1>7, <1>8, <1>9 DEF AskListing

\* All who wait get the same listing: one that is fresh, or one the cache gives on behalf of the
\* call under way.
LEMMA AllGetInv ==
  ASSUME ListingInv, NEW age \in ListingAge, AllGet(age), fetching' = "no",
         age \in 0..Oldest => age <= IF fetching = "degraded" THEN 2 ELSE 1
  PROVE  answer' \in [Askers -> AnswerRecord] /\ WaitsForAFetch' /\ ListingIsRecent'
<1> USE DEF Oldest, Empty, Waiting
<1>1. \A a \in Askers : answer[a] \in AnswerRecord BY DEF ListingInv, ListingTypeOK, AnswerRecord
<1>2. \A a \in Askers :
        answer'[a] = IF answer[a].age = Waiting THEN [answer[a] EXCEPT !.age = age] ELSE answer[a]
  BY DEF AllGet
<1>3. \A a \in Askers : /\ answer'[a] \in AnswerRecord
                        /\ answer'[a].degraded = answer[a].degraded
                        /\ answer'[a].shared = answer[a].shared
                        /\ answer'[a].age = IF answer[a].age = Waiting THEN age ELSE answer[a].age
  BY <1>1, <1>2 DEF AnswerRecord
<1>4. answer' \in [Askers -> AnswerRecord] BY <1>3 DEF AllGet
<1>5. age # Waiting BY DEF ListingAge
<1>6. WaitsForAFetch' BY <1>3, <1>5 DEF WaitsForAFetch
<1>7. ASSUME NEW a \in Askers, answer'[a].age \in 0..Oldest
      PROVE  answer'[a].age <= IF answer'[a].degraded \/ answer'[a].shared THEN 2 ELSE 1
  <2>1. CASE answer[a].age = Waiting
    BY <1>3, <1>7, <2>1 DEF ListingInv, WaitsForAFetch, ListingAge
  <2>2. CASE answer[a].age # Waiting
    BY <1>3, <1>7, <2>2 DEF ListingInv, ListingIsRecent
  <2> QED BY <2>1, <2>2
<1> QED BY <1>4, <1>6, <1>7 DEF ListingIsRecent

LEMMA ListingStepInv == ListingInv /\ [ListingNext]_listingVars => ListingInv'
<1> SUFFICES ASSUME ListingInv, [ListingNext]_listingVars PROVE ListingInv' OBVIOUS
<1>1. ListingTypeOK BY DEF ListingInv
<1>2. CASE FetchListing
  <2>1. PICK age \in {0, Empty} : cached' = age /\ AllGet(age) BY <1>2 DEF FetchListing
  <2>2. age \in ListingAge /\ (age \in 0..Oldest => age = 0) BY DEF ListingAge, Oldest, Empty
  <2>3. answer' \in [Askers -> AnswerRecord] /\ WaitsForAFetch' /\ ListingIsRecent'
    BY <1>2, <2>1, <2>2, AllGetInv DEF FetchListing
  <2> QED BY <1>2, <2>1, <2>2, <2>3 DEF FetchListing, ListingInv, ListingTypeOK, AnswerRecord
<1>3. CASE ListingFails
  <2>1. (fetching = "degraded") \in BOOLEAN OBVIOUS
  <2>2. answer' \in [Askers -> AnswerRecord] /\ WaitsForAFetch' /\ ListingIsRecent'
    BY <1>1, <1>3, <2>1, AllGetInv, FromCacheIsRecent DEF ListingFails
  <2> QED BY <1>1, <1>3, <2>2 DEF ListingFails, ListingInv, ListingTypeOK, AnswerRecord
<1>4. CASE ListingAges \/ CoolingEnds \/ UNCHANGED listingVars
  <2>1. fetching' = fetching /\ answer' = answer
    BY <1>4 DEF ListingAges, CoolingEnds, listingVars
  <2>2. cached' \in ListingAge
    BY <1>1, <1>4 DEF ListingAges, CoolingEnds, listingVars, ListingTypeOK, ListingAge, Oldest, Empty
  <2>3. cooling' \in BOOLEAN BY <1>1, <1>4 DEF ListingAges, CoolingEnds, listingVars, ListingTypeOK
  <2>4. ListingTypeOK' BY <1>1, <2>1, <2>2, <2>3 DEF ListingTypeOK
  <2>5. WaitsForAFetch' /\ ListingIsRecent'
    BY <2>1 DEF ListingInv, WaitsForAFetch, ListingIsRecent
  <2> QED BY <2>4, <2>5 DEF ListingInv
<1> QED BY <1>2, <1>3, <1>4, AskListingInv DEF ListingNext

\* However the cache's ages, its cooldown and the fetches that callers share follow each other, a
\* caller gets a listing no older than its own option allows, or than that of the call it shares.
THEOREM ListingsAreRecent == ListingSpec => []ListingIsRecent
BY ListingInitInv, ListingStepInv, PTL DEF ListingSpec, ListingInv

\* The age of what is cached, the fetch under way and what callers were given keep to their values.
THEOREM ListingTypeCorrect == ListingSpec => []ListingTypeOK
BY ListingInitInv, ListingStepInv, PTL DEF ListingSpec, ListingInv
=============================================================================
