----------------------- MODULE AutoConsolidateProofs -----------------------
(* Theorems about AutoConsolidate, for any number of outputs and processes,  *)
(* any batch size and every combination of failures.                         *)
EXTENDS AutoConsolidate, TLAPS

LEMMA ActiveParts ==
  ASSUME TypeOK, NEW p \in Active
  PROVE  p \in Processes /\ sweep[p] \in Sweep /\ Ins(p) \subseteq Coins
BY DEF TypeOK, Active, Sweep, Ins

LEMMA LockIsSome ==
  ASSUME NEW u \in Processes \cup {Others}, NEW b \in BOOLEAN PROVE [by |-> u, old |-> b] # None
<1>1. [by |-> u, old |-> b] \in Lock BY DEF Lock
<1> QED BY <1>1, NoneAssumption DEF NoneAssumption

(* Every step keeps the types. *)

LEMMA TypeInit == Init => TypeOK
BY SweepAssumption DEF SweepAssumption, Init, TypeOK

LEMMA SweepType ==
  ASSUME TypeOK, NEW p \in Processes, SweepStep(p) PROVE TypeOK'
<1> USE DEF TypeOK, net, table
<1>1. CASE Pick(p) \/ LockBatch(p) \/ LockError(p)
  <2>1. CASE Pick(p) BY <2>1 DEF Pick, Sweep
  <2>2. ASSUME p \in Active, LockRows(p)
        PROVE  lock' \in [Coins -> Lock \cup {None}]
               /\ \A c \in Coins : lock'[c] # None => row[c] = "live"
    BY <2>2 DEF LockRows, Taken, Free, Lock
  <2>3. CASE LockBatch(p)
    <3>1. p \in Active BY <2>3 DEF LockBatch, At
    <3>2. Taken(p) \subseteq Coins BY <3>1, ActiveParts DEF Taken
    <3>3. sweep' \in [Processes -> Sweep \cup {None}]
          /\ \A q \in Processes : sweep'[q] # None /\ sweep'[q].at = "accepted"
                                    => sweep'[q].out \in Coins
      BY <2>3, <3>1, <3>2, ActiveParts DEF LockBatch, Stops, Sweep
    <3> QED BY <2>2, <2>3, <3>1, <3>3 DEF LockBatch
  <2>4. CASE LockError(p)
    <3>1. p \in Active BY <2>4 DEF LockError, At
    <3> QED BY <2>2, <2>4, <3>1 DEF LockError, Stops
  <2> QED BY <1>1, <2>1, <2>3, <2>4
<1>2. \A s \in {"failed", "missing"} : p \in Active /\ Goes(p, s) =>
        /\ sweep' \in [Processes -> Sweep \cup {None}]
        /\ \A q \in Processes : sweep'[q] # None /\ sweep'[q].at = "accepted"
                                  => sweep'[q].out \in Coins
  BY ActiveParts DEF Goes, Sweep
<1>3. \A o \in Coins : p \in Active /\ Accepted(p, o) =>
        /\ sweep' \in [Processes -> Sweep \cup {None}]
        /\ \A q \in Processes : sweep'[q] # None /\ sweep'[q].at = "accepted"
                                  => sweep'[q].out \in Coins
  <2> SUFFICES ASSUME NEW o \in Coins, p \in Active, Accepted(p, o)
      PROVE  /\ sweep' \in [Processes -> Sweep \cup {None}]
             /\ \A q \in Processes : sweep'[q] # None /\ sweep'[q].at = "accepted"
                                       => sweep'[q].out \in Coins
    OBVIOUS
  <2>1. [sweep[p] EXCEPT !.at = "accepted", !.out = o] \in Sweep BY ActiveParts DEF Sweep
  <2>2. sweep' = [sweep EXCEPT ![p] = [sweep[p] EXCEPT !.at = "accepted", !.out = o]]
    BY DEF Accepted
  <2>3. [sweep[p] EXCEPT !.at = "accepted", !.out = o].out = o BY ActiveParts DEF Sweep
  <2> QED BY <2>1, <2>2, <2>3
<1>4. CASE NotSent(p) BY <1>2, <1>4 DEF NotSent, At
<1>5. CASE MissingInputs(p) BY <1>2, <1>5 DEF MissingInputs, At
<1>6. CASE Rebroadcast(p) BY <1>3, <1>6 DEF Rebroadcast, At
<1>7. CASE Broadcast(p)
  <2>1. p \in Active /\ Ins(p) \subseteq Coins BY <1>7, ActiveParts DEF Broadcast, At
  <2>2. PICK o \in Unborn \ Dust :
          /\ chain' = [c \in Coins |-> IF c \in Ins(p) THEN "spent"
                                       ELSE IF c = o THEN "unspent" ELSE chain[c]]
          /\ made' = [made EXCEPT ![o] = Ins(p)]
          /\ Accepted(p, o) \/ Goes(p, "failed") \/ Goes(p, "missing")
    BY <1>7 DEF Broadcast
  <2>3. o \in Coins BY DEF Unborn
  <2>4. chain' \in [Coins -> {"unborn", "unspent", "spent"}] /\ made' \in [Coins -> SUBSET Coins]
    BY <2>1, <2>2, <2>3
  <2> QED BY <1>2, <1>3, <1>7, <2>1, <2>2, <2>3, <2>4 DEF Broadcast
<1>8. CASE ReleaseBatch(p)
  BY <1>8, ActiveParts DEF ReleaseBatch, At, Mine, Unlocked, Stops
<1>9. CASE ArchiveBatch(p)
  BY <1>9, ActiveParts DEF ArchiveBatch, At, Marked, Unlocked, Stops
<1>10. ASSUME p \in At("accepted"), Record(p)
       PROVE  /\ row' \in [Coins -> {"absent", "live", "removed"}]
              /\ lock' \in [Coins -> Lock \cup {None}]
              /\ \A c \in Coins : lock'[c] # None => row'[c] = "live"
              /\ cool' \subseteq Coins
  BY <1>10, ActiveParts DEF Record, At, Active, Spent, Unlocked
<1>11. CASE CommitConsolidation(p)
  <2>1. p \in At("accepted") /\ p \in Active BY <1>11 DEF CommitConsolidation, At
  <2>2. CASE Whole(p) BY <1>10, <1>11, <2>1, <2>2 DEF CommitConsolidation, Stops
  <2>3. CASE ~Whole(p) BY <1>2, <1>11, <2>1, <2>3 DEF CommitConsolidation
  <2> QED BY <2>2, <2>3
<1>12. CASE CommitError(p)
  <2>1. p \in At("accepted") /\ p \in Active BY <1>12 DEF CommitError, At
  <2>2. CASE Record(p) BY <1>2, <1>10, <1>12, <2>1, <2>2 DEF CommitError
  <2>3. CASE UNCHANGED table BY <1>2, <1>12, <2>1, <2>3 DEF CommitError
  <2> QED BY <1>12, <2>2, <2>3 DEF CommitError
<1>13. CASE CleanupError(p) \/ Crash(p) BY <1>13 DEF CleanupError, Crash, Stops
<1> QED BY <1>1, <1>4, <1>5, <1>6, <1>7, <1>8, <1>9, <1>11, <1>12, <1>13 DEF SweepStep

LEMMA OtherType ==
  ASSUME TypeOK, (\E c \in Coins : RowStep(c)) \/ Reap PROVE TypeOK'
<1> USE DEF TypeOK, net, table
<1>1. CASE Reap BY <1>1 DEF Reap, Unlocked
<1>2. ASSUME NEW c \in Coins, OthersTake(c) PROVE TypeOK' BY <1>2 DEF OthersTake, Free, Lock
<1>3. ASSUME NEW c \in Coins, OthersRecord(c) PROVE TypeOK'
  BY <1>3 DEF OthersRecord, Unlocked
<1>4. ASSUME NEW c \in Coins, OthersStop(c) \/ OthersRelease(c) \/ CoolDown(c) PROVE TypeOK'
  BY <1>4 DEF OthersStop, OthersRelease, CoolDown, Unlocked
<1>5. ASSUME NEW c \in Coins, LockAges(c) PROVE TypeOK' BY <1>5 DEF LockAges, Lock
<1>6. ASSUME NEW c \in Coins, NEW O \in SUBSET Coins, OthersSpend(c, O) PROVE TypeOK'
  BY <1>6 DEF OthersSpend
<1> QED BY <1>1, <1>2, <1>3, <1>4, <1>5, <1>6 DEF RowStep

LEMMA TypeNext == TypeOK /\ [Next]_vars => TypeOK'
<1> SUFFICES ASSUME TypeOK, [Next]_vars PROVE TypeOK'
  OBVIOUS
<1>1. CASE UNCHANGED vars BY <1>1 DEF vars, TypeOK
<1> QED BY <1>1, SweepType, OtherType DEF Next

\* The inventory, the network and the batches keep their types, and only live rows are locked.
THEOREM TypeCorrect == Spec => []TypeOK
BY TypeInit, TypeNext, PTL DEF Spec

(* No value is counted twice, whatever fails: an output is recorded only when all that it was
   made from has been removed.  The network's record of what made what, and the batches, agree
   with the table. *)

Outputs ==
  /\ \A o \in Unborn : made[o] = {} /\ row[o] = "absent"
  /\ \A c \in late : row[c] # "absent"
  /\ \A p \in Active :
       /\ Ins(p) # {} /\ \A c \in Ins(p) : row[c] # "absent"
       /\ sweep[p].at = "accepted" => made[sweep[p].out] = Ins(p)

Books == TypeOK /\ Outputs /\ CountedOnce

LEMMA BooksInit == Init => Books
BY TypeInit DEF Init, Books, Outputs, CountedOnce, Unborn, Active

\* The steps that make no output and record none.
LEMMA QuietBooks ==
  ASSUME Books, chain' = chain, made' = made, late' \subseteq late,
         \A c \in Coins : row'[c] = row[c] \/ (row[c] = "live" /\ row'[c] = "removed"),
         \A q \in Active' : q \in Active /\ sweep'[q].ins = Ins(q) /\ sweep'[q].out = sweep[q].out
                            /\ (sweep'[q].at = "accepted" => sweep[q].at = "accepted")
  PROVE  (Outputs /\ CountedOnce)'
<1>1. CountedOnce' BY DEF Books, CountedOnce, TypeOK
<1>2. \A c \in Coins : row[c] # "absent" => row'[c] # "absent" OBVIOUS
<1>3. (\A o \in Unborn : made[o] = {} /\ row[o] = "absent")' BY DEF Books, Outputs, Unborn
<1>4. (\A c \in late : row[c] # "absent")' BY <1>2 DEF Books, Outputs, TypeOK
<1>5. ASSUME NEW q \in Active'
      PROVE  /\ Ins(q)' # {} /\ \A c \in Ins(q)' : row'[c] # "absent"
             /\ sweep'[q].at = "accepted" => made'[sweep'[q].out] = Ins(q)'
  BY <1>2, ActiveParts DEF Books, Outputs, Ins
<1> QED BY <1>1, <1>3, <1>4, <1>5 DEF Outputs

\* What the other batches keep when one batch goes on or ends.
LEMMA NextBatches ==
  ASSUME TypeOK, NEW p \in Processes,
         Stops(p) \/ (p \in Active /\ \E s \in {"failed", "missing"} : Goes(p, s))
  PROVE  \A q \in Active' : q \in Active /\ sweep'[q].ins = Ins(q) /\ sweep'[q].out = sweep[q].out
                            /\ (sweep'[q].at = "accepted" => sweep[q].at = "accepted")
BY ActiveParts DEF TypeOK, Stops, Goes, Active, Ins, Sweep

\* The output of an accepted batch that is still whole has no row.
LEMMA NewOutput ==
  ASSUME Books, NEW p \in At("accepted"), Whole(p)
  PROVE  /\ p \in Active /\ sweep[p].out \in Coins /\ row[sweep[p].out] = "absent"
         /\ made[sweep[p].out] = Ins(p) /\ \A c \in Ins(p) : row[c] = "live"
<1>1. p \in Active /\ sweep[p].out \in Coins BY DEF Books, TypeOK, At, Active
<1>2. made[sweep[p].out] = Ins(p) /\ Ins(p) # {} BY <1>1 DEF At, Books, Outputs
<1>3. \A c \in Ins(p) : row[c] = "live" BY DEF Whole, Marked
<1> QED BY <1>1, <1>2, <1>3 DEF Books, CountedOnce

LEMMA RecordBooks ==
  ASSUME Books, NEW p \in At("accepted"), Whole(p), Record(p), Stops(p) \/ Goes(p, "failed"),
         UNCHANGED net, late' = late
  PROVE  (Outputs /\ CountedOnce)'
<1> DEFINE o == sweep[p].out
<1>1. /\ p \in Processes /\ p \in Active /\ o \in Coins /\ row[o] = "absent" /\ made[o] = Ins(p)
      /\ \A c \in Ins(p) : row[c] = "live"
  BY NewOutput DEF Active
<1>2. \A c \in Coins : row'[c] = IF c = o THEN "live" ELSE IF c \in Ins(p) THEN "removed" ELSE row[c]
  BY DEF Record, Spent
<1>3. chain' = chain /\ made' = made /\ o \notin Unborn
  <2>1. Ins(p) # {} BY <1>1 DEF Books, Outputs
  <2> QED BY <1>1, <2>1 DEF net, Books, Outputs
<1> HIDE DEF o
<1>4. \A c \in Coins : row[c] # "absent" => row'[c] # "absent" BY <1>2
<1>5. CountedOnce'
  <2>1. ASSUME NEW x \in Coins, row'[x] # "absent", NEW c \in made[x] PROVE row'[c] = "removed"
    <3>1. c \in Coins BY DEF Books, TypeOK
    <3>2. CASE x = o BY <1>1, <1>2, <3>1, <3>2
    <3>3. CASE x # o
      <4>1. row[x] # "absent" BY <1>1, <1>2, <2>1, <3>3
      <4>2. row[c] = "removed" BY <4>1 DEF Books, CountedOnce
      <4> QED BY <1>1, <1>2, <3>1, <4>2
    <3> QED BY <3>2, <3>3
  <2> QED BY <1>3, <2>1 DEF CountedOnce
<1>6. (\A x \in Unborn : made[x] = {} /\ row[x] = "absent")'
  <2>1. Unborn' = Unborn BY <1>3 DEF Unborn
  <2>2. \A x \in Unborn : x \in Coins /\ row[x] = "absent" /\ x # o
    BY <1>3 DEF Unborn, Books, Outputs
  <2> QED BY <1>1, <1>2, <1>3, <2>1, <2>2 DEF Books, Outputs
<1>7. (\A c \in late : row[c] # "absent")' BY <1>4 DEF Books, Outputs, TypeOK
<1>8. ASSUME NEW q \in Active'
      PROVE  /\ Ins(q)' # {} /\ \A c \in Ins(q)' : row'[c] # "absent"
             /\ sweep'[q].at = "accepted" => made'[sweep'[q].out] = Ins(q)'
  <2>1. /\ q \in Active /\ sweep'[q].ins = Ins(q) /\ sweep'[q].out = sweep[q].out
        /\ sweep'[q].at = "accepted" => sweep[q].at = "accepted"
    BY <1>1, NextBatches DEF Books
  <2> QED BY <1>3, <1>4, <2>1, ActiveParts DEF Books, Outputs, Ins
<1> QED BY <1>5, <1>6, <1>7, <1>8 DEF Outputs

LEMMA SendBooks ==
  ASSUME Books, NEW p \in Processes, Broadcast(p) PROVE (Outputs /\ CountedOnce)'
<1>1. p \in Active /\ Ins(p) \subseteq Coins /\ \A c \in Ins(p) : chain[c] = "unspent"
  BY ActiveParts DEF Books, Broadcast, At
<1>2. PICK o \in Unborn \ Dust :
        /\ chain' = [c \in Coins |-> IF c \in Ins(p) THEN "spent"
                                     ELSE IF c = o THEN "unspent" ELSE chain[c]]
        /\ made' = [made EXCEPT ![o] = Ins(p)]
        /\ Accepted(p, o) \/ Goes(p, "failed") \/ Goes(p, "missing")
  BY DEF Broadcast
<1>3. o \in Coins /\ row[o] = "absent" /\ made[o] = {} /\ chain[o] = "unborn"
  BY DEF Unborn, Books, Outputs
<1>4. row' = row /\ late' = late BY DEF Broadcast, table
<1>5. made'[o] = Ins(p) /\ \A x \in Coins \ {o} : made'[x] = made[x]
  BY <1>2, <1>3 DEF Books, TypeOK
<1>6. CountedOnce' BY <1>3, <1>4, <1>5 DEF Books, CountedOnce
<1>7. (\A x \in Unborn : made[x] = {} /\ row[x] = "absent")'
  <2>1. \A x \in Coins : chain'[x] = "unborn" => chain[x] = "unborn" /\ x # o
    BY <1>1, <1>2, <1>3
  <2> QED BY <1>4, <1>5, <2>1 DEF Books, Outputs, Unborn
<1>8. ASSUME NEW q \in Active'
      PROVE  /\ Ins(q)' # {} /\ \A c \in Ins(q)' : row'[c] # "absent"
             /\ sweep'[q].at = "accepted" => made'[sweep'[q].out] = Ins(q)'
  <2>1. CASE q = p
    <3>1. sweep'[q].ins = Ins(q) /\ (sweep'[q].at = "accepted" => sweep'[q].out = o)
      BY <1>1, <1>2, <2>1, ActiveParts DEF Accepted, Goes, Books, TypeOK, Ins, Sweep
    <3> QED BY <1>1, <1>4, <1>5, <2>1, <3>1 DEF Books, Outputs, Ins
  <2>2. CASE q # p
    <3>1. q \in Active /\ sweep'[q] = sweep[q]
      BY <1>1, <1>2, <2>2 DEF Accepted, Goes, Books, TypeOK, Active
    <3>2. Ins(q) # {} /\ \A c \in Ins(q) : row[c] # "absent" BY <3>1 DEF Books, Outputs
    <3>3. sweep[q].at = "accepted" => sweep[q].out \in Coins \ {o} /\ made[sweep[q].out] = Ins(q)
      BY <1>3, <3>1, <3>2, ActiveParts DEF Books, Outputs, TypeOK, Active
    <3> QED BY <1>4, <1>5, <3>1, <3>2, <3>3 DEF Ins
  <2> QED BY <2>1, <2>2
<1> QED BY <1>4, <1>6, <1>7, <1>8 DEF Outputs, Books

LEMMA SweepBooks ==
  ASSUME Books, NEW p \in Processes, SweepStep(p) PROVE (Outputs /\ CountedOnce)'
<1> USE DEF net, table
<1>1. TypeOK BY DEF Books
<1>2. CASE Pick(p)
  <2>1. PICK S \in SUBSET {c \in Coins : Eligible(c)} :
          S # {} /\ sweep' = [sweep EXCEPT ![p] = [at |-> "picked", ins |-> S, out |-> None]]
    BY <1>2 DEF Pick
  <2>2. \A c \in S : row[c] # "absent" BY DEF Eligible, Free
  <2>3. ASSUME NEW q \in Active'
        PROVE  /\ Ins(q)' # {} /\ \A c \in Ins(q)' : row[c] # "absent"
               /\ sweep'[q].at = "accepted" => made[sweep'[q].out] = Ins(q)'
    BY <2>1, <2>2 DEF Books, TypeOK, Outputs, Active, Ins
  <2> QED BY <1>2, <2>3 DEF Pick, Books, Outputs, CountedOnce, Unborn
<1>3. CASE LockBatch(p)
  <2>1. p \in Active /\ Taken(p) \subseteq Ins(p) BY <1>3 DEF LockBatch, At, Taken
  <2>2. CASE Taken(p) = {}
    BY <1>1, <1>3, <2>2, NextBatches, QuietBooks DEF LockBatch
  <2>3. CASE Taken(p) # {}
    <3>1. sweep' = [sweep EXCEPT ![p].at = "locked", ![p].ins = Taken(p)] BY <1>3, <2>3 DEF LockBatch
    <3>2. ASSUME NEW q \in Active'
          PROVE  /\ Ins(q)' # {} /\ \A c \in Ins(q)' : row[c] # "absent"
                 /\ sweep'[q].at = "accepted" => made[sweep'[q].out] = Ins(q)'
      <4>1. CASE q = p
        <5>1. sweep'[q].at = "locked" /\ Ins(q)' = Taken(p)
          BY <2>1, <3>1, <4>1, <1>1, ActiveParts DEF TypeOK, Ins, Sweep
        <5> QED BY <2>1, <2>3, <5>1 DEF Books, Outputs
      <4>2. CASE q # p BY <3>1, <4>2 DEF Books, TypeOK, Outputs, Active, Ins
      <4> QED BY <4>1, <4>2
    <3> QED BY <1>3, <3>2 DEF LockBatch, Books, Outputs, CountedOnce, Unborn
  <2> QED BY <2>2, <2>3
<1>4. CASE LockError(p) \/ NotSent(p) \/ MissingInputs(p) \/ ReleaseBatch(p) \/ CleanupError(p) \/ Crash(p)
  <2>1. Stops(p) \/ (p \in Active /\ \E s \in {"failed", "missing"} : Goes(p, s))
    BY <1>4 DEF LockError, NotSent, MissingInputs, ReleaseBatch, CleanupError, Crash, At
  <2>2. chain' = chain /\ made' = made /\ late' = late /\ row' = row
    BY <1>4 DEF LockError, NotSent, MissingInputs, ReleaseBatch, CleanupError, Crash
  <2> QED BY <1>1, <2>1, <2>2, NextBatches, QuietBooks
<1>5. CASE ArchiveBatch(p)
  BY <1>1, <1>5, NextBatches, QuietBooks DEF ArchiveBatch, Marked
<1>6. CASE Broadcast(p) BY <1>6, SendBooks
<1>7. CASE Rebroadcast(p)
  <2>1. PICK o \in Coins : made[o] = Ins(p) /\ Accepted(p, o) BY <1>7 DEF Rebroadcast
  <2>2. p \in Active BY <1>7 DEF Rebroadcast, At
  <2>3. ASSUME NEW q \in Active'
        PROVE  /\ Ins(q)' # {} /\ \A c \in Ins(q)' : row[c] # "absent"
               /\ sweep'[q].at = "accepted" => made[sweep'[q].out] = Ins(q)'
    <3>1. CASE q = p
      <4>1. Ins(q)' = Ins(p) /\ sweep'[q].out = o
        BY <1>1, <2>1, <2>2, <3>1, ActiveParts DEF Accepted, TypeOK, Ins, Sweep
      <4> QED BY <2>1, <2>2, <4>1 DEF Books, Outputs
    <3>2. CASE q # p
      <4>1. q \in Active /\ sweep'[q] = sweep[q]
        BY <2>1, <3>2 DEF Accepted, Books, TypeOK, Active
      <4> QED BY <4>1 DEF Books, Outputs, Ins
    <3> QED BY <3>1, <3>2
  <2> QED BY <1>7, <2>3 DEF Rebroadcast, Books, Outputs, CountedOnce, Unborn
<1>8. CASE CommitConsolidation(p)
  <2>1. p \in Active BY <1>8 DEF CommitConsolidation, At
  <2>2. CASE Whole(p) BY <1>8, <2>2, RecordBooks DEF CommitConsolidation
  <2>3. CASE ~Whole(p) BY <1>1, <1>8, <2>1, <2>3, NextBatches, QuietBooks DEF CommitConsolidation
  <2> QED BY <2>2, <2>3
<1>9. CASE CommitError(p)
  <2>1. p \in Active BY <1>9 DEF CommitError, At
  <2>2. CASE Whole(p) /\ Record(p) BY <1>9, <2>2, RecordBooks DEF CommitError
  <2>3. CASE UNCHANGED table BY <1>1, <1>9, <2>1, <2>3, NextBatches, QuietBooks DEF CommitError
  <2> QED BY <1>9, <2>2, <2>3 DEF CommitError
<1> QED BY <1>2, <1>3, <1>4, <1>5, <1>6, <1>7, <1>8, <1>9 DEF SweepStep

LEMMA OtherBooks ==
  ASSUME Books, (\E c \in Coins : RowStep(c)) \/ Reap PROVE (Outputs /\ CountedOnce)'
<1> USE DEF net, table
<1>1. sweep' = sweep => Active' = Active BY DEF Active
<1>2. CASE Reap BY <1>1, <1>2, QuietBooks DEF Reap, Ins
<1>3. ASSUME NEW c \in Coins,
             OthersTake(c) \/ OthersStop(c) \/ OthersRelease(c) \/ LockAges(c) \/ CoolDown(c)
      PROVE  (Outputs /\ CountedOnce)'
  BY <1>1, <1>3, QuietBooks DEF OthersTake, OthersStop, OthersRelease, LockAges, CoolDown, Ins
<1>4. ASSUME NEW c \in Coins, OthersRecord(c) PROVE (Outputs /\ CountedOnce)'
  <2> DEFINE O == {o \in Coins : made[o] = {c} /\ row[o] = "absent"}
  <2>1. /\ c \in late /\ row[c] # "absent" /\ c \notin O
        /\ \A d \in Coins : row'[d] = IF d \in O THEN "live" ELSE IF d = c THEN "removed" ELSE row[d]
    BY <1>4 DEF OthersRecord, Books, Outputs
  <2>2. chain' = chain /\ made' = made /\ late' \subseteq late /\ sweep' = sweep
    BY <1>4 DEF OthersRecord
  <2>3. O \cap Unborn = {} BY DEF Books, Outputs
  <2>4. \A d \in O : d \in Coins /\ row[d] = "absent" /\ made[d] = {c} OBVIOUS
  <2> HIDE DEF O
  <2>5. \A d \in Coins : row[d] # "absent" => row'[d] # "absent" BY <2>1
  <2>6. CountedOnce'
    <3>1. ASSUME NEW x \in Coins, row'[x] # "absent", NEW d \in made[x] PROVE row'[d] = "removed"
      <4>1. d \in Coins BY DEF Books, TypeOK
      <4>2. CASE x \in O BY <2>1, <2>4, <4>1, <4>2
      <4>3. CASE x \notin O
        <5>1. row[x] # "absent" BY <2>1, <3>1, <4>3
        <5>2. row[d] = "removed" BY <5>1 DEF Books, CountedOnce
        <5> QED BY <2>1, <2>4, <4>1, <5>2
      <4> QED BY <4>2, <4>3
    <3> QED BY <2>2, <3>1 DEF CountedOnce
  <2>7. (\A o \in Unborn : made[o] = {} /\ row[o] = "absent")'
    BY <2>1, <2>2, <2>3 DEF Books, Outputs, Unborn
  <2>8. (\A d \in late : row[d] # "absent")' BY <2>2, <2>5 DEF Books, Outputs, TypeOK
  <2>9. (\A p \in Active :
           /\ Ins(p) # {} /\ \A d \in Ins(p) : row[d] # "absent"
           /\ sweep[p].at = "accepted" => made[sweep[p].out] = Ins(p))'
    BY <1>1, <2>2, <2>5, ActiveParts DEF Books, Outputs, Ins
  <2> QED BY <2>6, <2>7, <2>8, <2>9 DEF Outputs
<1>5. ASSUME NEW c \in Coins, NEW O \in SUBSET Coins, OthersSpend(c, O)
      PROVE  (Outputs /\ CountedOnce)'
  <2>1. row' = row /\ sweep' = sweep /\ late' = late \cup {c} /\ row[c] = "live"
        /\ O \subseteq Unborn /\ chain[c] = "unspent"
    BY <1>5 DEF OthersSpend, AtWork, HeldByOthers, Books, TypeOK
  <2>2. \A o \in Coins : made'[o] = (IF o \in O THEN {c} ELSE made[o])
                         /\ (chain'[o] = "unborn" => chain[o] = "unborn" /\ o \notin O)
    BY <1>5, <2>1 DEF OthersSpend
  <2>3. \A o \in O : row[o] = "absent" /\ made[o] = {} BY <2>1 DEF Books, Outputs
  <2>4. CountedOnce' BY <2>1, <2>2, <2>3 DEF Books, CountedOnce
  <2>5. (\A o \in Unborn : made[o] = {} /\ row[o] = "absent")'
    BY <2>1, <2>2 DEF Books, Outputs, Unborn
  <2>6. ASSUME NEW p \in Active
        PROVE  /\ Ins(p) # {} /\ \A d \in Ins(p) : row[d] # "absent"
               /\ sweep[p].at = "accepted" => made'[sweep[p].out] = Ins(p)
    <3>1. Ins(p) # {} /\ (\A d \in Ins(p) : row[d] # "absent")
          /\ (sweep[p].at = "accepted" => sweep[p].out \in Coins /\ made[sweep[p].out] = Ins(p))
      BY DEF Books, Outputs, TypeOK, Active
    <3> QED BY <2>2, <2>3, <3>1
  <2> QED BY <1>1, <2>1, <2>4, <2>5, <2>6 DEF Books, Outputs, Ins
<1> QED BY <1>2, <1>3, <1>4, <1>5 DEF RowStep

LEMMA BooksNext == Books /\ [Next]_vars => Books'
<1> SUFFICES ASSUME Books, [Next]_vars PROVE (Outputs /\ CountedOnce)'
  BY TypeNext DEF Books
<1>1. CASE UNCHANGED vars
  BY <1>1 DEF vars, Books, Outputs, CountedOnce, Unborn, Active, Ins
<1> QED BY <1>1, SweepBooks, OtherBooks DEF Next

LEMMA BooksHold == Spec => []Books
BY BooksInit, BooksNext, PTL DEF Spec

\* The sweep never counts an output beside what it was made from, with no condition at all:
\* over reaped locks, repeated broadcasts, lost answers, late writers and exits.
THEOREM SweptOnce == Spec => []CountedOnce
<1>1. Books => CountedOnce BY DEF Books
<1> QED BY <1>1, BooksHold, PTL

(* The inventory with its sweeps implements the ledger of coins. *)

LEMMA StatusNow ==
  ASSUME TypeOK
  PROVE  \A c \in Coins : Status[c] = IF row[c] = "absent" THEN "unrecorded"
                                      ELSE IF row[c] = "removed" THEN "retired"
                                      ELSE IF lock[c] = None THEN "free" ELSE "held"
BY DEF Status, TypeOK

LEMMA StatusNext ==
  ASSUME TypeOK'
  PROVE  /\ Status' = [c \in Coins |-> Status'[c]]
         /\ \A c \in Coins : Status'[c] = IF row'[c] = "absent" THEN "unrecorded"
                                          ELSE IF row'[c] = "removed" THEN "retired"
                                          ELSE IF lock'[c] = None THEN "free" ELSE "held"
BY DEF Status, TypeOK

LEMMA LedgerInit == Init => Ledger!Init
<1> SUFFICES ASSUME Init PROVE Ledger!Init
  OBVIOUS
<1>1. \A c \in Coins : Status[c] = IF c \in Funded THEN "free" ELSE "unrecorded"
  BY TypeInit, StatusNow DEF Init
<1> QED BY <1>1 DEF Ledger!Init, Status

LEMMA LedgerTake ==
  ASSUME TypeOK, TypeOK', NEW S \in SUBSET Coins, \A c \in S : Free(c), row' = row,
         \A c \in Coins : lock'[c] = None <=> c \notin S /\ lock[c] = None
  PROVE  Ledger!Next
<1>1. \A c \in S : Status[c] = "free" BY StatusNow DEF Free
<1>2. \A c \in Coins : Status'[c] = IF c \in S THEN "held" ELSE Status[c]
  BY StatusNow, StatusNext DEF Free
<1>3. Ledger!Take(S) BY <1>1, <1>2, StatusNext DEF Ledger!Take
<1> QED BY <1>3 DEF Ledger!Next

LEMMA LedgerHandBack ==
  ASSUME TypeOK, TypeOK', NEW S \in SUBSET Coins, \A c \in S : lock[c] # None,
         row' = row, lock' = Unlocked(S)
  PROVE  Ledger!Next
<1>1. \A c \in S : row[c] = "live" BY DEF TypeOK
<1>2. \A c \in S : Status[c] = "held" BY <1>1, StatusNow
<1>3. \A c \in Coins : Status'[c] = IF c \in S THEN "free" ELSE Status[c]
  BY <1>1, StatusNow, StatusNext DEF Unlocked
<1>4. Ledger!HandBack(S) BY <1>2, <1>3, StatusNext DEF Ledger!HandBack
<1> QED BY <1>4 DEF Ledger!Next

LEMMA LedgerReplace ==
  ASSUME TypeOK, TypeOK', NEW S \in SUBSET Coins, NEW T \in SUBSET Coins,
         \A c \in S : row[c] = "live", \A c \in T : row[c] = "absent",
         \A c \in Coins : row'[c] = IF c \in T THEN "live"
                                    ELSE IF c \in S THEN "removed" ELSE row[c],
         \A c \in Coins : row[c] = "live" /\ c \notin S => lock'[c] = lock[c],
         \A c \in T : lock'[c] = None
  PROVE  Ledger!Next
<1>1. S \subseteq Ledger!Open /\ T \subseteq Ledger!Fresh
  BY StatusNow DEF Ledger!Open, Ledger!Fresh
<1>2. \A c \in Coins : Status'[c] = IF c \in S THEN "retired"
                                    ELSE IF c \in T THEN "free" ELSE Status[c]
  BY StatusNow, StatusNext DEF TypeOK
<1>3. Ledger!Replace(S, T) BY <1>1, <1>2, StatusNext DEF Ledger!Replace
<1> QED BY <1>3 DEF Ledger!Next

LEMMA LedgerStays ==
  ASSUME TypeOK, TypeOK', row' = row, \A c \in Coins : lock'[c] = None <=> lock[c] = None
  PROVE  Status' = Status
<1>1. \A c \in Coins : Status'[c] = Status[c] BY StatusNow, StatusNext
<1> QED BY <1>1, StatusNext DEF Status

LEMMA LedgerRecord ==
  ASSUME Books, TypeOK', NEW p \in At("accepted"), Whole(p), Record(p)
  PROVE  Ledger!Next
<1>1. /\ Ins(p) \in SUBSET Coins /\ {sweep[p].out} \in SUBSET Coins
      /\ row[sweep[p].out] = "absent" /\ \A c \in Ins(p) : row[c] = "live"
  BY NewOutput, ActiveParts DEF Books
<1>2. /\ \A c \in Coins : row'[c] = IF c \in {sweep[p].out} THEN "live"
                                   ELSE IF c \in Ins(p) THEN "removed" ELSE row[c]
      /\ lock' = Unlocked(Ins(p) \cup {sweep[p].out})
  BY DEF Record, Spent
<1>3. \A c \in Coins : lock'[c] = IF c \in Ins(p) \cup {sweep[p].out} THEN None ELSE lock[c]
  BY <1>2 DEF Unlocked
<1> QED BY <1>1, <1>2, <1>3, LedgerReplace DEF Books

LEMMA SweepLedger ==
  ASSUME Books, TypeOK', NEW p \in Processes, SweepStep(p)
  PROVE  Ledger!Next \/ Status' = Status
<1> USE DEF Books, table
<1>1. ASSUME p \in Active, LockRows(p), row' = row PROVE Ledger!Next
  <2>1. Taken(p) \in SUBSET Coins /\ \A c \in Taken(p) : Free(c)
    BY <1>1, ActiveParts DEF Taken
  <2>2. [by |-> p, old |-> FALSE] # None BY LockIsSome
  <2>3. \A c \in Coins : lock'[c] = None <=> c \notin Taken(p) /\ lock[c] = None
    BY <1>1, <2>2 DEF LockRows
  <2> QED BY <1>1, <2>1, <2>3, LedgerTake
<1>2. CASE LockBatch(p) BY <1>1, <1>2 DEF LockBatch, At
<1>3. CASE LockError(p) BY <1>1, <1>3, LedgerStays DEF LockError, At
<1>4. CASE Pick(p) \/ NotSent(p) \/ Broadcast(p) \/ Rebroadcast(p) \/ MissingInputs(p)
           \/ CleanupError(p) \/ Crash(p)
  <2>1. row' = row /\ lock' = lock
    BY <1>4 DEF Pick, NotSent, Broadcast, Rebroadcast, MissingInputs, CleanupError, Crash
  <2> QED BY <2>1, LedgerStays
<1>5. CASE ReleaseBatch(p)
  <2>1. Mine(p) \in SUBSET Coins /\ \A c \in Mine(p) : lock[c] # None
    BY <1>5, ActiveParts DEF ReleaseBatch, At, Mine
  <2> QED BY <1>5, <2>1, LedgerHandBack DEF ReleaseBatch
<1>6. CASE ArchiveBatch(p)
  <2>1. Marked(p) \in SUBSET Coins /\ \A c \in Marked(p) : row[c] = "live"
    BY <1>6, ActiveParts DEF ArchiveBatch, At, Marked
  <2>2. /\ \A c \in Coins : row'[c] = IF c \in {} THEN "live"
                                     ELSE IF c \in Marked(p) THEN "removed" ELSE row[c]
        /\ \A c \in Coins : row[c] = "live" /\ c \notin Marked(p) => lock'[c] = lock[c]
    BY <1>6 DEF ArchiveBatch, Unlocked
  <2>3. {} \in SUBSET Coins OBVIOUS
  <2> QED BY <2>1, <2>2, <2>3, LedgerReplace
<1>7. CASE CommitConsolidation(p)
  BY <1>7, LedgerRecord, LedgerStays DEF CommitConsolidation
<1>8. CASE CommitError(p) BY <1>8, LedgerRecord, LedgerStays DEF CommitError
<1> QED BY <1>2, <1>3, <1>4, <1>5, <1>6, <1>7, <1>8 DEF SweepStep

LEMMA OtherLedger ==
  ASSUME Books, TypeOK', (\E c \in Coins : RowStep(c)) \/ Reap
  PROVE  Ledger!Next \/ Status' = Status
<1> USE DEF Books, table
<1>1. CASE Reap
  <2>1. \A c \in {d \in Coins : Stale(d)} : lock[c] # None BY DEF Stale
  <2> QED BY <1>1, <2>1, LedgerHandBack DEF Reap
<1>2. ASSUME NEW c \in Coins, OthersTake(c) PROVE Ledger!Next
  <2>1. [by |-> Others, old |-> FALSE] # None BY LockIsSome
  <2>2. \A d \in Coins : lock'[d] = None <=> d \notin {c} /\ lock[d] = None
    BY <1>2, <2>1 DEF OthersTake, TypeOK
  <2>3. {c} \in SUBSET Coins /\ \A d \in {c} : Free(d) BY <1>2 DEF OthersTake
  <2> QED BY <1>2, <2>2, <2>3, LedgerTake DEF OthersTake
<1>3. ASSUME NEW c \in Coins, OthersRecord(c) PROVE Ledger!Next
  <2> DEFINE O == {o \in Coins : made[o] = {c} /\ row[o] = "absent"}
             S == {d \in {c} : row[d] = "live"}
  <2>1. row[c] # "absent" BY <1>3 DEF OthersRecord, Outputs
  <2>2. \A d \in Coins : /\ row'[d] = IF d \in O THEN "live" ELSE IF d = c THEN "removed" ELSE row[d]
                         /\ lock'[d] = IF d = c THEN None ELSE lock[d]
    BY <1>3 DEF OthersRecord, Unlocked
  <2>3. O \in SUBSET Coins /\ S \in SUBSET Coins OBVIOUS
  <2>4. \A d \in O : row[d] = "absent" /\ lock[d] = None BY DEF TypeOK
  <2>5. /\ \A d \in Coins : row'[d] = IF d \in O THEN "live" ELSE IF d \in S THEN "removed" ELSE row[d]
        /\ \A d \in Coins : row[d] = "live" /\ d \notin S => lock'[d] = lock[d]
        /\ \A d \in O : lock'[d] = None
    BY <2>1, <2>2, <2>4 DEF TypeOK
  <2> HIDE DEF O
  <2> QED BY <2>3, <2>4, <2>5, LedgerReplace
<1>4. ASSUME NEW c \in Coins, OthersRelease(c) PROVE Ledger!Next
  <2>1. {c} \in SUBSET Coins /\ \A d \in {c} : lock[d] # None
    BY <1>4 DEF OthersRelease, AtWork, HeldByOthers
  <2> QED BY <1>4, <2>1, LedgerHandBack DEF OthersRelease
<1>5. ASSUME NEW c \in Coins, LockAges(c) PROVE Status' = Status
  <2>1. lock[c] \in Lock /\ lock[c].by \in Processes \cup {Others}
    BY <1>5 DEF LockAges, TypeOK, Lock
  <2>2. [by |-> lock[c].by, old |-> TRUE] # None BY <2>1, LockIsSome
  <2>3. \A d \in Coins : lock'[d] = None <=> lock[d] = None
    BY <1>5, <2>2 DEF LockAges, TypeOK
  <2> QED BY <1>5, <2>3, LedgerStays DEF LockAges
<1>6. ASSUME NEW c \in Coins,
             OthersStop(c) \/ CoolDown(c) \/ \E O \in SUBSET Coins : OthersSpend(c, O)
      PROVE  Status' = Status
  BY <1>6, LedgerStays DEF OthersStop, CoolDown, OthersSpend
<1> QED BY <1>1, <1>2, <1>3, <1>4, <1>5, <1>6 DEF RowStep

LEMMA LedgerNext ==
  ASSUME Books, TypeOK', [Next]_vars PROVE Ledger!Next \/ Status' = Status
<1>1. CASE UNCHANGED vars BY <1>1, LedgerStays DEF vars, Books
<1> QED BY <1>1, SweepLedger, OtherLedger DEF Next

\* With the sweep among its users the inventory is a ledger of coins, with no condition: no
\* batch takes a held output, and no commit or late bookkeeping brings back a retired one.
THEOREM SweepImplementsLedger == Spec => LedgerSpec
<1>1. Books /\ Books' /\ [Next]_vars => [Ledger!Next]_Status BY LedgerNext DEF Books
<1> QED BY <1>1, LedgerInit, BooksHold, PTL DEF Spec, LedgerSpec, Ledger!Spec

(* As long as no lock is reaped under the work it protects, a batch is its sweep's alone: its
   rows are locked by the sweep or gone, and what a late writer has spent is likewise its. *)

Owned(c, u) == row[c] = "removed" \/ lock[c] = [by |-> u, old |-> FALSE]

Apart == \A p, q \in Processes : Working(p) /\ Working(q) /\ p # q => Ins(p) \cap Ins(q) = {}

Held ==
  /\ \A c \in late : Owned(c, Others)
  /\ \A p \in Processes : Working(p) => \A c \in Ins(p) : Owned(c, p)
  /\ Apart

HeldBooks == Books /\ Held

LEMMA OneOwner ==
  ASSUME TypeOK, NEW c \in Coins, NEW u \in Processes \cup {Others}, Owned(c, u)
  PROVE  /\ ~Free(c)
         /\ row[c] # "removed" => lock[c].by = u
<1>1. [by |-> u, old |-> FALSE] # None /\ [by |-> u, old |-> FALSE].by = u BY LockIsSome
<1> QED BY <1>1 DEF Owned, Free

\* A step that keeps the owners of the batches that were at work, and starts none.
LEMMA QuietHeld ==
  ASSUME HeldBooks, late' \subseteq late,
         \A c \in late' : Owned(c, Others)',
         \A q \in Processes : Working(q)' => Working(q) /\ Ins(q)' = Ins(q),
         \A q \in Processes : Working(q)' => \A c \in Ins(q) : Owned(c, q)'
  PROVE  Held'
BY DEF HeldBooks, Held, Apart

\* When batch p stops or goes on, and only rows of its own change, the others keep theirs.
LEMMA OwnRows ==
  ASSUME HeldBooks, NEW p \in Processes, Working(p), late' = late,
         Stops(p) \/ \E s \in {"failed", "missing"} : Goes(p, s),
         \A c \in Coins : c \notin Ins(p) /\ row[c] # "absent" => row'[c] = row[c] /\ lock'[c] = lock[c],
         \A c \in Ins(p) : row[c] = "removed" => row'[c] = "removed",
         Working(p)' => \A c \in Ins(p) : Owned(c, p)'
  PROVE  Held'
<1> USE DEF HeldBooks, Books
<1>1. p \in Active BY DEF Working
<1>2. \A q \in Processes : Working(q)' => Working(q) /\ Ins(q)' = Ins(q)
  BY <1>1, NextBatches DEF Stops, Goes, Working, Active, Ins, TypeOK
<1>3. \A c \in late : c \in Coins /\ row[c] # "absent" BY DEF TypeOK, Outputs
<1>4. ASSUME NEW c \in late' PROVE Owned(c, Others)'
  <2>1. c \in late /\ c \in Coins /\ Owned(c, Others) BY <1>3 DEF Held
  <2>2. CASE c \in Ins(p)
    <3>1. Owned(c, p) BY <2>2 DEF Held
    <3>2. row[c] = "removed"
      <4>1. [by |-> p, old |-> FALSE].by = p /\ [by |-> Others, old |-> FALSE].by = Others OBVIOUS
      <4> QED BY <2>1, <3>1, <4>1, SweepAssumption DEF Owned, SweepAssumption
    <3> QED BY <2>2, <3>2 DEF Owned
  <2>3. CASE c \notin Ins(p) BY <1>3, <2>1, <2>3 DEF Owned
  <2> QED BY <2>2, <2>3
<1>5. ASSUME NEW q \in Processes, Working(q)', NEW c \in Ins(q) PROVE Owned(c, q)'
  <2>1. Working(q) /\ q \in Active /\ Owned(c, q) BY <1>2, <1>5 DEF Held, Working
  <2>2. c \in Coins /\ row[c] # "absent" BY <2>1, ActiveParts DEF Outputs
  <2>3. CASE q = p BY <1>5, <2>3
  <2>4. CASE q # p
    <3>1. c \notin Ins(p) BY <2>1, <2>4 DEF Held, Apart
    <3> QED BY <2>1, <2>2, <3>1 DEF Owned
  <2> QED BY <2>3, <2>4
<1> QED BY <1>2, <1>4, <1>5, QuietHeld

LEMMA SweepHeld ==
  ASSUME HeldBooks, NEW p \in Processes, SweepStep(p) PROVE Held'
<1> USE DEF HeldBooks, Books, table
<1>1. CASE Pick(p)
  <2>1. \A q \in Processes : Working(q)' => Working(q) /\ Ins(q)' = Ins(q)
    BY <1>1 DEF Pick, Working, Active, Ins, TypeOK
  <2> QED BY <1>1, <2>1, QuietHeld DEF Pick, Held, Owned
<1>2. \A c \in late : c \in Coins /\ ~Free(c) BY OneOwner DEF Held, TypeOK
<1>3. \A q \in Processes : Working(q) => \A c \in Ins(q) : c \in Coins /\ ~Free(c)
  BY OneOwner, ActiveParts DEF Held, Working
<1>4. ASSUME LockRows(p), p \in Active, row' = row
      PROVE  /\ \A c \in Coins : ~Free(c) => lock'[c] = lock[c]
             /\ \A c \in Taken(p) : c \in Coins /\ lock'[c] = [by |-> p, old |-> FALSE]
  BY <1>4, ActiveParts DEF LockRows, Taken
<1>5. CASE LockBatch(p)
  <2>1. /\ p \in Active /\ ~Working(p) /\ LockRows(p) /\ row' = row /\ late' = late
    BY <1>5 DEF LockBatch, At, Working
  <2>2. \A c \in late' : Owned(c, Others)' BY <1>2, <1>4, <2>1 DEF Held, Owned
  <2>3. \A q \in Processes \ {p} : Working(q)' => Working(q) /\ Ins(q)' = Ins(q)
    BY <1>5 DEF LockBatch, Stops, Working, Active, Ins, TypeOK
  <2>4. \A q \in Processes \ {p} : Working(q)' => \A c \in Ins(q) : Owned(c, q)'
    BY <1>3, <1>4, <2>1, <2>3 DEF Held, Owned
  <2>5. Working(p)' => Ins(p)' = Taken(p)
    BY <1>5, <2>1, ActiveParts DEF LockBatch, Stops, Working, Active, Ins, TypeOK, Sweep
  <2>6. \A c \in Taken(p) : Free(c) BY DEF Taken
  <2>7. Working(p)' => \A c \in Ins(p)' : Owned(c, p)' BY <1>4, <2>1, <2>5 DEF Owned
  <2>8. Apart' BY <1>3, <2>3, <2>5, <2>6 DEF Held, Apart
  <2> QED BY <2>1, <2>2, <2>3, <2>4, <2>7, <2>8 DEF Held
<1>6. CASE LockError(p)
  <2>1. p \in Active /\ row' = row /\ late' = late /\ Stops(p) BY <1>6 DEF LockError, At
  <2>2. \A c \in Coins : ~Free(c) => lock'[c] = lock[c] BY <1>4, <1>6, <2>1 DEF LockError
  <2>3. \A q \in Processes : Working(q)' => Working(q) /\ Ins(q)' = Ins(q)
    BY <2>1 DEF Stops, Working, Active, Ins, TypeOK
  <2> QED BY <1>2, <1>3, <2>1, <2>2, <2>3, QuietHeld DEF Held, Owned
<1>7. CASE NotSent(p) \/ MissingInputs(p) \/ CleanupError(p)
  <2>1. p \in Active /\ Working(p) BY <1>7 DEF NotSent, MissingInputs, CleanupError, At, Working
  <2>2. Stops(p) \/ \E s \in {"failed", "missing"} : Goes(p, s)
    BY <1>7 DEF NotSent, MissingInputs, CleanupError
  <2>3. row' = row /\ lock' = lock /\ late' = late
    BY <1>7 DEF NotSent, MissingInputs, CleanupError
  <2> QED BY <2>1, <2>2, <2>3, OwnRows DEF Held, Owned
<1>8. CASE Broadcast(p) \/ Rebroadcast(p)
  <2>1. p \in Active /\ Working(p) BY <1>8 DEF Broadcast, Rebroadcast, At, Working
  <2>2. /\ \/ \E o \in Coins : Accepted(p, o)
           \/ \E s \in {"failed", "missing"} : Goes(p, s)
        /\ row' = row /\ lock' = lock /\ late' = late
    BY <1>8 DEF Broadcast, Rebroadcast, Unborn
  <2>3. \A q \in Processes : Working(q)' => Working(q) /\ Ins(q)' = Ins(q)
    BY <2>1, <2>2, ActiveParts DEF Accepted, Goes, Working, Active, Ins, TypeOK, Sweep
  <2> QED BY <2>2, <2>3, QuietHeld DEF Held, Owned
<1>9. CASE ReleaseBatch(p)
  <2>1. p \in Active /\ Working(p) /\ ~Working(p)'
    BY <1>9 DEF ReleaseBatch, At, Stops, Working, Active, TypeOK
  <2>2. \A c \in Coins : c \notin Ins(p) => lock'[c] = lock[c]
    BY <1>9 DEF ReleaseBatch, Mine, Unlocked
  <2> QED BY <1>9, <2>1, <2>2, OwnRows DEF ReleaseBatch
<1>10. CASE ArchiveBatch(p)
  <2>1. p \in Active /\ Working(p) /\ ~Working(p)'
    BY <1>10 DEF ArchiveBatch, At, Stops, Working, Active, TypeOK
  <2>2. \A c \in Coins : /\ c \notin Ins(p) => row'[c] = row[c] /\ lock'[c] = lock[c]
                         /\ row[c] = "removed" => row'[c] = "removed"
    BY <1>10 DEF ArchiveBatch, Marked, Unlocked
  <2> QED BY <1>10, <2>1, <2>2, ActiveParts, OwnRows DEF ArchiveBatch
<1>11. ASSUME p \in At("accepted"), Whole(p), Record(p), late' = late,
              Stops(p) \/ Goes(p, "failed")
       PROVE  Held'
  <2>1. p \in Active /\ Working(p) /\ Ins(p) \subseteq Coins
    BY <1>11, ActiveParts DEF At, Working
  <2>2. row[sweep[p].out] = "absent" /\ \A c \in Ins(p) : row[c] = "live" BY <1>11, NewOutput
  <2>3. \A c \in Coins : row[c] # "absent" =>
          /\ c \notin Ins(p) => row'[c] = row[c] /\ lock'[c] = lock[c]
          /\ c \in Ins(p) => row'[c] = "removed"
    BY <1>11, <2>2 DEF Record, Spent, Unlocked
  <2> QED BY <1>11, <2>1, <2>2, <2>3, OwnRows DEF Owned
<1>12. CASE CommitConsolidation(p) \/ CommitError(p)
  <2>1. p \in At("accepted") /\ p \in Active /\ Working(p) /\ late' = late
    BY <1>12 DEF CommitConsolidation, CommitError, At, Working
  <2>2. (Whole(p) /\ Record(p) /\ (Stops(p) \/ Goes(p, "failed")))
        \/ (UNCHANGED table /\ Goes(p, "failed"))
    BY <1>12 DEF CommitConsolidation, CommitError
  <2>3. CASE UNCHANGED table /\ Goes(p, "failed")
    BY <2>1, <2>3, OwnRows DEF Held, Owned
  <2> QED BY <1>11, <2>1, <2>2, <2>3
<1>13. CASE Crash(p)
  <2>1. \A q \in Processes : Working(q)' => Working(q) /\ Ins(q)' = Ins(q)
    BY <1>13 DEF Crash, Stops, Working, Active, Ins, TypeOK
  <2> QED BY <1>13, <2>1, QuietHeld DEF Crash, Held, Owned
<1> QED BY <1>1, <1>5, <1>6, <1>7, <1>8, <1>9, <1>10, <1>12, <1>13 DEF SweepStep

LEMMA OtherHeld ==
  ASSUME LocksOutlastWork, HeldBooks, (\E c \in Coins : RowStep(c)) \/ Reap PROVE Held'
<1> USE DEF HeldBooks, Books, table
<1>1. sweep' = sweep BY DEF RowStep, Reap, OthersTake, OthersRecord, OthersStop, OthersRelease,
                            LockAges, CoolDown, OthersSpend
<1>2. \A q \in Processes : /\ Working(q)' => Working(q) /\ Ins(q)' = Ins(q)
                           /\ Working(q) => \A c \in Ins(q) : c \in Coins /\ row[c] # "absent" /\ Owned(c, q)
  BY <1>1, ActiveParts DEF Working, Active, Ins, Held, Outputs
<1>3. \A c \in late : c \in Coins /\ row[c] # "absent" /\ Owned(c, Others) BY DEF TypeOK, Outputs, Held
<1>4. ASSUME late' \subseteq late, NEW X \in SUBSET Coins,
             \A c \in Coins : c \notin X /\ row[c] # "absent" =>
                row'[c] = row[c] /\ (lock'[c] = lock[c] \/ lock[c] = None \/ lock[c].old),
             \A c \in X : c \notin late' /\ \A q \in Processes : Working(q) /\ c \in Ins(q) => row'[c] = "removed"
      PROVE  Held'
  <2>1. \A c \in Coins, u \in Processes \cup {Others} :
          c \notin X /\ row[c] # "absent" /\ Owned(c, u) => Owned(c, u)'
    <3> SUFFICES ASSUME NEW c \in Coins, NEW u \in Processes \cup {Others},
                        c \notin X, row[c] # "absent", Owned(c, u)
                 PROVE  Owned(c, u)'
      OBVIOUS
    <3>1. [by |-> u, old |-> FALSE] # None /\ ~[by |-> u, old |-> FALSE].old BY LockIsSome
    <3> QED BY <1>4, <3>1 DEF Owned
  <2>2. \A c \in late' : Owned(c, Others)' BY <1>3, <1>4, <2>1
  <2>3. ASSUME NEW q \in Processes, Working(q)', NEW c \in Ins(q) PROVE Owned(c, q)'
    <3>1. c \in Coins /\ row[c] # "absent" /\ Owned(c, q) /\ Working(q) BY <1>2, <2>3
    <3>2. CASE c \in X BY <1>4, <3>1, <3>2 DEF Owned
    <3>3. CASE c \notin X BY <2>1, <3>1, <3>3
    <3> QED BY <3>2, <3>3
  <2> QED BY <1>2, <1>4, <2>2, <2>3, QuietHeld
<1>5. CASE Reap
  <2>1. \A c \in Coins : row'[c] = row[c] /\ (lock'[c] = lock[c] \/ lock[c].old)
    BY <1>5 DEF Reap, Unlocked, Stale
  <2>2. {} \in SUBSET Coins /\ late' = late BY <1>5 DEF Reap
  <2> QED BY <1>4, <2>1, <2>2
<1>6. ASSUME NEW c \in Coins, OthersTake(c) PROVE Held'
  <2>1. \A d \in Coins : row'[d] = row[d] /\ (lock'[d] = lock[d] \/ lock[d] = None)
    BY <1>6 DEF OthersTake, Free, TypeOK
  <2>2. {} \in SUBSET Coins /\ late' = late BY <1>6 DEF OthersTake
  <2> QED BY <1>4, <2>1, <2>2
<1>7. ASSUME NEW c \in Coins, OthersStop(c) \/ CoolDown(c) PROVE Held'
  <2>1. {} \in SUBSET Coins /\ late' \subseteq late /\ row' = row /\ lock' = lock
    BY <1>7 DEF OthersStop, CoolDown
  <2> QED BY <1>4, <2>1
<1>8. ASSUME NEW c \in Coins, OthersRelease(c) PROVE Held'
  <2>1. lock[c] # None /\ lock[c].by = Others /\ row[c] # "removed" /\ c \notin late
    BY <1>8 DEF OthersRelease, AtWork, HeldByOthers, TypeOK
  <2>2. \A q \in Processes : Working(q) => c \notin Ins(q)
    BY <1>2, <2>1, OneOwner, SweepAssumption DEF SweepAssumption
  <2>3. {c} \in SUBSET Coins /\ late' = late
        /\ \A d \in Coins : row'[d] = row[d] /\ (d \notin {c} => lock'[d] = lock[d])
    BY <1>8 DEF OthersRelease, Unlocked
  <2> QED BY <1>4, <2>1, <2>2, <2>3
<1>9. ASSUME NEW c \in Coins, LockAges(c) PROVE Held'
  <2>1. c \notin late /\ \A q \in Processes : Working(q) => c \notin Ins(q)
    BY <1>9 DEF LockAges, Working
  <2>2. {c} \in SUBSET Coins /\ late' = late
        /\ \A d \in Coins : row'[d] = row[d] /\ (d \notin {c} => lock'[d] = lock[d])
    BY <1>9 DEF LockAges, TypeOK
  <2> QED BY <1>4, <2>1, <2>2
<1>10. ASSUME NEW c \in Coins, OthersRecord(c) PROVE Held'
  <2>1. /\ c \in late /\ late' = late \ {c} /\ row[c] # "absent"
        /\ \A d \in Coins : row[d] # "absent" =>
             row'[d] = (IF d = c THEN "removed" ELSE row[d]) /\ (d # c => lock'[d] = lock[d])
    BY <1>3, <1>10 DEF OthersRecord, Unlocked
  <2>2. {c} \in SUBSET Coins OBVIOUS
  <2> QED BY <1>4, <2>1, <2>2
<1>11. ASSUME NEW c \in Coins, NEW O \in SUBSET Coins, OthersSpend(c, O) PROVE Held'
  <2>1. row' = row /\ lock' = lock /\ late' = late \cup {c} BY <1>11 DEF OthersSpend
  <2>2. lock[c] \in Lock /\ lock[c].by = Others /\ ~lock[c].old
    BY <1>11 DEF OthersSpend, AtWork, HeldByOthers, TypeOK
  <2>3. lock[c] = [by |-> Others, old |-> FALSE] BY <2>2 DEF Lock
  <2>4. \A d \in late' : Owned(d, Others)' BY <1>3, <2>1, <2>3 DEF Owned
  <2>5. \A q \in Processes : Working(q)' = Working(q) /\ Ins(q)' = Ins(q)
    BY <1>1 DEF Working, Active, Ins
  <2> QED BY <2>1, <2>4, <2>5 DEF Held, Apart, Owned
<1> QED BY <1>5, <1>6, <1>7, <1>8, <1>9, <1>10, <1>11 DEF RowStep

LEMMA HeldHolds == LocksOutlastWork /\ Spec => []HeldBooks
<1> SUFFICES ASSUME LocksOutlastWork PROVE Spec => []HeldBooks
  OBVIOUS
<1>1. Init => HeldBooks BY BooksInit DEF Init, HeldBooks, Held, Apart, Working, Active
<1>2. HeldBooks /\ [Next]_vars => HeldBooks'
  <2> SUFFICES ASSUME HeldBooks, [Next]_vars PROVE Held'
    BY BooksNext DEF HeldBooks
  <2>1. CASE UNCHANGED vars
    BY <2>1 DEF vars, HeldBooks, Held, Apart, Owned, Working, Active, Ins
  <2> QED BY <2>1, SweepHeld, OtherHeld DEF Next
<1> QED BY <1>1, <1>2, PTL DEF Spec

\* As long as locks outlast the work they protect, two sweeps never work on one output, and a
\* sweep never works on one that a writer holds.
THEOREM BatchesStayApart == LocksOutlastWork /\ Spec => []BatchesApart
<1>1. HeldBooks => BatchesApart
  <2> SUFFICES ASSUME HeldBooks, NEW p \in Processes, Working(p)
               PROVE  /\ \A c \in Ins(p) : ~HeldByOthers(c)
                      /\ \A q \in Processes \ {p} : Working(q) => Ins(p) \cap Ins(q) = {}
    BY DEF BatchesApart
  <2>1. ASSUME NEW c \in Ins(p) PROVE ~HeldByOthers(c)
    <3>1. c \in Coins /\ Owned(c, p)
      BY ActiveParts DEF HeldBooks, Books, Held, Working
    <3>2. row[c] = "removed" => lock[c] = None BY <3>1 DEF HeldBooks, Books, TypeOK
    <3> QED BY <3>1, <3>2, OneOwner, SweepAssumption
          DEF HeldByOthers, SweepAssumption, HeldBooks, Books
  <2> QED BY <2>1 DEF HeldBooks, Held, Apart
<1> QED BY <1>1, HeldHolds, PTL

(* A live row loses its lock to its owner or to the reaper only. *)

LEMMA UnlockedBy ==
  ASSUME Books, [Next]_vars, NEW c \in Coins, lock[c] # None, lock'[c] = None, row'[c] = "live"
  PROVE  \/ lock[c].old
         \/ lock[c].by = Others /\ sweep' = sweep
         \/ lock[c].by # Others /\ sweep'[lock[c].by] # sweep[lock[c].by]
<1> USE DEF Books, table
<1>1. row[c] = "live" BY DEF TypeOK
<1>2. CASE UNCHANGED vars BY <1>2 DEF vars
<1>3. CASE Reap BY <1>3 DEF Reap, Unlocked, Stale
<1>4. ASSUME NEW d \in Coins, RowStep(d)
      PROVE  lock[c].by = Others /\ sweep' = sweep
  <2>1. CASE OthersTake(d) BY <2>1, LockIsSome DEF OthersTake, TypeOK
  <2>2. CASE OthersRecord(d) BY <1>1, <2>2 DEF OthersRecord, Unlocked
  <2>3. CASE OthersRelease(d)
    BY <2>3 DEF OthersRelease, AtWork, HeldByOthers, Unlocked
  <2>4. CASE LockAges(d)
    <3>1. lock[d].by \in Processes \cup {Others} BY <2>4 DEF LockAges, TypeOK, Lock
    <3> QED BY <2>4, <3>1, LockIsSome DEF LockAges, TypeOK
  <2>5. CASE OthersStop(d) \/ CoolDown(d) \/ \E O \in SUBSET Coins : OthersSpend(d, O)
    BY <2>5 DEF OthersStop, CoolDown, OthersSpend
  <2> QED BY <1>4, <2>1, <2>2, <2>3, <2>4, <2>5 DEF RowStep
<1>5. ASSUME NEW p \in Processes, SweepStep(p)
      PROVE  lock[c].by # Others /\ sweep'[lock[c].by] # sweep[lock[c].by]
  <2>1. ~LockRows(p) BY LockIsSome DEF LockRows
  <2>2. ~(p \in At("accepted") /\ Whole(p) /\ Record(p))
    BY <1>1, NewOutput DEF Record, Spent, Unlocked
  <2>3. CASE ReleaseBatch(p)
    <3>1. lock[c].by = p BY <2>3 DEF ReleaseBatch, Mine, Unlocked
    <3>2. sweep[p] # None /\ sweep'[p] = None
      BY <2>3 DEF ReleaseBatch, At, Active, Stops, TypeOK
    <3> QED BY <3>1, <3>2, SweepAssumption DEF SweepAssumption
  <2>4. CASE ArchiveBatch(p) BY <1>1, <2>4 DEF ArchiveBatch, Marked, Unlocked
  <2>5. CASE lock' = lock BY <2>5
  <2>6. CASE LockBatch(p) \/ LockError(p) BY <2>1, <2>5, <2>6 DEF LockBatch, LockError
  <2>7. CASE CommitConsolidation(p) \/ CommitError(p)
    BY <2>2, <2>5, <2>7 DEF CommitConsolidation, CommitError
  <2>8. CASE Pick(p) \/ NotSent(p) \/ Broadcast(p) \/ Rebroadcast(p) \/ MissingInputs(p)
             \/ CleanupError(p) \/ Crash(p)
    BY <2>5, <2>8 DEF Pick, NotSent, Broadcast, Rebroadcast, MissingInputs, CleanupError, Crash
  <2> QED BY <1>5, <2>3, <2>4, <2>6, <2>7, <2>8 DEF SweepStep
<1> QED BY <1>2, <1>3, <1>4, <1>5 DEF Next

\* With no condition: a sweep that has outlasted its locks never hands back a live row that
\* another sweep or a writer has taken since.
THEOREM LocksRespected == Spec => ForeignLocksKept
<1>1. Books /\ [Next]_vars =>
        [\A c \in Coins :
           lock[c] # None /\ lock'[c] = None /\ row'[c] = "live" =>
             \/ lock[c].old
             \/ lock[c].by = Others /\ sweep' = sweep
             \/ lock[c].by # Others /\ sweep'[lock[c].by] # sweep[lock[c].by]]_vars
  BY UnlockedBy
<1> QED BY <1>1, BooksHold, PTL DEF Spec, ForeignLocksKept

=============================================================================
