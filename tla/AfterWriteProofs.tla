-------------------------- MODULE AfterWriteProofs --------------------------
(* Theorems about what follows a write: CheckSchedule, Confirmations, Retention and Recovery, for *)
(* any number of transactions, checks, schedulers, connections and outputs, and any batch sizes.  *)
EXTENDS CheckSchedule, Confirmations, Retention, Recovery, FiniteSetTheorems, TLAPS

----------------------------------------------------------------------------
(* CheckSchedule: types. A check runs only on an entry with attempts left, which is why the count *)
(* stays bounded.                                                                                 *)

\* Running checks have attempts left.
AttemptsLeft == \A w \in Writes : chase[w].at = "asked" => chase[w].attempts < MaxChecks

ScheduleTypeInv == ScheduleTypeOK /\ AttemptsLeft

LEMMA WriteParts == ASSUME NEW w \in Writes PROVE w[1] \in Txids
BY ScheduleAssumption DEF Writes, ScheduleAssumption

LEMMA TrackedParts ==
  ASSUME ScheduleTypeOK, NEW t \in Txids, tracked[t] # Untracked
  PROVE  /\ tracked[t] \in TrackState
         /\ tracked[t].gen \in Nat /\ tracked[t].attempts \in 0..MaxChecks
BY DEF ScheduleTypeOK, TrackState

LEMMA StateIsTracked ==
  ASSUME NEW g \in Nat, NEW n \in 0..MaxChecks
  PROVE  [gen |-> g, attempts |-> n] \in TrackState /\ [gen |-> g, attempts |-> n] # Untracked
<1>1. [gen |-> g, attempts |-> n] \in TrackState BY DEF TrackState
<1> QED BY <1>1, ScheduleAssumption DEF ScheduleAssumption, TrackState

LEMMA ScheduleTypeInit == ScheduleInit => ScheduleTypeInv
<1> SUFFICES ASSUME ScheduleInit PROVE ScheduleTypeInv OBVIOUS
<1>1. Idle \in Chase BY ScheduleAssumption DEF Idle, Chase, ScheduleAssumption
<1>2. \A w \in Writes : chase[w].at = "idle" BY DEF ScheduleInit, Idle
<1>3. tracked \in [Txids -> TrackState \cup {Untracked}] /\ chase \in [Writes -> Chase]
  BY <1>1 DEF ScheduleInit
<1> QED BY <1>2, <1>3 DEF ScheduleInit, ScheduleTypeInv, ScheduleTypeOK, AttemptsLeft

LEMMA ScheduledType ==
  ASSUME ScheduleTypeInv, NEW w \in Writes, NEW g \in Nat, NEW n \in 0..MaxChecks, Scheduled(w, g, n)
  PROVE  /\ tracked' \in [Txids -> TrackState \cup {Untracked}]
         /\ chase' \in [Writes -> Chase] /\ AttemptsLeft'
<1>1. [gen |-> g, attempts |-> n] \in TrackState BY StateIsTracked
<1>2. [at |-> "due", gen |-> g, attempts |-> n] \in Chase BY DEF Chase
<1>3. w[1] \in Txids BY WriteParts
<1> QED BY <1>1, <1>2, <1>3 DEF ScheduleTypeInv, ScheduleTypeOK, AttemptsLeft, Scheduled

LEMMA ScheduleTypeStep ==
  ASSUME ScheduleTypeInv, [ScheduleNext]_scheduleVars
  PROVE  ScheduleTypeInv'
<1> USE DEF ScheduleTypeInv
<1>0. Idle \in Chase BY ScheduleAssumption DEF Idle, Chase, ScheduleAssumption
<1>1. ASSUME NEW w \in Writes, EnqueueConfirmationCheck(w) PROVE ScheduleTypeInv'
  <2>1. w[1] \in Txids BY WriteParts
  <2>2. enqueued' \subseteq Writes /\ wocBackoff' \in BOOLEAN
    BY <1>1 DEF EnqueueConfirmationCheck, ScheduleTypeOK
  <2>3. CASE UNCHANGED <<tracked, chase>>
    BY <2>2, <2>3 DEF ScheduleTypeOK, AttemptsLeft
  <2>4. CASE Scheduled(w, 1, 0)
    BY <2>2, <2>4, ScheduledType, ScheduleAssumption DEF ScheduleAssumption, ScheduleTypeOK
  <2>5. CASE tracked[w[1]] # Untracked /\ Scheduled(w, tracked[w[1]].gen + 1, tracked[w[1]].attempts)
    <3>1. tracked[w[1]].gen + 1 \in Nat /\ tracked[w[1]].attempts \in 0..MaxChecks
      BY <2>1, <2>5, TrackedParts
    <3> QED BY <2>2, <2>5, <3>1, ScheduledType DEF ScheduleTypeOK
  <2> QED BY <1>1, <2>3, <2>4, <2>5 DEF EnqueueConfirmationCheck
<1>2. ASSUME NEW w \in Writes, DropSuperseded(w) PROVE ScheduleTypeInv'
  BY <1>0, <1>2 DEF DropSuperseded, ScheduleTypeOK, AttemptsLeft, Idle
<1>3. ASSUME NEW w \in Writes, GiveUp(w) PROVE ScheduleTypeInv'
  BY <1>0, <1>3, WriteParts DEF GiveUp, ScheduleTypeOK, AttemptsLeft, Idle
<1>4. ASSUME NEW w \in Writes, RunCheck(w) PROVE ScheduleTypeInv'
  <2>1. w[1] \in Txids /\ tracked[w[1]] # Untracked BY <1>4, WriteParts DEF RunCheck, Current
  <2>2. tracked[w[1]].gen \in Nat /\ tracked[w[1]].attempts \in 0..MaxChecks BY <2>1, TrackedParts
  <2>3. tracked[w[1]].attempts < MaxChecks
    BY <1>4, <2>2, ScheduleAssumption DEF RunCheck, Exhausted, ScheduleAssumption
  <2>4. [at |-> "asked", gen |-> tracked[w[1]].gen, attempts |-> tracked[w[1]].attempts] \in Chase
    BY <2>2 DEF Chase
  <2> QED BY <1>4, <2>3, <2>4 DEF RunCheck, ScheduleTypeOK, AttemptsLeft
<1>5. ASSUME NEW w \in Writes, CheckSettles(w) PROVE ScheduleTypeInv'
  BY <1>0, <1>5, WriteParts DEF CheckSettles, ScheduleTypeOK, AttemptsLeft, Idle
<1>6. ASSUME NEW w \in Writes, CheckAgain(w) PROVE ScheduleTypeInv'
  <2>1. chase[w].gen + 1 \in Nat /\ chase[w].attempts + 1 \in 0..MaxChecks
    BY <1>6, ScheduleAssumption DEF CheckAgain, ScheduleTypeOK, AttemptsLeft, Chase, ScheduleAssumption
  <2>2. Scheduled(w, chase[w].gen + 1, chase[w].attempts + 1) BY <1>6 DEF CheckAgain, Rescheduled
  <2>3. enqueued' \subseteq Writes /\ wocBackoff' \in BOOLEAN BY <1>6 DEF CheckAgain, ScheduleTypeOK
  <2> QED BY <2>1, <2>2, <2>3, ScheduledType DEF ScheduleTypeOK
<1>7. CASE BroadcastBacksOff BY <1>7 DEF BroadcastBacksOff, ScheduleTypeOK, AttemptsLeft
<1>8. CASE BackoffRunsOut BY <1>8 DEF BackoffRunsOut, ScheduleTypeOK, AttemptsLeft
<1>9. CASE UNCHANGED scheduleVars BY <1>9 DEF scheduleVars, ScheduleTypeOK, AttemptsLeft
<1> QED BY <1>1, <1>2, <1>3, <1>4, <1>5, <1>6, <1>7, <1>8, <1>9 DEF ScheduleNext, PopStep

\* The map, the heap and the running checks keep their shape (enqueueConfirmationCheck and
\* rescheduleConfirmationCheck): no check is ever made beyond the last attempt.
THEOREM ScheduleTypeCorrect == ScheduleSpec => []ScheduleTypeOK
<1>1. ScheduleInit => ScheduleTypeInv BY ScheduleTypeInit
<1>2. ScheduleTypeInv /\ [ScheduleNext]_scheduleVars => ScheduleTypeInv' BY ScheduleTypeStep
<1>3. ScheduleTypeInv => ScheduleTypeOK BY DEF ScheduleTypeInv
<1> QED BY <1>1, <1>2, <1>3, PTL DEF ScheduleSpec

LEMMA ScheduleTypeHolds == ScheduleSpec => []ScheduleTypeInv
<1>1. ScheduleInit => ScheduleTypeInv BY ScheduleTypeInit
<1>2. ScheduleTypeInv /\ [ScheduleNext]_scheduleVars => ScheduleTypeInv' BY ScheduleTypeStep
<1> QED BY <1>1, <1>2, PTL DEF ScheduleSpec

----------------------------------------------------------------------------
(* Every entry is followed by an item or a check of its generation. Each action either leaves the *)
(* witness of an entry alone or makes a new one.                                                  *)

Follows(w, t) == w[1] = t /\ chase[w].at # "idle" /\ chase[w].gen = tracked[t].gen

LEMMA StaysFollowed ==
  ASSUME NeverForgotten, NEW t \in Tracked', t \in Tracked, tracked'[t] = tracked[t],
         \A w \in Writes : Follows(w, t) => chase'[w] = chase[w]
  PROVE  \E w \in Writes : Follows(w, t)'
<1>1. PICK w \in Writes : Follows(w, t) BY DEF NeverForgotten, Follows
<1> QED BY <1>1 DEF Follows

LEMMA ScheduledFollows ==
  ASSUME ScheduleTypeOK, NeverForgotten, NEW w \in Writes, NEW g \in Nat, NEW n \in 0..MaxChecks,
         Scheduled(w, g, n)
  PROVE  NeverForgotten'
<1> SUFFICES ASSUME NEW t \in Tracked' PROVE \E v \in Writes : Follows(v, t)'
  BY DEF NeverForgotten, Follows
<1>1. w[1] \in Txids BY WriteParts
<1>2. CASE t = w[1]
  BY <1>1, <1>2 DEF ScheduleTypeOK, Scheduled, Follows
<1>3. CASE t # w[1]
  <2>1. t \in Txids /\ tracked'[t] = tracked[t] /\ t \in Tracked
    BY <1>1, <1>3 DEF ScheduleTypeOK, Scheduled, Tracked
  <2>2. \A v \in Writes : Follows(v, t) => chase'[v] = chase[v]
    BY <1>3 DEF ScheduleTypeOK, Scheduled, Follows
  <2> QED BY <2>1, <2>2, StaysFollowed
<1> QED BY <1>2, <1>3

LEMMA DroppedFollows ==
  ASSUME ScheduleTypeOK, NeverForgotten, NEW w \in Writes,
         tracked' = [tracked EXCEPT ![w[1]] = Untracked], chase' = [chase EXCEPT ![w] = Idle]
  PROVE  NeverForgotten'
<1> SUFFICES ASSUME NEW t \in Tracked' PROVE \E v \in Writes : Follows(v, t)'
  BY DEF NeverForgotten, Follows
<1>1. w[1] \in Txids BY WriteParts
<1>2. t \in Txids /\ t # w[1] /\ tracked'[t] = tracked[t] /\ t \in Tracked
  BY <1>1 DEF ScheduleTypeOK, Tracked
<1>3. \A v \in Writes : Follows(v, t) => chase'[v] = chase[v]
  BY <1>2 DEF ScheduleTypeOK, Follows
<1> QED BY <1>2, <1>3, StaysFollowed

LEMMA FollowedStep ==
  ASSUME ScheduleTypeInv, NeverForgotten, [ScheduleNext]_scheduleVars
  PROVE  NeverForgotten'
<1> USE DEF ScheduleTypeInv
<1>0. ASSUME UNCHANGED <<tracked, chase>> PROVE NeverForgotten'
  BY <1>0 DEF NeverForgotten, Tracked
<1>1. ASSUME NEW w \in Writes, EnqueueConfirmationCheck(w) PROVE NeverForgotten'
  <2>1. w[1] \in Txids BY WriteParts
  <2>2. CASE Scheduled(w, 1, 0)
    BY <2>2, ScheduledFollows, ScheduleAssumption DEF ScheduleAssumption
  <2>3. CASE tracked[w[1]] # Untracked /\ Scheduled(w, tracked[w[1]].gen + 1, tracked[w[1]].attempts)
    <3>1. tracked[w[1]].gen + 1 \in Nat /\ tracked[w[1]].attempts \in 0..MaxChecks
      BY <2>1, <2>3, TrackedParts
    <3> QED BY <2>3, <3>1, ScheduledFollows
  <2> QED BY <1>0, <1>1, <2>2, <2>3 DEF EnqueueConfirmationCheck
<1>2. ASSUME NEW w \in Writes, DropSuperseded(w) PROVE NeverForgotten'
  <2> SUFFICES ASSUME NEW t \in Tracked' PROVE \E v \in Writes : Follows(v, t)'
    BY DEF NeverForgotten, Follows
  <2>1. t \in Tracked /\ tracked'[t] = tracked[t] BY <1>2 DEF DropSuperseded, Tracked
  <2>2. \A v \in Writes : Follows(v, t) => chase'[v] = chase[v]
    BY <1>2, <2>1 DEF DropSuperseded, Current, ScheduleTypeOK, Follows, Tracked
  <2> QED BY <2>1, <2>2, StaysFollowed
<1>3. ASSUME NEW w \in Writes, GiveUp(w) PROVE NeverForgotten'
  BY <1>3, DroppedFollows DEF GiveUp
<1>4. ASSUME NEW w \in Writes, RunCheck(w) PROVE NeverForgotten'
  <2> SUFFICES ASSUME NEW t \in Tracked' PROVE \E v \in Writes : Follows(v, t)'
    BY DEF NeverForgotten, Follows
  <2>1. t \in Tracked /\ tracked' = tracked BY <1>4 DEF RunCheck, Tracked
  <2>2. PICK v \in Writes : Follows(v, t) BY <2>1 DEF NeverForgotten, Follows
  <2>3. CASE v = w
    BY <1>4, <2>1, <2>2, <2>3 DEF RunCheck, ScheduleTypeOK, Follows
  <2>4. CASE v # w
    BY <1>4, <2>1, <2>2, <2>4 DEF RunCheck, ScheduleTypeOK, Follows
  <2> QED BY <2>3, <2>4
<1>5. ASSUME NEW w \in Writes, CheckSettles(w) PROVE NeverForgotten'
  BY <1>5, DroppedFollows DEF CheckSettles
<1>6. ASSUME NEW w \in Writes, CheckAgain(w) PROVE NeverForgotten'
  <2>1. chase[w].gen + 1 \in Nat /\ chase[w].attempts + 1 \in 0..MaxChecks
    BY <1>6, ScheduleAssumption DEF CheckAgain, ScheduleTypeOK, AttemptsLeft, Chase, ScheduleAssumption
  <2> QED BY <1>6, <2>1, ScheduledFollows DEF CheckAgain, Rescheduled
<1>7. CASE BroadcastBacksOff \/ BackoffRunsOut BY <1>0, <1>7 DEF BroadcastBacksOff, BackoffRunsOut
<1>8. CASE UNCHANGED scheduleVars BY <1>0, <1>8 DEF scheduleVars
<1> QED BY <1>1, <1>2, <1>3, <1>4, <1>5, <1>6, <1>7, <1>8 DEF ScheduleNext, PopStep

\* No entry of pendingConfirmationByTxid is ever without a heap item or a running check of its
\* generation, however checks of one txid overlap, are superseded and reschedule themselves.
THEOREM NoEntryForgotten == ScheduleSpec => []NeverForgotten
<1>1. ScheduleInit => NeverForgotten BY DEF ScheduleInit, NeverForgotten, Tracked
<1>2. ScheduleTypeInv /\ NeverForgotten /\ [ScheduleNext]_scheduleVars => NeverForgotten'
  BY FollowedStep
<1> QED BY <1>1, <1>2, ScheduleTypeHolds, PTL DEF ScheduleSpec

----------------------------------------------------------------------------
(* The bound. A check may put an entry back that has left the map, so what is bounded is the      *)
(* entries together with the transactions of running checks.                                      *)

Asked == {w[1] : w \in Checking}

HeldBounded ==
  /\ Cardinality(Checking) <= CheckConcurrency
  /\ Cardinality(Tracked \cup Asked) <= MaxTracked + CheckConcurrency

LEMMA WritesFinite == IsFiniteSet(Writes)
<1>1. IsFiniteSet(Txids) /\ IsFiniteSet(Resent)
  BY ScheduleAssumption, FS_Subset DEF ScheduleAssumption
<1>2. IsFiniteSet(Txids \X {1}) /\ IsFiniteSet(Resent \X {2}) BY <1>1, FS_Product, FS_Singleton
<1> QED BY <1>2, FS_Union DEF Writes

\* The transactions of a set of writes are finite and no more than the writes.
LEMMA AskedBound ==
  ASSUME NEW C \in SUBSET Writes
  PROVE  /\ IsFiniteSet(C) /\ Cardinality(C) \in Nat
         /\ {w[1] : w \in C} \subseteq Txids /\ IsFiniteSet({w[1] : w \in C})
         /\ Cardinality({w[1] : w \in C}) \in Nat /\ Cardinality({w[1] : w \in C}) <= Cardinality(C)
<1> DEFINE T == {w[1] : w \in C}
           f == [w \in C |-> w[1]]
<1>1. IsFiniteSet(C) BY WritesFinite, FS_Subset
<1>2. f \in Surjection(C, T) BY DEF Surjection
<1>3. IsFiniteSet(T) /\ Cardinality(T) <= Cardinality(C)
  <2> HIDE DEF f, T
  <2> QED BY <1>1, <1>2, FS_Surjection
<1> QED BY <1>1, <1>3, FS_CardinalityType, WriteParts

LEMMA HeldFinite ==
  ASSUME NEW T \in SUBSET Txids
  PROVE  IsFiniteSet(T) /\ Cardinality(T) \in Nat
BY ScheduleAssumption, FS_Subset, FS_CardinalityType DEF ScheduleAssumption

\* A step that adds neither entries nor checks keeps the bound.
LEMMA NoMoreHeld ==
  ASSUME HeldBounded, Checking' \subseteq Checking, Tracked' \subseteq Tracked \cup Asked
  PROVE  HeldBounded'
<1>1. Checking \in SUBSET Writes /\ Tracked \in SUBSET Txids BY DEF Checking, Tracked
<1>2. IsFiniteSet(Checking) /\ Cardinality(Checking) \in Nat /\ Asked \subseteq Txids
  BY <1>1, AskedBound DEF Asked
<1>3. Cardinality(Checking') \in Nat /\ Cardinality(Checking') <= Cardinality(Checking)
  BY <1>2, FS_Subset, FS_CardinalityType
<1>4. Asked' \subseteq Asked BY DEF Asked
<1>5. (Tracked \cup Asked) \in SUBSET Txids BY <1>1, <1>2
<1>6. IsFiniteSet(Tracked \cup Asked) /\ Cardinality(Tracked \cup Asked) \in Nat BY <1>5, HeldFinite
<1>7. (Tracked \cup Asked)' \in SUBSET (Tracked \cup Asked) BY <1>4
<1>8. /\ Cardinality((Tracked \cup Asked)') \in Nat
      /\ Cardinality((Tracked \cup Asked)') <= Cardinality(Tracked \cup Asked)
  BY <1>6, <1>7, FS_Subset, FS_CardinalityType
<1> QED BY <1>2, <1>3, <1>6, <1>8, ScheduleAssumption DEF HeldBounded, ScheduleAssumption

LEMMA NewEntryHeld ==
  ASSUME ScheduleTypeOK, HeldBounded, NEW w \in Writes, w[1] \notin Tracked, ~Full,
         Scheduled(w, 1, 0)
  PROVE  HeldBounded'
<1>1. w[1] \in Txids BY WriteParts
<1>2. Checking' \subseteq Checking BY DEF ScheduleTypeOK, Scheduled, Checking
<1>3. Tracked' \subseteq Tracked \cup {w[1]} BY <1>1 DEF ScheduleTypeOK, Scheduled, Tracked
<1>4. Checking \in SUBSET Writes /\ Tracked \in SUBSET Txids BY DEF Checking, Tracked
<1>5. Checking' \in SUBSET Writes BY <1>2, <1>4
<1>6. /\ IsFiniteSet(Checking) /\ Cardinality(Checking) \in Nat /\ Cardinality(Checking') \in Nat
      /\ Asked' \subseteq Txids /\ IsFiniteSet(Asked') /\ Cardinality(Asked') \in Nat
      /\ Cardinality(Asked') <= Cardinality(Checking')
  BY <1>4, <1>5, AskedBound DEF Asked
<1>7. Cardinality(Checking') <= Cardinality(Checking) BY <1>2, <1>6, FS_Subset
<1>8. Tracked' \in SUBSET Txids BY <1>1, <1>3, <1>4
<1>9. /\ IsFiniteSet(Tracked) /\ Cardinality(Tracked) \in Nat
      /\ IsFiniteSet(Tracked') /\ Cardinality(Tracked') \in Nat
  BY <1>4, <1>8, HeldFinite
<1>10. Cardinality(Tracked') <= MaxTracked
  <2>1. IsFiniteSet(Tracked \cup {w[1]}) /\ Cardinality(Tracked \cup {w[1]}) = Cardinality(Tracked) + 1
    BY <1>9, FS_AddElement
  <2>2. Cardinality(Tracked') <= Cardinality(Tracked) + 1 BY <1>3, <2>1, FS_Subset
  <2>3. Cardinality(Tracked) < MaxTracked BY <1>9, ScheduleAssumption DEF Full, ScheduleAssumption
  <2> QED BY <1>9, <2>2, <2>3, ScheduleAssumption DEF ScheduleAssumption
<1>11. /\ Cardinality((Tracked \cup Asked)') \in Nat
       /\ Cardinality((Tracked \cup Asked)') <= Cardinality(Tracked') + Cardinality(Asked')
  <2>1. Cardinality(Tracked' \cup Asked') = Cardinality(Tracked') + Cardinality(Asked') - Cardinality(Tracked' \cap Asked')
    BY <1>6, <1>9, FS_Union
  <2>2. Cardinality(Tracked' \cap Asked') \in Nat BY <1>9, FS_Intersection, FS_CardinalityType
  <2>3. Cardinality(Tracked' \cup Asked') \in Nat BY <1>6, <1>9, FS_Union, FS_CardinalityType
  <2> QED BY <1>6, <1>9, <2>1, <2>2, <2>3
<1> QED BY <1>6, <1>7, <1>9, <1>10, <1>11, ScheduleAssumption DEF HeldBounded, ScheduleAssumption

LEMMA CheckHeld ==
  ASSUME ScheduleTypeOK, HeldBounded, NEW w \in Writes, RunCheck(w)
  PROVE  HeldBounded'
<1>1. w[1] \in Tracked BY WriteParts DEF RunCheck, Current, Tracked
<1>2. Checking' \subseteq Checking \cup {w} /\ Tracked' = Tracked
  BY DEF RunCheck, ScheduleTypeOK, Checking, Tracked
<1>3. (Tracked \cup Asked)' \subseteq Tracked \cup Asked BY <1>1, <1>2 DEF Asked
<1>4. Checking \in SUBSET Writes /\ Checking' \in SUBSET Writes /\ Tracked \in SUBSET Txids
  BY <1>2 DEF Checking, Tracked
<1>5. IsFiniteSet(Checking) /\ Cardinality(Checking) \in Nat /\ Asked \subseteq Txids
  BY <1>4, AskedBound DEF Asked
<1>6. Cardinality(Checking') \in Nat BY <1>4, AskedBound
<1>7. Cardinality(Checking') <= Cardinality(Checking) + 1
  <2>1. IsFiniteSet(Checking \cup {w}) /\ Cardinality(Checking \cup {w}) <= Cardinality(Checking) + 1
    BY <1>5, FS_AddElement
  <2>2. Cardinality(Checking') <= Cardinality(Checking \cup {w}) BY <1>2, <2>1, FS_Subset
  <2>3. Cardinality(Checking \cup {w}) \in Nat BY <2>1, FS_CardinalityType
  <2> QED BY <1>5, <1>6, <2>1, <2>2, <2>3
<1>8. Cardinality(Checking) < CheckConcurrency BY DEF RunCheck, Popped
<1>9. (Tracked \cup Asked) \in SUBSET Txids BY <1>4, <1>5
<1>10. IsFiniteSet(Tracked \cup Asked) /\ Cardinality(Tracked \cup Asked) \in Nat BY <1>9, HeldFinite
<1>11. /\ Cardinality((Tracked \cup Asked)') \in Nat
       /\ Cardinality((Tracked \cup Asked)') <= Cardinality(Tracked \cup Asked)
  BY <1>3, <1>10, FS_Subset, FS_CardinalityType
<1> QED
  BY <1>5, <1>6, <1>7, <1>8, <1>10, <1>11, ScheduleAssumption DEF HeldBounded, ScheduleAssumption

LEMMA HeldStep ==
  ASSUME ScheduleTypeInv, HeldBounded, [ScheduleNext]_scheduleVars
  PROVE  HeldBounded'
<1> USE DEF ScheduleTypeInv
<1>0. ASSUME UNCHANGED <<tracked, chase>> PROVE HeldBounded'
  BY <1>0, NoMoreHeld DEF Tracked, Checking
<1>1. ASSUME NEW w \in Writes, EnqueueConfirmationCheck(w) PROVE HeldBounded'
  <2>1. CASE tracked[w[1]] = Untracked /\ ~Full /\ Scheduled(w, 1, 0)
    BY <2>1, NewEntryHeld DEF Tracked
  <2>2. CASE tracked[w[1]] # Untracked /\ Scheduled(w, tracked[w[1]].gen + 1, tracked[w[1]].attempts)
    <3>1. w[1] \in Tracked BY <2>2, WriteParts DEF Tracked
    <3>2. Checking' \subseteq Checking /\ Tracked' \subseteq Tracked
      BY <2>2, <3>1 DEF ScheduleTypeOK, Scheduled, Checking, Tracked
    <3> QED BY <3>2, NoMoreHeld
  <2> QED BY <1>0, <1>1, <2>1, <2>2 DEF EnqueueConfirmationCheck
<1>2. ASSUME NEW w \in Writes, DropSuperseded(w) \/ GiveUp(w) \/ CheckSettles(w) PROVE HeldBounded'
  <2>1. Checking' \subseteq Checking
    BY <1>2 DEF DropSuperseded, GiveUp, CheckSettles, ScheduleTypeOK, Checking, Idle
  <2>2. Tracked' \subseteq Tracked
    BY <1>2 DEF DropSuperseded, GiveUp, CheckSettles, ScheduleTypeOK, Tracked
  <2> QED BY <2>1, <2>2, NoMoreHeld
<1>3. ASSUME NEW w \in Writes, RunCheck(w) PROVE HeldBounded' BY <1>3, CheckHeld
<1>4. ASSUME NEW w \in Writes, CheckAgain(w) PROVE HeldBounded'
  <2>1. w \in Checking /\ w[1] \in Asked BY <1>4 DEF CheckAgain, Checking, Asked
  <2>2. Checking' \subseteq Checking
    BY <1>4 DEF CheckAgain, Rescheduled, Scheduled, ScheduleTypeOK, Checking
  <2>3. Tracked' \subseteq Tracked \cup {w[1]}
    BY <1>4 DEF CheckAgain, Rescheduled, Scheduled, ScheduleTypeOK, Tracked
  <2> QED BY <2>1, <2>2, <2>3, NoMoreHeld
<1>5. CASE BroadcastBacksOff \/ BackoffRunsOut BY <1>0, <1>5 DEF BroadcastBacksOff, BackoffRunsOut
<1>6. CASE UNCHANGED scheduleVars BY <1>0, <1>6 DEF scheduleVars
<1> QED BY <1>1, <1>2, <1>3, <1>4, <1>5, <1>6 DEF ScheduleNext, PopStep

LEMMA HeldInit == ScheduleInit => HeldBounded
<1> SUFFICES ASSUME ScheduleInit PROVE HeldBounded OBVIOUS
<1>1. \A w \in Writes : chase[w].at = "idle" BY DEF ScheduleInit, Idle
<1>2. Checking = {} /\ Tracked = {} BY <1>1 DEF ScheduleInit, Checking, Tracked
<1>3. Asked = {} BY <1>2 DEF Asked
<1> QED BY <1>2, <1>3, FS_EmptySet, ScheduleAssumption DEF HeldBounded, ScheduleAssumption

LEMMA HeldBoundsTracker == ScheduleTypeOK /\ HeldBounded => TrackerBounded
<1> SUFFICES ASSUME ScheduleTypeOK, HeldBounded PROVE TrackerBounded OBVIOUS
<1>1. Checking \in SUBSET Writes /\ Tracked \in SUBSET Txids BY DEF Checking, Tracked
<1>2. Asked \subseteq Txids BY <1>1, AskedBound DEF Asked
<1>3. (Tracked \cup Asked) \in SUBSET Txids BY <1>1, <1>2
<1>4. IsFiniteSet(Tracked \cup Asked) /\ Cardinality(Tracked \cup Asked) \in Nat BY <1>3, HeldFinite
<1>5. Cardinality(Tracked) \in Nat /\ Cardinality(Tracked) <= Cardinality(Tracked \cup Asked)
  BY <1>1, <1>4, HeldFinite, FS_Subset
<1> QED BY <1>4, <1>5, ScheduleAssumption DEF HeldBounded, TrackerBounded, ScheduleAssumption

\* pendingConfirmationByTxid outgrows CONFIRMATION_MAX_TRACKED_TXIDS by the checks in flight at
\* most, although a check that outlives its entry puts the entry back.
THEOREM MapStaysBounded == ScheduleSpec => []TrackerBounded
<1>1. ScheduleInit => HeldBounded BY HeldInit
<1>2. ScheduleTypeInv /\ HeldBounded /\ [ScheduleNext]_scheduleVars => HeldBounded' BY HeldStep
<1>3. ScheduleTypeInv /\ HeldBounded => TrackerBounded BY HeldBoundsTracker DEF ScheduleTypeInv
<1> QED BY <1>1, <1>2, <1>3, ScheduleTypeHolds, PTL DEF ScheduleSpec

----------------------------------------------------------------------------
(* Confirmations: types.                                                                          *)

LEMMA AcceptanceParts == ASSUME NEW a \in Acceptances PROVE a[1] \in Txs
BY DEF Acceptances

LEMMA ConfirmationTypeInit == ConfirmationInit => ConfirmationTypeOK
BY DEF ConfirmationInit, ConfirmationTypeOK

LEMMA UpsertedType ==
  ASSUME ConfirmationTypeOK, NEW t \in Txs, NEW s \in {"pending", "confirmed", "failed"}
  PROVE  Upserted(t, s) \in [Txs -> {"none", "pending", "confirmed", "failed"}]
BY DEF ConfirmationTypeOK, Upserted

LEMMA LogConfirmedType ==
  ASSUME ConfirmationTypeOK, NEW S
  PROVE  LogConfirmed(S) \in [Txs -> {"none", "pending", "confirmed", "failed"}]
BY DEF ConfirmationTypeOK, LogConfirmed

LEMMA ReadingConfirmedType ==
  ASSUME ConfirmationTypeOK, NEW S
  PROVE  ReadingConfirmed(S) \in [Txs -> {"none", "unconfirmed", "confirmed"}]
BY DEF ConfirmationTypeOK, ReadingConfirmed

LEMMA WriterTypeStep ==
  ASSUME ConfirmationTypeOK, NEW a \in Acceptances, WriterStep(a)
  PROVE  ConfirmationTypeOK'
<1> USE DEF Goes, stores, cycle, scripts
<1>0. a[1] \in Txs BY AcceptanceParts
<1>1. CASE Accepted(a) BY <1>0, <1>1 DEF Accepted, ConfirmationTypeOK
<1>2. CASE AddReading(a) BY <1>0, <1>2 DEF AddReading, Added, ConfirmationTypeOK
<1>3. CASE LogPending(a)
  <2>1. Upserted(a[1], "pending") \in [Txs -> {"none", "pending", "confirmed", "failed"}]
    BY <1>0, UpsertedType
  <2> QED BY <1>3, <2>1 DEF LogPending, ConfirmationTypeOK
<1>4. CASE CheckFindsMined(a) BY <1>4 DEF CheckFindsMined, ConfirmationTypeOK
<1>5. CASE CheckConfirms(a)
  <2>1. Upserted(a[1], "confirmed") \in [Txs -> {"none", "pending", "confirmed", "failed"}]
    BY <1>0, UpsertedType
  <2> QED BY <1>5, <2>1 DEF CheckConfirms, ConfirmationTypeOK
<1>6. CASE CheckGivesUp(a) BY <1>6 DEF CheckGivesUp, ConfirmationTypeOK
<1>7. CASE CleanUpLog(a)
  <2>1. Upserted(a[1], "failed") \in [Txs -> {"none", "pending", "confirmed", "failed"}]
    BY <1>0, UpsertedType
  <2> QED BY <1>7, <2>1 DEF CleanUpLog, ConfirmationTypeOK
<1>8. CASE CleanUpReading(a) BY <1>0, <1>8 DEF CleanUpReading, Removed, ConfirmationTypeOK
<1> QED BY <1>1, <1>2, <1>3, <1>4, <1>5, <1>6, <1>7, <1>8 DEF WriterStep

LEMMA CycleTypeStep == ConfirmationTypeOK /\ CycleStep => ConfirmationTypeOK'
<1> SUFFICES ASSUME ConfirmationTypeOK, CycleStep PROVE ConfirmationTypeOK' OBVIOUS
<1> USE DEF stores, cycle, scripts
<1>1. CASE CycleStarts BY <1>1 DEF CycleStarts, Unconfirmed, ConfirmationTypeOK
<1>2. ASSUME NEW t \in Txs, CycleLooksUp(t) PROVE ConfirmationTypeOK'
  BY <1>2 DEF CycleLooksUp, ConfirmationTypeOK
<1>3. ASSUME NEW t \in Txs, CycleConfirmsReading(t) PROVE ConfirmationTypeOK'
  <2>1. ReadingConfirmed({t}) \in [Txs -> {"none", "unconfirmed", "confirmed"}]
    BY ReadingConfirmedType
  <2> QED BY <1>3, <2>1 DEF CycleConfirmsReading, ConfirmationTypeOK
<1>4. ASSUME NEW t \in Txs, CycleConfirmsLog(t) PROVE ConfirmationTypeOK'
  <2>1. LogConfirmed({t}) \in [Txs -> {"none", "pending", "confirmed", "failed"}]
    BY LogConfirmedType
  <2> QED BY <1>4, <2>1 DEF CycleConfirmsLog, ConfirmationTypeOK
<1> QED BY <1>1, <1>2, <1>3, <1>4 DEF CycleStep

LEMMA ScriptTypeStep == ConfirmationTypeOK /\ ScriptStep => ConfirmationTypeOK'
<1> SUFFICES ASSUME ConfirmationTypeOK, ScriptStep PROVE ConfirmationTypeOK' OBVIOUS
<1> USE DEF stores, cycle, scripts
<1>1. CASE BackfillLooksUp BY <1>1 DEF BackfillLooksUp, Unconfirmed, ConfirmationTypeOK
<1>2. CASE BackfillConfirmsReadings
  <2>1. explorer' \in [Txs -> {"none", "unconfirmed", "confirmed"}]
    BY <1>2, ReadingConfirmedType DEF BackfillConfirmsReadings
  <2> QED BY <1>2, <2>1 DEF BackfillConfirmsReadings, ConfirmationTypeOK
<1>3. CASE BackfillConfirmsLog
  <2>1. LogConfirmed(backfill.mined) \in [Txs -> {"none", "pending", "confirmed", "failed"}]
    BY LogConfirmedType
  <2> QED BY <1>3, <2>1 DEF BackfillConfirmsLog, ConfirmationTypeOK
<1>4. CASE PromoteKnownConfirmed
  <2>1. explorer' \in [Txs -> {"none", "unconfirmed", "confirmed"}]
    BY <1>4, ReadingConfirmedType DEF PromoteKnownConfirmed
  <2> QED BY <1>4, <2>1 DEF PromoteKnownConfirmed, ConfirmationTypeOK
<1>5. CASE ArchiveStuck BY <1>5 DEF ArchiveStuck, ConfirmationTypeOK
<1>6. CASE SyncAddsBatch BY <1>6 DEF SyncAddsBatch, Added, ConfirmationTypeOK
<1>7. ASSUME NEW t \in Txs, SyncDecodes(t) PROVE ConfirmationTypeOK'
  BY <1>7 DEF SyncDecodes, ConfirmationTypeOK
<1> QED BY <1>1, <1>2, <1>3, <1>4, <1>5, <1>6, <1>7 DEF ScriptStep

LEMMA ConfirmationTypeStep ==
  ConfirmationTypeOK /\ [ConfirmationNext]_confirmationVars => ConfirmationTypeOK'
<1> SUFFICES ASSUME ConfirmationTypeOK, [ConfirmationNext]_confirmationVars
    PROVE  ConfirmationTypeOK'
  OBVIOUS
<1> USE DEF stores, cycle, scripts
<1>1. ASSUME NEW a \in Acceptances, WriterStep(a) PROVE ConfirmationTypeOK' BY <1>1, WriterTypeStep
<1>2. CASE CycleStep BY <1>2, CycleTypeStep
<1>3. CASE ScriptStep BY <1>3, ScriptTypeStep
<1>4. ASSUME NEW t \in Txs, NetworkMoves(t) PROVE ConfirmationTypeOK'
  BY <1>4 DEF NetworkMoves, ConfirmationTypeOK
<1>5. CASE WorkersExit BY <1>5 DEF WorkersExit, ConfirmationTypeOK
<1>6. CASE WorkersStart BY <1>6 DEF WorkersStart, ConfirmationTypeOK
<1>7. CASE UNCHANGED confirmationVars BY <1>7 DEF confirmationVars, ConfirmationTypeOK
<1> QED BY <1>1, <1>2, <1>3, <1>4, <1>5, <1>6, <1>7 DEF ConfirmationNext

\* Every store keeps to its statuses, whichever of the five writers wrote last.
THEOREM ConfirmationTypeCorrect == ConfirmationSpec => []ConfirmationTypeOK
BY ConfirmationTypeInit, ConfirmationTypeStep, PTL DEF ConfirmationSpec

----------------------------------------------------------------------------
(* What is called confirmed is mined. An answer may be acted on long after it was given, so the   *)
(* invariant speaks of everything that is under way between the look-up and the update.           *)

Evidence ==
  /\ \A a \in Acceptances : bookkeeping[a] = "confirming" => Mined(a[1])
  /\ \A t \in Txs : applying[t] # "no" => Mined(t)
  /\ \A t \in backfill.mined : Mined(t)
  /\ \A t \in Txs : synced[t] = "confirmed" => Mined(t)

ConfirmedInv == ConfirmationTypeOK /\ OnlyMinedIsConfirmed /\ Evidence

\* A block stays: no step takes a mined transaction out of it.
LEMMA MinedStays ==
  ASSUME ConfirmationTypeOK, [ConfirmationNext]_confirmationVars, NEW t \in Txs, Mined(t)
  PROVE  Mined(t)'
<1>1. ASSUME NEW a \in Acceptances, WriterStep(a) PROVE Mined(t)'
  BY <1>1, AcceptanceParts DEF WriterStep, Accepted, AddReading, LogPending, CheckFindsMined, CheckConfirms,
     CheckGivesUp, CleanUpLog, CleanUpReading, Mined, ConfirmationTypeOK
<1>2. CASE CycleStep
  BY <1>2 DEF CycleStep, CycleStarts, CycleLooksUp, CycleConfirmsReading, CycleConfirmsLog, Mined
<1>3. CASE ScriptStep
  BY <1>3 DEF ScriptStep, BackfillLooksUp, BackfillConfirmsReadings, BackfillConfirmsLog,
     PromoteKnownConfirmed, ArchiveStuck, SyncAddsBatch, SyncDecodes, Mined
<1>4. ASSUME NEW u \in Txs, NetworkMoves(u) PROVE Mined(t)'
  BY <1>4 DEF NetworkMoves, Mined, ConfirmationTypeOK
<1>5. CASE WorkersExit \/ WorkersStart BY <1>5 DEF WorkersExit, WorkersStart, Mined
<1>6. CASE UNCHANGED confirmationVars BY <1>6 DEF confirmationVars, Mined
<1> QED BY <1>1, <1>2, <1>3, <1>4, <1>5, <1>6 DEF ConfirmationNext

LEMMA ConfirmedInit == ConfirmationInit => ConfirmedInv
<1> SUFFICES ASSUME ConfirmationInit PROVE ConfirmedInv OBVIOUS
<1>1. ConfirmationTypeOK BY ConfirmationTypeInit
<1>2. OnlyMinedIsConfirmed BY DEF ConfirmationInit, OnlyMinedIsConfirmed
<1>3. Evidence BY DEF ConfirmationInit, Evidence
<1> QED BY <1>1, <1>2, <1>3 DEF ConfirmedInv

\* Whatever acts on an answer was told so when the transaction was mined.
LEMMA EvidenceStays ==
  ASSUME ConfirmedInv, [ConfirmationNext]_confirmationVars
  PROVE  Evidence'
<1> USE DEF ConfirmedInv, stores, cycle, scripts
<1>0. \A t \in Txs : Mined(t) => Mined(t)' BY MinedStays
<1>1. ASSUME NEW a \in Acceptances, bookkeeping'[a] = "confirming" PROVE Mined(a[1])'
  <2>0. a[1] \in Txs BY AcceptanceParts
  <2>1. SUFFICES ASSUME bookkeeping[a] # "confirming" PROVE Mined(a[1])
    BY <1>0, <2>0 DEF Evidence
  <2>2. ASSUME NEW b \in Acceptances, WriterStep(b) PROVE Mined(a[1])
    <3>1. CheckFindsMined(b) /\ b = a
      BY <1>1, <2>1, <2>2 DEF WriterStep, Accepted, AddReading, LogPending, CheckFindsMined, CheckConfirms,
         CheckGivesUp, CleanUpLog, CleanUpReading, Goes, ConfirmationTypeOK
    <3> QED BY <3>1 DEF CheckFindsMined
  <2>3. ConfirmationNext => (\E b \in Acceptances : WriterStep(b))
                            \/ bookkeeping' = bookkeeping
                            \/ bookkeeping' = [b \in Acceptances |-> IF bookkeeping[b] = "new" THEN "new" ELSE "over"]
    BY DEF ConfirmationNext, CycleStep, CycleStarts, CycleLooksUp, CycleConfirmsReading, CycleConfirmsLog,
       ScriptStep, BackfillLooksUp, BackfillConfirmsReadings, BackfillConfirmsLog,
       PromoteKnownConfirmed, ArchiveStuck, SyncAddsBatch, SyncDecodes, NetworkMoves,
       WorkersExit, WorkersStart
  <2> QED BY <1>1, <2>1, <2>2, <2>3 DEF confirmationVars
<1>2. ASSUME NEW t \in Txs, applying'[t] # "no" PROVE Mined(t)'
  <2>1. SUFFICES ASSUME applying[t] = "no" PROVE Mined(t)
    BY <1>0 DEF Evidence
  <2>2. CASE CycleStep
    <3>1. ASSUME NEW u \in Txs, CycleLooksUp(u) PROVE Mined(t)
      <4>1. applying' = [applying EXCEPT ![u] = "reading"] /\ Mined(u)
        BY <1>2, <2>1, <3>1 DEF CycleLooksUp
      <4> QED BY <1>2, <2>1, <4>1 DEF ConfirmationTypeOK
    <3>2. ASSUME NEW u \in Txs, CycleConfirmsReading(u) \/ CycleConfirmsLog(u) PROVE applying'[t] = "no"
      BY <2>1, <3>2 DEF CycleConfirmsReading, CycleConfirmsLog, ConfirmationTypeOK
    <3>3. CycleStarts => applying' = applying BY DEF CycleStarts
    <3> QED BY <1>2, <2>1, <2>2, <3>1, <3>2, <3>3 DEF CycleStep
  <2>3. ASSUME NEW a \in Acceptances, WriterStep(a) PROVE applying' = applying
    BY <2>3 DEF WriterStep, Accepted, AddReading, LogPending, CheckFindsMined, CheckConfirms, CheckGivesUp,
       CleanUpLog, CleanUpReading
  <2>4. ScriptStep => applying' = applying
    BY DEF ScriptStep, BackfillLooksUp, BackfillConfirmsReadings, BackfillConfirmsLog,
       PromoteKnownConfirmed, ArchiveStuck, SyncAddsBatch, SyncDecodes
  <2>5. (\E u \in Txs : NetworkMoves(u)) \/ WorkersStart \/ UNCHANGED confirmationVars => applying' = applying
    BY DEF NetworkMoves, WorkersStart, confirmationVars
  <2>6. WorkersExit => applying' = [u \in Txs |-> "no"] BY DEF WorkersExit
  <2> QED BY <1>2, <2>1, <2>2, <2>3, <2>4, <2>5, <2>6 DEF ConfirmationNext
<1>3. ASSUME NEW t \in backfill'.mined PROVE Mined(t)'
  <2>0. SUFFICES ASSUME backfill' # backfill PROVE Mined(t)'
    BY <1>0, <1>3 DEF Evidence, ConfirmationTypeOK
  <2>a. ScriptStep
    <3>1. ASSUME NEW a \in Acceptances, WriterStep(a) PROVE backfill' = backfill
      BY <3>1 DEF WriterStep, Accepted, AddReading, LogPending, CheckFindsMined, CheckConfirms, CheckGivesUp,
         CleanUpLog, CleanUpReading
    <3>2. CycleStep => backfill' = backfill
      BY DEF CycleStep, CycleStarts, CycleLooksUp, CycleConfirmsReading, CycleConfirmsLog
    <3>3. (\E u \in Txs : NetworkMoves(u)) \/ WorkersExit \/ WorkersStart \/ UNCHANGED confirmationVars
          => backfill' = backfill
      BY DEF NetworkMoves, WorkersExit, WorkersStart, confirmationVars
    <3> QED BY <2>0, <3>1, <3>2, <3>3 DEF ConfirmationNext
  <2>1. \/ backfill'.mined \subseteq backfill.mined
        \/ backfill'.mined \subseteq {u \in Txs : Mined(u)}
    <3>1. CASE BackfillLooksUp BY <3>1 DEF BackfillLooksUp, Unconfirmed
    <3>2. CASE BackfillConfirmsReadings
      BY <3>2 DEF BackfillConfirmsReadings, ConfirmationTypeOK
    <3>3. CASE BackfillConfirmsLog BY <3>3 DEF BackfillConfirmsLog
    <3>4. ~(BackfillLooksUp \/ BackfillConfirmsReadings \/ BackfillConfirmsLog) => backfill' = backfill
      BY <2>a DEF ScriptStep, PromoteKnownConfirmed, ArchiveStuck, SyncAddsBatch, SyncDecodes
    <3> QED BY <2>0, <3>1, <3>2, <3>3, <3>4
  <2>2. t \in Txs BY <2>1 DEF ConfirmationTypeOK, Unconfirmed
  <2> QED BY <1>0, <1>3, <2>1, <2>2 DEF Evidence
<1>4. ASSUME NEW t \in Txs, synced'[t] = "confirmed" PROVE Mined(t)'
  <2>1. SUFFICES ASSUME synced[t] # "confirmed" PROVE Mined(t)
    BY <1>0 DEF Evidence
  <2>2. ASSUME NEW u \in Txs, SyncDecodes(u) PROVE Mined(t)
    BY <1>4, <2>1, <2>2 DEF SyncDecodes, ConfirmationTypeOK
  <2>3. (\E u \in Txs : SyncDecodes(u)) \/ synced' = synced \/ synced' = [u \in Txs |-> "no"]
    BY DEF ConfirmationNext, confirmationVars, WriterStep, Accepted, AddReading, LogPending, CheckFindsMined,
       CheckConfirms, CheckGivesUp, CleanUpLog, CleanUpReading,
       CycleStep, CycleStarts, CycleLooksUp, CycleConfirmsReading, CycleConfirmsLog,
       ScriptStep, BackfillLooksUp, BackfillConfirmsReadings, BackfillConfirmsLog,
       PromoteKnownConfirmed, ArchiveStuck, SyncAddsBatch, NetworkMoves,
       WorkersExit, WorkersStart
  <2> QED BY <1>4, <2>1, <2>2, <2>3
<1> QED BY <1>1, <1>2, <1>3, <1>4 DEF Evidence

\* A status becomes "confirmed" on such an answer, or by a copy of the other store's.
LEMMA ConfirmedOnEvidence ==
  ASSUME ConfirmedInv, [ConfirmationNext]_confirmationVars, NEW t \in Txs,
         txLog'[t] = "confirmed" \/ explorer'[t] = "confirmed"
  PROVE  Mined(t)
<1> USE DEF ConfirmedInv, stores, cycle, scripts
<1>1. SUFFICES ASSUME txLog[t] # "confirmed", explorer[t] # "confirmed" PROVE Mined(t)
  BY DEF OnlyMinedIsConfirmed
<1>2. ASSUME NEW a \in Acceptances, WriterStep(a) PROVE Mined(t)
  <2>0. a[1] \in Txs BY AcceptanceParts
  <2>1. CheckConfirms(a) /\ a[1] = t
    BY <1>1, <1>2, <2>0 DEF WriterStep, Accepted, AddReading, LogPending, CheckFindsMined, CheckConfirms,
       CheckGivesUp, CleanUpLog, CleanUpReading, Upserted, Added, Removed, ConfirmationTypeOK
  <2> QED BY <2>1 DEF CheckConfirms, Goes, Evidence
<1>3. CASE CycleStep
  BY <1>1, <1>3 DEF CycleStep, CycleStarts, CycleLooksUp, CycleConfirmsReading, CycleConfirmsLog,
     ReadingConfirmed, LogConfirmed, Evidence, ConfirmationTypeOK
<1>4. CASE ScriptStep
  <2>1. CASE BackfillLooksUp BY <1>1, <2>1 DEF BackfillLooksUp
  <2>2. CASE BackfillConfirmsReadings
    BY <1>1, <2>2 DEF BackfillConfirmsReadings, ReadingConfirmed, Evidence, ConfirmationTypeOK
  <2>3. CASE BackfillConfirmsLog
    BY <1>1, <2>3 DEF BackfillConfirmsLog, LogConfirmed, Evidence, ConfirmationTypeOK
  <2>4. CASE PromoteKnownConfirmed
    BY <1>1, <2>4 DEF PromoteKnownConfirmed, ReadingConfirmed, Unconfirmed, ConfirmationTypeOK
  <2>5. CASE ArchiveStuck BY <1>1, <2>5 DEF ArchiveStuck, ConfirmationTypeOK
  <2>6. CASE SyncAddsBatch BY <1>1, <2>6 DEF SyncAddsBatch, Added, Evidence, ConfirmationTypeOK
  <2>7. ASSUME NEW u \in Txs, SyncDecodes(u) PROVE Mined(t) BY <1>1, <2>7 DEF SyncDecodes
  <2> QED BY <1>4, <2>1, <2>2, <2>3, <2>4, <2>5, <2>6, <2>7 DEF ScriptStep
<1>5. (\E u \in Txs : NetworkMoves(u)) \/ WorkersExit \/ WorkersStart \/ UNCHANGED confirmationVars
        => UNCHANGED stores
  BY DEF NetworkMoves, WorkersExit, WorkersStart, confirmationVars
<1> QED BY <1>1, <1>2, <1>3, <1>4, <1>5 DEF ConfirmationNext

LEMMA ConfirmedStep == ConfirmedInv /\ [ConfirmationNext]_confirmationVars => ConfirmedInv'
<1> SUFFICES ASSUME ConfirmedInv, [ConfirmationNext]_confirmationVars PROVE ConfirmedInv' OBVIOUS
<1>1. ConfirmationTypeOK' BY ConfirmationTypeStep DEF ConfirmedInv
<1>2. OnlyMinedIsConfirmed' BY ConfirmedOnEvidence, MinedStays DEF ConfirmedInv, OnlyMinedIsConfirmed
<1> QED BY <1>1, <1>2, EvidenceStays DEF ConfirmedInv

\* Neither an answer that is acted on late, nor a store that copies from the other, nor a process
\* that exits in between lets a store call a transaction confirmed that is not in a block.
THEOREM ConfirmedMeansMined == ConfirmationSpec => []OnlyMinedIsConfirmed
<1>1. ConfirmedInv => OnlyMinedIsConfirmed BY DEF ConfirmedInv
<1> QED BY <1>1, ConfirmedInit, ConfirmedStep, PTL DEF ConfirmationSpec

----------------------------------------------------------------------------
LEMMA ConfirmedReadingStays ==
  ASSUME ConfirmationTypeOK, [ConfirmationNext]_confirmationVars, NEW t \in Txs, explorer[t] = "confirmed"
  PROVE  explorer'[t] = "confirmed"
<1> USE DEF stores, cycle, scripts
<1>1. ASSUME NEW a \in Acceptances, WriterStep(a) PROVE explorer'[t] = "confirmed"
  BY <1>1, AcceptanceParts DEF WriterStep, Accepted, AddReading, LogPending, CheckFindsMined, CheckConfirms,
     CheckGivesUp, CleanUpLog, CleanUpReading, Added, Removed, ConfirmationTypeOK
<1>2. CASE CycleStep
  BY <1>2 DEF CycleStep, CycleStarts, CycleLooksUp, CycleConfirmsReading, CycleConfirmsLog, ReadingConfirmed
<1>3. CASE ScriptStep
  BY <1>3 DEF ScriptStep, BackfillLooksUp, BackfillConfirmsReadings, BackfillConfirmsLog,
     PromoteKnownConfirmed, ArchiveStuck, SyncAddsBatch, SyncDecodes, ReadingConfirmed, Added
<1>4. (\E u \in Txs : NetworkMoves(u)) \/ WorkersExit \/ WorkersStart \/ UNCHANGED confirmationVars
        => explorer' = explorer
  BY DEF NetworkMoves, WorkersExit, WorkersStart, confirmationVars
<1> QED BY <1>1, <1>2, <1>3, <1>4 DEF ConfirmationNext

\* Clean-ups, late inserts, the sync and the scripts leave a confirmed reading as it is.
THEOREM ConfirmedStaysConfirmed == ConfirmationSpec => ConfirmedReadingIsFinal
<1>1. ConfirmationTypeOK /\ [ConfirmationNext]_confirmationVars
      => [\A t \in Txs : explorer[t] = "confirmed" => explorer'[t] = "confirmed"]_confirmationVars
  BY ConfirmedReadingStays
<1> QED BY <1>1, ConfirmationTypeInit, ConfirmationTypeStep, PTL DEF ConfirmationSpec, ConfirmedReadingIsFinal

----------------------------------------------------------------------------
(* Retention: types, and the lock's count.                                                        *)

TickPlaces == {"asleep", "due", "locked", "still due", "deleting", "unlocking"}
TickRecord == [at : TickPlaces, session : Sessions \cup {NoSession}, table : 0..LastTable,
               batches : 0..BatchesPerPass]

RetentionTyped == RetentionTypeOK /\ LocksAreCounted

LEMMA SessionIs ==
  ASSUME NEW p \in Schedulers, NEW c \in Connections
  PROVE  /\ Session(p, c) \in Sessions /\ Session(p, c) # NoSession
         /\ ~pooled => Session(p, c)[1] = p
BY RetentionAssumption DEF RetentionAssumption, Session, Sessions, NoSession

LEMMA AsleepIs == Asleep \in TickRecord /\ Asleep.at = "asleep"
BY RetentionAssumption DEF RetentionAssumption, Asleep, Tick, TickRecord, TickPlaces, LastTable

LEMMA TickParts ==
  ASSUME RetentionTypeOK
  PROVE  /\ tick \in [Schedulers -> TickRecord]
         /\ \A p \in Schedulers :
              /\ tick[p] \in TickRecord /\ tick[p].at \in TickPlaces
              /\ tick[p].session \in Sessions \cup {NoSession}
              /\ tick[p].table \in 0..LastTable /\ tick[p].batches \in 0..BatchesPerPass
BY DEF RetentionTypeOK, TickRecord, TickPlaces

\* A step of one scheduler gives it another record and leaves those of the others.
LEMMA TickReplaced ==
  ASSUME RetentionTypeOK, NEW p \in Schedulers, NEW record \in TickRecord,
         tick' = [tick EXCEPT ![p] = record]
  PROVE  /\ tick' \in [Schedulers -> TickRecord]
         /\ \A q \in Schedulers : tick'[q] = IF q = p THEN record ELSE tick[q]
BY TickParts

LEMMA TickMoves ==
  ASSUME RetentionTypeOK, NEW p \in Schedulers, NEW at \in TickPlaces, Steps(p, at)
  PROVE  /\ tick' \in [Schedulers -> TickRecord]
         /\ \A q \in Schedulers : q # p => tick'[q] = tick[q]
         /\ tick'[p].at = at /\ tick'[p].session = tick[p].session
<1>1. [tick[p] EXCEPT !.at = at] \in TickRecord /\ tick[p] \in TickRecord
  BY TickParts DEF TickRecord
<1>2. tick' = [tick EXCEPT ![p] = [tick[p] EXCEPT !.at = at]] BY DEF Steps
<1>3. [tick[p] EXCEPT !.at = at].at = at
      /\ [tick[p] EXCEPT !.at = at].session = tick[p].session
  BY <1>1 DEF TickRecord
<1> QED BY <1>1, <1>2, <1>3, TickReplaced

LEMMA FallsAsleep ==
  ASSUME RetentionTypeOK, NEW p \in Schedulers, Sleeps(p)
  PROVE  /\ tick' \in [Schedulers -> TickRecord]
         /\ \A q \in Schedulers : q # p => tick'[q] = tick[q]
         /\ tick'[p].at = "asleep"
BY AsleepIs, TickReplaced DEF Sleeps

LEMMA GoesToUnlock ==
  ASSUME RetentionTypeOK, NEW p \in Schedulers, GivesBack(p)
  PROVE  /\ tick' \in [Schedulers -> TickRecord]
         /\ \A q \in Schedulers : q # p => tick'[q] = tick[q]
         /\ tick'[p].at = "unlocking"
<1>1. 0 \in 0..LastTable /\ 0 \in 0..BatchesPerPass
  BY RetentionAssumption DEF RetentionAssumption, LastTable
<1>2. /\ Tick("unlocking", NoSession, 0, 0) \in TickRecord
      /\ Tick("unlocking", NoSession, 0, 0).at = "unlocking"
  BY <1>1 DEF Tick, TickRecord, TickPlaces
<1> QED BY <1>2, TickReplaced DEF GivesBack

\* Within a pass: another batch, the next table, or the unlocking.
LEMMA Deletes ==
  ASSUME RetentionTypeOK, NEW p \in Schedulers, FullBatch(p) \/ ShortBatch(p) \/ PassFails(p)
  PROVE  /\ tick' \in [Schedulers -> TickRecord]
         /\ \A q \in Schedulers : q # p => tick'[q] = tick[q]
         /\ tick'[p].at \in {"deleting", "unlocking"}
         /\ UNCHANGED <<due, advisory, uncounted>>
<1>1. tick[p].at = "deleting" /\ UNCHANGED <<due, advisory, uncounted>>
  BY DEF FullBatch, ShortBatch, PassFails, AtTable
<1>2. BatchesPerPass \in Nat \ {0} BY RetentionAssumption DEF RetentionAssumption
<1>3. CASE GivesBack(p) BY <1>1, <1>3, GoesToUnlock
<1>4. CASE TableEnds(p)
  <2>1. CASE tick[p].table = LastTable BY <1>3, <1>4, <2>1 DEF TableEnds
  <2>2. CASE tick[p].table # LastTable
    <3>1. tick' = [tick EXCEPT ![p] = Tick("deleting", NoSession, tick[p].table + 1, 0)]
      BY <1>4, <2>2 DEF TableEnds
    <3>2. tick[p].table + 1 \in 0..LastTable /\ 0 \in 0..BatchesPerPass
      BY <1>2, <2>2, TickParts DEF LastTable
    <3>3. /\ Tick("deleting", NoSession, tick[p].table + 1, 0) \in TickRecord
          /\ Tick("deleting", NoSession, tick[p].table + 1, 0).at = "deleting"
      BY <3>2 DEF Tick, TickRecord, TickPlaces
    <3> QED BY <1>1, <3>1, <3>3, TickReplaced
  <2> QED BY <2>1, <2>2
<1>5. CASE FullBatch(p) /\ ~TableEnds(p)
  <2> DEFINE n == (tick[p].batches + 1) % (BatchesPerPass + 1)
  <2>1. tick' = [tick EXCEPT ![p] = [tick[p] EXCEPT !.batches = n]]
    BY <1>5 DEF FullBatch
  <2>2. n \in 0..BatchesPerPass BY <1>2, TickParts
  <2> HIDE DEF n
  <2>3. [tick[p] EXCEPT !.batches = n] \in TickRecord
        /\ [tick[p] EXCEPT !.batches = n].at = "deleting"
    BY <1>1, <2>2, TickParts DEF TickRecord
  <2> QED BY <1>1, <2>1, <2>3, TickReplaced
<1> QED BY <1>3, <1>4, <1>5 DEF ShortBatch, PassFails

\* The unlocking takes one from the count of the lock's own session, and no other.
LEMMA Unlocks ==
  ASSUME RetentionTyped, NEW p \in Schedulers, Unlock(p)
  PROVE  /\ advisory' \in [session : Sessions \cup {NoSession}, depth : 0..MaxHolds]
         /\ LocksAreCounted'
         /\ \/ advisory' = advisory
            \/ \E c \in Connections : advisory.session = Session(p, c)
<1>1. \/ UNCHANGED advisory
      \/ advisory' = FreedOnce /\ \E c \in Connections : advisory.session = Session(p, c)
  BY DEF Unlock
<1>2. /\ advisory \in [session : Sessions \cup {NoSession}, depth : 0..MaxHolds]
      /\ advisory.session \in Sessions \cup {NoSession} /\ advisory.depth \in 0..MaxHolds
      /\ advisory.session = NoSession <=> advisory.depth = 0
  BY DEF RetentionTyped, RetentionTypeOK, LocksAreCounted
<1>3. ASSUME NEW c \in Connections, advisory.session = Session(p, c), advisory' = FreedOnce
      PROVE  /\ advisory' \in [session : Sessions \cup {NoSession}, depth : 0..MaxHolds]
             /\ LocksAreCounted'
  <2>1. advisory.depth - 1 \in 0..MaxHolds
    BY <1>2, <1>3, SessionIs, RetentionAssumption DEF RetentionAssumption
  <2>2. /\ advisory'.session = IF advisory.depth = 1 THEN NoSession ELSE advisory.session
        /\ advisory'.depth = advisory.depth - 1
        /\ advisory' \in [session : Sessions \cup {NoSession}, depth : 0..MaxHolds]
    BY <1>2, <1>3, <2>1 DEF FreedOnce
  <2> QED BY <1>2, <1>3, <2>2, SessionIs DEF LocksAreCounted
<1>4. CASE UNCHANGED advisory
  <2>1. advisory' = advisory BY <1>4
  <2> QED BY <1>2, <2>1 DEF LocksAreCounted
<1> QED BY <1>1, <1>3, <1>4

LEMMA NoLockIs ==
  /\ NoLock \in [session : Sessions \cup {NoSession}, depth : 0..MaxHolds]
  /\ NoLock.session = NoSession /\ NoLock.depth = 0
BY RetentionAssumption DEF RetentionAssumption, NoLock

LEMMA RetentionInitTyped == RetentionInit => RetentionTyped
<1> SUFFICES ASSUME RetentionInit PROVE RetentionTyped OBVIOUS
<1>1. advisory = NoLock BY DEF RetentionInit, NoLock
<1>2. tick \in [Schedulers -> TickRecord] BY AsleepIs DEF RetentionInit
<1>3. RetentionTypeOK
  BY <1>1, <1>2, NoLockIs DEF RetentionInit, RetentionTypeOK, TickRecord, TickPlaces
<1>4. LocksAreCounted BY <1>1, NoLockIs DEF LocksAreCounted
<1> QED BY <1>3, <1>4 DEF RetentionTyped

\* Taking the lock once more keeps its count within the bound and names the session.
LEMMA Counts ==
  ASSUME RetentionTyped, NEW p \in Schedulers, NEW c \in Connections, Locks(Session(p, c))
  PROVE  /\ advisory' \in [session : Sessions \cup {NoSession}, depth : 0..MaxHolds]
         /\ LocksAreCounted'
         /\ advisory.session \in {NoSession, Session(p, c)} /\ advisory'.session = Session(p, c)
<1>1. /\ advisory.session \in {NoSession, Session(p, c)} /\ advisory.depth < MaxHolds
      /\ advisory' = [session |-> Session(p, c), depth |-> advisory.depth + 1]
  BY DEF Locks
<1>2. advisory.depth \in 0..MaxHolds BY DEF RetentionTyped, RetentionTypeOK
<1>3. advisory.depth + 1 \in 0..MaxHolds /\ advisory.depth + 1 # 0
  BY <1>1, <1>2, RetentionAssumption DEF RetentionAssumption
<1>4. advisory'.session = Session(p, c) /\ advisory'.depth = advisory.depth + 1 BY <1>1
<1>5. Session(p, c) \in Sessions /\ Session(p, c) # NoSession BY SessionIs
<1> QED BY <1>1, <1>3, <1>4, <1>5 DEF LocksAreCounted

LEMMA Takes ==
  ASSUME RetentionTyped, NEW p \in Schedulers, LockTaken(p)
  PROVE  /\ advisory' \in [session : Sessions \cup {NoSession}, depth : 0..MaxHolds]
         /\ LocksAreCounted' /\ tick' \in [Schedulers -> TickRecord]
         /\ \A q \in Schedulers : q # p => tick'[q] = tick[q]
         /\ tick'[p].at = "locked" /\ tick'[p].session = advisory'.session
         /\ \E c \in Connections :
              /\ advisory.session \in {NoSession, Session(p, c)}
              /\ advisory'.session = Session(p, c)
<1>1. PICK c \in Connections :
        /\ Locks(Session(p, c))
        /\ tick' = [tick EXCEPT ![p] = Tick("locked", Session(p, c), 0, 0)]
  BY DEF LockTaken
<1>2. /\ advisory' \in [session : Sessions \cup {NoSession}, depth : 0..MaxHolds]
      /\ LocksAreCounted'
      /\ advisory.session \in {NoSession, Session(p, c)} /\ advisory'.session = Session(p, c)
  BY <1>1, Counts
<1>3. 0 \in 0..LastTable /\ 0 \in 0..BatchesPerPass
  BY RetentionAssumption DEF RetentionAssumption, LastTable
<1>4. /\ Tick("locked", Session(p, c), 0, 0) \in TickRecord
      /\ Tick("locked", Session(p, c), 0, 0).at = "locked"
      /\ Tick("locked", Session(p, c), 0, 0).session = Session(p, c)
  BY <1>3, SessionIs DEF Tick, TickRecord, TickPlaces
<1>5. /\ tick' \in [Schedulers -> TickRecord]
      /\ \A q \in Schedulers :
           tick'[q] = IF q = p THEN Tick("locked", Session(p, c), 0, 0) ELSE tick[q]
  BY <1>1, <1>4, TickReplaced DEF RetentionTyped
<1> QED BY <1>2, <1>4, <1>5

\* A lock that is taken without an answer leaves its scheduler where it was, or asleep.
LEMMA TakesUnheard ==
  ASSUME RetentionTyped, NEW p \in Schedulers, LockAnswerLost(p)
  PROVE  /\ advisory' \in [session : Sessions \cup {NoSession}, depth : 0..MaxHolds]
         /\ LocksAreCounted' /\ tick' \in [Schedulers -> TickRecord]
         /\ \A q \in Schedulers : q # p => tick'[q] = tick[q]
         /\ tick'[p].at \in {"due", "asleep"}
         /\ \E c \in Connections : advisory.session \in {NoSession, Session(p, c)}
<1>1. PICK c \in Connections : Locks(Session(p, c)) BY DEF LockAnswerLost
<1>2. /\ advisory' \in [session : Sessions \cup {NoSession}, depth : 0..MaxHolds]
      /\ LocksAreCounted' /\ advisory.session \in {NoSession, Session(p, c)}
  BY <1>1, Counts
<1>3. tick[p].at = "due" /\ (UNCHANGED tick \/ Sleeps(p)) BY DEF LockAnswerLost
<1>4. CASE UNCHANGED tick
  <2>1. tick' = tick BY <1>4
  <2>2. tick' \in [Schedulers -> TickRecord] BY <2>1, TickParts DEF RetentionTyped
  <2> QED BY <1>2, <1>3, <2>1, <2>2
<1>5. CASE Sleeps(p) BY <1>2, <1>5, FallsAsleep DEF RetentionTyped
<1> QED BY <1>3, <1>4, <1>5

LEMMA Claims ==
  ASSUME RetentionTypeOK, NEW p \in Schedulers, Claim(p)
  PROVE  /\ tick' \in [Schedulers -> TickRecord]
         /\ \A q \in Schedulers : q # p => tick'[q] = tick[q]
         /\ tick'[p].at = "deleting"
<1>1. 1 \in 0..LastTable /\ 0 \in 0..BatchesPerPass
  BY RetentionAssumption DEF RetentionAssumption, LastTable
<1>2. /\ Tick("deleting", NoSession, 1, 0) \in TickRecord
      /\ Tick("deleting", NoSession, 1, 0).at = "deleting"
  BY <1>1, TickParts DEF Tick, TickRecord, TickPlaces
<1>3. tick' = [tick EXCEPT ![p] = Tick("deleting", NoSession, 1, 0)] BY DEF Claim
<1> QED BY <1>2, <1>3, TickReplaced

LEMMA RetentionStepTyped == RetentionTyped /\ [RetentionNext]_retentionVars => RetentionTyped'
<1> SUFFICES ASSUME RetentionTyped, [RetentionNext]_retentionVars PROVE RetentionTyped' OBVIOUS
<1>1. /\ RetentionTypeOK /\ LocksAreCounted /\ due \in BOOLEAN
      /\ pooled \in BOOLEAN /\ lockLost \in BOOLEAN /\ passes \in [Schedulers -> Nat]
      /\ tick \in [Schedulers -> TickRecord]
      /\ advisory \in [session : Sessions \cup {NoSession}, depth : 0..MaxHolds]
  BY TickParts DEF RetentionTyped, RetentionTypeOK
<1>2. ASSUME due' \in BOOLEAN, pooled' = pooled, lockLost' \in BOOLEAN,
             passes' \in [Schedulers -> Nat], tick' \in [Schedulers -> TickRecord],
             advisory' \in [session : Sessions \cup {NoSession}, depth : 0..MaxHolds],
             LocksAreCounted'
      PROVE  RetentionTyped'
  BY <1>1, <1>2 DEF RetentionTyped, RetentionTypeOK, TickRecord, TickPlaces
<1>3. UNCHANGED advisory => LocksAreCounted' BY <1>1 DEF LocksAreCounted
<1>4. ASSUME NEW p \in Schedulers, TickFindsDue(p)
      PROVE  RetentionTyped'
  BY <1>1, <1>2, <1>3, <1>4, TickMoves DEF TickFindsDue, TickPlaces, uncounted
<1>5. ASSUME NEW p \in Schedulers, LockTaken(p) PROVE RetentionTyped'
  BY <1>1, <1>2, <1>5, Takes DEF LockTaken, uncounted
<1>16. ASSUME NEW p \in Schedulers, LockAnswerLost(p) PROVE RetentionTyped'
  BY <1>1, <1>2, <1>16, TakesUnheard DEF LockAnswerLost, uncounted
<1>6. ASSUME NEW p \in Schedulers, LockNotTaken(p) PROVE RetentionTyped'
  BY <1>1, <1>2, <1>3, <1>6, FallsAsleep DEF LockNotTaken, uncounted
<1>7. ASSUME NEW p \in Schedulers, Recheck(p) PROVE RetentionTyped'
  BY <1>1, <1>2, <1>3, <1>7, TickMoves, GoesToUnlock DEF Recheck, TickPlaces, uncounted
<1>8. ASSUME NEW p \in Schedulers, Claim(p) PROVE RetentionTyped'
  <2>1. /\ due' = FALSE /\ passes' = [passes EXCEPT ![p] = @ + 1]
        /\ UNCHANGED <<pooled, advisory, lockLost>>
    BY <1>8 DEF Claim, Marked
  <2>2. tick' \in [Schedulers -> TickRecord] BY <1>1, <1>8, Claims
  <2>3. passes' \in [Schedulers -> Nat] BY <1>1, <2>1
  <2> QED BY <1>1, <1>2, <1>3, <2>1, <2>2, <2>3
<1>9. ASSUME NEW p \in Schedulers, ClaimFails(p) PROVE RetentionTyped'
  BY <1>1, <1>2, <1>3, <1>9, GoesToUnlock DEF ClaimFails, uncounted
<1>10. ASSUME NEW p \in Schedulers, FullBatch(p) \/ ShortBatch(p) \/ PassFails(p)
       PROVE  RetentionTyped'
  BY <1>1, <1>2, <1>3, <1>10, Deletes DEF uncounted
<1>11. ASSUME NEW p \in Schedulers, Unlock(p) PROVE RetentionTyped'
  <2>1. Sleeps(p) /\ UNCHANGED <<due, uncounted>> BY <1>11 DEF Unlock
  <2> QED BY <1>1, <1>2, <1>11, <2>1, Unlocks, FallsAsleep DEF uncounted
<1>12. ASSUME NEW p \in Schedulers, SchedulerExits(p) PROVE RetentionTyped'
  <2>1. advisory' = NoLock \/ advisory' = advisory BY <1>12 DEF SchedulerExits
  <2>2. LocksAreCounted' BY <1>3, <2>1, NoLockIs DEF LocksAreCounted
  <2> QED BY <1>1, <1>2, <1>12, <2>1, <2>2, NoLockIs, FallsAsleep
      DEF SchedulerExits, uncounted
<1>13. CASE SessionEnds
  BY <1>1, <1>2, <1>13, NoLockIs DEF SessionEnds, LocksAreCounted
<1>14. CASE IntervalElapses BY <1>1, <1>2, <1>3, <1>14 DEF IntervalElapses
<1>15. CASE UNCHANGED retentionVars BY <1>1, <1>2, <1>3, <1>15 DEF retentionVars
<1> QED BY <1>4, <1>5, <1>6, <1>7, <1>8, <1>9, <1>10, <1>11, <1>12, <1>13, <1>14, <1>15, <1>16
        DEF RetentionNext, PassStep

\* The lock's count stays within its bound and no scheduler leaves the tables of a pass, whether the
\* sessions are a process' own or a pooler's.
THEOREM RetentionTypeCorrect == RetentionSpec => []RetentionTypeOK
BY RetentionInitTyped, RetentionStepTyped, PTL DEF RetentionSpec, RetentionTyped

----------------------------------------------------------------------------
(* Who passes twice, and who passes beside another. The marker keeps a scheduler from passing     *)
(* twice whatever becomes of the lock. Where each process has its own sessions, a session that    *)
(* holds the lock keeps the others from reading the marker until it is written or given up, or    *)
(* until the session ends.                                                                        *)

Excludes == LockBacksPass /\ DueIsUnpassed /\ OnePassAnInterval

PassInv == PassedIsMarked /\ (~pooled /\ ~lockLost => Excludes)

\* Steps that begin no pass, where whoever comes to read the marker finds it not written.
LEMMA MarkKept ==
  ASSUME PassedIsMarked, passes' = passes, due' \in {due, FALSE},
         \A q \in Schedulers : tick'[q].at \in {"due", "locked", "still due"} =>
           tick[q].at \in {"due", "locked", "still due"} \/ due
  PROVE  PassedIsMarked'
BY DEF PassedIsMarked

\* Nobody comes between a lock and its marker, the marker stays, and who is there keeps the lock.
LEMMA ExcludesKept ==
  ASSUME Excludes, due' = due, passes' = passes,
         \A q \in Schedulers : tick'[q].at \in {"locked", "still due"} =>
           tick'[q] = tick[q] /\ advisory'.session = advisory.session
  PROVE  Excludes'
BY DEF Excludes, LockBacksPass, Between, DueIsUnpassed, OnePassAnInterval

\* Where nobody is between a lock and its marker, the locks back nothing.
LEMMA NobodyBetweenNext ==
  ASSUME \A q \in Schedulers : tick'[q].at \notin {"locked", "still due"} PROVE LockBacksPass'
BY DEF LockBacksPass, Between

\* A lock taken from nobody, or again by the same process, finds nobody else between.
LEMMA TakenFromNobody ==
  ASSUME RetentionTyped, ~pooled, LockBacksPass, NEW p \in Schedulers, NEW c \in Connections,
         advisory.session \in {NoSession, Session(p, c)}
  PROVE  \A q \in Schedulers : q # p => tick[q].at \notin {"locked", "still due"}
<1>1. Session(p, c)[1] = p /\ NoSession[1] = 0 BY SessionIs DEF NoSession
<1>2. 0 \notin Schedulers BY RetentionAssumption DEF RetentionAssumption
<1> QED BY <1>1, <1>2 DEF LockBacksPass, Between

LEMMA PassStepMarks ==
  ASSUME RetentionTyped, PassedIsMarked, NEW p \in Schedulers, PassStep(p) PROVE PassedIsMarked'
<1>1. RetentionTypeOK /\ passes \in [Schedulers -> Nat] BY DEF RetentionTyped, RetentionTypeOK
<1>2. CASE TickFindsDue(p)
  <2>1. Steps(p, "due") /\ due /\ due' = due /\ passes' = passes BY <1>2 DEF TickFindsDue, uncounted
  <2>2. \A q \in Schedulers : q # p => tick'[q] = tick[q] BY <1>1, <2>1, TickMoves DEF TickPlaces
  <2> QED BY <2>1, <2>2, MarkKept
<1>3. CASE LockTaken(p)
  <2>1. tick[p].at = "due" /\ due' = due /\ passes' = passes BY <1>3 DEF LockTaken, uncounted
  <2>2. \A q \in Schedulers : q # p => tick'[q] = tick[q] BY <1>3, Takes
  <2> QED BY <2>1, <2>2, MarkKept
<1>4. CASE LockAnswerLost(p)
  <2>1. tick[p].at = "due" /\ due' = due /\ passes' = passes BY <1>4 DEF LockAnswerLost, uncounted
  <2>2. \A q \in Schedulers : q # p => tick'[q] = tick[q] BY <1>4, TakesUnheard
  <2> QED BY <2>1, <2>2, MarkKept
<1>5. CASE LockNotTaken(p)
  <2>1. Sleeps(p) /\ due' = due /\ passes' = passes BY <1>5 DEF LockNotTaken, uncounted
  <2>2. tick'[p].at = "asleep" /\ \A q \in Schedulers : q # p => tick'[q] = tick[q]
    BY <1>1, <2>1, FallsAsleep
  <2> QED BY <2>1, <2>2, MarkKept
<1>6. CASE Recheck(p)
  <2>1. /\ Steps(p, "still due") \/ GivesBack(p)
        /\ tick[p].at = "locked" /\ due' = due /\ passes' = passes
    BY <1>6 DEF Recheck, uncounted
  <2>2. \A q \in Schedulers : q # p => tick'[q] = tick[q]
    BY <1>1, <2>1, TickMoves, GoesToUnlock DEF TickPlaces
  <2> QED BY <2>1, <2>2, MarkKept
\* Who is still to write the marker has not passed; who has passed is elsewhere.
<1>7. CASE Claim(p)
  <2>1. tick[p].at = "still due" /\ ~due' /\ passes' = [passes EXCEPT ![p] = @ + 1]
    BY <1>7 DEF Claim, Marked
  <2>2. tick'[p].at = "deleting" /\ \A q \in Schedulers : q # p => tick'[q] = tick[q]
    BY <1>1, <1>7, Claims
  <2>3. ~(passes[p] > 0) BY <2>1 DEF PassedIsMarked
  <2>4. passes[p] = 0 BY <1>1, <2>3
  <2>5. passes'[p] = passes[p] + 1 /\ \A q \in Schedulers : q # p => passes'[q] = passes[q]
    BY <1>1, <2>1
  <2>6. passes'[p] = 1 BY <2>4, <2>5
  <2> QED BY <2>1, <2>2, <2>5, <2>6 DEF PassedIsMarked
<1>8. CASE ClaimFails(p)
  <2>1. GivesBack(p) /\ due' \in {due, FALSE} /\ passes' = passes
    BY <1>8 DEF ClaimFails, uncounted
  <2>2. tick'[p].at = "unlocking" /\ \A q \in Schedulers : q # p => tick'[q] = tick[q]
    BY <1>1, <2>1, GoesToUnlock
  <2> QED BY <2>1, <2>2, MarkKept
<1>9. CASE FullBatch(p) \/ ShortBatch(p) \/ PassFails(p)
  <2>1. /\ \A q \in Schedulers : q # p => tick'[q] = tick[q]
        /\ tick'[p].at \in {"deleting", "unlocking"} /\ due' = due /\ passes' = passes
    BY <1>1, <1>9, Deletes DEF uncounted
  <2> QED BY <2>1, MarkKept
<1>10. CASE Unlock(p)
  <2>1. Sleeps(p) /\ due' = due /\ passes' = passes BY <1>10 DEF Unlock, uncounted
  <2>2. tick'[p].at = "asleep" /\ \A q \in Schedulers : q # p => tick'[q] = tick[q]
    BY <1>1, <2>1, FallsAsleep
  <2> QED BY <2>1, <2>2, MarkKept
<1> QED BY <1>2, <1>3, <1>4, <1>5, <1>6, <1>7, <1>8, <1>9, <1>10 DEF PassStep

LEMMA PassStepExcludes ==
  ASSUME RetentionTyped, ~pooled, Excludes, NEW p \in Schedulers, PassStep(p) PROVE Excludes'
<1>1. RetentionTypeOK /\ passes \in [Schedulers -> Nat] BY DEF RetentionTyped, RetentionTypeOK
<1>2. CASE TickFindsDue(p)
  <2>1. Steps(p, "due") /\ due' = due /\ advisory' = advisory /\ passes' = passes
    BY <1>2 DEF TickFindsDue, uncounted
  <2>2. tick'[p].at = "due" /\ \A q \in Schedulers : q # p => tick'[q] = tick[q]
    BY <1>1, <2>1, TickMoves DEF TickPlaces
  <2> QED BY <2>1, <2>2, ExcludesKept
<1>3. CASE LockTaken(p)
  <2>1. PICK c \in Connections :
          advisory.session \in {NoSession, Session(p, c)} /\ advisory'.session = Session(p, c)
    BY <1>3, Takes
  <2>2. /\ \A q \in Schedulers : q # p => tick'[q] = tick[q]
        /\ tick'[p].at = "locked" /\ tick'[p].session = advisory'.session
    BY <1>3, Takes
  <2>3. \A q \in Schedulers : q # p => tick[q].at \notin {"locked", "still due"}
    BY <2>1, TakenFromNobody DEF Excludes
  <2>4. due' = due /\ passes' = passes BY <1>3 DEF LockTaken, uncounted
  <2>5. Session(p, c)[1] = p BY SessionIs
  <2>6. LockBacksPass' BY <2>1, <2>2, <2>3, <2>5 DEF LockBacksPass, Between
  <2> QED BY <2>4, <2>6 DEF Excludes, DueIsUnpassed, OnePassAnInterval
<1>4. CASE LockAnswerLost(p)
  <2>1. /\ \A q \in Schedulers : q # p => tick'[q] = tick[q]
        /\ tick'[p].at \in {"due", "asleep"}
        /\ \E c \in Connections : advisory.session \in {NoSession, Session(p, c)}
    BY <1>4, TakesUnheard
  <2>2. \A q \in Schedulers : q # p => tick[q].at \notin {"locked", "still due"}
    BY <2>1, TakenFromNobody DEF Excludes
  <2>3. due' = due /\ passes' = passes BY <1>4 DEF LockAnswerLost, uncounted
  <2> QED BY <2>1, <2>2, <2>3, ExcludesKept
<1>5. CASE LockNotTaken(p)
  <2>1. Sleeps(p) /\ due' = due /\ advisory' = advisory /\ passes' = passes
    BY <1>5 DEF LockNotTaken, uncounted
  <2>2. tick'[p].at = "asleep" /\ \A q \in Schedulers : q # p => tick'[q] = tick[q]
    BY <1>1, <2>1, FallsAsleep
  <2> QED BY <2>1, <2>2, ExcludesKept
<1>6. CASE Recheck(p)
  <2>1. /\ IF due THEN Steps(p, "still due") ELSE GivesBack(p)
        /\ tick[p].at = "locked" /\ due' = due /\ advisory' = advisory /\ passes' = passes
    BY <1>6 DEF Recheck, uncounted
  <2>2. /\ \A q \in Schedulers : q # p => tick'[q] = tick[q]
        /\ \/ due /\ tick'[p].at = "still due" /\ tick'[p].session = tick[p].session
           \/ tick'[p].at = "unlocking"
    BY <1>1, <2>1, TickMoves, GoesToUnlock DEF TickPlaces
  <2>3. LockBacksPass' BY <2>1, <2>2 DEF Excludes, LockBacksPass, Between
  <2> QED BY <2>1, <2>3 DEF Excludes, DueIsUnpassed, OnePassAnInterval
\* Whoever writes the marker is alone between lock and marker.
<1>7. ASSUME tick[p].at = "still due"
      PROVE  due /\ \A q \in Schedulers : q # p => tick[q].at \notin {"locked", "still due"}
  BY <1>7 DEF Excludes, LockBacksPass, Between
<1>8. CASE Claim(p)
  <2>1. tick[p].at = "still due" /\ ~due' /\ passes' = [passes EXCEPT ![p] = @ + 1]
    BY <1>8 DEF Claim, Marked
  <2>2. tick'[p].at = "deleting" /\ \A q \in Schedulers : q # p => tick'[q] = tick[q]
    BY <1>1, <1>8, Claims
  <2>3. \A q \in Schedulers : passes[q] = 0 BY <1>7, <2>1 DEF Excludes, DueIsUnpassed
  <2>4. \A q \in Schedulers : q # p => passes'[q] = 0 BY <1>1, <2>1, <2>3
  <2>5. LockBacksPass' BY <1>7, <2>1, <2>2, NobodyBetweenNext
  <2>6. DueIsUnpassed' BY <2>1 DEF DueIsUnpassed
  <2>7. OnePassAnInterval' BY <2>4 DEF OnePassAnInterval
  <2> QED BY <2>5, <2>6, <2>7 DEF Excludes
<1>9. CASE ClaimFails(p)
  <2>1. tick[p].at = "still due" /\ due' \in {due, FALSE} /\ passes' = passes
    BY <1>9 DEF ClaimFails, uncounted
  <2>2. tick'[p].at = "unlocking" /\ \A q \in Schedulers : q # p => tick'[q] = tick[q]
    BY <1>1, <1>9, GoesToUnlock DEF ClaimFails
  <2>3. LockBacksPass' BY <1>7, <2>1, <2>2, NobodyBetweenNext
  <2>4. DueIsUnpassed' BY <1>7, <2>1 DEF Excludes, DueIsUnpassed
  <2> QED BY <2>1, <2>3, <2>4 DEF Excludes, OnePassAnInterval
<1>10. CASE FullBatch(p) \/ ShortBatch(p) \/ PassFails(p)
  <2>1. /\ \A q \in Schedulers : q # p => tick'[q] = tick[q]
        /\ tick'[p].at \in {"deleting", "unlocking"}
        /\ due' = due /\ advisory' = advisory /\ passes' = passes
    BY <1>1, <1>10, Deletes DEF uncounted
  <2> QED BY <2>1, ExcludesKept
\* The unlocking frees no session but one of its own process.
<1>11. CASE Unlock(p)
  <2>1. tick[p].at = "unlocking" /\ Sleeps(p) /\ due' = due /\ passes' = passes
    BY <1>11 DEF Unlock, uncounted
  <2>2. tick'[p].at = "asleep" /\ \A q \in Schedulers : q # p => tick'[q] = tick[q]
    BY <1>1, <2>1, FallsAsleep
  <2>3. \/ advisory' = advisory
        \/ \E c \in Connections : advisory.session = Session(p, c)
    BY <1>11, Unlocks
  <2>4. CASE advisory' = advisory BY <2>1, <2>2, <2>4, ExcludesKept
  <2>5. CASE \E c \in Connections : advisory.session = Session(p, c)
    <3>1. \A q \in Schedulers : q # p => tick[q].at \notin {"locked", "still due"}
      BY <2>5, TakenFromNobody DEF Excludes
    <3> QED BY <2>1, <2>2, <3>1, ExcludesKept
  <2> QED BY <2>3, <2>4, <2>5
<1> QED BY <1>2, <1>3, <1>4, <1>5, <1>6, <1>8, <1>9, <1>10, <1>11 DEF PassStep

LEMMA PassNext ==
  ASSUME RetentionTyped, PassInv, [RetentionNext]_retentionVars PROVE PassInv'
<1>1. RetentionTypeOK BY DEF RetentionTyped
<1>2. ASSUME NEW p \in Schedulers, PassStep(p) PROVE PassInv'
  <2>1. pooled' = pooled /\ lockLost' = lockLost
    BY <1>2 DEF PassStep, TickFindsDue, LockTaken, LockAnswerLost, LockNotTaken, Recheck, Claim,
       ClaimFails, FullBatch, ShortBatch, PassFails, Unlock, uncounted
  <2> QED BY <1>2, <2>1, PassStepMarks, PassStepExcludes DEF PassInv
<1>3. ASSUME NEW p \in Schedulers, SchedulerExits(p) PROVE PassInv'
  <2>1. /\ Sleeps(p) /\ due' = due /\ passes' = passes /\ pooled' = pooled /\ lockLost' = lockLost
        /\ advisory' = IF advisory.session[1] = p THEN NoLock ELSE advisory
    BY <1>3 DEF SchedulerExits, uncounted
  <2>2. tick'[p].at = "asleep" /\ \A q \in Schedulers : q # p => tick'[q] = tick[q]
    BY <1>1, <2>1, FallsAsleep
  <2>3. PassedIsMarked' BY <2>1, <2>2, MarkKept DEF PassInv
  <2>4. ASSUME Excludes PROVE Excludes'
    <3>1. CASE advisory.session[1] = p
      <4>1. \A q \in Schedulers : q # p => tick[q].at \notin {"locked", "still due"}
        BY <2>4, <3>1 DEF Excludes, LockBacksPass, Between
      <4> QED BY <2>1, <2>2, <2>4, <4>1, ExcludesKept
    <3>2. CASE advisory.session[1] # p BY <2>1, <2>2, <2>4, <3>2, ExcludesKept
    <3> QED BY <3>1, <3>2
  <2> QED BY <2>1, <2>3, <2>4 DEF PassInv
\* Where a session ends that somebody relies on, it is noted; else nobody is between.
<1>4. CASE SessionEnds
  <2>1. due' = due /\ tick' = tick /\ passes' = passes /\ pooled' = pooled BY <1>4 DEF SessionEnds
  <2>2. PassedIsMarked' BY <2>1, MarkKept DEF PassInv
  <2>3. ASSUME ~pooled', ~lockLost' PROVE Excludes'
    <3>1. /\ ~lockLost
          /\ ~\E p \in Schedulers : Between(p) /\ tick[p].session = advisory.session
      BY <1>4, <2>3 DEF SessionEnds
    <3>2. Excludes BY <2>1, <2>3, <3>1 DEF PassInv
    <3>3. \A p \in Schedulers : tick[p].at \notin {"locked", "still due"}
      BY <3>1, <3>2 DEF Excludes, LockBacksPass, Between
    <3> QED BY <2>1, <3>2, <3>3, ExcludesKept
  <2> QED BY <2>2, <2>3 DEF PassInv
<1>5. CASE IntervalElapses
  <2>1. /\ tick' = tick /\ passes' = [p \in Schedulers |-> 0]
        /\ \A q \in Schedulers : tick[q].at = "asleep"
    BY <1>5 DEF IntervalElapses
  <2>2. \A q \in Schedulers : passes'[q] = 0 BY <2>1
  <2>3. LockBacksPass' BY <2>1, NobodyBetweenNext
  <2>4. \A q \in Schedulers : ~(passes'[q] > 0) BY <2>2
  <2>5. PassedIsMarked' BY <2>4 DEF PassedIsMarked
  <2>6. Excludes' BY <2>2, <2>3, <2>4 DEF Excludes, DueIsUnpassed, OnePassAnInterval
  <2> QED BY <2>5, <2>6 DEF PassInv
<1>6. CASE UNCHANGED retentionVars
  BY <1>6 DEF retentionVars, PassInv, PassedIsMarked, Excludes, LockBacksPass, Between,
     DueIsUnpassed, OnePassAnInterval
<1> QED BY <1>2, <1>3, <1>4, <1>5, <1>6 DEF RetentionNext

\* Any number of schedulers that wake up together, die in the middle of a pass, lose answers or
\* leave locks behind: none passes twice in an interval, and two of them pass only where sessions
\* are shared or a lock's session ended before its marker was written.
THEOREM PassesAreMarked == RetentionSpec => []SecondPassNeedsLostLock
<1>1. RetentionInit => PassInv
  <2> SUFFICES ASSUME RetentionInit PROVE PassInv OBVIOUS
  <2>1. \A p \in Schedulers : passes[p] = 0 /\ tick[p].at = "asleep" BY AsleepIs DEF RetentionInit
  <2>2. \A p \in Schedulers : ~(passes[p] > 0) BY <2>1
  <2>3. LockBacksPass BY <2>1 DEF LockBacksPass, Between
  <2>4. PassedIsMarked BY <2>2 DEF PassedIsMarked
  <2>5. Excludes BY <2>1, <2>2, <2>3 DEF Excludes, DueIsUnpassed, OnePassAnInterval
  <2> QED BY <2>4, <2>5 DEF PassInv
<1>2. RetentionTyped /\ PassInv /\ [RetentionNext]_retentionVars => PassInv' BY PassNext
<1>3. RetentionTyped /\ PassInv => SecondPassNeedsLostLock
  <2> SUFFICES ASSUME RetentionTyped, PassInv PROVE SecondPassNeedsLostLock OBVIOUS
  <2>1. \A p \in Schedulers : passes[p] \in Nat BY DEF RetentionTyped, RetentionTypeOK
  <2>2. \A p \in Schedulers : passes[p] > 0 => passes[p] = 1 BY DEF PassInv, PassedIsMarked
  <2>3. \A p \in Schedulers : passes[p] <= 1 BY <2>1, <2>2
  <2> QED BY <2>3 DEF PassInv, Excludes, SecondPassNeedsLostLock
<1> QED BY <1>1, <1>2, <1>3, RetentionInitTyped, RetentionStepTyped, PTL DEF RetentionSpec

----------------------------------------------------------------------------
(* Recovery: types.                                                                               *)

ScriptRecord == [at : {"off", "locked", "sent", "sweeping"}, kind : {"consolidation", "transfer"},
                 inputs : SUBSET Holdings, outputs : SUBSET Holdings, swept : 0..SweepLimit]
RescueRecord == [at : {"idle", "discovered", "upserting", "done"},
                 found : SUBSET Holdings, left : SUBSET Holdings]
Ledgers == [Holdings -> {"unknown", "unspent", "spent"}]
Entries == [Holdings -> {"absent", "unconfirmed", "confirmed", "removed"}]

LEMMA RecoveryParts ==
  RecoveryTypeOK <=> /\ ledger \in Ledgers /\ entry \in Entries /\ locks \subseteq Holdings
                     /\ online \in BOOLEAN /\ script \in ScriptRecord /\ rescue \in RescueRecord
BY DEF RecoveryTypeOK, Ledgers, Entries, ScriptRecord, RescueRecord

LEMMA RecoveryPartsNext ==
  ASSUME ledger' \in Ledgers, entry' \in Entries, locks' \subseteq Holdings, online' \in BOOLEAN,
         script' \in ScriptRecord, rescue' \in RescueRecord
  PROVE  RecoveryTypeOK'
BY DEF RecoveryTypeOK, Ledgers, Entries, ScriptRecord, RescueRecord

\* New outputs are some that nobody knows and no row stands for.
LEMMA NewIsFresh ==
  ASSUME NEW count, NEW made \in New(count)
  PROVE  made \subseteq Holdings /\ \A o \in made : entry[o] = "absent" /\ ledger[o] = "unknown"
BY DEF New, Fresh

LEMMA BatchIsOffered ==
  ASSUME NEW size, NEW batch \in Batches(size) PROVE batch \subseteq Holdings
BY DEF Batches, OnOffer

LEMMA MarkIs ==
  ASSUME RecoveryTypeOK, NEW outputs, NEW to \in {"absent", "unconfirmed", "confirmed", "removed"}
  PROVE  /\ Mark(outputs, to) \in Entries
         /\ \A o \in Holdings : Mark(outputs, to)[o] = IF o \in outputs THEN to ELSE entry[o]
BY DEF RecoveryTypeOK, Entries, Mark

\* The network forgets no output.
LEMMA OnChainIs ==
  ASSUME RecoveryTypeOK, NEW spent, NEW made
  PROVE  /\ OnChain(spent, made) \in Ledgers
         /\ \A o \in Holdings : ledger[o] # "unknown" => OnChain(spent, made)[o] # "unknown"
BY DEF RecoveryTypeOK, Ledgers, OnChain

LEMMA ScriptIs ==
  ASSUME NEW at \in {"off", "locked", "sent", "sweeping"}, NEW kind \in {"consolidation", "transfer"},
         NEW inputs \in SUBSET Holdings, NEW outputs \in SUBSET Holdings
  PROVE  Script(at, kind, inputs, outputs) \in ScriptRecord
BY RecoveryAssumption DEF RecoveryAssumption, Script, ScriptRecord

LEMMA NoScriptIs == NoScript \in ScriptRecord
BY RecoveryAssumption DEF RecoveryAssumption, NoScript, Script, ScriptRecord

LEMMA ScriptParts ==
  ASSUME RecoveryTypeOK
  PROVE  /\ script \in ScriptRecord /\ script.inputs \subseteq Holdings
         /\ script.outputs \subseteq Holdings /\ script.kind \in {"consolidation", "transfer"}
         /\ script.swept \in 0..SweepLimit
BY DEF RecoveryTypeOK, ScriptRecord

LEMMA ReleasedIs ==
  ASSUME RecoveryTypeOK, Released PROVE locks' \subseteq Holdings /\ script' \in ScriptRecord
BY NoScriptIs DEF RecoveryTypeOK, Released

----------------------------------------------------------------------------
(* While the recovery is idle, the writers and the consolidation change what they like but make    *)
(* no row confirmed without the network's knowing its output.                                      *)

RescueInv == RescueIsAlone /\ ConfirmedIsKnown /\ RescueAdvances
RecoveryInv == RecoveryTypeOK /\ RescueInv

LEMMA NotRescuing ==
  ASSUME RecoveryInv, rescue' = rescue, rescue.at = "idle",
         \A o \in Holdings : entry'[o] = "confirmed" => entry[o] = "confirmed" \/ ledger'[o] # "unknown",
         \A o \in Holdings : ledger[o] # "unknown" => ledger'[o] # "unknown"
  PROVE  RescueInv'
<1>1. RescueIsAlone' /\ RescueAdvances' BY DEF RescueIsAlone, RescueAdvances
<1>2. ConfirmedIsKnown' BY DEF RecoveryInv, RescueInv, ConfirmedIsKnown
<1> QED BY <1>1, <1>2 DEF RescueInv

LEMMA WritersInv ==
  ASSUME RecoveryInv, WriterSpends \/ WriterFindsMissing \/ OutputConfirmed \/ Reap
  PROVE  RecoveryInv'
<1>1. RecoveryTypeOK /\ RescueInv BY DEF RecoveryInv
<1>2. /\ ledger \in Ledgers /\ entry \in Entries /\ locks \subseteq Holdings
      /\ online \in BOOLEAN /\ script \in ScriptRecord /\ rescue \in RescueRecord
  BY <1>1, RecoveryParts
<1>3. online /\ UNCHANGED <<online, script, rescue>>
  BY DEF WriterSpends, WriterFindsMissing, OutputConfirmed, Reap
<1>4. rescue.at = "idle" BY <1>1, <1>3 DEF RescueInv, RescueIsAlone
<1>5. ASSUME ledger' \in Ledgers, entry' \in Entries, locks' \subseteq Holdings,
             \A o \in Holdings : entry'[o] = "confirmed" => entry[o] = "confirmed" \/ ledger'[o] # "unknown",
             \A o \in Holdings : ledger[o] # "unknown" => ledger'[o] # "unknown"
      PROVE  RecoveryInv'
  BY <1>2, <1>3, <1>4, <1>5, RecoveryPartsNext, NotRescuing DEF RecoveryInv
<1>6. CASE WriterSpends
  <2>1. PICK o \in OnOffer, made \in New(1) :
          /\ \/ Spendable({o}) /\ ledger' = OnChain({o}, made)
             \/ ledger[o] = "unknown" /\ UNCHANGED ledger
          /\ \/ entry' = [Mark(made, "unconfirmed") EXCEPT ![o] = "removed"]
             \/ ledger' # ledger /\ UNCHANGED entry
    BY <1>6 DEF WriterSpends
  <2>2. ledger' \in Ledgers /\ \A u \in Holdings : ledger[u] # "unknown" => ledger'[u] # "unknown"
    BY <1>1, <1>2, <2>1, OnChainIs
  <2>3. o \in Holdings BY DEF OnOffer
  <2>4. entry' \in Entries /\ \A u \in Holdings : entry'[u] = "confirmed" => entry[u] = "confirmed"
    <3>1. CASE entry' = [Mark(made, "unconfirmed") EXCEPT ![o] = "removed"]
      <4>1. /\ Mark(made, "unconfirmed") \in Entries
            /\ \A u \in Holdings :
                 Mark(made, "unconfirmed")[u] = IF u \in made THEN "unconfirmed" ELSE entry[u]
        BY <1>1, MarkIs
      <4> QED BY <3>1, <4>1, <2>3 DEF Entries
    <3>2. CASE UNCHANGED entry BY <1>2, <3>2
    <3> QED BY <2>1, <3>1, <3>2
  <2>5. locks' = locks BY <1>6 DEF WriterSpends
  <2> QED BY <1>2, <1>5, <2>2, <2>4, <2>5
<1>7. CASE WriterFindsMissing
  <2>1. PICK o \in OnOffer : entry' = Mark({o}, "removed") BY <1>7 DEF WriterFindsMissing
  <2>2. entry' \in Entries /\ \A u \in Holdings : entry'[u] = "confirmed" => entry[u] = "confirmed"
    BY <1>1, <2>1, MarkIs
  <2> QED BY <1>2, <1>5, <1>7, <2>2 DEF WriterFindsMissing
<1>8. CASE OutputConfirmed
  <2>1. PICK o \in Holdings : ledger[o] # "unknown" /\ entry' = Mark({o}, "confirmed")
    BY <1>8 DEF OutputConfirmed
  <2>2. UNCHANGED <<ledger, locks>> BY <1>8 DEF OutputConfirmed
  <2>3. /\ entry' \in Entries
        /\ \A u \in Holdings : entry'[u] = "confirmed" => entry[u] = "confirmed" \/ ledger'[u] # "unknown"
    BY <1>1, <2>1, <2>2, MarkIs
  <2> QED BY <1>2, <1>5, <2>2, <2>3
<1>9. CASE Reap
  <2>1. locks' \subseteq Holdings /\ UNCHANGED <<ledger, entry>> BY <1>2, <1>9 DEF Reap
  <2> QED BY <1>2, <1>5, <2>1
<1> QED BY <1>6, <1>7, <1>8, <1>9

ScriptSteps ==
  \/ ScriptLocks \/ ScriptSends \/ ScriptRefused \/ ScriptMissesInputs
  \/ SweepLocks \/ SweepArchives \/ PhantomSweepEnds \/ ScriptCommits \/ CommitFails \/ ScriptExits

\* A commit archives the inputs and adds the outputs, unconfirmed; it confirms nothing.
LEMMA EntriesOfScript ==
  ASSUME RecoveryTypeOK, Commits \/ Archived
  PROVE  entry' \in Entries /\ \A o \in Holdings : entry'[o] = "confirmed" => entry[o] = "confirmed"
BY RecoveryParts DEF Commits, Archived, Entries

LEMMA ScriptInv == ASSUME RecoveryInv, ScriptSteps PROVE RecoveryInv'
<1>1. RecoveryTypeOK /\ RescueInv BY DEF RecoveryInv
<1>2. /\ ledger \in Ledgers /\ entry \in Entries /\ locks \subseteq Holdings
      /\ online \in BOOLEAN /\ script \in ScriptRecord /\ rescue \in RescueRecord
  BY <1>1, RecoveryParts
<1>3. UNCHANGED <<online, rescue>>
  BY DEF ScriptSteps, ScriptLocks, ScriptSends, ScriptRefused, ScriptMissesInputs, SweepLocks,
     SweepArchives, PhantomSweepEnds, ScriptCommits, CommitFails, ScriptExits
<1>4. rescue.at = "idle" \/ script.at # "off"
  BY DEF ScriptSteps, ScriptLocks, ScriptSends, ScriptRefused, ScriptMissesInputs, SweepLocks,
     SweepArchives, PhantomSweepEnds, ScriptCommits, CommitFails, ScriptExits
<1>5. rescue.at = "idle" BY <1>1, <1>4 DEF RescueInv, RescueIsAlone
<1>6. ASSUME ledger' \in Ledgers, entry' \in Entries, locks' \subseteq Holdings,
             script' \in ScriptRecord,
             \A o \in Holdings : entry'[o] = "confirmed" => entry[o] = "confirmed",
             \A o \in Holdings : ledger[o] # "unknown" => ledger'[o] # "unknown"
      PROVE  RecoveryInv'
  BY <1>2, <1>3, <1>5, <1>6, RecoveryPartsNext, NotRescuing DEF RecoveryInv
<1>7. CASE ScriptLocks
  <2>1. PICK kind \in {"consolidation", "transfer"}, batch \in Batches(LockBatch) :
          script' = Script("locked", kind, batch, {}) /\ locks' = locks \cup batch
    BY <1>7 DEF ScriptLocks
  <2>2. batch \in SUBSET Holdings /\ {} \in SUBSET Holdings BY BatchIsOffered
  <2>3. script' \in ScriptRecord BY <2>1, <2>2, ScriptIs
  <2> QED BY <1>2, <1>6, <1>7, <2>1, <2>2, <2>3 DEF ScriptLocks
<1>8. CASE ScriptSends
  <2>1. PICK made \in New(MadeBy(script.kind)) :
          /\ ledger' = OnChain(script.inputs, made)
          /\ \/ script' = [script EXCEPT !.at = "sent", !.outputs = made] /\ UNCHANGED locks
             \/ Released
    BY <1>8 DEF ScriptSends
  <2>2. ledger' \in Ledgers /\ \A u \in Holdings : ledger[u] # "unknown" => ledger'[u] # "unknown"
    BY <1>1, <2>1, OnChainIs
  <2>3. made \subseteq Holdings BY NewIsFresh
  <2>4. script' \in ScriptRecord /\ locks' \subseteq Holdings
    BY <1>1, <1>2, <2>1, <2>3, ReleasedIs DEF ScriptRecord
  <2> QED BY <1>2, <1>6, <1>8, <2>2, <2>4 DEF ScriptSends
<1>9. CASE ScriptRefused
  BY <1>1, <1>2, <1>6, <1>9, ReleasedIs DEF ScriptRefused
<1>10. CASE ScriptMissesInputs
  <2>1. Archived /\ UNCHANGED ledger /\ script' = Script("sweeping", "consolidation", {}, {})
    BY <1>10 DEF ScriptMissesInputs
  <2>2. script' \in ScriptRecord BY <2>1, ScriptIs
  <2>3. locks' \subseteq Holdings BY <1>2, <2>1 DEF Archived
  <2> QED BY <1>1, <1>2, <1>6, <2>1, <2>2, <2>3, EntriesOfScript
<1>11. CASE SweepLocks
  <2>1. PICK batch \in Batches(LockBatch) :
          script' = [script EXCEPT !.inputs = batch, !.swept = @ + 1] /\ locks' = locks \cup batch
    BY <1>11 DEF SweepLocks
  <2>2. batch \subseteq Holdings BY BatchIsOffered
  <2>3. script.swept < SweepLimit /\ script.swept \in 0..SweepLimit /\ SweepLimit \in Nat
    BY <1>1, <1>11, ScriptParts, RecoveryAssumption DEF RecoveryAssumption, SweepLocks
  <2>4. script.swept + 1 \in 0..SweepLimit BY <2>3
  <2>5. script' \in ScriptRecord BY <1>2, <2>1, <2>2, <2>4 DEF ScriptRecord
  <2> QED BY <1>2, <1>6, <1>11, <2>1, <2>2, <2>5 DEF SweepLocks
<1>12. CASE SweepArchives
  <2>1. Archived /\ UNCHANGED ledger /\ script' = [script EXCEPT !.inputs = {}]
    BY <1>12 DEF SweepArchives
  <2>2. script' \in ScriptRecord BY <1>2, <2>1 DEF ScriptRecord
  <2>3. locks' \subseteq Holdings BY <1>2, <2>1 DEF Archived
  <2> QED BY <1>1, <1>2, <1>6, <2>1, <2>2, <2>3, EntriesOfScript
<1>13. CASE PhantomSweepEnds \/ ScriptExits
  BY <1>2, <1>6, <1>13, NoScriptIs DEF PhantomSweepEnds, ScriptExits
<1>14. CASE ScriptCommits
  BY <1>1, <1>2, <1>6, <1>14, ReleasedIs, EntriesOfScript DEF ScriptCommits
<1>15. CASE CommitFails
  <2>1. UNCHANGED ledger /\ (UNCHANGED entry \/ Commits) BY <1>15 DEF CommitFails
  <2>2. script' \in ScriptRecord /\ locks' \subseteq Holdings
    BY <1>1, <1>2, <1>15, ReleasedIs, NoScriptIs DEF CommitFails
  <2> QED BY <1>1, <1>2, <1>6, <2>1, <2>2, EntriesOfScript
<1> QED BY <1>7, <1>8, <1>9, <1>10, <1>11, <1>12, <1>13, <1>14, <1>15 DEF ScriptSteps

----------------------------------------------------------------------------
(* The recovery itself.                                                                           *)

RescueSteps ==
  WritersStop \/ WritersStart \/ Discover \/ ArchivePhantoms \/ UpsertReal \/ RecoveryFails

LEMMA RescueStepsInv == ASSUME RecoveryInv, RescueSteps PROVE RecoveryInv'
<1>1. RecoveryTypeOK /\ RescueInv BY DEF RecoveryInv
<1>2. /\ ledger \in Ledgers /\ entry \in Entries /\ locks \subseteq Holdings
      /\ online \in BOOLEAN /\ script \in ScriptRecord /\ rescue \in RescueRecord
      /\ rescue.found \subseteq Holdings /\ rescue.left \subseteq Holdings
  BY <1>1, RecoveryParts DEF RescueRecord
<1>3. UNCHANGED <<ledger, script>>
  BY DEF RescueSteps, WritersStop, WritersStart, Discover, ArchivePhantoms, UpsertReal, RecoveryFails
<1>4. ASSUME entry' \in Entries, locks' \subseteq Holdings, online' \in BOOLEAN,
             rescue' \in RescueRecord, RescueIsAlone', ConfirmedIsKnown', RescueAdvances'
      PROVE  RecoveryInv'
  BY <1>2, <1>3, <1>4, RecoveryPartsNext DEF RecoveryInv, RescueInv
<1>5. RescueIsAlone /\ ConfirmedIsKnown /\ RescueAdvances BY <1>1 DEF RescueInv
<1>6. entry' = entry => ConfirmedIsKnown' BY <1>3, <1>5 DEF ConfirmedIsKnown
<1>7. CASE WritersStop
  <2>1. rescue.at = "idle" BY <1>5, <1>7 DEF WritersStop, RescueIsAlone
  <2>2. RescueIsAlone' /\ RescueAdvances'
    BY <1>7, <2>1 DEF WritersStop, RescueIsAlone, RescueAdvances
  <2> QED BY <1>2, <1>4, <1>6, <1>7, <2>2 DEF WritersStop
<1>8. CASE WritersStart
  <2>1. rescue' = NoRescue /\ NoRescue.at = "idle" /\ NoRescue \in RescueRecord
    BY <1>8 DEF WritersStart, NoRescue, RescueRecord
  <2>2. RescueIsAlone' /\ RescueAdvances' BY <2>1 DEF RescueIsAlone, RescueAdvances
  <2> QED BY <1>2, <1>4, <1>6, <1>8, <2>1, <2>2 DEF WritersStart
<1>9. CASE Discover
  <2>1. /\ ~online /\ script.at = "off" /\ UNCHANGED <<entry, locks, online>>
        /\ rescue' = [at |-> "discovered", found |-> {o \in Holdings : ledger[o] = "unspent"},
                      left |-> {}]
    BY <1>9 DEF Discover
  <2>2. rescue' \in RescueRecord BY <2>1 DEF RescueRecord
  <2>3. RescueIsAlone' BY <1>3, <2>1 DEF RescueIsAlone
  <2>4. RescueAdvances' BY <2>1 DEF RescueAdvances
  <2> QED BY <1>2, <1>4, <1>6, <2>1, <2>2, <2>3, <2>4
<1>10. CASE ArchivePhantoms
  <2>1. /\ entry' = [o \in Holdings |-> IF entry[o] = "unconfirmed" THEN "removed" ELSE entry[o]]
        /\ locks' \subseteq locks /\ online' = online /\ rescue.at = "discovered"
        /\ rescue' = [rescue EXCEPT !.at = "upserting", !.left = rescue.found]
    BY <1>10 DEF ArchivePhantoms
  <2>2. rescue' \in RescueRecord /\ rescue'.at = "upserting" /\ rescue'.found = rescue.found
        /\ rescue'.left = rescue.found
    BY <1>2, <2>1 DEF RescueRecord
  <2>3. /\ entry' \in Entries
        /\ \A o \in Holdings : entry'[o] # "unconfirmed"
                               /\ (entry'[o] = "confirmed" => entry[o] = "confirmed")
    BY <1>2, <2>1 DEF Entries
  <2>4. RescueIsAlone' BY <1>3, <1>5, <2>1, <2>2 DEF RescueIsAlone
  <2>5. ConfirmedIsKnown' BY <1>3, <1>5, <2>3 DEF ConfirmedIsKnown
  <2>6. RescueAdvances' BY <2>2, <2>3 DEF RescueAdvances
  <2> QED BY <1>2, <1>4, <2>1, <2>2, <2>3, <2>4, <2>5, <2>6
\* The batch is written of what was found, which the network has.
<1>11. CASE UpsertReal
  <2>1. rescue.at = "upserting" /\ online' = online BY <1>11 DEF UpsertReal
  <2>2. PICK batch \in SUBSET rescue.left :
          /\ entry' = [o \in Holdings |-> IF o \in batch THEN OnConflict(entry[o]) ELSE entry[o]]
          /\ locks' = locks \ batch
          /\ rescue' = [rescue EXCEPT !.left = @ \ batch,
                                      !.at = IF rescue.left = batch THEN "done" ELSE @]
    BY <1>11 DEF UpsertReal
  <2>3. /\ rescue' \in RescueRecord /\ rescue'.found = rescue.found
        /\ rescue'.left = rescue.left \ batch
        /\ rescue'.at = IF rescue.left = batch THEN "done" ELSE "upserting"
    BY <1>2, <2>1, <2>2 DEF RescueRecord
  <2>4. entry' \in Entries
        /\ \A o \in Holdings : entry'[o] = IF o \in batch THEN "confirmed" ELSE entry[o]
    BY <1>2, <2>2 DEF Entries, OnConflict
  <2>5. RescueIsAlone' BY <1>3, <1>5, <2>1, <2>3 DEF RescueIsAlone
  <2>6. rescue.left \subseteq rescue.found BY <1>5, <2>1 DEF RescueAdvances
  <2>7. ConfirmedIsKnown'
    <3>1. rescue.found = {o \in Holdings : ledger[o] = "unspent"}
      BY <1>5, <2>1 DEF RescueIsAlone
    <3> QED BY <1>3, <1>5, <2>4, <2>6, <3>1 DEF ConfirmedIsKnown
  <2>8. RescueAdvances'
    BY <1>2, <1>5, <2>1, <2>2, <2>3, <2>4 DEF RescueAdvances
  <2> QED BY <1>2, <1>4, <2>1, <2>2, <2>3, <2>4, <2>5, <2>7, <2>8
<1>12. CASE RecoveryFails
  <2>1. /\ rescue.at = "upserting" /\ UNCHANGED <<entry, locks, online>>
        /\ rescue' = [rescue EXCEPT !.at = "discovered", !.left = {}]
    BY <1>12 DEF RecoveryFails
  <2>2. rescue' \in RescueRecord /\ rescue'.found = rescue.found /\ rescue'.at = "discovered"
    BY <1>2, <2>1 DEF RescueRecord
  <2>3. RescueIsAlone' BY <1>3, <1>5, <2>1, <2>2 DEF RescueIsAlone
  <2>4. RescueAdvances' BY <2>2 DEF RescueAdvances
  <2> QED BY <1>2, <1>4, <1>6, <2>1, <2>2, <2>3, <2>4
<1> QED BY <1>7, <1>8, <1>9, <1>10, <1>11, <1>12 DEF RescueSteps

LEMMA RecoveryStepInv == RecoveryInv /\ [RecoveryNext]_recoveryVars => RecoveryInv'
<1> SUFFICES ASSUME RecoveryInv, [RecoveryNext]_recoveryVars PROVE RecoveryInv' OBVIOUS
<1>1. CASE UNCHANGED recoveryVars
  BY <1>1 DEF recoveryVars, RecoveryInv, RecoveryTypeOK, RescueInv, RescueIsAlone, ConfirmedIsKnown,
              RescueAdvances
<1> QED BY <1>1, WritersInv, ScriptInv, RescueStepsInv DEF RecoveryNext, ScriptSteps, RescueSteps

LEMMA RecoveryInitInv == RecoveryInit => RecoveryInv
<1> SUFFICES ASSUME RecoveryInit PROVE RecoveryInv OBVIOUS
<1>1. NoRescue \in RescueRecord /\ NoRescue.at = "idle" BY DEF NoRescue, RescueRecord
<1>2. ledger \in Ledgers /\ entry \in Entries BY DEF RecoveryInit, Ledgers, Entries
<1>3. \A o \in Holdings : entry[o] = "confirmed" => ledger[o] # "unknown" BY DEF RecoveryInit
<1>4. RecoveryTypeOK BY <1>1, <1>2, NoScriptIs, RecoveryParts DEF RecoveryInit
<1>5. RescueInv
  BY <1>1, <1>3 DEF RecoveryInit, RescueInv, RescueIsAlone, ConfirmedIsKnown, RescueAdvances
<1> QED BY <1>4, <1>5 DEF RecoveryInv

\* Rows, locks, the script's transaction and what the recovery has found and left to write stay among
\* the wallet's outputs, and a phantom sweep within its limit.
THEOREM RecoveryTypeCorrect == RecoverySpec => []RecoveryTypeOK
<1>1. RecoveryInv => RecoveryTypeOK BY DEF RecoveryInv
<1> QED BY <1>1, RecoveryInitInv, RecoveryStepInv, PTL DEF RecoverySpec

\* A recovery that ends has mended the inventory, wherever writers, consolidations, their lost
\* updates, exits and earlier runs of the recovery left it: each unspent output is confirmed and
\* free, and no row stands for one that the network never knew.
THEOREM RecoveryHasMended == RecoverySpec => []RecoveryMends
<1>1. RecoveryInv => RecoveryMends
  BY DEF RecoveryInv, RescueInv, RescueIsAlone, ConfirmedIsKnown, RescueAdvances, RecoveryMends,
     LiveRow
<1> QED BY <1>1, RecoveryInitInv, RecoveryStepInv, PTL DEF RecoverySpec
=============================================================================
