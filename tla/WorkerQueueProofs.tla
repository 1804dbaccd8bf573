------------------------- MODULE WorkerQueueProofs -------------------------
(* Theorems about WorkerQueue, for any number of processes, readings and    *)
(* items, any limits, and every combination of faults.                      *)
EXTENDS WorkerQueue, FiniteSetTheorems, TLAPS

(* Every step keeps the types. *)

LEMMA TypeInit == Init => TypeOK
BY QueueAssumption DEF QueueAssumption, Init, TypeOK, Row, NoRow, Statuses

LEMMA HeldIsCopy == ASSUME TypeOK, NEW c \in Held PROVE c \in Slots /\ copy[c] \in Copy
BY DEF TypeOK, Held, Free

\* The hydration claims queued rows.
LEMMA HydrateClaimDid ==
  ASSUME NEW w \in Workers, HydrateClaim(w)
  PROVE  \E S \in SUBSET Readings :
           (\A i \in S : row[i].status = "queued") /\ MarkProcessing(S)
<1>1. PICK D \in SUBSET Free : \E g \in [D -> {i \in Readings : Claimable(i)}] :
        MarkProcessing({g[c] : c \in D})
  BY DEF HydrateClaim
<1>2. PICK g \in [D -> {i \in Readings : Claimable(i)}] : MarkProcessing({g[c] : c \in D})
  BY <1>1
<1> DEFINE S == {g[c] : c \in D}
<1>3. S \in SUBSET Readings /\ \A i \in S : row[i].status = "queued" BY DEF Claimable
<1> QED BY <1>2, <1>3

\* What a failing statement of the hydration may have done: nothing, a reclaim, or a claim.
LEMMA HydrateErrorDid ==
  ASSUME NEW w \in Workers, HydrateError(w)
  PROVE  /\ UNCHANGED <<sql, linked, copy, deferred, tick, dry, crashes, sent, attempts>>
         /\ UNCHANGED hydrate \/ hydrate' = [hydrate EXCEPT ![w] = "idle"]
         /\ \/ UNCHANGED <<row, stale, returned>>
            \/ Reclaim
            \/ /\ UNCHANGED returned
               /\ \E S \in SUBSET Readings :
                    (\A i \in S : row[i].status = "queued") /\ MarkProcessing(S)
BY DEF HydrateError, Claimable, table

LEMMA ProcessStepType ==
  ASSUME TypeOK, NEW w \in Workers, ProcessStep(w) PROVE TypeOK'
<1> USE QueueAssumption DEF QueueAssumption, TypeOK, table, process, history
<1>1. ASSUME NEW i \in Readings, NEW c \in Slots, AddToQueue(w, i, c) PROVE TypeOK'
  BY <1>1 DEF AddToQueue, Copy, Statement, Places
<1>2. CASE StartProcessing(w) BY <1>2 DEF StartProcessing
<1>3. CASE HydrateReclaim(w) BY <1>3 DEF HydrateReclaim, Reclaim, Row, Statuses
<1>4. CASE HydrateClaim(w)
  <2>1. row' \in [Readings -> Row] /\ stale' \subseteq Readings
    BY <1>4 DEF HydrateClaim, MarkProcessing, Row, Statuses
  <2>2. copy' \in [Slots -> Copy \cup {NoCopy}]
    BY <1>4 DEF HydrateClaim, Copy, Places, Row, Claimable
  <2> QED BY <1>4, <2>1, <2>2 DEF HydrateClaim
<1>5. CASE HydrateError(w)
  <2>1. \/ UNCHANGED <<row, stale, returned>> \/ Reclaim
        \/ UNCHANGED returned /\ \E S \in SUBSET Readings : MarkProcessing(S)
    BY <1>5, HydrateErrorDid
  <2>2. row' \in [Readings -> Row] /\ stale' \subseteq Readings /\ returned' \subseteq Readings
    BY <2>1 DEF Reclaim, MarkProcessing, Row, Statuses
  <2> QED BY <1>5, <2>2, HydrateErrorDid
<1>6. CASE HydrateTimer(w) BY <1>6 DEF HydrateTimer
<1>7. CASE TakeBatch(w)
  <2>1. copy' \in [Slots -> Copy \cup {NoCopy}]
    BY <1>7, HeldIsCopy DEF TakeBatch, At, Copy, Places
  <2> QED BY <1>7, <2>1 DEF TakeBatch
<1>8. CASE ClaimBatch(w)
  <2>1. row' \in [Readings -> Row] BY <1>8 DEF ClaimBatch, MarkProcessing, Row, Statuses
  <2>2. copy' \in [Slots -> Copy \cup {NoCopy}]
    BY <1>8, HeldIsCopy DEF ClaimBatch, Unclaimed, At, Copy, Places
  <2> QED BY <1>8, <2>1, <2>2 DEF ClaimBatch, MarkProcessing
<1>9. CASE ClaimError(w)
  <2>1. row' \in [Readings -> Row] BY <1>9 DEF ClaimError, MarkProcessing, Row, Statuses
  <2>2. copy' \in [Slots -> Copy \cup {NoCopy}]
    BY <1>9, HeldIsCopy DEF ClaimError, Unclaimed, At, Copy, Places
  <2> QED BY <1>9, <2>1, <2>2 DEF ClaimError, MarkProcessing
<1>10. CASE FinishBatch(w) BY <1>10 DEF FinishBatch
<1>11. CASE PauseForFunding(w) BY <1>11 DEF PauseForFunding
<1>12. CASE ResumeWrites(w) BY <1>12 DEF ResumeWrites
<1>13. CASE Crash(w) BY <1>13 DEF Crash
<1> QED BY <1>1, <1>2, <1>3, <1>4, <1>5, <1>6, <1>7, <1>8, <1>9, <1>10, <1>11, <1>12, <1>13
        DEF ProcessStep

LEMMA MoveType ==
  ASSUME TypeOK, NEW c \in Held, NEW place \in Places
  PROVE  Move(c, place) \in [Slots -> Copy \cup {NoCopy}]
BY HeldIsCopy DEF TypeOK, Move, Copy

LEMMA DropType ==
  ASSUME TypeOK, NEW c \in Slots PROVE Drop(c) \in [Slots -> Copy \cup {NoCopy}]
BY DEF TypeOK, Drop

LEMMA SendType ==
  ASSUME TypeOK, NEW c \in Held, NEW n \in 0 .. MaxRetries,
         NEW op \in {"insert", "delete", "fail", "requeue"}
  PROVE  Send(op, c, n) \in Statement
BY HeldIsCopy DEF Send, Statement, Copy

LEMMA CountType ==
  ASSUME TypeOK, NEW i \in Readings
  PROVE  /\ CountSend(i) => sent' \in [Readings -> 0 .. MaxSends]
         /\ CountAttempt(i) => attempts' \in [Readings -> 0 .. MaxRetries + 1]
BY QueueAssumption DEF QueueAssumption, TypeOK, CountSend, CountAttempt, AtMost

LEMMA ItemStepType ==
  ASSUME TypeOK, NEW c \in Slots, ItemStep(c) PROVE TypeOK'
<1> USE QueueAssumption DEF QueueAssumption, table, process, history
<1>1. c \in Held BY DEF ItemStep, StartItem, CheckOnChain, CheckError, WriteAccepted, LinkTxId,
                       LinkError, HandleFailedItem, AlreadyKnown, RetryTimer
<1>2. copy[c] \in Copy /\ copy[c].id \in Readings BY <1>1, HeldIsCopy DEF Copy
<1>3. \A place \in Places : Move(c, place) \in [Slots -> Copy \cup {NoCopy}]
  BY <1>1, MoveType
<1>4. Drop(c) \in [Slots -> Copy \cup {NoCopy}] BY DropType
<1>5. \A op \in {"insert", "delete", "fail", "requeue"}, n \in 0 .. MaxRetries :
        Send(op, c, n) \in Statement
  BY <1>1, SendType
<1>6. Send("delete", c, 0) \in Statement /\ Send("fail", c, 0) \in Statement BY <1>5
<1>7. CASE StartItem(c) BY <1>7, <1>3 DEF StartItem, TypeOK, Places
<1>8. CASE CheckOnChain(c) BY <1>8, <1>3, <1>4, <1>6 DEF CheckOnChain, TypeOK, Places
<1>9. CASE CheckError(c) BY <1>9, <1>3 DEF CheckError, TypeOK, Places
<1>10. CASE WriteAccepted(c)
  BY <1>10, <1>2, <1>3, <1>6, CountType DEF WriteAccepted, TypeOK, Places
<1>11. CASE LinkTxId(c) BY <1>11, <1>4 DEF LinkTxId, TypeOK
<1>12. CASE LinkError(c) BY <1>12, <1>4 DEF LinkError, TypeOK
<1>13. CASE HandleFailedItem(c)
  <2>1. sent' \in [Readings -> 0 .. MaxSends] /\ attempts' \in [Readings -> 0 .. MaxRetries + 1]
    BY <1>13, <1>2, CountType DEF HandleFailedItem, TypeOK
  <2>2. CASE MayRetry(c)
    <3>1. copy[c].retries + 1 \in 0 .. MaxRetries BY <1>2, <2>2 DEF MayRetry, Copy
    <3>2. Send("requeue", c, copy[c].retries + 1) \in Statement BY <3>1, <1>5
    <3>3. [copy EXCEPT ![c].at = "timer", ![c].retries = copy[c].retries + 1]
            \in [Slots -> Copy \cup {NoCopy}]
      BY <1>2, <3>1 DEF TypeOK, Copy, Places
    <3> QED BY <1>13, <1>2, <2>1, <2>2, <3>2, <3>3 DEF HandleFailedItem, TypeOK
  <2>3. CASE ~MayRetry(c) BY <1>13, <1>4, <1>6, <2>1, <2>3 DEF HandleFailedItem, TypeOK
  <2> QED BY <2>2, <2>3
<1>14. CASE AlreadyKnown(c)
  BY <1>14, <1>2, <1>4, <1>6, CountType DEF AlreadyKnown, TypeOK
<1>15. CASE RetryTimer(c) BY <1>15, <1>3 DEF RetryTimer, TypeOK, Places
<1> QED BY <1>7, <1>8, <1>9, <1>10, <1>11, <1>12, <1>13, <1>14, <1>15 DEF ItemStep

LEMMA TableStepType == ASSUME TypeOK, TableStep PROVE TypeOK'
<1> USE QueueAssumption DEF QueueAssumption, TypeOK, process, history
<1>1. ASSUME NEW s \in sql, Execute(s) PROVE TypeOK'
  <2>1. s.id \in Readings /\ s.n \in 0 .. MaxRetries
        /\ s.op \in {"insert", "delete", "fail", "requeue"}
    BY DEF Statement
  <2>2. After(s) \in Row BY <2>1 DEF After, Row, NoRow, Statuses
  <2> QED BY <1>1, <2>1, <2>2 DEF Execute
<1>2. ASSUME NEW s \in sql, Lose(s) PROVE TypeOK' BY <1>2 DEF Lose, table
<1>3. ASSUME NEW i \in Readings, Age(i) PROVE TypeOK' BY <1>3 DEF Age
<1>4. ASSUME NEW i \in Readings, CleanupOldFailed(i) PROVE TypeOK'
  BY <1>4 DEF CleanupOldFailed, Row, NoRow, Statuses
<1> QED BY <1>1, <1>2, <1>3, <1>4 DEF TableStep

LEMMA TypeNext == TypeOK /\ [Next]_vars => TypeOK'
<1> SUFFICES ASSUME TypeOK, [Next]_vars PROVE TypeOK' OBVIOUS
<1>1. CASE UNCHANGED vars BY <1>1 DEF vars, TypeOK
<1>2. CASE Next BY <1>2, ProcessStepType, ItemStepType, TableStepType DEF Next
<1> QED BY <1>1, <1>2

\* For every number of processes, readings and items the queue keeps the shape of its
\* variables; retry counts in memory, in the table and in flight stay within maxRetries.
THEOREM TypeCorrect == Spec => []TypeOK
BY TypeInit, TypeNext, PTL DEF Spec

-----------------------------------------------------------------------------
(* Retries.                                                                 *)

LEMMA ProcessStepRetries ==
  ASSUME TypeOK, RetriesWereTried, NEW w \in Workers, ProcessStep(w)
  PROVE  RetriesWereTried'
<1> USE QueueAssumption, NoCopyAssumption DEF QueueAssumption, TypeOK, RetriesWereTried,
        table, process, history, Held, Free
<1>1. ASSUME NEW i \in Readings, NEW c \in Slots, AddToQueue(w, i, c) PROVE RetriesWereTried'
  <2>1. attempts[i] >= 0 OBVIOUS
  <2> QED BY <1>1, <2>1 DEF AddToQueue
<1>2. CASE StartProcessing(w) BY <1>2 DEF StartProcessing
<1>3. CASE HydrateReclaim(w) BY <1>3 DEF HydrateReclaim, Reclaim, Row
<1>4. CASE HydrateClaim(w) BY <1>4 DEF HydrateClaim, MarkProcessing, Row
<1>5. CASE HydrateError(w)
  <2>1. row' = row \/ Reclaim \/ \E S \in SUBSET Readings : MarkProcessing(S)
    BY <1>5, HydrateErrorDid
  <2>2. \A i \in Readings : row'[i].retries = row[i].retries
                            /\ (row'[i].status = "failed" => row[i].status = "failed")
    BY <2>1 DEF Reclaim, MarkProcessing, Row
  <2> QED BY <1>5, <2>2, HydrateErrorDid
<1>6. CASE HydrateTimer(w) BY <1>6 DEF HydrateTimer
<1>7. CASE TakeBatch(w) BY <1>7 DEF TakeBatch, At, Copy
<1>8. CASE ClaimBatch(w) BY <1>8 DEF ClaimBatch, MarkProcessing, Unclaimed, At, Copy, Row
<1>9. CASE ClaimError(w)
  <2>1. \A i \in Readings : row'[i].retries = row[i].retries
                            /\ (row'[i].status = "failed" => row[i].status = "failed")
    BY <1>9 DEF ClaimError, MarkProcessing, Row
  <2>2. \A c \in Held' : c \in Held /\ copy'[c].retries = copy[c].retries /\ copy'[c].id = copy[c].id
    BY <1>9 DEF ClaimError, Unclaimed, At, Copy
  <2> QED BY <1>9, <2>1, <2>2 DEF ClaimError
<1>10. CASE FinishBatch(w) BY <1>10 DEF FinishBatch
<1>11. CASE PauseForFunding(w) BY <1>11 DEF PauseForFunding
<1>12. CASE ResumeWrites(w) BY <1>12 DEF ResumeWrites
<1>13. CASE Crash(w) BY <1>13 DEF Crash
<1> QED BY <1>1, <1>2, <1>3, <1>4, <1>5, <1>6, <1>7, <1>8, <1>9, <1>10, <1>11, <1>12, <1>13
        DEF ProcessStep

\* Counting an attempt takes nothing from any reading, and adds one up to the cap.
LEMMA CountAttemptGrows ==
  ASSUME TypeOK, NEW i \in Readings, CountAttempt(i)
  PROVE  /\ \A j \in Readings : attempts'[j] >= attempts[j]
         /\ \A n \in 0 .. MaxRetries : n <= attempts[i] => n + 1 <= attempts'[i]
BY QueueAssumption DEF QueueAssumption, TypeOK, CountAttempt, AtMost

LEMMA ItemStepRetries ==
  ASSUME TypeOK, RetriesWereTried, NEW c \in Slots, ItemStep(c)
  PROVE  RetriesWereTried'
<1> USE QueueAssumption, NoCopyAssumption DEF QueueAssumption, table, process, history
<1>1. c \in Held BY DEF ItemStep, StartItem, CheckOnChain, CheckError, WriteAccepted, LinkTxId,
                       LinkError, HandleFailedItem, AlreadyKnown, RetryTimer
<1>2. copy[c] \in Copy /\ copy[c].id \in Readings /\ copy[c].retries \in 0 .. MaxRetries
  BY <1>1, HeldIsCopy DEF Copy
<1>3. ASSUME CountAttempt(copy[c].id), UNCHANGED <<table, linked>>,
             \A d \in Held' : d \in Held /\ copy'[d].id = copy[d].id
                             /\ copy'[d].retries <= attempts'[copy[d].id],
             \A s \in sql' \ sql : s.id = copy[c].id /\ s.n <= attempts'[s.id]
                                 /\ (s.op = "fail" => attempts'[s.id] > MaxRetries)
      PROVE  RetriesWereTried'
  <2>1. \A j \in Readings : attempts'[j] >= attempts[j] BY <1>2, <1>3, CountAttemptGrows
  <2>2. attempts' \in [Readings -> 0 .. MaxRetries + 1] BY <1>2, <1>3, CountType
  <2>3. \A s \in sql : s.id \in Readings /\ s.n \in Nat BY DEF TypeOK, Statement
  <2> QED BY <1>3, <2>1, <2>2, <2>3 DEF RetriesWereTried, TypeOK, Row
<1>4. ASSUME attempts' = attempts, UNCHANGED <<table, linked>>,
             \A d \in Held' : d \in Held /\ copy'[d].id = copy[d].id
                             /\ copy'[d].retries = copy[d].retries,
             \A s \in sql' \ sql : s.id = copy[c].id /\ s.n = 0 /\ s.op # "fail"
      PROVE  RetriesWereTried'
  BY <1>2, <1>4 DEF RetriesWereTried, TypeOK
<1>5. \A place \in Places : copy' = Move(c, place) =>
        \A d \in Held' : d \in Held /\ copy'[d].id = copy[d].id
                        /\ copy'[d].retries = copy[d].retries
  BY <1>1, <1>2 DEF Move, Held, Free, TypeOK, Copy
<1>6. copy' = Drop(c) => \A d \in Held' : d \in Held /\ copy'[d] = copy[d]
  BY <1>1, <1>2 DEF Drop, Held, Free, TypeOK
<1>7. Send("delete", c, 0) = [op |-> "delete", id |-> copy[c].id, n |-> 0] BY DEF Send
<1>8. CountAttempt(copy[c].id) => \A d \in Held : copy[d].retries <= attempts'[copy[d].id]
  <2> SUFFICES ASSUME CountAttempt(copy[c].id), NEW d \in Held
               PROVE  copy[d].retries <= attempts'[copy[d].id]
    OBVIOUS
  <2>1. copy[d].id \in Readings /\ copy[d].retries \in 0 .. MaxRetries BY HeldIsCopy DEF Copy
  <2>2. attempts'[copy[d].id] >= attempts[copy[d].id] BY <1>2, <2>1, CountAttemptGrows
  <2>3. attempts' \in [Readings -> 0 .. MaxRetries + 1] BY <1>2, CountType
  <2> QED BY <2>1, <2>2, <2>3 DEF RetriesWereTried, TypeOK
<1>9. attempts' \in [Readings -> 0 .. MaxRetries + 1]
      => attempts'[copy[c].id] >= 0 /\ 0 <= attempts[copy[c].id]
  BY <1>2 DEF TypeOK
<1>10. CASE StartItem(c) BY <1>10, <1>4, <1>5 DEF StartItem, Places
<1>11. CASE CheckOnChain(c) BY <1>11, <1>4, <1>5, <1>6, <1>7 DEF CheckOnChain, Places
<1>12. CASE CheckError(c) BY <1>12, <1>4, <1>5 DEF CheckError, Places
<1>13. CASE WriteAccepted(c)
  BY <1>13, <1>2, <1>3, <1>5, <1>7, <1>8, <1>9, CountType DEF WriteAccepted, Places
<1>14. CASE LinkTxId(c)
  BY <1>1, <1>2, <1>6, <1>14 DEF LinkTxId, RetriesWereTried
<1>15. CASE LinkError(c) BY <1>15, <1>4, <1>6 DEF LinkError
<1>16. CASE HandleFailedItem(c)
  <2>1. CountAttempt(copy[c].id) /\ UNCHANGED <<table, linked>> BY <1>16 DEF HandleFailedItem
  <2>2. attempts' \in [Readings -> 0 .. MaxRetries + 1] BY <2>1, <1>2, CountType
  <2>3. copy[c].retries + 1 <= attempts'[copy[c].id]
    BY <1>1, <1>2, <2>1, CountAttemptGrows DEF RetriesWereTried
  <2>4. CASE MayRetry(c)
    <3>1. copy' = [copy EXCEPT ![c].at = "timer", ![c].retries = copy[c].retries + 1]
          /\ sql' = sql \cup {Send("requeue", c, copy[c].retries + 1)}
      BY <1>16, <2>4 DEF HandleFailedItem
    <3>2. \A d \in Held' : d \in Held /\ copy'[d].id = copy[d].id
                         /\ copy'[d].retries <= attempts'[copy[d].id]
      BY <3>1, <1>1, <1>2, <1>8, <2>1, <2>3 DEF Held, Free, TypeOK, Copy
    <3>3. \A s \in sql' \ sql : s.id = copy[c].id /\ s.n = copy[c].retries + 1
                              /\ s.op = "requeue"
      BY <3>1 DEF Send
    <3> QED BY <3>2, <3>3, <1>3, <2>1, <2>3
  <2>5. CASE ~MayRetry(c)
    <3>1. copy' = Drop(c) /\ sql' = sql \cup {Send("fail", c, 0)}
      BY <1>16, <2>5 DEF HandleFailedItem
    <3>2. attempts'[copy[c].id] > MaxRetries BY <1>2, <2>2, <2>3, <2>5 DEF MayRetry
    <3>3. \A s \in sql' \ sql : s.id = copy[c].id /\ s.n = 0
      BY <3>1 DEF Send
    <3>4. \A d \in Held' : d \in Held /\ copy'[d] = copy[d] BY <3>1, <1>6
    <3> QED BY <3>2, <3>3, <3>4, <1>2, <1>3, <1>8, <2>1, <2>2 DEF Send
  <2> QED BY <2>4, <2>5
<1>17. CASE AlreadyKnown(c)
  BY <1>17, <1>2, <1>3, <1>6, <1>7, <1>8, <1>9, CountType DEF AlreadyKnown
<1>18. CASE RetryTimer(c) BY <1>18, <1>4, <1>5 DEF RetryTimer, Places
<1> QED BY <1>10, <1>11, <1>12, <1>13, <1>14, <1>15, <1>16, <1>17, <1>18 DEF ItemStep

LEMMA TableStepRetries == ASSUME TypeOK, RetriesWereTried, TableStep PROVE RetriesWereTried'
<1> USE QueueAssumption DEF QueueAssumption, TypeOK, RetriesWereTried, process, history,
        Held, Free
<1>1. ASSUME NEW s \in sql, Execute(s) PROVE RetriesWereTried'
  <2>1. s.id \in Readings /\ s.n \in 0 .. MaxRetries
        /\ s.op \in {"insert", "delete", "fail", "requeue"}
    BY DEF Statement
  <2>2. /\ After(s).retries <= attempts[s.id]
        /\ After(s).status = "failed" => attempts[s.id] > MaxRetries
    BY <2>1 DEF After, Row, NoRow, Statuses
  <2> QED BY <1>1, <2>1, <2>2 DEF Execute, Row
<1>2. ASSUME NEW s \in sql, Lose(s) PROVE RetriesWereTried' BY <1>2 DEF Lose, table
<1>3. ASSUME NEW i \in Readings, Age(i) PROVE RetriesWereTried' BY <1>3 DEF Age
<1>4. ASSUME NEW i \in Readings, CleanupOldFailed(i) PROVE RetriesWereTried'
  BY <1>4 DEF CleanupOldFailed, Row, NoRow, Statuses
<1> QED BY <1>1, <1>2, <1>3, <1>4 DEF TableStep

LEMMA RetriesNext == TypeOK /\ RetriesWereTried /\ [Next]_vars => RetriesWereTried'
<1> SUFFICES ASSUME TypeOK, RetriesWereTried, [Next]_vars PROVE RetriesWereTried' OBVIOUS
<1>1. CASE UNCHANGED vars BY <1>1 DEF vars, RetriesWereTried, Held, Free
<1>2. CASE Next BY <1>2, ProcessStepRetries, ItemStepRetries, TableStepRetries DEF Next
<1> QED BY <1>1, <1>2

LEMMA RetriesInit == Init => RetriesWereTried
BY QueueAssumption DEF QueueAssumption, Init, RetriesWereTried, NoRow, Held, Free

\* However the attempts of a reading are spread over processes, restarts and reclaims, its
\* row is marked failed only when more than maxRetries broadcasts of it were tried.
THEOREM ParkedAfterRetries == Spec => []ParkedOnlyAfterAllRetries
<1>1. RetriesWereTried => ParkedOnlyAfterAllRetries
  BY DEF RetriesWereTried, ParkedOnlyAfterAllRetries
<1> QED BY <1>1, TypeCorrect, RetriesInit, RetriesNext, PTL DEF Spec

-----------------------------------------------------------------------------
(* What leaves the table.                                                   *)

LEMMA ProcessStepDone ==
  ASSUME TypeOK, DoneWasSent, NEW w \in Workers, ProcessStep(w) PROVE DoneWasSent'
<1> USE QueueAssumption, NoCopyAssumption DEF QueueAssumption, TypeOK, DoneWasSent,
        table, process, history, Held, Free
<1>1. ASSUME NEW i \in Readings, NEW c \in Slots, AddToQueue(w, i, c) PROVE DoneWasSent'
  BY <1>1 DEF AddToQueue
<1>2. CASE StartProcessing(w) BY <1>2 DEF StartProcessing
<1>3. CASE HydrateReclaim(w) BY <1>3 DEF HydrateReclaim
<1>4. CASE HydrateClaim(w) BY <1>4 DEF HydrateClaim
<1>5. CASE HydrateError(w) BY <1>5, HydrateErrorDid
<1>6. CASE HydrateTimer(w) BY <1>6 DEF HydrateTimer
<1>7. CASE TakeBatch(w) BY <1>7 DEF TakeBatch, At, Copy
<1>8. CASE ClaimBatch(w) BY <1>8 DEF ClaimBatch, Unclaimed, At, Copy
<1>9. CASE ClaimError(w) BY <1>9 DEF ClaimError, Unclaimed, At, Copy
<1>10. CASE FinishBatch(w) BY <1>10 DEF FinishBatch
<1>11. CASE PauseForFunding(w) BY <1>11 DEF PauseForFunding
<1>12. CASE ResumeWrites(w) BY <1>12 DEF ResumeWrites
<1>13. CASE Crash(w) BY <1>13 DEF Crash
<1> QED BY <1>1, <1>2, <1>3, <1>4, <1>5, <1>6, <1>7, <1>8, <1>9, <1>10, <1>11, <1>12, <1>13
        DEF ProcessStep

LEMMA CountSendGrows ==
  ASSUME TypeOK, NEW i \in Readings, CountSend(i)
  PROVE  sent'[i] > 0 /\ \A j \in Readings : sent[j] > 0 => sent'[j] > 0
BY QueueAssumption DEF QueueAssumption, TypeOK, CountSend, AtMost

LEMMA ItemStepDone ==
  ASSUME TypeOK, DoneWasSent, NEW c \in Slots, ItemStep(c) PROVE DoneWasSent'
<1> USE QueueAssumption, NoCopyAssumption DEF QueueAssumption, table, process, history
<1>1. c \in Held BY DEF ItemStep, StartItem, CheckOnChain, CheckError, WriteAccepted, LinkTxId,
                       LinkError, HandleFailedItem, AlreadyKnown, RetryTimer
<1>2. copy[c] \in Copy /\ copy[c].id \in Readings BY <1>1, HeldIsCopy DEF Copy
<1>3. ASSUME UNCHANGED sent \/ CountSend(copy[c].id),
             \A i \in linked' \ linked : sent'[i] > 0,
             \A d \in Held' : d \in Held /\ copy'[d].id = copy[d].id
                  /\ (copy'[d].at = "sent" => copy[d].at = "sent" \/ sent'[copy[d].id] > 0),
             \A s \in sql' \ sql : s.op = "delete" => sent'[s.id] > 0
      PROVE  DoneWasSent'
  <2>1. \A j \in Readings : sent[j] > 0 => sent'[j] > 0 BY <1>2, <1>3, CountSendGrows
  <2>2. \A d \in Held : copy[d].id \in Readings BY HeldIsCopy DEF Copy
  <2>3. (\A i \in linked : i \in Readings) /\ (\A s \in sql : s.id \in Readings)
    BY DEF TypeOK, Statement
  <2> QED BY <1>3, <2>1, <2>2, <2>3 DEF DoneWasSent
<1>4. \A place \in Places : copy' = Move(c, place) =>
        \A d \in Held' : d \in Held /\ copy'[d].id = copy[d].id
                        /\ copy'[d].at = IF d = c THEN place ELSE copy[d].at
  BY <1>1, <1>2 DEF Move, Held, Free, TypeOK, Copy
<1>5. copy' = Drop(c) => \A d \in Held' : d \in Held /\ copy'[d] = copy[d]
  BY <1>1, <1>2 DEF Drop, Held, Free, TypeOK
<1>6. Send("delete", c, 0).id = copy[c].id BY DEF Send
<1>7. CASE StartItem(c) BY <1>7, <1>3, <1>4 DEF StartItem, Places
<1>8. CASE CheckOnChain(c)
  <2>1. CASE OnChain(copy[c].id)
    <3>1. sent'[copy[c].id] > 0 BY <1>8, <2>1 DEF CheckOnChain, OnChain, DoneWasSent
    <3> QED BY <1>8, <2>1, <3>1, <1>3, <1>5, <1>6 DEF CheckOnChain
  <2>2. CASE ~OnChain(copy[c].id) BY <1>8, <2>2, <1>3, <1>4 DEF CheckOnChain, Places
  <2> QED BY <2>1, <2>2
<1>9. CASE CheckError(c) BY <1>9, <1>3, <1>4 DEF CheckError, Places
<1>10. CASE WriteAccepted(c)
  <2>1. sent'[copy[c].id] > 0 BY <1>10, <1>2, CountSendGrows DEF WriteAccepted
  <2> QED BY <1>10, <2>1, <1>3, <1>4, <1>6 DEF WriteAccepted, Places
<1>11. CASE LinkTxId(c)
  <2>1. sent'[copy[c].id] > 0 BY <1>1, <1>11 DEF LinkTxId, DoneWasSent
  <2> QED BY <1>11, <2>1, <1>3, <1>5 DEF LinkTxId
<1>12. CASE LinkError(c) BY <1>12, <1>3, <1>5 DEF LinkError
<1>13. CASE HandleFailedItem(c)
  <2>1. CASE MayRetry(c)
    <3>1. copy' = [copy EXCEPT ![c].at = "timer", ![c].retries = copy[c].retries + 1]
          /\ sql' = sql \cup {Send("requeue", c, copy[c].retries + 1)}
      BY <1>13, <2>1 DEF HandleFailedItem
    <3>2. \A d \in Held' : d \in Held /\ copy'[d].id = copy[d].id
                         /\ (copy'[d].at = "sent" => copy[d].at = "sent")
      BY <3>1, <1>1, <1>2 DEF Held, Free, TypeOK, Copy
    <3>3. \A s \in sql' \ sql : s.op # "delete" BY <3>1 DEF Send
    <3> QED BY <1>13, <3>2, <3>3, <1>3 DEF HandleFailedItem
  <2>2. CASE ~MayRetry(c)
    <3>1. \A s \in sql' \ sql : s.op # "delete"
      BY <1>13, <2>2 DEF HandleFailedItem, Send
    <3> QED BY <1>13, <2>2, <3>1, <1>3, <1>5 DEF HandleFailedItem
  <2> QED BY <2>1, <2>2
<1>14. CASE AlreadyKnown(c)
  <2>1. sent'[copy[c].id] > 0 BY <1>14, <1>2, CountSendGrows DEF AlreadyKnown
  <2> QED BY <1>14, <2>1, <1>3, <1>5, <1>6 DEF AlreadyKnown
<1>15. CASE RetryTimer(c) BY <1>15, <1>3, <1>4 DEF RetryTimer, Places
<1> QED BY <1>7, <1>8, <1>9, <1>10, <1>11, <1>12, <1>13, <1>14, <1>15 DEF ItemStep

LEMMA TableStepDone == ASSUME TypeOK, DoneWasSent, TableStep PROVE DoneWasSent'
<1> USE DEF DoneWasSent, process, history, Held, Free
<1>1. ASSUME NEW s \in sql, Execute(s) PROVE DoneWasSent' BY <1>1 DEF Execute
<1>2. ASSUME NEW s \in sql, Lose(s) PROVE DoneWasSent' BY <1>2 DEF Lose
<1>3. ASSUME NEW i \in Readings, Age(i) PROVE DoneWasSent' BY <1>3 DEF Age
<1>4. ASSUME NEW i \in Readings, CleanupOldFailed(i) PROVE DoneWasSent'
  BY <1>4 DEF CleanupOldFailed
<1> QED BY <1>1, <1>2, <1>3, <1>4 DEF TableStep

LEMMA DoneNext == TypeOK /\ DoneWasSent /\ [Next]_vars => DoneWasSent'
<1> SUFFICES ASSUME TypeOK, DoneWasSent, [Next]_vars PROVE DoneWasSent' OBVIOUS
<1>1. CASE UNCHANGED vars BY <1>1 DEF vars, DoneWasSent, Held, Free
<1>2. CASE Next BY <1>2, ProcessStepDone, ItemStepDone, TableStepDone DEF Next
<1> QED BY <1>1, <1>2

LEMMA DoneInit == Init => DoneWasSent
BY DEF Init, DoneWasSent, Held, Free

\* The claims and reclaims of a process change the status of rows that exist and never
\* to 'absent'; only a DELETE and the clean-up of failed rows remove a row.
LEMMA RowsLeave ==
  ASSUME TypeOK, DoneWasSent, [Next]_vars,
         NEW i \in Readings, row[i].status # "absent", row'[i].status = "absent"
  PROVE  sent[i] > 0 \/ row[i].status = "failed"
<1> USE DEF TypeOK, table, Row
<1>1. ASSUME NEW w \in Workers, ProcessStep(w) PROVE row'[i].status # "absent"
  <2>1. row' = row \/ Reclaim \/ \E S \in SUBSET Readings : MarkProcessing(S)
    BY <1>1, HydrateErrorDid, HydrateClaimDid
       DEF ProcessStep, AddToQueue, StartProcessing, HydrateReclaim, HydrateTimer,
           TakeBatch, ClaimBatch, ClaimError, FinishBatch, PauseForFunding, ResumeWrites, Crash,
           Owned
  <2>2. CASE Reclaim BY <2>2 DEF Reclaim
  <2>3. CASE \E S \in SUBSET Readings : MarkProcessing(S) BY <2>3 DEF MarkProcessing
  <2> QED BY <2>1, <2>2, <2>3
<1>2. ASSUME NEW c \in Slots, ItemStep(c) PROVE row' = row
  BY <1>2 DEF ItemStep, StartItem, CheckOnChain, CheckError, WriteAccepted, LinkTxId,
              LinkError, HandleFailedItem, AlreadyKnown, RetryTimer
<1>3. ASSUME NEW s \in sql, Execute(s) PROVE sent[i] > 0
  <2>1. s.id = i BY <1>3 DEF Execute
  <2>2. s.op = "delete" BY <1>3, <2>1 DEF Execute, After, Statement
  <2> QED BY <2>1, <2>2 DEF DoneWasSent
<1>4. ASSUME NEW s \in sql, Lose(s) PROVE row' = row BY <1>4 DEF Lose
<1>5. ASSUME NEW j \in Readings, Age(j) PROVE row' = row BY <1>5 DEF Age
<1>6. ASSUME NEW j \in Readings, CleanupOldFailed(j) PROVE row[i].status = "failed"
  BY <1>6 DEF CleanupOldFailed
<1> QED BY <1>1, <1>2, <1>3, <1>4, <1>5, <1>6 DEF Next, TableStep, vars

\* No row is deleted from worker_queue before its reading is on the network, except rows
\* parked as failed: work is never lost from the table.
THEOREM NothingLostFromTable == Spec => LeavesTableOnlyWhenDone
<1>1. TypeOK /\ DoneWasSent /\ [Next]_vars
      => [\A i \in Readings :
            row[i].status # "absent" /\ row'[i].status = "absent"
            => sent[i] > 0 \/ row[i].status = "failed"]_vars
  BY RowsLeave
<1> QED BY <1>1, TypeCorrect, DoneInit, DoneNext, PTL DEF Spec, LeavesTableOnlyWhenDone

-----------------------------------------------------------------------------
(* The ledger of readings.                                                  *)

LEMMA StaleInit == Init => StaleIsHeld
BY DEF Init, StaleIsHeld

\* A claim, a retry, a completion and a parking take the id out of the stale ones; an INSERT
\* finds no row, and a parked row that ages out is not processing.
LEMMA StaleNext == TypeOK /\ StaleIsHeld /\ [Next]_vars => StaleIsHeld'
<1> SUFFICES ASSUME TypeOK, StaleIsHeld, [Next]_vars PROVE StaleIsHeld'
  OBVIOUS
<1> USE DEF StaleIsHeld
<1>1. CASE UNCHANGED table BY <1>1 DEF table
<1>2. ASSUME Reclaim PROVE StaleIsHeld' BY <1>2 DEF Reclaim
<1>4. ASSUME NEW S \in SUBSET Readings, MarkProcessing(S) PROVE StaleIsHeld'
  BY <1>4 DEF MarkProcessing, TypeOK
<1>5. ASSUME NEW s \in sql, Execute(s) PROVE StaleIsHeld'
  <2>1. s.id \in Readings /\ s.op \in {"insert", "delete", "fail", "requeue"}
    BY DEF TypeOK, Statement
  <2>2. \A i \in stale' : i \in stale /\ row'[i] = row[i]
    BY <1>5, <2>1 DEF Execute, After, TypeOK
  <2> QED BY <2>2
<1>6. ASSUME NEW i \in Readings, Age(i) PROVE StaleIsHeld' BY <1>6 DEF Age
<1>7. ASSUME NEW i \in Readings, CleanupOldFailed(i) PROVE StaleIsHeld'
  BY <1>7 DEF CleanupOldFailed, TypeOK
<1>8. ASSUME NEW w \in Workers, ProcessStep(w) PROVE StaleIsHeld'
  <2>1. CASE HydrateClaim(w) BY <1>4, <2>1, HydrateClaimDid
  <2>2. CASE HydrateError(w) BY <1>1, <1>2, <1>4, <2>2, HydrateErrorDid DEF table
  <2> QED BY <1>1, <1>2, <1>4, <1>8, <2>1, <2>2
          DEF ProcessStep, AddToQueue, StartProcessing, HydrateReclaim, HydrateTimer, TakeBatch,
              ClaimBatch, ClaimError, FinishBatch, PauseForFunding, ResumeWrites, Crash, Owned
<1>9. ASSUME NEW c \in Slots, ItemStep(c) PROVE StaleIsHeld'
  BY <1>1, <1>9 DEF ItemStep, StartItem, CheckOnChain, CheckError, WriteAccepted, LinkTxId,
                    LinkError, HandleFailedItem, AlreadyKnown, RetryTimer
<1>10. CASE TableStep BY <1>1, <1>5, <1>6, <1>7, <1>10 DEF TableStep, Lose
<1>11. CASE UNCHANGED vars BY <1>1, <1>11 DEF vars, table
<1> QED BY <1>8, <1>9, <1>10, <1>11 DEF Next

LEMMA EntryNow ==
  ASSUME TypeOK, NEW i \in Readings
  PROVE  /\ Entry[i] = "unfiled" <=> row[i].status = "absent"
         /\ Entry[i] = "waiting" <=> row[i].status = "queued"
         /\ Entry[i] = "held"    <=> row[i].status = "processing"
         /\ Entry[i] = "parked"  <=> row[i].status = "failed"
BY DEF TypeOK, Row, Statuses, Entry, Place

\* What the rows of S come to say, the entries of S say.
LEMMA EntryMoves ==
  ASSUME TypeOK, NEW S \in SUBSET Readings, NEW new \in Statuses,
         \A i \in Readings : row'[i].status = IF i \in S THEN new ELSE row[i].status
  PROVE  Ledger!Moves(S, Place[new])
BY DEF Entry, Ledger!Moves

LEMMA EntryStays ==
  ASSUME \A i \in Readings : row'[i].status = row[i].status
  PROVE  Entry' = Entry
BY DEF Entry

LEMMA DeliveredStays == UNCHANGED sent => Delivered' = Delivered
BY DEF Delivered

LEMMA ReadingLedgerInit == Init => Ledger!Init
<1> SUFFICES ASSUME Init PROVE Ledger!Init
  OBVIOUS
<1>1. Entry = [i \in Readings |-> "unfiled"] BY DEF Init, NoRow, Entry, Place
<1>2. Delivered = {} BY DEF Init, Delivered
<1> QED BY <1>1, <1>2 DEF Init, Ledger!Init

ReadingLedgerStep == Ledger!Next \/ UNCHANGED <<Entry, attempts, Delivered>>

\* A claim takes waiting readings; a reclaim hands back held ones; the rest of what a process
\* does on its own leaves the table alone.
LEMMA HoldStep ==
  ASSUME TypeOK, NEW S \in SUBSET Readings, \A i \in S : row[i].status = "queued",
         UNCHANGED <<sent, attempts>>,
         \A i \in Readings :
           row'[i].status = IF i \in S THEN "processing" ELSE row[i].status
  PROVE  Ledger!Next
<1>1. Ledger!Moves(S, "held") BY EntryMoves DEF Statuses, Place
<1>2. Ledger!Hold(S) BY <1>1, EntryNow, DeliveredStays DEF Ledger!Hold
<1> QED BY <1>2 DEF Ledger!Next

LEMMA HandBackStep ==
  ASSUME TypeOK, NEW S \in SUBSET Readings,
         \A i \in S : row[i].status \in {"processing", "failed"},
         UNCHANGED <<sent, attempts>>,
         \A i \in Readings :
           row'[i].status = IF i \in S THEN "queued" ELSE row[i].status
  PROVE  Ledger!Next
<1>1. Ledger!Moves(S, "waiting") BY EntryMoves DEF Statuses, Place
<1>2. Ledger!HandBack(S) BY <1>1, EntryNow, DeliveredStays DEF Ledger!HandBack
<1> QED BY <1>2 DEF Ledger!Next

LEMMA StutterStep ==
  ASSUME UNCHANGED <<sent, attempts>>,
         \A i \in Readings : row'[i].status = row[i].status
  PROVE  ReadingLedgerStep
BY EntryStays, DeliveredStays DEF ReadingLedgerStep

LEMMA MarkStep ==
  ASSUME TypeOK, NEW w \in Workers, MarkProcessing(Owned(w)), UNCHANGED <<sent, attempts>>
  PROVE  Ledger!Next
<1>1. Owned(w) \in SUBSET Readings /\ \A i \in Owned(w) : row[i].status = "queued"
  BY DEF Owned, Claimable
<1>2. \A i \in Readings : row'[i].status = IF i \in Owned(w) THEN "processing" ELSE row[i].status
  BY DEF MarkProcessing, TypeOK, Row
<1> QED BY <1>1, <1>2, HoldStep

LEMMA ProcessStepLedger ==
  ASSUME TypeOK, StaleIsHeld, NEW w \in Workers, ProcessStep(w)
  PROVE  ReadingLedgerStep
<1> USE DEF table, process, history
<1>1. ASSUME Reclaim, UNCHANGED <<sent, attempts>> PROVE ReadingLedgerStep
  <2>1. stale \in SUBSET Readings /\ \A i \in stale : row[i].status = "processing"
    BY DEF TypeOK, StaleIsHeld
  <2>2. \A i \in Readings : row'[i].status = IF i \in stale THEN "queued" ELSE row[i].status
    BY <1>1 DEF Reclaim, TypeOK, Row
  <2> QED BY <1>1, <2>1, <2>2, HandBackStep DEF ReadingLedgerStep
<1>2. ASSUME NEW S \in SUBSET Readings, \A i \in S : row[i].status = "queued", MarkProcessing(S),
             UNCHANGED <<sent, attempts>>
      PROVE  ReadingLedgerStep
  <2>1. \A i \in Readings : row'[i].status = IF i \in S THEN "processing" ELSE row[i].status
    BY <1>2 DEF MarkProcessing, TypeOK, Row
  <2> QED BY <1>2, <2>1, HoldStep DEF ReadingLedgerStep
<1>6. CASE HydrateReclaim(w) BY <1>1, <1>6 DEF HydrateReclaim
<1>7. CASE HydrateClaim(w)
  <2>1. UNCHANGED <<sent, attempts>> BY <1>7 DEF HydrateClaim
  <2> QED BY <1>2, <1>7, <2>1, HydrateClaimDid
<1>3. CASE ClaimBatch(w) BY <1>3, MarkStep DEF ClaimBatch, ReadingLedgerStep
<1>4. CASE ClaimError(w) BY <1>4, MarkStep, StutterStep DEF ClaimError, ReadingLedgerStep
<1>5. ASSUME UNCHANGED <<row, sent, attempts>> PROVE ReadingLedgerStep BY <1>5, StutterStep
<1>8. CASE HydrateError(w) BY <1>1, <1>2, <1>5, <1>8, HydrateErrorDid
<1> QED BY <1>3, <1>4, <1>5, <1>6, <1>7, <1>8
        DEF ProcessStep, AddToQueue, StartProcessing, HydrateTimer, TakeBatch,
            FinishBatch, PauseForFunding, ResumeWrites, Crash

\* An attempt is counted once, and may deliver the reading it is made for and no other.
LEMMA TryStep ==
  ASSUME TypeOK, NEW i \in Readings, CountAttempt(i), UNCHANGED sent \/ CountSend(i),
         UNCHANGED row
  PROVE  Ledger!Next
<1>1. attempts' = [attempts EXCEPT ![i] = IF @ > MaxRetries THEN @ ELSE @ + 1]
  <2>1. attempts[i] \in 0 .. MaxRetries + 1 BY DEF TypeOK
  <2>2. AtMost(attempts[i] + 1, MaxRetries + 1)
        = IF attempts[i] > MaxRetries THEN attempts[i] ELSE attempts[i] + 1
    BY <2>1, QueueAssumption DEF QueueAssumption, AtMost
  <2> QED BY <2>2 DEF CountAttempt
<1>2. Delivered' \in {Delivered, Delivered \cup {i}}
  BY QueueAssumption DEF QueueAssumption, Delivered, TypeOK, CountSend, AtMost
<1>3. Entry' = Entry BY EntryStays
<1>4. Ledger!Try(i) BY <1>1, <1>2, <1>3 DEF Ledger!Try
<1> QED BY <1>4 DEF Ledger!Next

LEMMA ItemStepLedger ==
  ASSUME TypeOK, NEW c \in Slots, ItemStep(c) PROVE ReadingLedgerStep
<1> USE DEF table, process, history, ReadingLedgerStep
<1>1. c \in Held BY DEF ItemStep, StartItem, CheckOnChain, CheckError, WriteAccepted, LinkTxId,
                       LinkError, HandleFailedItem, AlreadyKnown, RetryTimer
<1>2. copy[c].id \in Readings BY <1>1, HeldIsCopy DEF Copy
<1>3. CASE WriteAccepted(c) BY <1>2, <1>3, TryStep DEF WriteAccepted
<1>4. CASE HandleFailedItem(c) BY <1>2, <1>4, TryStep DEF HandleFailedItem
<1>5. CASE AlreadyKnown(c) BY <1>2, <1>5, TryStep DEF AlreadyKnown
<1> QED BY <1>3, <1>4, <1>5, StutterStep
        DEF ItemStep, StartItem, CheckOnChain, CheckError, LinkTxId, LinkError, RetryTimer

LEMMA ExecuteLedger ==
  ASSUME TypeOK, DoneWasSent, RetriesWereTried, NEW s \in sql, Execute(s)
  PROVE  ReadingLedgerStep
<1> USE DEF ReadingLedgerStep
<1>1. s.id \in Readings /\ s.op \in {"insert", "delete", "fail", "requeue"}
  BY DEF TypeOK, Statement
<1>2. UNCHANGED <<sent, attempts>> /\ Delivered' = Delivered
  BY DeliveredStays DEF Execute, history
<1>3. \A i \in Readings : row'[i] = IF i = s.id THEN After(s) ELSE row[i]
  BY <1>1 DEF Execute, TypeOK
<1>4. row[s.id] \in Row /\ row[s.id].status \in Statuses BY <1>1 DEF TypeOK, Row
<1>5. \A new \in Statuses : After(s).status = new => Ledger!Moves({s.id}, Place[new])
  BY <1>1, <1>3, EntryMoves
<1>6. After(s).status = row[s.id].status => ReadingLedgerStep
  BY <1>1, <1>2, <1>3, StutterStep
<1>7. CASE s.op = "insert"
  <2>1. CASE row[s.id].status = "absent"
    <3>1. After(s).status = "queued" BY <1>7, <2>1 DEF After
    <3>2. Ledger!File(s.id)
      BY <1>1, <1>2, <1>5, <2>1, <3>1, EntryNow DEF Ledger!File, Statuses, Place
    <3> QED BY <1>1, <3>2 DEF Ledger!Next
  <2>2. CASE row[s.id].status # "absent" BY <1>6, <1>7, <2>2 DEF After
  <2> QED BY <2>1, <2>2
<1>8. CASE s.op = "delete"
  <2>1. After(s).status = "absent" BY <1>8 DEF After, NoRow
  <2>2. s.id \in Delivered BY <1>1, <1>8 DEF DoneWasSent, Delivered
  <2>3. Ledger!Settle(s.id) BY <1>2, <1>5, <2>1, <2>2 DEF Ledger!Settle, Statuses, Place
  <2> QED BY <1>1, <2>3 DEF Ledger!Next
<1>9. CASE s.op = "fail"
  <2>1. CASE row[s.id].status \in {"queued", "processing"}
    <3>1. After(s).status = "failed" BY <1>4, <1>9, <2>1 DEF After, Row
    <3>2. attempts[s.id] > MaxRetries BY <1>9 DEF RetriesWereTried
    <3>3. Ledger!Park(s.id)
      BY <1>1, <1>2, <1>5, <2>1, <3>1, <3>2, EntryNow DEF Ledger!Park, Statuses, Place
    <3> QED BY <1>1, <3>3 DEF Ledger!Next
  <2>2. CASE row[s.id].status \in {"absent", "failed"}
    BY <1>4, <1>6, <1>9, <2>2 DEF After, Row, NoRow
  <2> QED BY <1>4, <2>1, <2>2 DEF Statuses
<1>10. CASE s.op = "requeue"
  <2>1. CASE row[s.id].status \in {"processing", "failed"}
    <3>1. After(s).status = "queued" BY <1>10, <2>1 DEF After
    <3>2. \A i \in Readings :
            row'[i].status = IF i \in {s.id} THEN "queued" ELSE row[i].status
      BY <1>3, <3>1
    <3> QED BY <1>1, <1>2, <2>1, <3>2, HandBackStep
  <2>2. CASE row[s.id].status \in {"absent", "queued"} BY <1>6, <1>10, <2>2 DEF After, NoRow
  <2> QED BY <1>4, <2>1, <2>2 DEF Statuses
<1> QED BY <1>1, <1>7, <1>8, <1>9, <1>10

LEMMA TableStepLedger ==
  ASSUME TypeOK, DoneWasSent, RetriesWereTried, TableStep PROVE ReadingLedgerStep
<1> USE DEF process, history, table
<1>1. ASSUME NEW s \in sql, Lose(s) PROVE ReadingLedgerStep BY <1>1, StutterStep DEF Lose
<1>2. ASSUME NEW i \in Readings, Age(i) PROVE ReadingLedgerStep BY <1>2, StutterStep DEF Age
<1>3. ASSUME NEW i \in Readings, CleanupOldFailed(i) PROVE ReadingLedgerStep
  <2>1. UNCHANGED <<sent, attempts>> /\ Delivered' = Delivered
    BY <1>3, DeliveredStays DEF CleanupOldFailed
  <2>2. \A j \in Readings : row'[j].status = IF j \in {i} THEN "absent" ELSE row[j].status
    BY <1>3 DEF CleanupOldFailed, TypeOK, NoRow
  <2>3. Ledger!Moves({i}, "unfiled") BY <2>2, EntryMoves DEF Statuses, Place
  <2>4. Ledger!AgeOut(i) BY <1>3, <2>1, <2>3, EntryNow DEF CleanupOldFailed, Ledger!AgeOut
  <2> QED BY <2>4 DEF Ledger!Next, ReadingLedgerStep
<1> QED BY <1>1, <1>2, <1>3, ExecuteLedger DEF TableStep

LEMMA ReadingLedgerNext ==
  TypeOK /\ DoneWasSent /\ RetriesWereTried /\ StaleIsHeld /\ [Next]_vars
  => [Ledger!Next]_<<Entry, attempts, Delivered>>
<1> SUFFICES ASSUME TypeOK, DoneWasSent, RetriesWereTried, StaleIsHeld, [Next]_vars
             PROVE  ReadingLedgerStep
  BY DEF ReadingLedgerStep
<1>1. CASE UNCHANGED vars BY <1>1, StutterStep DEF vars
<1>2. CASE Next BY <1>2, ProcessStepLedger, ItemStepLedger, TableStepLedger DEF Next
<1> QED BY <1>1, <1>2

\* For any number of processes and with every fault, each step of the queue is a step of the
\* ledger of readings: a claim takes what waits, a row goes when its reading is on the network
\* or was parked, and a reading is parked when its retries are used up.
THEOREM QueueImplementsLedger == Spec => QueueLedgerSpec
BY TypeCorrect, DoneInit, DoneNext, RetriesInit, RetriesNext, StaleInit, StaleNext,
   ReadingLedgerInit, ReadingLedgerNext, PTL DEF Spec, QueueLedgerSpec, Ledger!Spec

-----------------------------------------------------------------------------
(* Who holds a reading.                                                     *)

FirstHand == FirstAttempt /\ FirstHandExclusive

LEMMA ProcessStepFirst ==
  ASSUME TypeOK, FirstHand, NEW w \in Workers, ProcessStep(w) PROVE FirstHand'
<1> USE QueueAssumption, NoCopyAssumption DEF QueueAssumption, TypeOK, FirstHand, FirstAttempt,
        FirstHandExclusive, table, process, history, Held, Free
<1>1. ASSUME NEW i \in Readings, NEW c \in Slots, AddToQueue(w, i, c) PROVE FirstHand'
  BY <1>1 DEF AddToQueue
<1>2. CASE StartProcessing(w) BY <1>2 DEF StartProcessing
<1>3. CASE HydrateReclaim(w) BY <1>3 DEF HydrateReclaim, Reclaim, Row
<1>4. CASE HydrateClaim(w) BY <1>4 DEF HydrateClaim, MarkProcessing, Row, Claimable
<1>5. CASE HydrateError(w) BY <1>5, HydrateErrorDid DEF Reclaim, MarkProcessing, Row
<1>6. CASE HydrateTimer(w) BY <1>6 DEF HydrateTimer
<1>7. CASE TakeBatch(w) BY <1>7 DEF TakeBatch, At, Copy
<1>8. CASE ClaimBatch(w)
  BY <1>8 DEF ClaimBatch, MarkProcessing, Owned, Claimable, Unclaimed, At, Copy, Row
<1>9. CASE ClaimError(w)
  BY <1>9 DEF ClaimError, MarkProcessing, Owned, Claimable, Unclaimed, Batch, At, Copy, Row
<1>10. CASE FinishBatch(w) BY <1>10 DEF FinishBatch
<1>11. CASE PauseForFunding(w) BY <1>11 DEF PauseForFunding
<1>12. CASE ResumeWrites(w) BY <1>12 DEF ResumeWrites
<1>13. CASE Crash(w) BY <1>13 DEF Crash
<1> QED BY <1>1, <1>2, <1>3, <1>4, <1>5, <1>6, <1>7, <1>8, <1>9, <1>10, <1>11, <1>12, <1>13
        DEF ProcessStep

LEMMA ItemStepFirst ==
  ASSUME TypeOK, DoneWasSent, FirstHand, NEW c \in Slots, ItemStep(c) PROVE FirstHand'
<1> USE QueueAssumption, NoCopyAssumption DEF QueueAssumption, table, process, history
<1>1. c \in Held BY DEF ItemStep, StartItem, CheckOnChain, CheckError, WriteAccepted, LinkTxId,
                       LinkError, HandleFailedItem, AlreadyKnown, RetryTimer
<1>2. copy[c] \in Copy /\ copy[c].id \in Readings BY <1>1, HeldIsCopy DEF Copy
\* A step of an item that changes no first-attempt reading but by dropping the item.
<1>3. ASSUME UNCHANGED sent \/ CountSend(copy[c].id), UNCHANGED row,
             returned' = returned \/ returned' = returned \cup {copy[c].id},
             \A d \in Held' :
               /\ d \in Held /\ copy'[d].id = copy[d].id /\ copy'[d].w = copy[d].w
               /\ copy'[d].claimed = copy[d].claimed
               /\ copy'[d].retries = copy[d].retries \/ copy[d].id \in returned',
             \A s \in sql' \ sql : sent'[s.id] > 0 \/ s.id \in returned'
      PROVE  FirstHand'
  <2>1. \A j \in Readings : sent'[j] = 0 => sent[j] = 0
    BY <1>2, <1>3, CountSendGrows DEF TypeOK
  <2>2. FirstAttempt' BY <1>3, <2>1 DEF FirstHand, FirstAttempt
  <2>3. FirstHandExclusive' BY <1>3, <2>1 DEF FirstHand, FirstHandExclusive
  <2> QED BY <2>2, <2>3 DEF FirstHand
<1>4. \A place \in Places : copy' = Move(c, place) =>
        \A d \in Held' :
          /\ d \in Held /\ copy'[d].id = copy[d].id /\ copy'[d].w = copy[d].w
          /\ copy'[d].claimed = copy[d].claimed /\ copy'[d].retries = copy[d].retries
  BY <1>1, <1>2 DEF Move, Held, Free, TypeOK, Copy
<1>5. copy' = Drop(c) => \A d \in Held' : d \in Held /\ copy'[d] = copy[d]
  BY <1>1, <1>2 DEF Drop, Held, Free, TypeOK
<1>6. Send("delete", c, 0).id = copy[c].id BY DEF Send
<1>7. CASE StartItem(c) BY <1>7, <1>3, <1>4 DEF StartItem, Places
<1>8. CASE CheckOnChain(c)
  <2>1. CASE OnChain(copy[c].id)
    <3>1. sent'[copy[c].id] > 0 BY <1>8, <2>1 DEF CheckOnChain, OnChain, DoneWasSent
    <3> QED BY <1>8, <2>1, <3>1, <1>3, <1>5, <1>6 DEF CheckOnChain
  <2>2. CASE ~OnChain(copy[c].id) BY <1>8, <2>2, <1>3, <1>4 DEF CheckOnChain, Places
  <2> QED BY <2>1, <2>2
<1>9. CASE CheckError(c) BY <1>9, <1>3, <1>4 DEF CheckError, Places
<1>10. CASE WriteAccepted(c)
  <2>1. sent'[copy[c].id] > 0 BY <1>10, <1>2, CountSendGrows DEF WriteAccepted
  <2> QED BY <1>10, <2>1, <1>3, <1>4, <1>6 DEF WriteAccepted, Places
<1>11. CASE LinkTxId(c) BY <1>11, <1>3, <1>5 DEF LinkTxId
<1>12. CASE LinkError(c) BY <1>12, <1>3, <1>5 DEF LinkError
<1>13. CASE HandleFailedItem(c)
  <2>1. CASE MayRetry(c)
    <3>1. /\ copy' = [copy EXCEPT ![c].at = "timer", ![c].retries = copy[c].retries + 1]
          /\ sql' = sql \cup {Send("requeue", c, copy[c].retries + 1)}
          /\ returned' = returned \cup {copy[c].id}
      BY <1>13, <2>1 DEF HandleFailedItem
    <3>2. \A d \in Held' :
            /\ d \in Held /\ copy'[d].id = copy[d].id /\ copy'[d].w = copy[d].w
            /\ copy'[d].claimed = copy[d].claimed
            /\ copy'[d].retries = copy[d].retries \/ copy[d].id \in returned'
      BY <3>1, <1>1, <1>2 DEF Held, Free, TypeOK, Copy
    <3>3. \A s \in sql' \ sql : s.id \in returned' BY <3>1 DEF Send
    <3> QED BY <1>13, <3>1, <3>2, <3>3, <1>3 DEF HandleFailedItem
  \* maxRetries is at least one, so an item that gives up has been retried.
  <2>2. CASE ~MayRetry(c)
    <3>1. copy[c].retries # 0 BY <1>2, <2>2 DEF MayRetry
    <3>2. copy[c].id \in returned \/ sent[copy[c].id] # 0
      BY <1>1, <1>2, <3>1 DEF FirstHand, FirstAttempt
    <3>3. sent'[copy[c].id] > 0 \/ copy[c].id \in returned'
      BY <1>2, <1>13, <2>2, <3>2, CountSendGrows DEF HandleFailedItem, TypeOK
    <3>4. \A s \in sql' \ sql : s.id = copy[c].id BY <1>13, <2>2 DEF HandleFailedItem, Send
    <3> QED BY <1>13, <2>2, <3>3, <3>4, <1>3, <1>5 DEF HandleFailedItem
  <2> QED BY <2>1, <2>2
<1>14. CASE AlreadyKnown(c)
  <2>1. sent'[copy[c].id] > 0 BY <1>14, <1>2, CountSendGrows DEF AlreadyKnown
  <2> QED BY <1>14, <2>1, <1>3, <1>5, <1>6 DEF AlreadyKnown
<1>15. CASE RetryTimer(c) BY <1>15, <1>3, <1>4 DEF RetryTimer, Places
<1> QED BY <1>7, <1>8, <1>9, <1>10, <1>11, <1>12, <1>13, <1>14, <1>15 DEF ItemStep

LEMMA TableStepFirst ==
  ASSUME TypeOK, DoneWasSent, RetriesWereTried, FirstHand, TableStep PROVE FirstHand'
<1> USE QueueAssumption DEF QueueAssumption, TypeOK, FirstHand, FirstAttempt,
        FirstHandExclusive, process, history, Held, Free
<1>1. ASSUME NEW s \in sql, Execute(s) PROVE FirstHand'
  <2> SUFFICES ASSUME NEW i \in Readings, i \notin returned, sent[i] = 0
               PROVE  row'[i] = row[i] \/ (row[i].status = "absent" /\ row'[i].status = "queued"
                                           /\ row'[i].retries = 0)
    BY <1>1 DEF Execute
  <2>1. s.id = i => s.op = "insert" OBVIOUS
  <2> QED BY <1>1, <2>1 DEF Execute, After, Statement
<1>2. ASSUME NEW s \in sql, Lose(s) PROVE FirstHand' BY <1>2 DEF Lose, table
<1>3. ASSUME NEW i \in Readings, Age(i) PROVE FirstHand' BY <1>3 DEF Age
<1>4. ASSUME NEW i \in Readings, CleanupOldFailed(i) PROVE FirstHand'
  BY <1>4 DEF CleanupOldFailed, NoRow
<1> QED BY <1>1, <1>2, <1>3, <1>4 DEF TableStep

LEMMA FirstNext ==
  TypeOK /\ DoneWasSent /\ RetriesWereTried /\ FirstHand /\ [Next]_vars => FirstHand'
<1> SUFFICES ASSUME TypeOK, DoneWasSent, RetriesWereTried, FirstHand, [Next]_vars
             PROVE  FirstHand'
  OBVIOUS
<1>1. CASE UNCHANGED vars
  BY <1>1 DEF vars, FirstHand, FirstAttempt, FirstHandExclusive, Held, Free
<1>2. CASE Next BY <1>2, ProcessStepFirst, ItemStepFirst, TableStepFirst DEF Next
<1> QED BY <1>1, <1>2

LEMMA FirstInit == Init => FirstHand
BY DEF Init, FirstHand, FirstAttempt, FirstHandExclusive, NoRow, Held, Free

\* Until a reading is retried, reclaimed or sent, all items that carry its claim belong to
\* one process, for any number of processes that accept it, start, restart and die.
THEOREM OneHolder == Spec => []FirstHandExclusive
<1>1. FirstHand => FirstHandExclusive BY DEF FirstHand
<1> QED BY <1>1, TypeCorrect, DoneInit, DoneNext, RetriesInit, RetriesNext,
           FirstInit, FirstNext, PTL DEF Spec

-----------------------------------------------------------------------------
(* One writer.                                                              *)

\* One process that writes and sends one item at a time, no failing statement, no write
\* error that hides an accepted transaction, and no exit between a broadcast and its link.
OneWriter ==
  /\ \A v, w \in Workers : v = w
  /\ Concurrency <= 1 /\ MaxCrashes = 0
  /\ ~StatementsMayFail /\ ErrorsAreDefinite

SingleFile == OneInFlight /\ SentIsLinked /\ SentOnce
InFlight   == {"running", "checked", "sent"}

\* A step that sends nothing and moves no item into, or out of, the part of processItem
\* between the on-chain check and the link.
LEMMA SameFile ==
  ASSUME SingleFile, UNCHANGED <<sent, linked>>,
         \A d \in Held' : copy'[d].at \in InFlight =>
           d \in Held /\ copy'[d].w = copy[d].w /\ copy'[d].id = copy[d].id
                      /\ copy'[d].at = copy[d].at,
         \A d \in Held : copy[d].at = "sent" =>
           d \in Held' /\ copy'[d].at = "sent" /\ copy'[d].id = copy[d].id
  PROVE  SingleFile'
<1>1. OneInFlight' BY DEF SingleFile, OneInFlight, InFlight
<1>2. SentIsLinked' BY DEF SingleFile, SentIsLinked, InFlight
<1> QED BY <1>1, <1>2 DEF SingleFile, SentOnce

LEMMA ProcessStepSingle ==
  ASSUME TypeOK, OneWriter, SingleFile, NEW w \in Workers, ProcessStep(w) PROVE SingleFile'
<1> USE NoCopyAssumption DEF TypeOK, table, process, history, Held, Free, InFlight
<1>1. ASSUME NEW i \in Readings, NEW c \in Slots, AddToQueue(w, i, c) PROVE SingleFile'
  BY <1>1, SameFile DEF AddToQueue
<1>2. CASE StartProcessing(w) BY <1>2, SameFile DEF StartProcessing
<1>3. CASE HydrateReclaim(w) BY <1>3, SameFile DEF HydrateReclaim
<1>4. CASE HydrateClaim(w)
  <2>1. \A d \in Slots : copy'[d] = copy[d] \/ (copy[d] = NoCopy /\ copy'[d].at = "waiting")
    BY <1>4 DEF HydrateClaim
  <2>2. UNCHANGED <<sent, linked>> BY <1>4 DEF HydrateClaim
  <2> QED BY <2>1, <2>2, SameFile
<1>5. CASE HydrateError(w) BY <1>5 DEF HydrateError, OneWriter
<1>6. CASE HydrateTimer(w) BY <1>6, SameFile DEF HydrateTimer
<1>7. CASE TakeBatch(w)
  <2>1. \A d \in Slots : copy'[d] = copy[d]
          \/ (copy[d].at = "waiting" /\ copy[d] # NoCopy /\ copy'[d] = [copy[d] EXCEPT !.at = "batched"])
    BY <1>7 DEF TakeBatch, At
  <2>2. \A d \in Held : copy[d] \in Copy BY HeldIsCopy
  <2> QED BY <1>7, <2>1, <2>2, SameFile DEF TakeBatch, Copy
<1>8. CASE ClaimBatch(w)
  <2>1. \A d \in Slots : copy'[d] = copy[d]
          \/ (copy[d].at = "batched" /\ copy[d] # NoCopy
              /\ copy'[d] \in {NoCopy, [copy[d] EXCEPT !.claimed = TRUE]})
    BY <1>8 DEF ClaimBatch, Unclaimed, At
  <2>2. \A d \in Held : copy[d] \in Copy BY HeldIsCopy
  <2>3. UNCHANGED <<sent, linked>> BY <1>8 DEF ClaimBatch
  <2>4. \A d \in Slots : \/ copy'[d] = copy[d]
                         \/ copy'[d] = NoCopy /\ copy[d].at = "batched"
                         \/ copy[d].at = "batched" /\ copy'[d].at = "batched"
    BY <2>1, <2>2 DEF Copy
  <2> QED BY <2>3, <2>4, SameFile
<1>9. CASE ClaimError(w) BY <1>9 DEF ClaimError, OneWriter
<1>10. CASE FinishBatch(w) BY <1>10, SameFile DEF FinishBatch
<1>11. CASE PauseForFunding(w) BY <1>11, SameFile DEF PauseForFunding
<1>12. CASE ResumeWrites(w) BY <1>12, SameFile DEF ResumeWrites
<1>13. CASE Crash(w) BY <1>13 DEF Crash, OneWriter
<1> QED BY <1>1, <1>2, <1>3, <1>4, <1>5, <1>6, <1>7, <1>8, <1>9, <1>10, <1>11, <1>12, <1>13
        DEF ProcessStep

\* Where one item may be sent at a time, StartItem finds the process with none in flight.
LEMMA StartsAlone ==
  ASSUME TypeOK, OneWriter, NEW c \in Held, StartItem(c), NEW d \in Held
  PROVE  copy[d].at \notin InFlight
<1> DEFINE Mine == At(copy[c].w, {"running", "checked", "sent"})
<1>1. IsFiniteSet(Mine) /\ Mine \in SUBSET Slots
  BY QueueAssumption, FS_Subset DEF QueueAssumption, At, Held
<1>2. Cardinality(Mine) \in Nat BY <1>1, FS_CardinalityType
<1>3. Cardinality(Mine) < Concurrency /\ Concurrency <= 1 /\ Concurrency \in Nat
  BY QueueAssumption DEF QueueAssumption, StartItem, OneWriter
<1>4. Cardinality(Mine) = 0 BY <1>2, <1>3
<1>5. Mine = {} BY <1>1, <1>4, FS_EmptySet
<1>6. copy[d].w = copy[c].w BY HeldIsCopy DEF Copy, OneWriter
<1> QED BY <1>5, <1>6 DEF At, InFlight

LEMMA ItemStepSingle ==
  ASSUME TypeOK, OneWriter, SingleFile, NEW c \in Slots, ItemStep(c)
  PROVE  SingleFile'
<1> USE DEF table, process, history
<1>1. c \in Held BY DEF ItemStep, StartItem, CheckOnChain, CheckError, WriteAccepted, LinkTxId,
                       LinkError, HandleFailedItem, AlreadyKnown, RetryTimer
<1>2. copy[c] \in Copy /\ copy[c].id \in Readings BY <1>1, HeldIsCopy DEF Copy
<1>3. \A d \in Held : copy[d] \in Copy /\ copy[d].w = copy[c].w
  BY <1>1, HeldIsCopy DEF Copy, OneWriter
<1>4. copy[c].at \in InFlight => \A d \in Held : copy[d].at \in InFlight => d = c
  BY <1>1, <1>3 DEF SingleFile, OneInFlight, InFlight
<1>5. \A place \in Places : copy' = Move(c, place) =>
        /\ Held' = Held
        /\ \A d \in Held : /\ copy'[d].id = copy[d].id /\ copy'[d].w = copy[d].w
                           /\ copy'[d].at = IF d = c THEN place ELSE copy[d].at
  BY <1>1, <1>2, NoCopyAssumption DEF Move, Held, Free, TypeOK, Copy
<1>6. copy' = Drop(c) => Held' = Held \ {c} /\ \A d \in Held' : copy'[d] = copy[d]
  BY <1>1, <1>2 DEF Drop, Held, Free, TypeOK
<1>7. CASE StartItem(c)
  <2>1. \A d \in Held : copy[d].at \notin InFlight BY <1>1, <1>7, StartsAlone
  <2>2. Held' = Held /\ \A d \in Held : copy'[d].id = copy[d].id /\ copy'[d].w = copy[d].w
                           /\ copy'[d].at = IF d = c THEN "running" ELSE copy[d].at
    BY <1>5, <1>7 DEF StartItem, Places
  <2>3. OneInFlight' BY <2>1, <2>2 DEF OneInFlight, InFlight
  <2>4. SentIsLinked' BY <1>1, <1>7, <2>1, <2>2 DEF StartItem, SingleFile, SentIsLinked, InFlight
  <2> QED BY <1>7, <2>3, <2>4 DEF StartItem, SingleFile, SentOnce
\* The item in the middle of processItem is the only one in flight: it leaves, or goes on.
<1>8. ASSUME copy[c].at \in InFlight,
             \/ copy' = Drop(c)
             \/ \E place \in Places : copy' = Move(c, place)
      PROVE  OneInFlight' /\ \A d \in Held' : copy'[d].at \in InFlight => d = c
  BY <1>4, <1>5, <1>6, <1>8 DEF OneInFlight, InFlight
<1>9. CASE CheckOnChain(c)
  <2>1. CASE OnChain(copy[c].id)
    <3>1. OneInFlight' /\ \A d \in Held' : copy'[d].at \in InFlight => d = c
      BY <1>8, <1>9, <2>1 DEF CheckOnChain, InFlight
    <3>2. copy' = Drop(c) /\ UNCHANGED <<sent, linked>> /\ copy[c].at = "running"
      BY <1>9, <2>1 DEF CheckOnChain
    <3>3. SentIsLinked'
      BY <1>4, <1>6, <3>2 DEF SingleFile, SentIsLinked, InFlight
    <3> QED BY <3>1, <3>2, <3>3 DEF SingleFile, SentOnce
  <2>2. CASE ~OnChain(copy[c].id)
    <3>1. copy' = Move(c, "checked") /\ UNCHANGED <<sent, linked>> /\ copy[c].at = "running"
      BY <1>9, <2>2 DEF CheckOnChain
    <3>2. OneInFlight' /\ \A d \in Held' : copy'[d].at \in InFlight => d = c
      BY <1>8, <3>1 DEF InFlight, Places
    <3>3. copy[c].id \in Linkable => ~(sent[copy[c].id] > 0)
      BY <1>4, <2>2, <3>1 DEF OnChain, SingleFile, SentIsLinked, InFlight
    <3>4. sent[copy[c].id] \in Nat BY <1>2 DEF TypeOK
    <3>5. copy[c].id \in Linkable => sent[copy[c].id] = 0 BY <3>3, <3>4
    <3>6. SentIsLinked'
      BY <1>1, <1>4, <1>5, <3>1, <3>2, <3>5 DEF SingleFile, SentIsLinked, InFlight, Places
    <3> QED BY <3>1, <3>2, <3>6 DEF SingleFile, SentOnce
  <2> QED BY <2>1, <2>2
<1>10. CASE CheckError(c) BY <1>10 DEF CheckError, OneWriter
<1>11. CASE WriteAccepted(c)
  <2>1. copy' = Move(c, "sent") /\ UNCHANGED linked /\ CountSend(copy[c].id)
        /\ copy[c].at = "checked"
    BY <1>11 DEF WriteAccepted
  <2>2. OneInFlight' /\ \A d \in Held' : copy'[d].at \in InFlight => d = c
    BY <1>8, <2>1 DEF InFlight, Places
  <2>3. copy[c].id \in Linkable => sent[copy[c].id] = 0
    BY <1>1, <2>1 DEF SingleFile, SentIsLinked
  <2>4. \A i \in Readings : sent'[i] = IF i = copy[c].id THEN AtMost(sent[i] + 1, MaxSends) ELSE sent[i]
    BY <1>2, <2>1 DEF CountSend, TypeOK
  <2>5. SentOnce'
    BY <2>3, <2>4, QueueAssumption DEF QueueAssumption, AtMost, SingleFile, SentOnce
  <2>6. /\ c \in Held' /\ copy'[c].at = "sent" /\ copy'[c].id = copy[c].id
        /\ \A d \in Held' : copy'[d].at # "checked"
    BY <1>1, <1>5, <2>1, <2>2 DEF Places, InFlight
  <2>7. \A i \in Linkable : sent[i] > 0 => i \in linked
    BY <1>4, <2>1 DEF SingleFile, SentIsLinked, InFlight
  <2>8. SentIsLinked'
    BY <2>1, <2>4, <2>6, <2>7, QueueAssumption DEF QueueAssumption, SentIsLinked
  <2> QED BY <2>2, <2>5, <2>8 DEF SingleFile
<1>12. CASE LinkTxId(c)
  <2>1. copy' = Drop(c) /\ linked' = linked \cup ({copy[c].id} \cap Linkable)
        /\ UNCHANGED sent /\ copy[c].at = "sent"
    BY <1>12 DEF LinkTxId
  <2>2. OneInFlight' /\ \A d \in Held' : copy'[d].at \in InFlight => d = c
    BY <1>8, <2>1 DEF InFlight
  <2>3. SentIsLinked'
    BY <1>4, <1>6, <2>1, <2>2 DEF SingleFile, SentIsLinked, InFlight
  <2> QED BY <2>1, <2>2, <2>3 DEF SingleFile, SentOnce
<1>13. CASE LinkError(c) BY <1>13 DEF LinkError, OneWriter
<1>14. CASE HandleFailedItem(c)
  <2>1. copy[c].at = "checked" /\ UNCHANGED <<sent, linked>>
    BY <1>14 DEF HandleFailedItem, OneWriter
  <2>2. copy' = Drop(c)
        \/ copy' = [copy EXCEPT ![c].at = "timer", ![c].retries = copy[c].retries + 1]
    BY <1>14 DEF HandleFailedItem
  <2>3. \A d \in Slots : d # c => copy'[d] = copy[d]
    BY <1>1, <2>2 DEF Drop, Held, Free, TypeOK
  <2>4. copy'[c] = NoCopy \/ copy'[c].at = "timer"
    BY <1>1, <1>2, <2>2 DEF Drop, Held, Free, TypeOK, Copy
  <2>5. /\ \A d \in Held' : d # c => d \in Held /\ copy'[d] = copy[d]
        /\ \A d \in Held : d # c => d \in Held' /\ copy'[d] = copy[d]
    BY <2>3 DEF Held, Free
  <2>6. c \in Held' => copy'[c].at = "timer" BY <2>4 DEF Held, Free
  <2> QED BY <2>1, <2>5, <2>6, SameFile DEF InFlight
<1>15. CASE AlreadyKnown(c)
  <2>1. copy[c].at = "checked" /\ UNCHANGED <<sent, linked>> /\ copy' = Drop(c)
    BY <1>15 DEF AlreadyKnown, OneWriter
  <2> QED BY <1>6, <2>1, SameFile
<1>16. CASE RetryTimer(c)
  <2>1. copy[c].at = "timer" /\ UNCHANGED <<sent, linked>> /\ copy' = Move(c, "waiting")
    BY <1>16 DEF RetryTimer
  <2> QED BY <1>1, <1>5, <2>1, SameFile DEF InFlight, Places
<1> QED BY <1>7, <1>9, <1>10, <1>11, <1>12, <1>13, <1>14, <1>15, <1>16 DEF ItemStep

LEMMA SingleNext ==
  TypeOK /\ OneWriter /\ SingleFile /\ [Next]_vars => SingleFile'
<1> SUFFICES ASSUME TypeOK, OneWriter, SingleFile, [Next]_vars PROVE SingleFile'
  OBVIOUS
<1>1. CASE UNCHANGED vars
  BY <1>1, SameFile DEF vars, Held, Free
<1>2. CASE TableStep
  BY <1>2, SameFile DEF TableStep, Execute, Lose, Age, CleanupOldFailed, process, history, table,
                        Held, Free
<1>3. CASE Next BY <1>2, <1>3, ProcessStepSingle, ItemStepSingle DEF Next
<1> QED BY <1>1, <1>3

LEMMA SingleInit == Init => SingleFile
BY QueueAssumption
   DEF QueueAssumption, Init, SingleFile, OneInFlight, SentIsLinked, SentOnce, Held, Free

\* However many items of one reading are accepted, retried, reclaimed and claimed again: where
\* one process writes one item at a time and nothing fails silently, the on-chain check finds
\* every earlier broadcast of a linkable reading, so none is sent twice.
THEOREM OneSendPerReading == OneWriter /\ Spec => []SentOnce
<1> SUFFICES ASSUME OneWriter PROVE Spec => []SentOnce
  OBVIOUS
<1>1. SingleFile => SentOnce BY DEF SingleFile
<1>2. Init => SingleFile BY SingleInit
<1>3. TypeOK /\ SingleFile /\ [Next]_vars => SingleFile' BY SingleNext
<1> QED BY <1>1, <1>2, <1>3, TypeCorrect, PTL DEF Spec

=============================================================================
