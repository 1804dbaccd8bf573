------------------------ MODULE UtxoInventoryProofs ------------------------
(* Theorems about UtxoInventory, for any number of outputs, tasks and        *)
(* processes and every combination of failures.                              *)
EXTENDS UtxoInventory, TLAPS

LEMMA BusyIsTask ==
  ASSUME TypeOK, NEW t \in Busy PROVE t \in Tasks /\ task[t] \in Task /\ task[t].coin \in Coins
BY DEF TypeOK, Busy, Task

LEMMA SubmissionParts ==
  ASSUME TypeOK, NEW s \in Pending PROVE s \in Submission /\ s.coin \in Coins /\ s.outs \subseteq Coins
BY DEF TypeOK, Submission, Pending, Read

LEMMA ReadParts ==
  ASSUME TypeOK, NEW r \in reads
  PROVE  r.sub \in Pending /\ r.sub \in Submission /\ r.sub.coin \in Coins
         /\ r.sub.outs \subseteq Coins /\ r.missing \subseteq Coins
BY DEF TypeOK, Submission, Pending, Read

LEMMA LockIsSome ==
  ASSUME NEW p \in Processes, NEW b \in BOOLEAN PROVE [by |-> p, old |-> b] # None
<1>1. [by |-> p, old |-> b] \in Lock BY DEF Lock
<1> QED BY <1>1, NoneAssumption DEF NoneAssumption

(* Every step keeps the types. *)

LEMMA TypeInit == Init => TypeOK
BY InventoryAssumption DEF InventoryAssumption, Init, TypeOK

LEMMA TaskType ==
  ASSUME TypeOK, NEW t \in Tasks, Lookup(t) \/ Send(t) \/ GiveUp(t) \/ Book(t)
  PROVE  TypeOK'
<1> USE DEF TypeOK, table, net, posts
<1>1. ASSUME NEW p \in Processes, NEW kind \in Kinds, NEW c \in Coins, Acquire(t, p, kind, c)
      PROVE  TypeOK'
  BY <1>1 DEF Acquire, LockRow, Acquirable, Allowed, Task, Lock
<1>2. \A x \in {"holding", "failed", "accepted"} :
        t \in Busy /\ Goes(t, x) => task' \in [Tasks -> Task \cup {None}]
  BY BusyIsTask DEF Goes, Task
<1>3. \A O \in SUBSET Coins : t \in Busy /\ Answer(t, O) => task' \in [Tasks -> Task \cup {None}]
  BY <1>2, BusyIsTask DEF Answer, Task
<1>4. CASE Broadcast(t)
  <2>1. \A O \in SUBSET Unborn : O \in SUBSET Coins BY DEF Unborn
  <2>2. task' \in [Tasks -> Task \cup {None}] BY <1>4, <2>1, <1>3 DEF Broadcast, At
  <2>3. chain' \in [Coins -> {"unborn", "unspent", "spent", "forgotten"}]
        /\ parent' \in [Coins -> Coins \cup {None}]
    BY <1>4, <2>1, BusyIsTask DEF Broadcast, At
  <2> QED BY <1>4, <2>2, <2>3 DEF Broadcast
<1>5. CASE Rebroadcast(t)
  <2>1. task' \in [Tasks -> Task \cup {None}] BY <1>5, <1>3 DEF Rebroadcast, At, Made
  <2> QED BY <1>5, <2>1 DEF Rebroadcast
<1>6. CASE BroadcastFails(t)
  <2>1. task' \in [Tasks -> Task \cup {None}] BY <1>6, <1>2 DEF BroadcastFails, At
  <2> QED BY <1>6, <2>1 DEF BroadcastFails
<1>7. CASE Release(t) BY <1>7, BusyIsTask DEF Release, At, End, Unlocked
<1>8. CASE Archive(t) BY <1>8, BusyIsTask DEF Archive, At, End, Unlocked
<1>9. CASE ReleaseError(t) BY <1>9 DEF ReleaseError, End
<1>10. t \in Busy /\ SubmitOf(t) => submits' \subseteq Submission
  BY BusyIsTask DEF SubmitOf, Submission, Task
<1>11. CASE Consume(t)
  <2>1. t \in Busy /\ task[t].coin \in Coins /\ task[t].outs \subseteq Coins
    BY <1>11, BusyIsTask DEF Consume, At, Task
  <2>2. CASE Consumable(task[t].coin)
    <3>1. row' \in [Coins -> {"absent", "live", "removed"}]
          /\ lock' \in [Coins -> Lock \cup {None}]
          /\ \A c \in Coins : lock'[c] # None => row'[c] = "live"
      BY <1>11, <2>1, <2>2 DEF Consume, Unlocked
    <3>2. reserve' \subseteq Coins /\ cool' \subseteq Coins BY <1>11, <2>1, <2>2 DEF Consume
    <3> QED BY <1>11, <2>1, <3>1, <3>2, <1>10 DEF Consume, End
  <2>3. CASE ~Consumable(task[t].coin) BY <1>11, <2>1, <2>3, <1>10 DEF Consume, End
  <2> QED BY <2>2, <2>3
<1>12. CASE ConsumeError(t) BY <1>12, <1>10 DEF ConsumeError, At, End
<1> QED BY <1>1, <1>4, <1>5, <1>6, <1>7, <1>8, <1>9, <1>11, <1>12 DEF Lookup, Send, GiveUp, Book

LEMMA OtherType ==
  ASSUME TypeOK,
         \/ \E p \in Processes, kind \in Kinds, c \in Coins : AcquireLost(p, kind, c)
         \/ \E s \in submits : (\E n \in 1 .. 2 : SubmitRead(s, n)) \/ SubmitError(s)
         \/ \E r \in reads : SubmitWrite(r) \/ SubmitAborts(r)
         \/ \E c \in Coins : LockAges(c) \/ CoolDown(c) \/ Forget(c)
         \/ \E p \in Processes : Crash(p)
         \/ Reap
  PROVE  TypeOK'
<1> USE InventoryAssumption DEF InventoryAssumption, TypeOK, table, net, posts
<1>1. ASSUME NEW p \in Processes, NEW kind \in Kinds, NEW c \in Coins, AcquireLost(p, kind, c)
      PROVE  TypeOK'
  BY <1>1 DEF AcquireLost, LockRow, Acquirable, Allowed, Lock
<1>2. ASSUME NEW r \in reads, SubmitWrite(r) PROVE TypeOK'
  <2>1. row' \in [Coins -> {"absent", "live", "removed"}]
        /\ lock' \in [Coins -> Lock \cup {None}]
        /\ \A c \in Coins : lock'[c] # None => row'[c] = "live"
    BY <1>2 DEF SubmitWrite, Unlocked
  <2>2. submits' \subseteq submits /\ reads' \subseteq reads BY <1>2 DEF SubmitWrite
  <2> QED BY <1>2, <2>1, <2>2 DEF SubmitWrite
<1>3. ASSUME NEW s \in submits, SubmitError(s) PROVE TypeOK' BY <1>3 DEF SubmitError
<1>9. ASSUME NEW s \in submits, NEW n \in 1 .. 2, SubmitRead(s, n) PROVE TypeOK'
  <2>1. Missing(s) \subseteq Coins BY DEF Missing, Submission
  <2>2. reads' \subseteq Read BY <1>9, <2>1 DEF SubmitRead, Read
  <2> QED BY <1>9, <2>2 DEF SubmitRead
<1>10. ASSUME NEW r \in reads, SubmitAborts(r) PROVE TypeOK' BY <1>10 DEF SubmitAborts
<1>4. ASSUME NEW c \in Coins, LockAges(c) PROVE TypeOK'
  BY <1>4 DEF LockAges, Lock
<1>5. ASSUME NEW c \in Coins, CoolDown(c) PROVE TypeOK' BY <1>5 DEF CoolDown
<1>6. ASSUME NEW c \in Coins, Forget(c) PROVE TypeOK' BY <1>6 DEF Forget
<1>7. ASSUME NEW p \in Processes, Crash(p) PROVE TypeOK' BY <1>7 DEF Crash
<1>8. CASE Reap BY <1>8 DEF Reap, Unlocked
<1> QED BY <1>1, <1>2, <1>3, <1>4, <1>5, <1>6, <1>7, <1>8, <1>9, <1>10

LEMMA TypeNext == TypeOK /\ [Next]_vars => TypeOK'
<1> SUFFICES ASSUME TypeOK, [Next]_vars PROVE TypeOK'
  OBVIOUS
<1>1. CASE UNCHANGED vars BY <1>1 DEF vars, TypeOK
<1>2. CASE Next BY <1>2, TaskType, OtherType DEF Next
<1> QED BY <1>1, <1>2

\* The inventory, the network and the tasks keep their types, and only live rows are locked.
THEOREM TypeCorrect == Spec => []TypeOK
BY TypeInit, TypeNext, PTL DEF Spec

(* No value is counted twice: an output is recorded only when its parent is removed.        *)

Books == TypeOK /\ Family /\ NeverCountedTwice /\ Fresh /\ Alone
Orderly == LocksOutlastWork /\ ~SubmitsOverlap
Kept == (Family /\ NeverCountedTwice /\ Fresh)'

\* While its input is live, nothing a transaction made has a row.
LEMMA LiveInput ==
  ASSUME NeverCountedTwice, NEW c \in Coins, row[c] = "live", NEW o \in Coins, parent[o] = c
  PROVE  row[o] = "absent"
BY NoneAssumption DEF NoneAssumption, NeverCountedTwice

LEMMA BooksInit == Init => Family /\ NeverCountedTwice /\ Fresh /\ Alone
BY DEF Init, Family, NeverCountedTwice, Fresh, Alone, Busy, Unborn, Pending

\* The outputs of a task's transaction are in nobody else's read.
LEMMA ReadApart ==
  ASSUME Books, NEW t \in Busy, NEW r \in reads, NEW o \in r.missing
  PROVE  o \in Coins /\ o \notin task[t].outs
<1>1. o \in Coins /\ parent[o] = r.sub.coin BY ReadParts DEF Books, Family, Related, Fresh
<1>2. task[t].coin # r.sub.coin BY ReadParts DEF Books, Alone, Settled
<1> QED BY <1>1, <1>2 DEF Books, Family, Related

LEMMA BroadcastBooks ==
  ASSUME Books, NEW t \in Tasks, Broadcast(t) PROVE Kept
<1>1. t \in Busy /\ task[t] \in Task /\ task[t].coin \in Coins
      /\ chain[task[t].coin] \in {"unspent", "forgotten"} /\ task[t].coin # None
  BY BusyIsTask, NoneAssumption DEF Books, Broadcast, At, NoneAssumption
<1>2. PICK O \in SUBSET Unborn :
        /\ chain' = [c \in Coins |-> IF c \in O THEN chain[task[t].coin]
                                     ELSE IF c = task[t].coin /\ chain[c] = "unspent" THEN "spent"
                                     ELSE chain[c]]
        /\ parent' = [c \in Coins |-> IF c \in O THEN task[t].coin ELSE parent[c]]
        /\ Answer(t, O)
  BY DEF Broadcast
<1>3. row' = row /\ reads' = reads /\ Pending' = Pending BY DEF Broadcast, table, posts, Pending
<1>4. O \subseteq Coins /\ \A o \in O : parent[o] = None /\ row[o] = "absent"
  BY DEF Books, Family, Unborn
<1>5. NeverCountedTwice' BY <1>2, <1>3, <1>4 DEF Books, NeverCountedTwice
<1>6. (\A c \in Unborn : parent[c] = None /\ row[c] = "absent")'
  <2>1. chain[task[t].coin] # "unborn" BY <1>1
  <2>2. \A c \in Coins : chain'[c] = "unborn" => c \notin O /\ chain[c] = "unborn"
    BY <1>2, <2>1
  <2>3. \A c \in Coins : c \notin O => parent'[c] = parent[c] BY <1>2
  <2> QED BY <1>3, <2>2, <2>3 DEF Books, Family, Unborn
<1>7. \A o \in Coins : parent[o] \in Coins => parent'[o] = parent[o]
  BY <1>2, <1>4, NoneAssumption DEF NoneAssumption
<1>8. (\A s \in Pending : Related(s))'
  BY <1>3, <1>7, SubmissionParts DEF Books, Family, Related
<1>9. \A u \in Busy' : /\ u \in Busy /\ task'[u].coin = task[u].coin
                       /\ task'[u].outs = task[u].outs \/ (u = t /\ task'[u].outs = O)
  BY <1>1, <1>2 DEF Answer, Goes, Busy, Books, TypeOK, Task
<1>10. ASSUME NEW u \in Busy'
       PROVE  Related(task[u])'
  <2>1. task[u].coin \in Coins /\ task[u].outs \subseteq Coins
    BY <1>9, BusyIsTask DEF Books, Task
  <2>2. \A o \in O : parent'[o] = task[t].coin BY <1>2, <1>4
  <2> QED BY <1>3, <1>7, <1>9, <2>1, <2>2 DEF Books, Family, Related
<1>11. Fresh' BY <1>3 DEF Books, Fresh
<1> QED BY <1>5, <1>6, <1>8, <1>10, <1>11 DEF Kept, Family

LEMMA SubmitOfBooks ==
  ASSUME Books, NEW t \in Busy, SubmitOf(t), End(t), reads' = reads,
         parent' = parent, \A c \in Coins : row[c] # "absent" => row'[c] # "absent"
  PROVE  (\A u \in Busy : Related(task[u]))' /\ (\A s \in Pending : Related(s))'
<1>1. \A u \in Busy' : u \in Busy /\ task'[u] = task[u] /\ task[u].coin \in Coins
  BY BusyIsTask DEF Books, End, Busy, TypeOK
<1>2. \A s \in Pending' : s \in Pending \/ s = [coin |-> task[t].coin, outs |-> task[t].outs]
  BY DEF SubmitOf, Pending
<1>3. task[t].coin \in Coins BY BusyIsTask DEF Books
<1> QED BY <1>1, <1>2, <1>3, SubmissionParts DEF Books, Family, Related

LEMMA ConsumeBooks ==
  ASSUME Books, NEW t \in Tasks, Consume(t) PROVE Kept
<1>1. t \in Busy /\ task[t].coin \in Coins /\ task[t].outs \subseteq Coins
  BY BusyIsTask DEF Books, Consume, At, Task
<1>2. chain' = chain /\ parent' = parent /\ reads' = reads /\ SubmitOf(t) /\ End(t)
  BY DEF Consume, net
<1>3. CASE Consumable(task[t].coin)
  <2>1. row' = [c \in Coins |-> IF c \in task[t].outs THEN "live"
                               ELSE IF c = task[t].coin THEN "removed" ELSE row[c]]
    BY <1>3 DEF Consume
  <2>2. \A o \in task[t].outs : parent[o] = task[t].coin /\ row[o] = "absent"
    BY <1>1, <1>3, LiveInput DEF Books, Family, Related, Consumable
  <2>3. NeverCountedTwice'
    BY <1>1, <1>2, <1>3, <2>1, <2>2, NoneAssumption
       DEF Books, NeverCountedTwice, Consumable, TypeOK, NoneAssumption
  <2>4. (\A c \in Unborn : parent[c] = None /\ row[c] = "absent")'
    BY <1>1, <1>2, <1>3, <2>1, <2>2, NoneAssumption
       DEF Books, Family, Unborn, Consumable, NoneAssumption
  <2>5. \A c \in Coins : row[c] # "absent" => row'[c] # "absent" BY <2>1
  <2>6. Fresh'
    <3>1. \A q \in reads : \A o \in q.missing : o \in Coins /\ o \notin task[t].outs
      BY <1>1, ReadApart
    <3>2. row[task[t].coin] # "absent" BY <1>3 DEF Consumable
    <3> QED BY <1>2, <2>1, <3>1, <3>2 DEF Books, Fresh
  <2> QED BY <1>1, <1>2, <2>3, <2>4, <2>5, <2>6, SubmitOfBooks DEF Kept, Family
<1>4. CASE ~Consumable(task[t].coin)
  <2>1. row' = row BY <1>4 DEF Consume, table
  <2> QED BY <1>1, <1>2, <2>1, SubmitOfBooks
        DEF Kept, Books, Family, Fresh, NeverCountedTwice, Unborn
<1> QED BY <1>3, <1>4

LEMMA WriteBooks ==
  ASSUME Books, NEW r \in reads, SubmitWrite(r) PROVE Kept
<1>1. /\ r.sub.coin \in Coins /\ r.sub.outs \subseteq Coins /\ r.missing \subseteq r.sub.outs
      /\ r.sub \in Pending /\ Related(r.sub)
  BY ReadParts DEF Books, Family, Fresh
<1>2. /\ chain' = chain /\ parent' = parent /\ task' = task /\ reads' = reads \ {r}
      /\ Pending' \subseteq Pending
  BY DEF SubmitWrite, net, Pending
<1>3. /\ \A c \in Coins : row'[c] = IF c \in r.missing THEN "live"
                                   ELSE IF c \in Retired(r) THEN "removed" ELSE row[c]
      /\ \A o \in r.missing : o \in Coins /\ row[o] = "absent" /\ parent[o] = r.sub.coin
  BY <1>1 DEF SubmitWrite, Inserted, Books, Fresh, Related
<1>4. row'[r.sub.coin] = "removed"
  BY <1>1, <1>3 DEF Retired, Related, Books, TypeOK
<1>5. \A c \in Coins : row[c] # "absent" => row'[c] # "absent" BY <1>3
<1>6. \A c \in Coins : row[c] = "removed" => row'[c] = "removed" BY <1>3 DEF Retired
<1>7. NeverCountedTwice'
  BY <1>1, <1>2, <1>3, <1>4, <1>6 DEF Books, NeverCountedTwice, Retired, TypeOK
<1>8. (\A c \in Unborn : parent[c] = None /\ row[c] = "absent")'
  BY <1>1, <1>2, <1>3, NoneAssumption DEF Books, Family, Unborn, Retired, NoneAssumption
<1>9. \A t \in Busy' : t \in Busy /\ task'[t] = task[t] /\ task[t].coin \in Coins
  BY <1>2, BusyIsTask DEF Books, Busy
<1>10. (\A t \in Busy : Related(task[t]))' /\ (\A s \in Pending : Related(s))'
  BY <1>2, <1>5, <1>9, SubmissionParts DEF Books, Family, Related
<1>11. Fresh'
  <2>1. ASSUME NEW q \in reads', NEW o \in q.missing
        PROVE  q.missing \subseteq q.sub.outs /\ row'[o] = "absent"
    <3>1. q \in reads /\ q # r BY <1>2
    <3>2. q.missing \subseteq q.sub.outs /\ o \in Coins /\ row[o] = "absent"
      BY <3>1, ReadParts DEF Books, Fresh
    <3>3. parent[o] = q.sub.coin /\ q.sub.coin # r.sub.coin
      BY <3>1, <3>2, ReadParts DEF Books, Family, Related, Alone
    <3> QED BY <1>3, <3>2, <3>3 DEF Retired
  <2>2. \A q \in reads' : q \in reads BY <1>2
  <2> QED BY <2>1, <2>2 DEF Books, Fresh
<1> QED BY <1>7, <1>8, <1>10, <1>11 DEF Kept, Family

\* The steps that neither record rows nor make outputs.
LEMMA QuietBooks ==
  ASSUME Books, parent' = parent, Pending' \subseteq Pending,
         \A r \in reads' : r \in reads \/ (r.missing \subseteq r.sub.outs
                                          /\ \A o \in r.missing : o \in Coins /\ row[o] = "absent"),
         \A c \in Coins : chain'[c] = "unborn" => chain[c] = "unborn",
         \A c \in Coins : row'[c] = row[c] \/ (row[c] = "live" /\ row'[c] = "removed"),
         \A t \in Busy' : \/ t \in Busy /\ task'[t].coin = task[t].coin
                            /\ \A o \in task'[t].outs : o \in task[t].outs \/ parent[o] = task[t].coin
                         \/ /\ task'[t].coin \in Coins /\ row[task'[t].coin] = "live"
                            /\ task'[t].outs = {}
  PROVE  Kept
<1>1. NeverCountedTwice' BY DEF Books, NeverCountedTwice, TypeOK
<1>2. \A c \in Coins : row[c] # "absent" => row'[c] # "absent" OBVIOUS
<1>3. (\A c \in Unborn : parent[c] = None /\ row[c] = "absent")' BY DEF Books, Family, Unborn
<1>4. (\A s \in Pending : Related(s))'
  BY <1>2, SubmissionParts DEF Books, Family, Related
<1>5. ASSUME NEW t \in Busy' PROVE Related(task[t])'
  BY <1>2, BusyIsTask DEF Books, Family, Related
<1>6. Fresh'
  <2>1. ASSUME NEW r \in reads'
        PROVE  r.missing \subseteq r.sub.outs /\ \A o \in r.missing : o \in Coins /\ row[o] = "absent"
    BY ReadParts DEF Books, Fresh
  <2> QED BY <2>1 DEF Fresh
<1> QED BY <1>1, <1>3, <1>4, <1>5, <1>6 DEF Kept, Family

LEMMA TaskBooks ==
  ASSUME Books, NEW t \in Tasks, Lookup(t) \/ Send(t) \/ GiveUp(t) \/ Book(t)
  PROVE  Kept
<1> USE DEF net, table, posts, Pending
<1>1. ASSUME NEW p \in Processes, NEW kind \in Kinds, NEW c \in Coins, Acquire(t, p, kind, c)
      PROVE  Kept
  <2>1. \A u \in Busy' : \/ u \in Busy /\ task'[u] = task[u]
                         \/ task'[u].coin = c /\ task'[u].outs = {}
    BY <1>1 DEF Acquire, Busy, Books, TypeOK
  <2>2. row[c] = "live" BY <1>1 DEF Acquire, LockRow, Acquirable, Allowed
  <2> QED BY <1>1, <2>1, <2>2, QuietBooks DEF Acquire, LockRow
<1>2. CASE Broadcast(t) BY <1>2, BroadcastBooks
<1>3. CASE Rebroadcast(t)
  <2>1. \A u \in Busy' : /\ u \in Busy /\ task'[u].coin = task[u].coin
                         /\ \A o \in task'[u].outs : o \in task[u].outs \/ parent[o] = task[u].coin
    BY <1>3, BusyIsTask DEF Rebroadcast, Answer, Goes, At, Busy, Books, TypeOK, Task, Made
  <2> QED BY <1>3, <2>1, QuietBooks DEF Rebroadcast
<1>4. CASE BroadcastFails(t)
  <2>1. \A u \in Busy' : u \in Busy /\ task'[u].coin = task[u].coin /\ task'[u].outs = task[u].outs
    BY <1>4, BusyIsTask DEF BroadcastFails, Goes, At, Busy, Books, TypeOK, Task
  <2> QED BY <1>4, <2>1, QuietBooks DEF BroadcastFails
<1>5. End(t) => \A u \in Busy' : u \in Busy /\ task'[u] = task[u]
  BY DEF End, Busy, Books, TypeOK
<1>6. CASE Release(t) BY <1>6, <1>5, QuietBooks DEF Release
<1>7. CASE Archive(t) BY <1>7, <1>5, QuietBooks DEF Archive, Books, TypeOK
<1>8. CASE ReleaseError(t) BY <1>8, <1>5, QuietBooks DEF ReleaseError
<1>9. CASE Consume(t) BY <1>9, ConsumeBooks
<1>10. CASE ConsumeError(t)
  BY <1>10, SubmitOfBooks
     DEF ConsumeError, At, Kept, Books, Family, Fresh, NeverCountedTwice, Unborn
<1> QED BY <1>1, <1>2, <1>3, <1>4, <1>6, <1>7, <1>8, <1>9, <1>10 DEF Lookup, Send, GiveUp, Book

LEMMA BooksNext ==
  ASSUME Books, [Next]_vars PROVE Kept
<1> USE DEF net, table, posts, Pending
<1>1. CASE UNCHANGED vars
  BY <1>1 DEF vars, Kept, Books, Family, Related, Fresh, NeverCountedTwice, Busy, Unborn
<1>2. ASSUME NEW p \in Processes, NEW kind \in Kinds, NEW c \in Coins, AcquireLost(p, kind, c)
      PROVE  Kept
  BY <1>2, QuietBooks DEF AcquireLost, LockRow, Busy
<1>3. ASSUME NEW s \in submits, NEW n \in 1 .. 2, SubmitRead(s, n) PROVE Kept
  <2>1. s.outs \subseteq Coins BY SubmissionParts DEF Books
  <2>2. \A r \in reads' : r \in reads \/ (r.missing \subseteq r.sub.outs
                                         /\ \A o \in r.missing : o \in Coins /\ row[o] = "absent")
    BY <1>3, <2>1 DEF SubmitRead, Missing
  <2>3. Pending' \subseteq Pending BY <1>3 DEF SubmitRead
  <2> QED BY <1>3, <2>2, <2>3, QuietBooks DEF SubmitRead, Busy
<1>4. ASSUME NEW s \in submits, SubmitError(s) PROVE Kept
  BY <1>4, QuietBooks DEF SubmitError, Busy
<1>5. ASSUME NEW r \in reads, SubmitAborts(r) PROVE Kept
  BY <1>5, QuietBooks DEF SubmitAborts, Busy
<1>6. ASSUME NEW c \in Coins, LockAges(c) \/ CoolDown(c) PROVE Kept
  BY <1>6, QuietBooks DEF LockAges, CoolDown, Busy
<1>7. ASSUME NEW c \in Coins, Forget(c) PROVE Kept
  BY <1>7, QuietBooks DEF Forget, Busy
<1>8. ASSUME NEW p \in Processes, Crash(p) PROVE Kept
  <2>1. \A t \in Busy' : t \in Busy /\ task'[t] = task[t]
    BY <1>8 DEF Crash, Busy
  <2> QED BY <1>8, <2>1, QuietBooks DEF Crash
<1>9. CASE Reap BY <1>9, QuietBooks DEF Reap, Busy
<1> QED BY <1>1, <1>2, <1>3, <1>4, <1>5, <1>6, <1>7, <1>8, <1>9, TaskBooks, WriteBooks DEF Next

(* No two tasks hold one output. *)

\* A step keeps Alone if it leaves the guards of the coins at work, takes away tasks and
\* adds no submission.
LEMMA QuietAlone ==
  ASSUME Books, Pending' \subseteq Pending, reads' \subseteq reads,
         \A t \in Busy' : t \in Busy /\ task'[t].coin = task[t].coin,
         \A t \in Busy' : Guarded(task[t].coin)',
         \A s \in Pending' : row'[s.coin] = "removed" \/ Guarded(s.coin)'
  PROVE  Alone'
<1>1. (\A t \in Busy : Guarded(task[t].coin))' BY DEF Guarded
<1>2. (\A t, u \in Busy : task[t].coin = task[u].coin => t = u)' BY DEF Books, Alone
<1>3. (\A s \in Pending : \A t \in Busy : task[t].coin # s.coin)' BY DEF Books, Alone, Settled
<1>4. (\A s \in Pending : row[s.coin] = "removed" \/ Guarded(s.coin))' BY DEF Guarded
<1>5. (\A r, q \in reads : r.sub.coin = q.sub.coin => r = q)' BY DEF Books, Alone
<1> QED BY <1>1, <1>2, <1>3, <1>4, <1>5 DEF Alone, Settled

\* A row without lock can be locked: nobody works on it.
LEMMA LockAlone ==
  ASSUME Books, NEW p \in Processes, NEW kind, NEW c \in Coins, LockRow(p, kind, c)
  PROVE  /\ Guarded(c)' /\ row' = row
         /\ \A t \in Busy : task[t].coin # c
         /\ \A s \in Pending : s.coin # c
         /\ \A d \in Coins : Guarded(d) => Guarded(d)'
<1>1. lock[c] = None /\ row[c] = "live" /\ row' = row
      /\ lock' = [lock EXCEPT ![c] = [by |-> p, old |-> FALSE]]
  BY DEF LockRow, Acquirable, Allowed
<1>2. Guarded(c)' BY <1>1, LockIsSome DEF Books, TypeOK, Guarded
<1> QED BY <1>1, <1>2 DEF Books, TypeOK, Alone, Settled, Guarded

LEMMA TaskAlone ==
  ASSUME Books, NEW t \in Tasks, Lookup(t) \/ Send(t) \/ GiveUp(t) \/ Book(t)
  PROVE  Alone'
<1> USE DEF table, posts, Books, Pending
<1>1. ASSUME NEW p \in Processes, NEW kind \in Kinds, NEW c \in Coins, Acquire(t, p, kind, c)
      PROVE  Alone'
  <2>1. LockRow(p, kind, c) /\ Pending' = Pending /\ reads' = reads BY <1>1 DEF Acquire, LockRow
  <2>2. \A u \in Busy' : \/ u = t /\ task'[u].coin = c
                         \/ u \in Busy /\ task'[u] = task[u]
    BY <1>1 DEF Acquire, Busy, Books, TypeOK
  <2>3. (\A u \in Busy : Guarded(task[u].coin))'
    BY <2>1, <2>2, LockAlone, BusyIsTask DEF Alone
  <2>4. (\A u, v \in Busy : task[u].coin = task[v].coin => u = v)'
    BY <2>1, <2>2, LockAlone DEF Alone
  <2>5. (\A s \in Pending : \A u \in Busy : task[u].coin # s.coin)'
    BY <2>1, <2>2, LockAlone DEF Alone, Settled
  <2>6. (\A s \in Pending : row[s.coin] = "removed" \/ Guarded(s.coin))'
    BY <2>1, LockAlone, SubmissionParts DEF Alone, Settled
  <2>7. (\A r, q \in reads : r.sub.coin = q.sub.coin => r = q)' BY <2>1 DEF Alone
  <2> QED BY <2>3, <2>4, <2>5, <2>6, <2>7 DEF Alone, Settled
<1>2. CASE Send(t)
  <2>1. \A u \in Busy' : u \in Busy /\ task'[u].coin = task[u].coin
    BY <1>2 DEF Send, Broadcast, Rebroadcast, BroadcastFails, Answer, Goes, At, Busy,
                Books, TypeOK, Task
  <2>2. row' = row /\ lock' = lock /\ Pending' = Pending /\ reads' = reads
    BY <1>2 DEF Send, Broadcast, Rebroadcast, BroadcastFails
  <2> QED BY <2>1, <2>2, QuietAlone DEF Alone, Settled, Guarded
<1>3. End(t) => \A u \in Busy' : u \in Busy /\ u # t /\ task'[u] = task[u]
  BY DEF End, Busy, Books, TypeOK
<1>4. CASE GiveUp(t)
  <2>1. End(t) /\ Pending' = Pending /\ reads' = reads /\ t \in Busy
    BY <1>4 DEF GiveUp, Release, Archive, ReleaseError, At
  <2>2. \A c \in Coins : c # task[t].coin => lock'[c] = lock[c] /\ row'[c] = row[c]
    BY <1>4 DEF GiveUp, Release, Archive, ReleaseError, Unlocked, Books, TypeOK
  <2>3. \A u \in Busy' : task[u].coin # task[t].coin BY <2>1, <1>3 DEF Alone
  <2>4. \A u \in Busy' : Guarded(task[u].coin)'
    BY <2>1, <2>2, <2>3, <1>3, BusyIsTask DEF Alone, Guarded, Books
  <2>5. \A s \in Pending' : row'[s.coin] = "removed" \/ Guarded(s.coin)'
    BY <2>1, <2>2, SubmissionParts DEF Alone, Settled, Guarded
  <2> QED BY <2>1, <2>4, <2>5, <1>3, QuietAlone
<1>5. CASE Book(t)
  <2>1. End(t) /\ SubmitOf(t) /\ t \in Busy /\ reads' = reads
    BY <1>5 DEF Book, Consume, ConsumeError, At
  <2>2. PICK i \in Coins, O \in SUBSET Coins : i = task[t].coin /\ O = task[t].outs
    BY <2>1, BusyIsTask DEF Books, Task
  \* The outputs of the task have no rows yet, so no lock on them is taken away.
  <2>3. \A c \in Coins : Guarded(c) /\ c # i => Guarded(c)'
    <3>1. CASE Consume(t) /\ Consumable(i)
      <4>1. \A o \in O : row[o] = "absent"
        BY <2>1, <2>2, <3>1, LiveInput DEF Family, Related, Consumable
      <4> QED BY <2>2, <3>1, <4>1 DEF Consume, Unlocked, Guarded, Books, TypeOK
    <3>2. CASE ~(Consume(t) /\ Consumable(i))
      BY <1>5, <2>2, <3>2 DEF Book, Consume, ConsumeError, Guarded
    <3> QED BY <3>1, <3>2
  <2>4. \A c \in Coins : row[c] = "removed" => row'[c] = "removed"
    <3>1. CASE Consume(t) /\ Consumable(i)
      BY <2>1, <2>2, <3>1, LiveInput DEF Consume, Family, Related, Consumable
    <3>2. CASE ~(Consume(t) /\ Consumable(i))
      BY <1>5, <2>2, <3>2 DEF Book, Consume, ConsumeError
    <3> QED BY <3>1, <3>2
  <2>5. row'[i] = "removed" \/ Guarded(i)'
    <3>1. CASE Consume(t) /\ Consumable(i)
      <4>1. i \notin O
        BY <2>1, <2>2, <3>1, LiveInput DEF Family, Related, Consumable
      <4> QED BY <2>2, <3>1, <4>1 DEF Consume
    <3>2. CASE ~(Consume(t) /\ Consumable(i))
      BY <1>5, <2>1, <2>2, <3>2 DEF Book, Consume, ConsumeError, Guarded, Alone
    <3> QED BY <3>1, <3>2
  <2>6. \A u \in Busy' : u \in Busy /\ task'[u] = task[u] /\ task[u].coin # i
    BY <2>1, <2>2, <1>3 DEF Alone
  <2>7. \A s \in Pending' : s \in Pending \/ s.coin = i BY <2>1, <2>2 DEF SubmitOf
  <2>8. (\A u \in Busy : Guarded(task[u].coin))'
    BY <2>3, <2>6, BusyIsTask DEF Alone, Guarded, Books
  <2>9. (\A u, v \in Busy : task[u].coin = task[v].coin => u = v)' BY <2>6 DEF Alone
  <2>10. (\A s \in Pending : \A u \in Busy : task[u].coin # s.coin)' BY <2>6, <2>7 DEF Alone, Settled
  <2>11. (\A s \in Pending : row[s.coin] = "removed" \/ Guarded(s.coin))'
    <3>1. \A s \in Pending : s.coin # i /\ s.coin \in Coins
      BY <2>1, <2>2, SubmissionParts DEF Alone, Settled
    <3> QED BY <2>3, <2>4, <2>5, <2>7, <3>1 DEF Alone, Settled
  <2>12. (\A r, q \in reads : r.sub.coin = q.sub.coin => r = q)' BY <2>1 DEF Alone
  <2> QED BY <2>8, <2>9, <2>10, <2>11, <2>12 DEF Alone, Settled
<1> QED BY <1>1, <1>2, <1>4, <1>5 DEF Lookup

LEMMA AloneNext ==
  ASSUME Orderly, Books, [Next]_vars PROVE Alone'
<1> USE DEF table, posts, Books, Pending
<1>1. CASE UNCHANGED vars BY <1>1 DEF vars, Alone, Settled, Guarded, Busy
<1>2. ASSUME NEW p \in Processes, NEW kind \in Kinds, NEW c \in Coins, AcquireLost(p, kind, c)
      PROVE  Alone'
  <2>1. LockRow(p, kind, c) /\ Pending' = Pending /\ reads' = reads /\ task' = task
    BY <1>2 DEF AcquireLost, LockRow
  <2>2. Busy' = Busy /\ \A u \in Busy : task[u].coin \in Coins
    BY <2>1, BusyIsTask DEF Books, Busy
  <2>3. \A u \in Busy : Guarded(task[u].coin)' BY <2>1, <2>2, LockAlone DEF Alone, Guarded
  <2>4. \A s \in Pending : row'[s.coin] = "removed" \/ Guarded(s.coin)'
    BY <2>1, LockAlone, SubmissionParts DEF Alone, Settled
  <2> QED BY <2>1, <2>2, <2>3, <2>4, QuietAlone
<1>3. ASSUME NEW r \in reads, SubmitWrite(r) PROVE Alone'
  <2>1. /\ r.sub.coin \in Coins /\ row[r.sub.coin] # "absent" /\ task' = task /\ Busy' = Busy
        /\ Pending' \subseteq Pending /\ reads' \subseteq reads
        /\ \A c \in r.missing : c \in Coins /\ row[c] = "absent"
    BY <1>3, ReadParts DEF SubmitWrite, Busy, Family, Related, Fresh
  <2>2. \A c \in Coins : Guarded(c) /\ c # r.sub.coin => Guarded(c)'
    BY <1>3, <2>1 DEF SubmitWrite, Inserted, Retired, Unlocked, Guarded, TypeOK
  <2>3. \A c \in Coins : row[c] = "removed" => row'[c] = "removed"
    BY <1>3, <2>1 DEF SubmitWrite, Inserted, Retired
  <2>4. row'[r.sub.coin] = "removed"
    BY <1>3, <2>1 DEF SubmitWrite, Inserted, Retired, TypeOK
  <2>5. \A u \in Busy : Guarded(task[u].coin)'
    BY <2>1, <2>2, BusyIsTask, ReadParts DEF Alone, Settled
  <2>6. \A s \in Pending : row'[s.coin] = "removed" \/ Guarded(s.coin)'
    BY <2>2, <2>3, <2>4, SubmissionParts DEF Alone, Settled
  <2> QED BY <2>1, <2>5, <2>6, QuietAlone
<1>4. ASSUME NEW s \in submits, NEW n \in 1 .. 2, SubmitRead(s, n) PROVE Alone'
  <2>1. Pending' = Pending /\ row' = row /\ lock' = lock /\ task' = task /\ Busy' = Busy
    BY <1>4 DEF SubmitRead, Busy
  <2> DEFINE q == [sub |-> s, nth |-> n, missing |-> Missing(s)]
  <2>2. reads' = reads \cup {q} /\ q.sub = s BY <1>4 DEF SubmitRead
  <2> HIDE DEF q
  <2>3. \A r \in reads : r.sub.coin # s.coin BY <1>4 DEF SubmitRead, Orderly
  <2>4. (\A r, v \in reads : r.sub.coin = v.sub.coin => r = v)' BY <2>2, <2>3 DEF Alone
  <2> QED BY <2>1, <2>4 DEF Alone, Settled, Guarded
<1>9. ASSUME (\E s \in submits : SubmitError(s)) \/ (\E r \in reads : SubmitAborts(r))
      PROVE  Alone'
  <2>1. /\ Pending' \subseteq Pending /\ reads' \subseteq reads
        /\ row' = row /\ lock' = lock /\ task' = task /\ Busy' = Busy
    BY <1>9 DEF SubmitError, SubmitAborts, Busy
  <2> QED BY <2>1, QuietAlone DEF Alone, Settled, Guarded
<1>5. ASSUME NEW c \in Coins, LockAges(c) PROVE Alone'
  <2>1. ~WorkedOn(c) /\ row' = row /\ task' = task /\ Busy' = Busy /\ Pending' = Pending
        /\ reads' = reads
    BY <1>5 DEF LockAges, Busy, Orderly
  <2>2. \A d \in Coins : Guarded(d) /\ d # c => Guarded(d)'
    BY <1>5 DEF LockAges, Guarded, Books, TypeOK
  <2>3. \A t \in Busy : Guarded(task[t].coin)'
    BY <2>1, <2>2, BusyIsTask DEF WorkedOn, Alone, Guarded, Books
  <2>4. \A s \in Pending : row'[s.coin] = "removed" \/ Guarded(s.coin)'
    BY <2>1, <2>2, SubmissionParts DEF WorkedOn, Alone, Settled, Orderly
  <2> QED BY <2>1, <2>3, <2>4, QuietAlone
<1>6. ASSUME NEW c \in Coins, CoolDown(c) \/ Forget(c) PROVE Alone'
  BY <1>6, QuietAlone DEF CoolDown, Forget, Alone, Settled, Guarded, Busy
<1>7. ASSUME NEW p \in Processes, Crash(p) PROVE Alone'
  <2>1. \A t \in Busy' : t \in Busy /\ task'[t] = task[t] BY <1>7 DEF Crash, Busy
  <2> QED BY <1>7, <2>1, QuietAlone DEF Crash, Alone, Settled, Guarded
<1>8. CASE Reap
  <2>1. \A c \in Coins : Guarded(c) => Guarded(c)'
    BY <1>8 DEF Reap, Stale, Unlocked, Guarded, Books, TypeOK
  <2>2. row' = row /\ task' = task /\ Pending' = Pending /\ reads' = reads /\ Busy' = Busy
    BY <1>8 DEF Reap, Busy
  <2>3. \A t \in Busy : Guarded(task[t].coin)' BY <2>1, <2>2, BusyIsTask DEF Alone, Guarded, Books
  <2>4. \A s \in Pending : row'[s.coin] = "removed" \/ Guarded(s.coin)'
    BY <2>1, <2>2, SubmissionParts DEF Alone, Settled
  <2> QED BY <2>2, <2>3, <2>4, QuietAlone
<1> QED BY <1>1, <1>2, <1>3, <1>4, <1>5, <1>6, <1>7, <1>8, <1>9, TaskAlone DEF Next

LEMMA BooksHold == Orderly /\ Spec => []Books
<1> SUFFICES ASSUME Orderly PROVE Spec => []Books
  OBVIOUS
<1>1. Init => Books BY TypeInit, BooksInit DEF Books
<1>2. Books /\ [Next]_vars => Books'
  BY TypeNext, BooksNext, AloneNext DEF Books, Kept
<1> QED BY <1>1, <1>2, PTL DEF Spec

\* As long as locks outlast the work they protect and submissions do not overlap, an output is
\* in the inventory only once its parent has left it, whichever of the two ways recorded it.
THEOREM CountedOnce == Orderly /\ Spec => []NeverCountedTwice
<1>1. Books => NeverCountedTwice BY DEF Books
<1> QED BY <1>1, BooksHold, PTL

\* Under the same conditions two writes or splits never hold one output, over crashes, failing
\* transactions, lost answers and late or repeated submissions.
THEOREM OneTaskPerOutput == Orderly /\ Spec => []Exclusive
<1>1. Books => Exclusive BY DEF Books, Alone, Exclusive
<1> QED BY <1>1, BooksHold, PTL

(* The inventory implements the ledger of coins. *)

\* What Status says of an output, now and after the step.
LEMMA StatusNow ==
  ASSUME TypeOK
  PROVE  /\ Status = [c \in Coins |-> Status[c]]
         /\ \A c \in Coins : Status[c] = IF row[c] = "absent" THEN "unrecorded"
                                         ELSE IF row[c] = "removed" THEN "retired"
                                         ELSE IF lock[c] = None THEN "free" ELSE "held"
BY DEF Status, TypeOK

LEMMA StatusNext ==
  ASSUME TypeOK'
  PROVE  /\ Status' = [c \in Coins |-> Status'[c]]
         /\ \A c \in Coins : Status'[c] = IF row'[c] = "absent" THEN "unrecorded"
                                          ELSE IF row'[c] = "removed" THEN "retired"
                                          ELSE IF lock'[c] = None THEN "free" ELSE "held"
BY DEF Status, TypeOK

LEMMA LedgerInit == Init => Ledger!Init
<1> SUFFICES ASSUME Init PROVE Ledger!Init
  OBVIOUS
<1>1. TypeOK BY TypeInit
<1>2. \A c \in Coins : Status[c] = IF c \in Funded THEN "free" ELSE "unrecorded"
  BY <1>1, StatusNow DEF Init
<1> QED BY <1>1, <1>2, StatusNow DEF Ledger!Init

LEMMA LedgerTake ==
  ASSUME TypeOK, TypeOK', NEW p \in Processes, NEW kind, NEW c \in Coins, LockRow(p, kind, c)
  PROVE  Ledger!Take({c})
<1>1. row[c] = "live" /\ lock[c] = None /\ row' = row BY DEF LockRow, Acquirable, Allowed
<1>2. lock' = [lock EXCEPT ![c] = [by |-> p, old |-> FALSE]] BY DEF LockRow
<1>3. [by |-> p, old |-> FALSE] # None BY LockIsSome
<1>4. \A d \in Coins : lock'[d] = None <=> d # c /\ lock[d] = None
  BY <1>1, <1>2, <1>3 DEF TypeOK
<1>5. \A d \in Coins : Status'[d] = IF d \in {c} THEN "held" ELSE Status[d]
  BY <1>1, <1>4, StatusNow, StatusNext
<1>6. Status[c] = "free" BY <1>1, StatusNow
<1> QED BY <1>5, <1>6, StatusNext DEF Ledger!Take

LEMMA LedgerHandBack ==
  ASSUME TypeOK, TypeOK', NEW S \in SUBSET Coins, \A c \in S : lock[c] # None,
         row' = row, lock' = Unlocked(S)
  PROVE  Ledger!HandBack(S)
<1>1. \A c \in S : row[c] = "live" BY DEF TypeOK
<1>2. \A c \in S : Status[c] = "held" BY <1>1, StatusNow
<1>3. \A c \in Coins : Status'[c] = IF c \in S THEN "free" ELSE Status[c]
  BY <1>1, StatusNow, StatusNext DEF Unlocked
<1> QED BY <1>2, <1>3, StatusNext DEF Ledger!HandBack

LEMMA LedgerReplace ==
  ASSUME TypeOK, TypeOK', NEW S \in SUBSET Coins, NEW T \in SUBSET Coins,
         \A c \in S : row[c] = "live", \A c \in T : row[c] = "absent",
         \A c \in Coins : row'[c] = IF c \in T THEN "live"
                                    ELSE IF c \in S THEN "removed" ELSE row[c],
         lock' = Unlocked(T \cup S)
  PROVE  Ledger!Replace(S, T)
<1>1. S \subseteq Ledger!Open /\ T \subseteq Ledger!Fresh
  BY StatusNow DEF Ledger!Open, Ledger!Fresh
<1>2. \A c \in Coins : Status'[c] = IF c \in S THEN "retired"
                                    ELSE IF c \in T THEN "free" ELSE Status[c]
  BY StatusNow, StatusNext DEF Unlocked
<1> QED BY <1>1, <1>2, StatusNext DEF Ledger!Replace

LEMMA LedgerStays ==
  ASSUME TypeOK, TypeOK', row' = row, \A c \in Coins : lock'[c] = None <=> lock[c] = None
  PROVE  Status' = Status
BY StatusNow, StatusNext

LEMMA TaskLedger ==
  ASSUME TypeOK, Family, NeverCountedTwice, TypeOK', NEW t \in Tasks, Lookup(t) \/ Send(t) \/ GiveUp(t) \/ Book(t)
  PROVE  Ledger!Next \/ Status' = Status
<1> USE DEF table, posts
<1>1. CASE Lookup(t)
  <2>1. \A c \in Coins : {c} \in SUBSET Coins OBVIOUS
  <2> QED BY <1>1, <2>1, LedgerTake DEF Lookup, Acquire, Ledger!Next
<1>2. CASE Send(t)
  BY <1>2, LedgerStays DEF Send, Broadcast, Rebroadcast, BroadcastFails
<1>3. CASE Release(t)
  <2>1. CASE Releasable(t)
    <3>1. t \in Busy /\ task[t].coin \in Coins BY <1>3, BusyIsTask DEF Release, At
    <3>2. Ledger!HandBack({task[t].coin})
      BY <1>3, <2>1, <3>1, LedgerHandBack DEF Release, Releasable
    <3> QED BY <3>1, <3>2 DEF Ledger!Next
  <2>2. CASE ~Releasable(t) BY <1>3, <2>2, LedgerStays DEF Release
  <2> QED BY <2>1, <2>2
<1>4. CASE Archive(t)
  <2>1. CASE row[task[t].coin] = "live"
    <3>1. t \in Busy /\ task[t].coin \in Coins BY <1>4, BusyIsTask DEF Archive, At
    <3>2. /\ row' = [row EXCEPT ![task[t].coin] = "removed"]
          /\ lock' = Unlocked({} \cup {task[t].coin})
      BY <1>4, <2>1 DEF Archive
    <3>3. \A c \in Coins : row'[c] = IF c \in {} THEN "live"
                                    ELSE IF c \in {task[t].coin} THEN "removed" ELSE row[c]
      BY <3>1, <3>2 DEF TypeOK
    <3>4. Ledger!Replace({task[t].coin}, {}) BY <2>1, <3>1, <3>2, <3>3, LedgerReplace
    <3> QED BY <3>1, <3>4 DEF Ledger!Next
  <2>2. CASE row[task[t].coin] # "live" BY <1>4, <2>2, LedgerStays DEF Archive
  <2> QED BY <2>1, <2>2
<1>5. CASE Consume(t)
  <2>1. CASE Consumable(task[t].coin)
    <3>1. t \in Busy /\ task[t].coin \in Coins /\ task[t].outs \subseteq Coins
      BY <1>5, BusyIsTask DEF Consume, At, Task
    <3>2. \A o \in task[t].outs : row[o] = "absent"
      BY <2>1, <3>1, LiveInput DEF Family, Related, Consumable
    <3>3. Ledger!Replace({task[t].coin}, task[t].outs)
      BY <1>5, <2>1, <3>1, <3>2, LedgerReplace DEF Consume, Consumable
    <3> QED BY <3>1, <3>3 DEF Ledger!Next
  <2>2. CASE ~Consumable(task[t].coin) BY <1>5, <2>2, LedgerStays DEF Consume
  <2> QED BY <2>1, <2>2
<1>6. CASE ReleaseError(t) \/ ConsumeError(t)
  BY <1>6, LedgerStays DEF ReleaseError, ConsumeError
<1> QED BY <1>1, <1>2, <1>3, <1>4, <1>5, <1>6 DEF GiveUp, Book

LEMMA LedgerNext ==
  ASSUME TypeOK, Family, NeverCountedTwice, Fresh, TypeOK', [Next]_vars
  PROVE  Ledger!Next \/ Status' = Status
<1> USE DEF table, posts
<1>1. CASE UNCHANGED vars BY <1>1, LedgerStays DEF vars
<1>2. ASSUME NEW p \in Processes, NEW kind \in Kinds, NEW c \in Coins, AcquireLost(p, kind, c)
      PROVE  Ledger!Next
  <2>1. {c} \in SUBSET Coins OBVIOUS
  <2> QED BY <1>2, <2>1, LedgerTake DEF AcquireLost, Ledger!Next
<1>3. ASSUME NEW r \in reads, SubmitWrite(r) PROVE Ledger!Next
  <2>1. Retired(r) \subseteq Coins /\ Inserted(r) \subseteq Coins
    BY ReadParts DEF Retired, Inserted
  <2>2. /\ \A c \in Retired(r) : row[c] = "live"
        /\ \A c \in Inserted(r) : row[c] = "absent"
    BY DEF Retired, Inserted, Fresh
  <2>3. Ledger!Replace(Retired(r), Inserted(r))
    BY <1>3, <2>1, <2>2, LedgerReplace DEF SubmitWrite
  <2> QED BY <2>1, <2>3 DEF Ledger!Next
<1>4. ASSUME (\E s \in submits : (\E n \in 1 .. 2 : SubmitRead(s, n)) \/ SubmitError(s))
             \/ (\E r \in reads : SubmitAborts(r))
      PROVE  Status' = Status
  BY <1>4, LedgerStays DEF SubmitRead, SubmitError, SubmitAborts
<1>5. ASSUME NEW c \in Coins, LockAges(c) PROVE Status' = Status
  <2>1. lock[c] \in Lock /\ lock[c].by \in Processes BY <1>5 DEF LockAges, TypeOK, Lock
  <2>2. [by |-> lock[c].by, old |-> TRUE] # None BY <2>1, LockIsSome
  <2>3. \A d \in Coins : lock'[d] = None <=> lock[d] = None
    BY <1>5, <2>2 DEF LockAges, TypeOK
  <2> QED BY <1>5, <2>3, LedgerStays DEF LockAges
<1>6. ASSUME NEW c \in Coins, CoolDown(c) \/ Forget(c) PROVE Status' = Status
  BY <1>6, LedgerStays DEF CoolDown, Forget
<1>7. ASSUME NEW p \in Processes, Crash(p) PROVE Status' = Status
  BY <1>7, LedgerStays DEF Crash
<1>8. CASE Reap
  <2>1. Ledger!HandBack({c \in Coins : Stale(c)}) BY <1>8, LedgerHandBack DEF Reap, Stale
  <2> QED BY <2>1 DEF Ledger!Next
<1> QED BY <1>1, <1>2, <1>3, <1>4, <1>5, <1>6, <1>7, <1>8, TaskLedger DEF Next

\* Under the same conditions the inventory is a ledger of coins: recorded once, held by one at
\* a time, retired for good.
THEOREM ImplementsLedger == Orderly /\ Spec => LedgerSpec
<1>1. Books /\ Books' /\ [Next]_vars => [Ledger!Next]_Status BY LedgerNext DEF Books
<1> QED BY <1>1, LedgerInit, BooksHold, PTL DEF Spec, LedgerSpec, Ledger!Spec

LEMMA RetiredStays ==
  ASSUME TypeOK, TypeOK', Ledger!Next \/ Status' = Status
  PROVE  \A c \in Coins : row[c] = "removed" => row'[c] = "removed"
<1> SUFFICES ASSUME NEW c \in Coins, Status[c] = "retired" PROVE Status'[c] = "retired"
  BY StatusNow, StatusNext
<1>1. ASSUME NEW S \in SUBSET Coins, Ledger!Take(S) PROVE Status'[c] = "retired"
  BY <1>1, StatusNow DEF Ledger!Take
<1>2. ASSUME NEW S \in SUBSET Coins, Ledger!HandBack(S) PROVE Status'[c] = "retired"
  BY <1>2 DEF Ledger!HandBack
<1>3. ASSUME NEW S \in SUBSET Coins, NEW T \in SUBSET Coins, Ledger!Replace(S, T)
      PROVE  Status'[c] = "retired"
  BY <1>3 DEF Ledger!Replace, Ledger!Open, Ledger!Fresh
<1> QED BY <1>1, <1>2, <1>3 DEF Ledger!Next

\* Under the same conditions no step brings back a removed row.
THEOREM NoResurrection == Orderly /\ Spec => RemovedIsFinal
<1>1. Books /\ Books' /\ [Next]_vars
        => [\A c \in Coins : row[c] = "removed" => row'[c] = "removed"]_vars
  BY LedgerNext, RetiredStays DEF Books
<1> QED BY <1>1, BooksHold, PTL DEF Spec, RemovedIsFinal

(* Locks that are reaped under their owner, and submissions that overlap. *)

Steady == ~UpdatesMayFail /\ ~NetworkForgets
Ahead  == TypeOK /\ Family /\ NeverCountedTwice /\ InventoryFirst
StaysAhead == (Family /\ NeverCountedTwice /\ InventoryFirst)'

LEMMA AheadInit == Init => Ahead
<1> SUFFICES ASSUME Init PROVE Family /\ NeverCountedTwice /\ InventoryFirst
  BY TypeInit DEF Ahead
<1>1. Busy = {} /\ Pending = {} /\ reads = {} BY DEF Init, Busy, Pending
<1> QED BY <1>1 DEF Init, Family, NeverCountedTwice, InventoryFirst, Unborn

\* A step that leaves the rows and the network alone, makes no submission and changes no more
\* than a task that spends its output as every other does.
LEMMA QuietAhead ==
  ASSUME Ahead, row' = row, net' = net, Pending' \subseteq Pending,
         \A r \in reads' : r \in reads \/ r.missing = {},
         \A t \in Busy' : \/ t \in Busy /\ task'[t] = task[t]
                          \/ Related(task'[t]) /\ SpendsOnce(task'[t])
  PROVE  StaysAhead
<1>1. chain' = chain /\ parent' = parent BY DEF net
<1>2. NeverCountedTwice' BY <1>1 DEF Ahead, NeverCountedTwice
<1>3. (\A t \in Busy : Related(task[t]) /\ SpendsOnce(task[t]))'
  BY <1>1 DEF Ahead, Family, InventoryFirst, Related, SpendsOnce, Children
<1>4. Family' BY <1>1, <1>3 DEF Ahead, Family, Related, Unborn
<1>5. InventoryFirst' BY <1>1, <1>3 DEF Ahead, InventoryFirst, Children
<1> QED BY <1>2, <1>4, <1>5 DEF StaysAhead

LEMMA BroadcastAhead ==
  ASSUME Ahead, NEW t \in Tasks, Broadcast(t) PROVE StaysAhead
<1>1. PICK i \in Coins : i = task[t].coin BY BusyIsTask DEF Ahead, Broadcast, At
<1>2. t \in Busy /\ task[t].at = "holding" /\ task[t].coin = i /\ chain[i] = "unspent" /\ i # None
  BY <1>1, NoneAssumption DEF NoneAssumption, Broadcast, At, Ahead, InventoryFirst
<1>3. PICK O \in SUBSET Unborn :
        /\ chain' = [c \in Coins |-> IF c \in O THEN "unspent"
                                     ELSE IF c = i THEN "spent" ELSE chain[c]]
        /\ parent' = [c \in Coins |-> IF c \in O THEN i ELSE parent[c]]
        /\ Answer(t, O)
  BY <1>1, <1>2 DEF Broadcast
<1>4. row' = row /\ reads' = reads /\ Pending' = Pending BY DEF Broadcast, table, posts, Pending
<1>5. O \subseteq Coins /\ i \notin O
      /\ \A o \in O : parent[o] = None /\ row[o] = "absent" /\ chain[o] = "unborn"
  BY <1>2 DEF Ahead, Family, Unborn
\* An output that is not spent has no transaction yet, one that is spent keeps its own.
<1>6. Children(i)' = O /\ \A c \in Coins : c # i => Children(c)' = Children(c)
  <2>1. \A o \in Coins : parent[o] # i BY <1>2 DEF Ahead, InventoryFirst
  <2>2. \A o \in Coins : parent'[o] = IF o \in O THEN i ELSE parent[o] BY <1>3
  <2>3. Children(i)' = O BY <1>5, <2>1, <2>2 DEF Children
  <2>4. \A c \in Coins : c # i => Children(c)' = Children(c)
    BY <1>5, <2>2, NoneAssumption DEF NoneAssumption, Children
  <2> QED BY <2>3, <2>4
<1>7. \A c \in Coins : chain[c] = "spent" => c # i /\ chain'[c] = "spent"
  BY <1>2, <1>3, <1>5
<1>8. NeverCountedTwice' BY <1>3, <1>4, <1>5 DEF Ahead, NeverCountedTwice
<1>9. \A u \in Busy' :
        u \in Busy /\ task'[u].coin = task[u].coin
        /\ \/ task'[u].at = "accepted" /\ u = t /\ task'[u].outs = O
           \/ task'[u].at # "accepted" /\ task'[u].outs = task[u].outs
           \/ task'[u] = task[u]
  BY <1>2, <1>3 DEF Answer, Goes, Busy, Ahead, TypeOK, Task
<1>10. ASSUME NEW u \in Busy' PROVE Related(task[u])' /\ SpendsOnce(task[u])'
  <2>1. u \in Busy /\ task[u].coin \in Coins /\ task[u].outs \subseteq Coins
    BY <1>9, BusyIsTask DEF Ahead, Task
  <2>2. \A o \in task[u].outs : parent'[o] = parent[o]
    BY <1>3, <1>5, <2>1, NoneAssumption DEF NoneAssumption, Ahead, Family, Related
  <2>3. Related(task[u])'
    BY <1>1, <1>3, <1>4, <1>5, <1>9, <2>1, <2>2 DEF Ahead, Family, Related
  <2>4. SpendsOnce(task[u])'
    BY <1>2, <1>3, <1>5, <1>6, <1>7, <1>9, <2>1 DEF Ahead, InventoryFirst, SpendsOnce
  <2> QED BY <2>3, <2>4
<1>11. Family'
  <2>1. \A s \in Pending : \A o \in s.outs : parent'[o] = parent[o]
    BY <1>3, <1>5, SubmissionParts, NoneAssumption DEF NoneAssumption, Ahead, Family, Related
  <2>2. (\A c \in Unborn : parent[c] = None /\ row[c] = "absent")'
    BY <1>3, <1>4, <1>5 DEF Ahead, Family, Unborn
  <2> QED BY <1>4, <1>10, <2>1, <2>2 DEF Ahead, Family, Related
<1>12. InventoryFirst'
  <2>1. (\A c \in Coins : chain[c] # "forgotten")' BY <1>3, <1>5 DEF Ahead, InventoryFirst
  <2>2. (\A o \in Coins : parent[o] # None => chain[parent[o]] = "spent")'
    BY <1>2, <1>3, <1>5, <1>7 DEF Ahead, InventoryFirst, TypeOK
  <2>3. (\A c \in Coins : row[c] = "removed" =>
           chain[c] = "spent" /\ \A o \in Children(c) : row[o] # "absent")'
    BY <1>4, <1>6, <1>7 DEF Ahead, InventoryFirst
  <2> QED BY <1>4, <1>10, <2>1, <2>2, <2>3 DEF Ahead, InventoryFirst
<1> QED BY <1>8, <1>11, <1>12 DEF StaysAhead

LEMMA ConsumeAhead ==
  ASSUME Ahead, NEW t \in Tasks, Consume(t) PROVE StaysAhead
<1>1. PICK i \in Coins, O \in SUBSET Coins : i = task[t].coin /\ O = task[t].outs
  BY BusyIsTask DEF Ahead, Consume, At, Task
<1>2. /\ t \in Busy /\ task[t].at = "accepted" /\ i # None /\ row[i] # "absent"
      /\ chain[i] = "spent" /\ O = Children(i)
  BY <1>1, NoneAssumption
     DEF NoneAssumption, Consume, At, Ahead, InventoryFirst, SpendsOnce, Family, Related
<1>3. chain' = chain /\ parent' = parent /\ reads' = reads /\ SubmitOf(t) /\ End(t)
  BY DEF Consume, net
<1>4. \A u \in Busy' : u \in Busy /\ task'[u] = task[u] /\ task[u].coin \in Coins
  BY <1>3, BusyIsTask DEF End, Busy, Ahead, TypeOK
<1>5. \A s \in Pending' : (s \in Pending /\ s.coin \in Coins /\ s.outs \subseteq Coins)
                          \/ (s.coin = i /\ s.outs = O)
  BY <1>1, <1>3, SubmissionParts DEF SubmitOf, Pending, Ahead
\* Either the rows become what they should, or they are so already.
<1>6. /\ \A c \in Coins : row'[c] = row[c] \/ (c = i /\ row'[c] = "removed")
                                            \/ (c \in O /\ row'[c] = "live")
      /\ \A c \in Coins : row[c] = "removed" => row'[c] = "removed"
      /\ row'[i] = "removed" /\ \A o \in O : row'[o] # "absent"
  <2>1. CASE row[i] = "live"
    <3>1. \A o \in O : row[o] = "absent" BY <1>2, <2>1, LiveInput DEF Ahead, Children
    <3>2. row' = [c \in Coins |-> IF c \in O THEN "live" ELSE IF c = i THEN "removed" ELSE row[c]]
      BY <1>1, <2>1 DEF Consume, Consumable
    <3> QED BY <2>1, <3>1, <3>2
  <2>2. CASE row[i] # "live"
    <3>1. row' = row BY <1>1, <2>2 DEF Consume, Consumable, table
    <3>2. row[i] = "removed" BY <1>2, <2>2 DEF Ahead, TypeOK
    <3> QED BY <1>2, <3>1, <3>2 DEF Ahead, InventoryFirst
  <2> QED BY <2>1, <2>2
<1>7. \A c \in Coins : row[c] # "absent" => row'[c] # "absent" BY <1>6
<1>8. NeverCountedTwice' BY <1>2, <1>3, <1>6 DEF Ahead, NeverCountedTwice, Children, TypeOK
<1>9. Family'
  <2>1. (\A c \in Unborn : parent[c] = None /\ row[c] = "absent")'
    BY <1>2, <1>3, <1>6 DEF Ahead, Family, Unborn, Children
  <2>2. (\A u \in Busy : Related(task[u]))' BY <1>3, <1>4, <1>7 DEF Ahead, Family, Related
  <2>3. (\A s \in Pending : Related(s))'
    BY <1>2, <1>3, <1>5, <1>7 DEF Ahead, Family, Related, Children
  <2> QED BY <2>1, <2>2, <2>3 DEF Family
<1>10. InventoryFirst'
  <2>1. \A c \in Coins : Children(c)' = Children(c) BY <1>3 DEF Children
  <2>2. (\A u \in Busy : SpendsOnce(task[u]))'
    BY <1>3, <1>4, <2>1 DEF Ahead, InventoryFirst, SpendsOnce
  <2>3. (\A c \in Coins : row[c] = "removed" =>
           chain[c] = "spent" /\ \A o \in Children(c) : row[o] # "absent")'
    BY <1>2, <1>3, <1>6, <1>7, <2>1 DEF Ahead, InventoryFirst, Children
  <2>4. (\A s \in Pending : row[s.coin] = "removed" /\ \A o \in s.outs : row[o] # "absent")'
    BY <1>5, <1>6, <1>7 DEF Ahead, InventoryFirst
  <2> QED BY <1>3, <2>2, <2>3, <2>4 DEF Ahead, InventoryFirst
<1> QED BY <1>8, <1>9, <1>10 DEF StaysAhead

LEMMA AheadNext ==
  ASSUME Steady, Ahead, [Next]_vars PROVE StaysAhead
<1> USE DEF table, posts, Pending
<1>1. CASE UNCHANGED vars BY <1>1, QuietAhead DEF vars, net, Busy
<1>2. ASSUME NEW t \in Tasks, NEW p \in Processes, NEW kind \in Kinds, NEW c \in Coins,
             Acquire(t, p, kind, c)
      PROVE  StaysAhead
  <2>1. row[c] = "live" /\ row' = row /\ net' = net /\ Pending' = Pending /\ reads' = reads
    BY <1>2 DEF Acquire, LockRow, Acquirable, Allowed, net
  <2>2. \A u \in Busy' : \/ u \in Busy /\ task'[u] = task[u]
                         \/ /\ task'[u].coin = c /\ task'[u].outs = {}
                            /\ task'[u].at = "holding"
    BY <1>2 DEF Acquire, Busy, Ahead, TypeOK
  <2>3. \A u \in Busy' : \/ u \in Busy /\ task'[u] = task[u]
                         \/ Related(task'[u]) /\ SpendsOnce(task'[u])
    BY <2>1, <2>2 DEF Related, SpendsOnce
  <2> QED BY <2>1, <2>3, QuietAhead
<1>3. ASSUME NEW t \in Tasks, Rebroadcast(t) \/ BroadcastFails(t) PROVE StaysAhead
  <2>1. row' = row /\ net' = net /\ Pending' = Pending /\ reads' = reads /\ t \in Busy
    BY <1>3 DEF Rebroadcast, BroadcastFails, At, net
  <2>2. \A u \in Busy' :
          \/ u \in Busy /\ task'[u] = task[u]
          \/ /\ u = t /\ task'[u].coin = task[t].coin
             /\ \/ task'[u].at = "failed" /\ task'[u].outs = task[t].outs
                \/ /\ chain[task[t].coin] = "spent"
                   /\ task'[u].at = "accepted" /\ task'[u].outs = Made(task[t].coin)
    BY <1>3, BusyIsTask DEF Rebroadcast, BroadcastFails, Answer, Goes, At, Busy, Ahead, TypeOK, Task
  <2>3. Made(task[t].coin) = Children(task[t].coin)
    BY DEF Made, Children, Ahead, InventoryFirst
  <2>4. Related(task[t]) BY <2>1 DEF Ahead, Family
  <2>5. \A u \in Busy' : \/ u \in Busy /\ task'[u] = task[u]
                         \/ Related(task'[u]) /\ SpendsOnce(task'[u])
    BY <2>2, <2>3, <2>4 DEF Related, SpendsOnce, Children
  <2> QED BY <2>1, <2>5, QuietAhead
<1>4. ASSUME NEW t \in Tasks, Release(t) PROVE StaysAhead
  <2>1. \A u \in Busy' : u \in Busy /\ task'[u] = task[u]
    BY <1>4 DEF Release, End, Busy, Ahead, TypeOK
  <2> QED BY <1>4, <2>1, QuietAhead DEF Release
<1>5. ASSUME NEW s \in submits, NEW n \in 1 .. 2, SubmitRead(s, n) PROVE StaysAhead
  <2>1. Missing(s) = {} BY DEF Missing, Ahead, InventoryFirst
  <2>2. row' = row /\ net' = net /\ Pending' \subseteq Pending /\ task' = task /\ Busy' = Busy
    BY <1>5 DEF SubmitRead, Busy, net
  <2>3. \A r \in reads' : r \in reads \/ r.missing = {} BY <1>5, <2>1 DEF SubmitRead
  <2> QED BY <2>2, <2>3, QuietAhead
<1>6. ASSUME NEW r \in reads, SubmitWrite(r) PROVE StaysAhead
  <2>1. r.sub.coin \in Coins /\ r.sub \in Pending BY ReadParts DEF Ahead
  <2>2. Inserted(r) = {} /\ Retired(r) = {}
    BY <2>1 DEF Inserted, Retired, Ahead, InventoryFirst
  <2>3. row' = row BY <1>6, <2>2 DEF SubmitWrite, Ahead, TypeOK
  <2>4. net' = net /\ task' = task /\ Busy' = Busy /\ reads' \subseteq reads /\ Pending' \subseteq Pending
    BY <1>6 DEF SubmitWrite, Busy, net
  <2> QED BY <2>3, <2>4, QuietAhead
<1>7. ASSUME (\E s \in submits : SubmitError(s)) \/ (\E r \in reads : SubmitAborts(r))
      PROVE  StaysAhead
  BY <1>7, QuietAhead DEF SubmitError, SubmitAborts, Busy
<1>8. ASSUME Reap \/ \E c \in Coins : LockAges(c) \/ CoolDown(c) PROVE StaysAhead
  BY <1>8, QuietAhead DEF Reap, LockAges, CoolDown, Busy
<1>9. ASSUME NEW p \in Processes, Crash(p) PROVE StaysAhead
  <2>1. \A u \in Busy' : u \in Busy /\ task'[u] = task[u] BY <1>9 DEF Crash, Busy
  <2> QED BY <1>9, <2>1, QuietAhead DEF Crash
\* These are failures of updates and of the network's memory.
<1>10. /\ \A t \in Tasks : ~Archive(t) /\ ~ReleaseError(t) /\ ~ConsumeError(t)
       /\ \A p \in Processes, kind \in Kinds, c \in Coins : ~AcquireLost(p, kind, c)
       /\ \A c \in Coins : ~Forget(c)
  BY DEF Steady, Archive, ReleaseError, ConsumeError, AcquireLost, Forget
<1> QED
  BY <1>1, <1>2, <1>3, <1>4, <1>5, <1>6, <1>7, <1>8, <1>9, <1>10, BroadcastAhead, ConsumeAhead
     DEF Next, Lookup, Send, GiveUp, Book

LEMMA AheadHolds == Steady /\ Spec => []Ahead
<1> SUFFICES ASSUME Steady PROVE Spec => []Ahead
  OBVIOUS
<1>1. Ahead /\ [Next]_vars => Ahead' BY TypeNext, AheadNext DEF Ahead, StaysAhead
<1> QED BY <1>1, AheadInit, PTL DEF Spec

LEMMA AheadIsLedger == Ahead /\ Ahead' /\ [Next]_vars => Ledger!Next \/ Status' = Status
<1>1. Ahead => Fresh BY DEF Ahead, InventoryFirst, Fresh
<1> QED BY <1>1, LedgerNext DEF Ahead

\* As long as the inventory's updates succeed and the network forgets nothing, no output is in the
\* inventory with its parent: locks may be reaped under writers and splitters that use them, who
\* then send one transaction twice, and its submissions overlap.
THEOREM CountedOnceIfSteady == Steady /\ Spec => []NeverCountedTwice
<1>1. Ahead => NeverCountedTwice BY DEF Ahead
<1> QED BY <1>1, AheadHolds, PTL

\* Under these conditions too the inventory is a ledger of coins.
THEOREM SteadyImplementsLedger == Steady /\ Spec => LedgerSpec
<1>1. Ahead /\ Ahead' /\ [Next]_vars => [Ledger!Next]_Status BY AheadIsLedger
<1> QED BY <1>1, LedgerInit, AheadHolds, PTL DEF Spec, LedgerSpec, Ledger!Spec

\* And no step brings back a removed row: what a second submission upserts is there already.
THEOREM NoResurrectionIfSteady == Steady /\ Spec => RemovedIsFinal
<1>1. Ahead /\ Ahead' /\ [Next]_vars
        => [\A c \in Coins : row[c] = "removed" => row'[c] = "removed"]_vars
  BY AheadIsLedger, RetiredStays DEF Ahead
<1> QED BY <1>1, AheadHolds, PTL DEF Spec, RemovedIsFinal

(* The inventory follows the network. *)

Honest ==
  /\ Orderly /\ ~AnswersMayBeLost /\ ~NetworkForgets /\ MaxCrashes = 0
  /\ ~UpdatesMayFail \/ ~SubmitsMayFail
Faithful == Truthful /\ SeenIsRecorded /\ Entered /\ NothingStranded

\* Whoever has spent an output that is live still guards it.
LEMMA OfferedUnspent ==
  ASSUME Books, Truthful, NEW c \in Coins, row[c] = "live"
  PROVE  chain[c] = "unspent" \/ (chain[c] = "spent" /\ Guarded(c))
<1>1. chain[c] \in {"unspent", "spent"} BY DEF Books, Family, Unborn, TypeOK, Truthful
<1>2. ASSUME NEW t \in At("accepted"), task[t].coin = c PROVE Guarded(c)
  BY <1>2 DEF At, Books, Alone
<1>3. ASSUME NEW s \in submits, s.coin = c PROVE Guarded(c)
  BY <1>3 DEF Pending, Books, Alone, Settled
<1> QED BY <1>1, <1>2, <1>3 DEF Truthful, SpentBy

LEMMA FaithfulInit == Honest /\ Init => Faithful
BY DEF Init, Faithful, Truthful, SeenIsRecorded, Entered, NothingStranded, Busy, At, Pending, SpentBy

\* A step keeps the books faithful if it records nothing, spends nothing and leaves the accepted
\* tasks and the submissions as they are.
LEMMA QuietFaithful ==
  ASSUME Books, Faithful, chain' = chain, row' = row, crashes' = crashes, submits' = submits,
         At("accepted")' = At("accepted"),
         \A t \in At("accepted") : task'[t] = task[t],
         \A t \in Busy' \ At("accepted") : task'[t].at # "accepted" /\ chain[task'[t].coin] = "unspent",
         \A r \in reads' :
           r \in reads \/ (r.sub \in submits /\ \A o \in r.sub.outs \ r.missing : row[o] # "absent")
  PROVE  Faithful'
<1> USE DEF Faithful
<1>1. Pending' \subseteq Pending BY DEF Pending
<1>2. (\A t \in Busy : chain[task[t].coin] = IF task[t].at = "accepted" THEN "spent" ELSE "unspent")'
  BY DEF Truthful, At
<1>3. \A c : SpentBy(c)' <=> SpentBy(c) BY DEF SpentBy
<1>4. Truthful' BY <1>1, <1>2, <1>3 DEF Truthful
<1>5. SeenIsRecorded' BY DEF SeenIsRecorded
<1>6. Entered' BY <1>1 DEF Entered
<1>7. NothingStranded' BY DEF NothingStranded
<1> QED BY <1>4, <1>5, <1>6, <1>7

LEMMA BroadcastFaithful ==
  ASSUME Honest, Books, Faithful, NEW t \in Tasks, Broadcast(t) PROVE Faithful'
<1> USE DEF Faithful, posts, table
<1>1. PICK i \in Coins : i = task[t].coin BY BusyIsTask DEF Books, Broadcast, At
<1>2. t \in Busy /\ task[t].at = "holding" /\ task[t].coin = i /\ chain[i] = "unspent"
  BY <1>1 DEF Broadcast, At, Truthful
<1>3. PICK O \in SUBSET Unborn :
        /\ chain' = [c \in Coins |-> IF c \in O THEN chain[i]
                                     ELSE IF c = i /\ chain[c] = "unspent" THEN "spent"
                                     ELSE chain[c]]
        /\ task' = [task EXCEPT ![t].at = "accepted", ![t].outs = O]
  BY <1>2 DEF Broadcast, Answer, Honest
<1>4. row' = row /\ submits' = submits /\ reads' = reads /\ Pending' = Pending /\ crashes' = crashes
  BY DEF Broadcast, Pending
<1>5. \A c \in Coins : chain'[c] = IF c \in O THEN "unspent" ELSE IF c = i THEN "spent" ELSE chain[c]
  BY <1>2, <1>3
<1>6. \A c \in O : c \in Coins /\ chain[c] = "unborn" /\ row[c] = "absent" BY DEF Unborn, Books, Family
<1>7. Busy' = Busy /\ task'[t].coin = i /\ task'[t].at = "accepted" /\ task'[t].outs = O
      /\ \A u \in Busy : u # t => task'[u] = task[u] /\ task[u].coin \in Coins \ {i}
  <2>1. task[t] \in Task BY <1>2, BusyIsTask DEF Books
  <2>2. task'[t] # None
    <3>1. task'[t] = [task[t] EXCEPT !.at = "accepted", !.outs = O] BY <1>3 DEF Books, TypeOK
    <3>2. O \subseteq Coins BY <1>6
    <3>3. task'[t] \in Task BY <2>1, <3>1, <3>2 DEF Task
    <3> QED BY <3>3, NoneAssumption DEF NoneAssumption
  <2>3. \A u \in Tasks : u # t => task'[u] = task[u] BY <1>3 DEF Books, TypeOK
  <2>4. Busy' = Busy BY <1>2, <2>2, <2>3 DEF Busy
  <2>5. task'[t].coin = i /\ task'[t].at = "accepted" /\ task'[t].outs = O
    BY <1>2, <1>3, <2>1 DEF Task, Books, TypeOK
  <2>6. \A u \in Busy : u # t => task[u].coin \in Coins \ {i}
    BY <1>2, BusyIsTask DEF Books, Alone
  <2>7. \A u \in Busy : u \in Tasks BY DEF Busy
  <2> QED BY <2>3, <2>4, <2>5, <2>6, <2>7
<1>8. \A c \in Coins : SpentBy(c) \/ c = i => SpentBy(c)' BY <1>2, <1>4, <1>7 DEF SpentBy, At
<1>9. Truthful'
  <2>1. \A c \in Coins : chain'[c] # "forgotten" BY <1>5 DEF Truthful
  <2>2. (\A u \in Busy : chain[task[u].coin] = IF task[u].at = "accepted" THEN "spent" ELSE "unspent")'
    <3>1. i \notin O BY <1>2, <1>6
    <3>2. \A u \in Busy : u # t => task[u].coin \notin O BY <1>6 DEF Truthful
    <3> QED BY <1>5, <1>7, <3>1, <3>2 DEF Truthful
  <2>3. (\A s \in Pending : chain[s.coin] = "spent")'
    BY <1>4, <1>5, <1>6, SubmissionParts DEF Truthful, Books
  <2>4. ASSUME NEW c \in Coins, chain'[c] = "spent"
        PROVE  row'[c] = "removed" \/ (row'[c] = "live" /\ SpentBy(c)')
    <3>1. CASE c = i
      <4>1. row[i] = "live"
        <5>1. lock[i] # None BY <1>2 DEF Books, Alone, Guarded
        <5> QED BY <5>1 DEF Books, TypeOK
      <4> QED BY <1>4, <1>8, <3>1, <4>1
    <3>2. CASE c # i BY <1>4, <1>5, <1>8, <2>4, <3>2 DEF Truthful
    <3> QED BY <3>1, <3>2
  <2>5. \A c \in Coins : row'[c] = "removed" => chain'[c] = "spent"
    BY <1>4, <1>5, <1>6 DEF Truthful
  <2> QED BY <1>4, <2>1, <2>2, <2>3, <2>4, <2>5 DEF Truthful
<1>10. NothingStranded'
  <2> SUFFICES ASSUME NEW c \in Coins, chain'[c] = "unspent"
               PROVE  \/ row'[c] = "live" \/ \E u \in At("accepted")' : c \in task'[u].outs
                      \/ \E s \in submits' : c \in s.outs
    BY DEF NothingStranded
  <2>1. CASE c \in O BY <1>2, <1>7, <2>1 DEF At
  <2>2. CASE c \notin O
    <3>1. chain[c] = "unspent" BY <1>5, <2>2
    <3>2. \A u \in At("accepted") : u \in At("accepted")' /\ task'[u].outs = task[u].outs
      BY <1>2, <1>7 DEF At
    <3> QED BY <1>4, <3>1, <3>2 DEF NothingStranded
  <2> QED BY <2>1, <2>2
<1>11. SeenIsRecorded' /\ Entered' BY <1>4 DEF SeenIsRecorded, Entered
<1> QED BY <1>9, <1>10, <1>11

\* The outputs of an accepted task go on into the inventory or into a submission.
LEMMA BookFaithful ==
  ASSUME Honest, Books, Faithful, NEW t \in Tasks, Book(t) PROVE Faithful'
<1> USE DEF Faithful
<1>1. PICK i \in Coins, O \in SUBSET Coins : i = task[t].coin /\ O = task[t].outs
  BY BusyIsTask DEF Books, Book, Consume, ConsumeError, At, Task
<1>2. /\ t \in Busy /\ task[t].at = "accepted" /\ task[t].coin = i /\ task[t].outs = O
      /\ chain[i] = "spent" /\ row[i] = "live"
  <2>1. t \in Busy /\ task[t].at = "accepted" BY DEF Book, Consume, ConsumeError, At
  <2>2. chain[i] = "spent" BY <1>1, <2>1 DEF Truthful
  <2>3. lock[i] # None BY <1>1, <2>1 DEF Books, Alone, Guarded
  <2> QED BY <1>1, <2>1, <2>2, <2>3 DEF Books, TypeOK
<1>3. chain' = chain /\ reads' = reads /\ crashes' = crashes
  BY DEF Book, Consume, ConsumeError, net
<1>4. PICK q : q = [coin |-> i, outs |-> O] OBVIOUS
<1>5. /\ q.coin = i /\ q.outs = O /\ submits' = submits \cup {q} /\ Pending' = Pending \cup {q}
  BY <1>1, <1>4 DEF Book, Consume, ConsumeError, SubmitOf, Pending
<1>6. Busy' = Busy \ {t} /\ \A u \in Busy' : task'[u] = task[u]
  BY <1>2 DEF Book, Consume, ConsumeError, End, Busy, Books, TypeOK
<1>7. \A o \in O : o \in Coins /\ row[o] = "absent" /\ chain[o] # "spent" /\ o # i
  BY <1>1, <1>2, LiveInput DEF Books, Family, Related, Truthful
<1>8. \/ row' = [c \in Coins |-> IF c \in O THEN "live" ELSE IF c = i THEN "removed" ELSE row[c]]
      \/ row' = row /\ UpdatesMayFail
  BY <1>1, <1>2 DEF Book, Consume, ConsumeError, Consumable, table
<1>9. \A c \in Coins : SpentBy(c) => SpentBy(c)' BY <1>1, <1>2, <1>5, <1>6 DEF SpentBy, At
<1>10. Truthful'
  <2>1. (\A u \in Busy : chain[task[u].coin] = IF task[u].at = "accepted" THEN "spent" ELSE "unspent")'
    BY <1>3, <1>6 DEF Truthful
  <2>2. (\A s \in Pending : chain[s.coin] = "spent")' BY <1>2, <1>3, <1>5 DEF Truthful
  <2>3. \A c \in Coins : chain'[c] = "spent" => row'[c] = "removed" \/ (row'[c] = "live" /\ SpentBy(c)')
    BY <1>3, <1>7, <1>8, <1>9 DEF Truthful
  <2>4. \A c \in Coins : row'[c] = "removed" => chain'[c] = "spent"
    BY <1>2, <1>3, <1>8 DEF Truthful
  <2> QED BY <1>3, <2>1, <2>2, <2>3, <2>4 DEF Truthful
<1>11. NothingStranded'
  <2> SUFFICES ASSUME NEW c \in Coins, chain'[c] = "unspent"
               PROVE  \/ row'[c] = "live" \/ \E u \in At("accepted")' : c \in task'[u].outs
                      \/ \E s \in submits' : c \in s.outs
    BY DEF NothingStranded
  <2>1. \A u \in At("accepted") : u = t \/ (u \in At("accepted")' /\ task'[u].outs = task[u].outs)
    BY <1>2, <1>6 DEF At
  <2>2. c # i /\ (row[c] = "live" => row'[c] = "live") BY <1>2, <1>3, <1>8
  <2> QED BY <1>2, <1>3, <1>5, <2>1, <2>2 DEF NothingStranded
<1>12. \A c \in Coins : row[c] # "absent" => row'[c] # "absent" BY <1>8
<1>13. SeenIsRecorded' BY <1>3, <1>12, ReadParts DEF SeenIsRecorded, Books
<1>14. Entered'
  <2>1. \A c \in Coins : row[c] = "removed" => row'[c] = "removed" BY <1>7, <1>8
  <2> QED BY <1>5, <1>7, <1>8, <1>12, <2>1, SubmissionParts DEF Entered, Books
<1> QED BY <1>10, <1>11, <1>13, <1>14

\* A posting that ends retires the input and has recorded every output.
LEMMA WriteFaithful ==
  ASSUME Honest, Books, Faithful, NEW r \in reads, SubmitWrite(r) PROVE Faithful'
<1> USE DEF Faithful
<1>1. /\ r.sub \in Pending /\ r.sub.coin \in Coins /\ r.sub.outs \subseteq Coins
      /\ r.missing \subseteq r.sub.outs /\ row[r.sub.coin] # "absent" /\ chain[r.sub.coin] = "spent"
  BY ReadParts DEF Books, Fresh, Family, Related, Truthful
<1>2. /\ chain' = chain /\ task' = task /\ Busy' = Busy /\ crashes' = crashes
      /\ reads' = reads \ {r} /\ submits' \in {submits, submits \ {r.sub}} /\ Pending' \subseteq Pending
  BY DEF SubmitWrite, net, Busy, Pending
<1>3. \A c \in Coins : row'[c] = IF c \in r.missing THEN "live"
                                 ELSE IF c = r.sub.coin THEN "removed" ELSE row[c]
  BY <1>1 DEF SubmitWrite, Inserted, Retired, Books, TypeOK
<1>4. \A o \in r.missing : o \in Coins /\ row[o] = "absent" /\ o # r.sub.coin
  BY <1>1 DEF Books, Fresh
<1>5. \A c \in Coins : row[c] # "absent" => row'[c] # "absent" BY <1>3
<1>6. \A c \in Coins : row[c] = "removed" => row'[c] = "removed" BY <1>3, <1>4
<1>7. \A o \in r.sub.outs : row'[o] # "absent" BY <1>1, <1>3 DEF SeenIsRecorded
<1>8. Truthful'
  <2>1. (\A t \in Busy : chain[task[t].coin] = IF task[t].at = "accepted" THEN "spent" ELSE "unspent")'
    BY <1>2 DEF Truthful
  <2>2. (\A s \in Pending : chain[s.coin] = "spent")' BY <1>2 DEF Truthful
  <2>3. \A c \in Coins : c # r.sub.coin /\ SpentBy(c) => SpentBy(c)' BY <1>2 DEF SpentBy, At
  <2>4. row'[r.sub.coin] = "removed" BY <1>1, <1>3, <1>4
  <2>5. \A c \in Coins : chain'[c] = "spent" => row'[c] = "removed" \/ (row'[c] = "live" /\ SpentBy(c)')
    BY <1>2, <1>3, <1>4, <2>3, <2>4 DEF Truthful
  <2>6. \A c \in Coins : row'[c] = "removed" => chain'[c] = "spent" BY <1>1, <1>2, <1>3 DEF Truthful
  <2> QED BY <1>2, <2>1, <2>2, <2>5, <2>6 DEF Truthful
<1>9. NothingStranded'
  <2> SUFFICES ASSUME NEW c \in Coins, chain'[c] = "unspent"
               PROVE  \/ row'[c] = "live" \/ \E u \in At("accepted")' : c \in task'[u].outs
                      \/ \E s \in submits' : c \in s.outs
    BY DEF NothingStranded
  <2>1. row'[c] # "removed" BY <1>8 DEF Truthful
  <2>2. CASE c \in r.sub.outs BY <1>3, <1>7, <2>1, <2>2 DEF Books, TypeOK
  <2>3. CASE c \notin r.sub.outs
    <3>1. \A s \in submits : c \in s.outs => s \in submits' BY <1>2, <2>3
    <3>2. At("accepted")' = At("accepted") BY <1>2 DEF At
    <3>3. row[c] = "live" => row'[c] = "live" BY <1>3, <2>1
    <3> QED BY <1>2, <3>1, <3>2, <3>3 DEF NothingStranded
  <2> QED BY <2>2, <2>3
<1>10. SeenIsRecorded' BY <1>2, <1>5, ReadParts DEF SeenIsRecorded, Books
<1>11. Entered' BY <1>2, <1>5, <1>6, SubmissionParts DEF Entered, Books
<1> QED BY <1>8, <1>9, <1>10, <1>11

\* A submission may be given up only where the inventory's own update has recorded it.
LEMMA SubmitErrorFaithful ==
  ASSUME Honest, Books, Faithful, NEW s \in submits, SubmitError(s) PROVE Faithful'
<1> USE DEF Faithful, net, table
<1>1. ~UpdatesMayFail
  <2>1. SubmitsMayFail BY DEF SubmitError, Truthful
  <2> QED BY <2>1 DEF Honest
<1>2. s \in Pending /\ s.outs \subseteq Coins /\ s.coin \in Coins BY SubmissionParts DEF Pending, Books
<1>3. row[s.coin] = "removed" /\ \A o \in s.outs : row[o] # "absent" BY <1>1, <1>2 DEF Entered
<1>4. /\ chain' = chain /\ row' = row /\ task' = task /\ reads' = reads /\ crashes' = crashes
      /\ submits' = submits \ {s} /\ Busy' = Busy /\ Pending' \subseteq Pending
      /\ At("accepted")' = At("accepted")
  BY DEF SubmitError, Busy, Pending, At
<1>5. Truthful'
  <2>1. \A c \in Coins : row[c] = "live" /\ SpentBy(c) => SpentBy(c)' BY <1>3, <1>4 DEF SpentBy
  <2> QED BY <1>4, <2>1 DEF Truthful
<1>6. NothingStranded'
  <2>1. \A c \in s.outs : row[c] = "live" \/ chain[c] = "spent"
    BY <1>2, <1>3 DEF Truthful, Books, TypeOK
  <2> QED BY <1>4, <2>1 DEF NothingStranded
<1> QED BY <1>4, <1>5, <1>6 DEF SeenIsRecorded, Entered

LEMMA GiveUpFaithful ==
  ASSUME Honest, Books, Faithful, NEW t \in Tasks, GiveUp(t) PROVE Faithful'
<1>1. /\ t \in At("failed") /\ End(t) /\ chain' = chain /\ row' = row /\ crashes' = crashes
      /\ submits' = submits /\ reads' = reads
  BY DEF GiveUp, Release, Archive, ReleaseError, Honest, net, table, posts
<1>2. Busy' = Busy \ {t} /\ \A u \in Busy' : task'[u] = task[u]
  BY <1>1 DEF End, Busy, At, Books, TypeOK
<1>3. At("accepted")' = At("accepted") /\ \A u \in At("accepted") : task'[u] = task[u]
  BY <1>1, <1>2 DEF At
<1>4. \A u \in Busy' \ At("accepted") : task'[u].at # "accepted" /\ chain[task'[u].coin] = "unspent"
  BY <1>2 DEF At, Faithful, Truthful
<1> QED BY <1>1, <1>3, <1>4, QuietFaithful

LEMMA SendFaithful ==
  ASSUME Honest, Books, Faithful, NEW t \in Tasks, Send(t) PROVE Faithful'
<1>1. CASE Broadcast(t) BY <1>1, BroadcastFaithful
<1>2. ~Rebroadcast(t) BY DEF Rebroadcast, At, Faithful, Truthful
<1>3. CASE BroadcastFails(t)
  <2>1. /\ t \in At("holding") /\ task' = [task EXCEPT ![t].at = "failed"] /\ chain' = chain
        /\ row' = row /\ crashes' = crashes /\ submits' = submits /\ reads' = reads
    BY <1>3 DEF BroadcastFails, Goes, net, table, posts
  <2>2. \A u \in Tasks : u # t => task'[u] = task[u] BY <2>1 DEF Books, TypeOK
  <2>3. t \in Tasks /\ task'[t].at = "failed" /\ task'[t].coin = task[t].coin
    BY <2>1, BusyIsTask DEF At, Task, Books, TypeOK
  <2>4. \A u \in Busy' : u \in Tasks /\ (u # t => u \in Busy) BY <2>2 DEF Busy
  <2>5. At("accepted")' = At("accepted")
    <3>1. \A u \in Tasks : u # t => (u \in At("accepted")' <=> u \in At("accepted"))
      BY <2>2 DEF At, Busy
    <3>2. t \notin At("accepted")' /\ t \notin At("accepted") BY <2>1, <2>3 DEF At
    <3> QED BY <3>1, <3>2 DEF At, Busy
  <2>6. \A u \in At("accepted") : task'[u] = task[u] BY <2>1, <2>2 DEF At, Busy
  <2>7. ASSUME NEW u \in Busy' \ At("accepted")
        PROVE  task'[u].at # "accepted" /\ chain[task'[u].coin] = "unspent"
    <3>1. t \in Busy /\ chain[task[t].coin] = "unspent" BY <2>1 DEF At, Faithful, Truthful
    <3>2. u # t => u \in Busy /\ task[u].at # "accepted" /\ chain[task[u].coin] = "unspent"
      BY <2>4 DEF At, Faithful, Truthful
    <3> QED BY <2>2, <2>3, <2>4, <3>1, <3>2
  <2> QED BY <2>1, <2>5, <2>6, <2>7, QuietFaithful
<1> QED BY <1>1, <1>2, <1>3 DEF Send

LEMMA FaithfulNext ==
  ASSUME Honest, Books, Faithful, [Next]_vars PROVE Faithful'
<1> USE DEF net, table, posts
<1>1. CASE UNCHANGED vars BY <1>1, QuietFaithful DEF vars, At, Busy, Faithful, Truthful
<1>2. ASSUME NEW t \in Tasks, Lookup(t) PROVE Faithful'
  <2>1. PICK p \in Processes, kind \in Kinds, c \in Coins : Acquire(t, p, kind, c)
    BY <1>2 DEF Lookup
  <2>2. chain[c] = "unspent"
    <3>1. row[c] = "live" /\ lock[c] = None BY <2>1 DEF Acquire, LockRow, Acquirable, Allowed
    <3> QED BY <3>1, OfferedUnspent DEF Faithful, Guarded
  <2>3. /\ t \notin Busy /\ task'[t].at = "holding" /\ task'[t].coin = c
        /\ \A u \in Tasks : u # t => task'[u] = task[u]
    BY <2>1 DEF Acquire, Books, TypeOK
  <2>4. At("accepted")' = At("accepted") /\ \A u \in At("accepted") : task'[u] = task[u]
    BY <2>3 DEF At, Busy
  <2>5. \A u \in Busy' \ At("accepted") : task'[u].at # "accepted" /\ chain[task'[u].coin] = "unspent"
    BY <2>2, <2>3 DEF At, Busy, Faithful, Truthful
  <2> QED BY <2>1, <2>4, <2>5, QuietFaithful DEF Acquire, LockRow
<1>3. ASSUME NEW p \in Processes, NEW kind \in Kinds, NEW c \in Coins, AcquireLost(p, kind, c)
      PROVE  Faithful'
  BY <1>3, QuietFaithful DEF AcquireLost, LockRow, At, Busy, Faithful, Truthful
<1>4. ASSUME NEW s \in submits, NEW n \in 1 .. 2, SubmitRead(s, n) PROVE Faithful'
  <2>1. \A o \in s.outs : o \in Coins BY SubmissionParts DEF Pending, Books
  <2>2. \A r \in reads' :
          r \in reads \/ (r.sub \in submits /\ \A o \in r.sub.outs \ r.missing : row[o] # "absent")
    BY <1>4, <2>1 DEF SubmitRead, Missing
  <2> QED BY <1>4, <2>2, QuietFaithful DEF SubmitRead, At, Busy, Faithful, Truthful
<1>5. ASSUME NEW r \in reads, SubmitAborts(r) PROVE Faithful'
  BY <1>5, QuietFaithful DEF SubmitAborts, At, Busy, Faithful, Truthful
<1>6. ASSUME (\E c \in Coins : LockAges(c) \/ CoolDown(c)) \/ Reap PROVE Faithful'
  BY <1>6, QuietFaithful DEF LockAges, CoolDown, Reap, At, Busy, Faithful, Truthful
<1>7. ASSUME NEW c \in Coins, Forget(c) PROVE Faithful' BY <1>7 DEF Forget, Honest
<1>8. ASSUME NEW p \in Processes, Crash(p) PROVE Faithful'
  BY <1>8 DEF Crash, Honest, Faithful, Truthful
<1> QED BY <1>1, <1>2, <1>3, <1>4, <1>5, <1>6, <1>7, <1>8, SendFaithful, GiveUpFaithful, BookFaithful,
      WriteFaithful, SubmitErrorFaithful DEF Next

LEMMA FaithfulHolds == Honest /\ Spec => [](Books /\ Faithful)
<1> SUFFICES ASSUME Honest PROVE Spec => [](Books /\ Faithful)
  OBVIOUS
<1>1. Orderly BY DEF Honest
<1>2. Init => Faithful BY FaithfulInit
<1>3. Books /\ Faithful /\ [Next]_vars => Faithful' BY FaithfulNext
<1> QED BY <1>1, <1>2, <1>3, BooksHold, PTL DEF Spec

\* While answers are definite, processes stay up and one of the two ways of recording works, the
\* inventory offers no output that is already spent: not between the network's acceptance and the
\* bookkeeping, not when an update throws and only the overlay learns of the transaction, not after
\* the reaper has freed what a lost acquisition left locked.
THEOREM OffersUnspentOnly == Honest /\ Spec => []NeverOffersSpent
<1>1. Books /\ Faithful => NeverOffersSpent
  BY OfferedUnspent DEF NeverOffersSpent, Faithful, Guarded
<1> QED BY <1>1, FaithfulHolds, PTL

\* Under the same conditions every unspent output is in the inventory, or is carried there by an
\* accepted task or a submission: no change and no split output is stranded.
THEOREM NoChangeStranded == Honest /\ Spec => []NothingStranded
<1>1. Faithful => NothingStranded BY DEF Faithful
<1> QED BY <1>1, FaithfulHolds, PTL

=============================================================================
