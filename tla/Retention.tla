----------------------------- MODULE Retention -----------------------------
(* The daily retention pass (retention.ts): a marker of the last run and an advisory lock decide  *)
(* which process makes it. Every statement takes some connection of the pool, and the lock belongs*)
(* to the session it was taken on, which is the connection's own or, through a pooler in          *)
(* transaction mode, one that statements of all processes share.                                  *)
EXTENDS Naturals

CONSTANTS
  Schedulers,     \* worker processes, numbered
  Connections,    \* connections of a pool, numbered
  BatchesPerPass, \* a table's cap, in full batches
  MaxHolds        \* bound: how often a session holds the lock at a time

ASSUME RetentionAssumption ==
  /\ Schedulers \subseteq Nat \ {0} /\ Connections \subseteq Nat \ {0}
  /\ {BatchesPerPass, MaxHolds} \subseteq Nat \ {0}

VARIABLES
  pooled,    \* the processes share sessions, as db.ts has it by default with a Supabase pooler
  due,       \* last_run_ms is an interval ago, and the hour has come
  advisory,  \* the session that holds the lock and how often, as such a lock counts
  tick,      \* where a scheduler's tick is, its lock's session till the marker, this table's batches
  passes,    \* history: the passes each scheduler has begun since the last interval elapsed
  lockLost   \* history: since then a session ended between a lock on it and the marker

retentionVars == <<pooled, due, advisory, tick, passes, lockLost>>

\* The pooler's sessions are those of process 0.
Session(p, c) == IF pooled THEN <<0, c>> ELSE <<p, c>>
Sessions == {<<p, c>> : p \in Schedulers \cup {0}, c \in Connections}
NoSession == <<0, 0>>

\* Readings, tx_log, compaction, spent outputs, submissions.
LastTable == 5

Tick(at, session, table, batches) ==
  [at |-> at, session |-> session, table |-> table, batches |-> batches]
Asleep == Tick("asleep", NoSession, 0, 0)

RetentionTypeOK ==
  /\ pooled \in BOOLEAN /\ due \in BOOLEAN /\ lockLost \in BOOLEAN
  /\ advisory \in [session : Sessions \cup {NoSession}, depth : 0..MaxHolds]
  /\ tick \in [Schedulers -> [at : {"asleep", "due", "locked", "still due", "deleting", "unlocking"},
                             session : Sessions \cup {NoSession}, table : 0..LastTable,
                             batches : 0..BatchesPerPass]]
  /\ passes \in [Schedulers -> Nat]

RetentionInit ==
  /\ pooled \in BOOLEAN /\ due = FALSE /\ advisory = [session |-> NoSession, depth |-> 0]
  /\ tick = [p \in Schedulers |-> Asleep]
  /\ passes = [p \in Schedulers |-> 0] /\ lockLost = FALSE

----------------------------------------------------------------------------
uncounted == <<pooled, passes, lockLost>>

Steps(p, at) == tick' = [tick EXCEPT ![p].at = at]
Sleeps(p)    == tick' = [tick EXCEPT ![p] = Asleep]
GivesBack(p) == tick' = [tick EXCEPT ![p] = Tick("unlocking", NoSession, 0, 0)]
AtTable(p)   == tick[p].at = "deleting"

TickFindsDue(p) ==
  /\ tick[p].at = "asleep" /\ due
  /\ Steps(p, "due") /\ UNCHANGED <<due, advisory, uncounted>>

\* pg_try_advisory_lock: the session that holds the lock gets it once more.
Locks(session) ==
  /\ advisory.session \in {NoSession, session} /\ advisory.depth < MaxHolds
  /\ advisory' = [session |-> session, depth |-> advisory.depth + 1]
LockTaken(p) ==
  /\ tick[p].at = "due"
  /\ \E c \in Connections :
       /\ Locks(Session(p, c))
       /\ tick' = [tick EXCEPT ![p] = Tick("locked", Session(p, c), 0, 0)]
  /\ UNCHANGED <<due, uncounted>>
\* It was executed and its connection fails: query() tries again, or gives up.
LockAnswerLost(p) ==
  /\ tick[p].at = "due" /\ \E c \in Connections : Locks(Session(p, c))
  /\ UNCHANGED tick \/ Sleeps(p)
  /\ UNCHANGED <<due, uncounted>>
\* Another session has it, or the query fails.
LockNotTaken(p) ==
  /\ tick[p].at = "due" /\ Sleeps(p) /\ UNCHANGED <<due, advisory, uncounted>>

Recheck(p) ==
  /\ tick[p].at = "locked"
  /\ IF due THEN Steps(p, "still due") ELSE GivesBack(p)
  /\ UNCHANGED <<due, advisory, uncounted>>

\* The marker is written before the work.
MarkedAfterWork == due
Marked          == FALSE
Claim(p) ==
  /\ tick[p].at = "still due"
  /\ due' = Marked /\ passes' = [passes EXCEPT ![p] = @ + 1]
  /\ tick' = [tick EXCEPT ![p] = Tick("deleting", NoSession, 1, 0)]
  /\ UNCHANGED <<pooled, advisory, lockLost>>
\* The second reading of the marker, or its writing, which may have been executed.
ClaimFails(p) ==
  /\ tick[p].at = "still due"
  /\ due' \in {due, FALSE}
  /\ GivesBack(p) /\ UNCHANGED <<advisory, uncounted>>

----------------------------------------------------------------------------
(* runRetention: one table after the other, each in batches up to its cap.   *)

TableEnds(p) ==
  IF tick[p].table = LastTable THEN GivesBack(p)
  ELSE tick' = [tick EXCEPT ![p] = Tick("deleting", NoSession, @.table + 1, 0)]

NeverCapped(n) == FALSE
Capped(n)      == n >= BatchesPerPass

\* Rows go on growing old, so a batch may be full whatever was deleted before. (The cap keeps the
\* count below the modulus, which only bounds the state.)
FullBatch(p) ==
  /\ AtTable(p)
  /\ IF Capped(tick[p].batches + 1) THEN TableEnds(p)
     ELSE tick' = [tick EXCEPT ![p].batches = (@ + 1) % (BatchesPerPass + 1)]
  /\ UNCHANGED <<due, advisory, uncounted>>
ShortBatch(p) ==
  /\ AtTable(p) /\ TableEnds(p) /\ UNCHANGED <<due, advisory, uncounted>>

PassFails(p) ==
  /\ AtTable(p) /\ GivesBack(p) /\ UNCHANGED <<due, advisory, uncounted>>

\* pg_advisory_unlock, on whatever connection the pool gives: on another one it does nothing, and
\* its failure is ignored.
FreedOnce == [session |-> IF advisory.depth = 1 THEN NoSession ELSE advisory.session,
              depth |-> advisory.depth - 1]
Unlock(p) ==
  /\ tick[p].at = "unlocking" /\ Sleeps(p)
  /\ \/ UNCHANGED advisory
     \/ advisory' = FreedOnce /\ \E c \in Connections : advisory.session = Session(p, c)
  /\ UNCHANGED <<due, uncounted>>

----------------------------------------------------------------------------
NoLock == [session |-> NoSession, depth |-> 0]

\* The process is restarted; a pooler keeps its sessions. (Before the marker is read again is as
\* good as after it.)
SchedulerExits(p) ==
  /\ tick[p].at \notin {"asleep", "locked"} /\ Sleeps(p)
  /\ advisory' = IF advisory.session[1] = p THEN NoLock ELSE advisory
  /\ UNCHANGED <<due, uncounted>>

\* p has its lock, and its marker is not written yet.
Between(p) == tick[p].at \in {"locked", "still due"}

\* A connection is closed when it is idle for 30 s, fails, or is dropped by the server or the pooler.
\* The scheduler does not hear of it: its next statement takes another one.
SessionEnds ==
  /\ advisory.session # NoSession /\ advisory' = NoLock
  /\ lockLost' = \/ lockLost
                  \/ \E p \in Schedulers : Between(p) /\ tick[p].session = advisory.session
  /\ UNCHANGED <<pooled, due, tick, passes>>

\* A pass takes less than an interval.
IntervalElapses ==
  /\ ~due /\ \A p \in Schedulers : tick[p].at = "asleep"
  /\ due' = TRUE /\ passes' = [p \in Schedulers |-> 0] /\ lockLost' = FALSE
  /\ UNCHANGED <<pooled, advisory, tick>>

PassStep(p) ==
  \/ TickFindsDue(p) \/ LockTaken(p) \/ LockAnswerLost(p) \/ LockNotTaken(p)
  \/ Recheck(p) \/ Claim(p) \/ ClaimFails(p)
  \/ FullBatch(p) \/ ShortBatch(p) \/ PassFails(p) \/ Unlock(p)

RetentionNext ==
  \/ \E p \in Schedulers : PassStep(p) \/ SchedulerExits(p)
  \/ SessionEnds \/ IntervalElapses

RetentionSpec == RetentionInit /\ [][RetentionNext]_retentionVars

----------------------------------------------------------------------------
\* What retention.ts says of the lock, that it "guards against two processes racing": one scheduler
\* at the most makes the pass of an interval. (It is not so: run `retention_race`.)
OnePassAnInterval == \A p, q \in Schedulers : passes[p] > 0 /\ passes[q] > 0 => p = q

\* What is true of it. No scheduler passes twice in an interval, however it is restarted in the
\* middle of a pass and whatever becomes of the lock, as the marker is written before the work. And
\* where each process has its own sessions, two of them pass only if the session of a lock ended
\* before the marker was written: locks left behind, taken without an answer or freed by nobody,
\* and failing markers are not enough.
SecondPassNeedsLostLock ==
  /\ \A p \in Schedulers : passes[p] <= 1
  /\ ~OnePassAnInterval => pooled \/ lockLost

\* One pass may be claimed and not made, but passes go on being made although the unlocking may miss
\* the session that holds the lock; and each ends although rows grow old as fast as they are deleted.
RetentionGoesOn ==
  /\ []<>due => []<>(\E p \in Schedulers : tick[p].at = "deleting")
  /\ \A p \in Schedulers : []<>(tick[p].at = "asleep")

----------------------------------------------------------------------------
(* Why one pass is made: what else is true in every state.                   *)

\* A lock that counts is some session's, and a session's lock counts.
LocksAreCounted == advisory.session = NoSession <=> advisory.depth = 0

\* Who has passed has written the marker, and begins nothing anew before the interval elapses.
PassedIsMarked ==
  \A p \in Schedulers : passes[p] > 0 =>
    passes[p] = 1 /\ ~due /\ tick[p].at \notin {"due", "locked", "still due"}

\* Between its lock and its marker a scheduler has the lock on a session of its own, and nobody else
\* has written the marker.
LockBacksPass ==
  \A p \in Schedulers : Between(p) =>
    /\ advisory.session = tick[p].session /\ advisory.session[1] = p
    /\ tick[p].at = "still due" => due

\* An interval whose marker is not written yet has no pass.
DueIsUnpassed == due => \A p \in Schedulers : passes[p] = 0
=============================================================================
