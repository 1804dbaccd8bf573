--------------------------- MODULE CheckSchedule ---------------------------
(* The writer's in-memory schedule of confirmation checks: a map of tracked txids, a heap of due  *)
(* items with generations, and checks that run un-awaited and reschedule themselves.              *)
EXTENDS Naturals, FiniteSets

CONSTANTS
  Txids,             \* accepted transactions
  Resent,            \* those the network accepts a second time: same input, same payload, same txid
  Untracked,         \* no entry in pendingConfirmationByTxid
  MaxTracked,        \* CONFIRMATION_MAX_TRACKED_TXIDS
  MaxChecks,         \* MAX_CONFIRMATION_CHECK_ATTEMPTS
  CheckConcurrency   \* CONFIRMATION_MAX_CONCURRENCY

ASSUME ScheduleAssumption ==
  /\ IsFiniteSet(Txids) /\ Resent \subseteq Txids
  /\ MaxTracked \in Nat /\ MaxChecks \in Nat \ {0} /\ CheckConcurrency \in Nat \ {0}
  /\ Untracked \notin [gen : Nat, attempts : 0..MaxChecks]

Writes == (Txids \X {1}) \cup (Resent \X {2})   \* calls of writeToChain that are accepted

VARIABLES
  enqueued,   \* writes that have called enqueueConfirmationCheck
  tracked,    \* pendingConfirmationByTxid
  chase,      \* the heap item or the running check that a write's call has led to
  wocBackoff  \* 'whatsonchain' is in broadcastBackoffUntilByChannel

scheduleVars == <<enqueued, tracked, chase, wocBackoff>>

TrackState == [gen : Nat, attempts : 0..MaxChecks]
Chase      == [at : {"idle", "due", "asked"}, gen : Nat, attempts : 0..MaxChecks]
Idle       == [at |-> "idle", gen |-> 0, attempts |-> 0]

ScheduleTypeOK ==
  /\ enqueued \subseteq Writes
  /\ tracked \in [Txids -> TrackState \cup {Untracked}]
  /\ chase \in [Writes -> Chase]
  /\ wocBackoff \in BOOLEAN

Tracked  == {t \in Txids : tracked[t] # Untracked}
Checking == {w \in Writes : chase[w].at = "asked"}

ScheduleInit ==
  /\ enqueued = {}
  /\ tracked = [t \in Txids |-> Untracked] /\ chase = [w \in Writes |-> Idle]
  /\ wocBackoff = FALSE

----------------------------------------------------------------------------
\* A new state object in the map and an item of its generation on the heap.
Scheduled(w, gen, attempts) ==
  /\ tracked' = [tracked EXCEPT ![w[1]] = [gen |-> gen, attempts |-> attempts]]
  /\ chase' = [chase EXCEPT ![w] = [at |-> "due", gen |-> gen, attempts |-> attempts]]

NeverFull == FALSE
Full      == Cardinality(Tracked) >= MaxTracked

\* After the bookkeeping of an accepted write; a new txid is skipped when the map is full.
EnqueueConfirmationCheck(w) ==
  LET existing == tracked[w[1]]
  IN  /\ w \notin enqueued /\ (w[2] = 2 => <<w[1], 1>> \in enqueued)
      /\ enqueued' = enqueued \cup {w}
      /\ \/ /\ existing = Untracked /\ Full
            /\ UNCHANGED <<tracked, chase>>
         \/ /\ existing = Untracked /\ ~Full
            /\ Scheduled(w, 1, 0)
         \/ /\ existing # Untracked
            /\ Scheduled(w, existing.gen + 1, existing.attempts)
      /\ UNCHANGED wocBackoff

ExhaustedLate(state) == state.attempts > MaxChecks
Exhausted(state)     == state.attempts >= MaxChecks
Current(w) == tracked[w[1]] # Untracked /\ tracked[w[1]].gen = chase[w].gen

\* The scheduler pops a due item: it is dropped when another has superseded it, ...
Popped(w) == chase[w].at = "due" /\ ~wocBackoff /\ Cardinality(Checking) < CheckConcurrency

DropSuperseded(w) ==
  /\ Popped(w) /\ ~Current(w)
  /\ chase' = [chase EXCEPT ![w] = Idle]
  /\ UNCHANGED <<enqueued, tracked, wocBackoff>>

\* ... given up when its attempts are used up or it is too old, which may be at any time, ...
GiveUp(w) ==
  /\ Popped(w) /\ Current(w)
  /\ tracked' = [tracked EXCEPT ![w[1]] = Untracked]
  /\ chase' = [chase EXCEPT ![w] = Idle]
  /\ UNCHANGED <<enqueued, wocBackoff>>

\* ... and otherwise checked, with the state object that is in the map now.
RunCheck(w) ==
  /\ Popped(w) /\ Current(w) /\ ~Exhausted(tracked[w[1]])
  /\ chase' = [chase EXCEPT ![w] = [at |-> "asked", gen |-> tracked[w[1]].gen,
                                    attempts |-> tracked[w[1]].attempts]]
  /\ UNCHANGED <<enqueued, tracked, wocBackoff>>

RescheduledAsIs(w) == Scheduled(w, chase[w].gen, chase[w].attempts)
RescheduledOldItem(w) ==
  /\ tracked' = [tracked EXCEPT ![w[1]] = [gen |-> chase[w].gen + 1, attempts |-> chase[w].attempts + 1]]
  /\ chase' = [chase EXCEPT ![w] = [@ EXCEPT !.at = "due"]]

\* The state the check was started with, not the one in the map, is carried on.
Rescheduled(w) == Scheduled(w, chase[w].gen + 1, chase[w].attempts + 1)

\* Mined, and tx_log says so: the entry goes, whoever wrote it.
CheckSettles(w) ==
  /\ chase[w].at = "asked"
  /\ tracked' = [tracked EXCEPT ![w[1]] = Untracked]
  /\ chase' = [chase EXCEPT ![w] = Idle]
  /\ UNCHANGED <<enqueued, wocBackoff>>

\* Pending, not found, an error status or an exception; the last two may set the back-off.
CheckAgain(w) ==
  /\ chase[w].at = "asked"
  /\ Rescheduled(w)
  /\ wocBackoff' \in {wocBackoff, TRUE}
  /\ UNCHANGED enqueued

\* A broadcast through the same channel is rate-limited; a back-off runs out.
BroadcastBacksOff ==
  ~wocBackoff /\ wocBackoff' = TRUE /\ UNCHANGED <<enqueued, tracked, chase>>
BackoffRunsOut ==
  wocBackoff /\ wocBackoff' = FALSE /\ UNCHANGED <<enqueued, tracked, chase>>

PopStep(w) == DropSuperseded(w) \/ GiveUp(w) \/ RunCheck(w)

ScheduleNext ==
  \/ \E w \in Writes : EnqueueConfirmationCheck(w) \/ PopStep(w) \/ CheckSettles(w) \/ CheckAgain(w)
  \/ BroadcastBacksOff \/ BackoffRunsOut

ScheduleSpec == ScheduleInit /\ [][ScheduleNext]_scheduleVars

----------------------------------------------------------------------------
\* A txid in the map is always followed: an item of its generation is on the heap, or a check of
\* its generation is running. Overlapping checks of one txid, which reschedule from the state they
\* were started with, must not leave an entry that holds a place in the map and is never looked at.
NeverForgotten ==
  \A t \in Tracked : \E w \in Writes :
    /\ w[1] = t /\ chase[w].at # "idle" /\ chase[w].gen = tracked[t].gen

\* The map is bounded, though a check that outlives its txid's entry puts the entry back: it grows
\* beyond its capacity by the checks in flight at most.
TrackerBounded == Cardinality(Tracked) <= MaxTracked + CheckConcurrency

\* Tracking ends: every entry leaves the map, whatever the network answers and although broadcasts
\* keep setting the back-off.
TrackingEnds == \A t \in Txids : []<>(t \notin Tracked)

=============================================================================
