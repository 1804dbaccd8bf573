--------------------------- MODULE ProviderFetch ---------------------------
(* fetchWithRetry (provider-fetch.ts): requests to a provider under a budget of stores.ts, with   *)
(* retries and with the validators (ETag, Last-Modified) that let it answer 304.                  *)
EXTENDS Naturals

CONSTANTS
  Fetches,     \* callers that share a provider and a validator
  Retries,     \* opts.retries
  PerSecond,   \* the budget's limits
  PerDay,
  MaxVersion   \* bound: versions the provider serves

ASSUME FetchAssumption ==
  Retries \in Nat /\ PerSecond \in Nat \ {0} /\ PerDay \in Nat \ {0} /\ MaxVersion \in Nat \ {0}

Versions == 1..MaxVersion
NoVersion == 0

VARIABLES
  version,    \* what the provider serves now
  validator,  \* etagCache, lastModCache: the version they stand for
  parsed,     \* history: versions whose body was parsed
  spent,      \* secCount and dayCount of the provider's BudgetState
  fetch        \* per caller, where its call is, its attempt, and the version it asks or reads

fetchVars == <<version, validator, parsed, spent, fetch>>

Call(at, attempt, of) == [at |-> at, attempt |-> attempt, of |-> of]
\* Between calls: before the first one, or after the last one's result.
Results == {"none", "data", "not modified", "error"}

FetchTypeOK ==
  /\ version \in Versions /\ validator \in Versions \cup {NoVersion} /\ parsed \subseteq Versions
  /\ spent \in [second : 0..PerSecond, day : 0..PerDay]
  /\ fetch \in [Fetches -> [at : Results \cup {"waits", "asks", "parses"},
                           attempt : 0..(Retries + 1), of : Versions \cup {NoVersion}]]

FetchInit ==
  /\ version = 1 /\ validator = NoVersion /\ parsed = {}
  /\ spent = [second |-> 0, day |-> 0] /\ fetch = [c \in Fetches |-> Call("none", 0, NoVersion)]

----------------------------------------------------------------------------
FetchStarts(c) ==
  /\ fetch[c].at \in Results /\ fetch' = [fetch EXCEPT ![c] = Call("waits", 1, NoVersion)]
  /\ UNCHANGED <<version, validator, parsed, spent>>

\* canConsume, which takes nothing; a call that may not looks again in 200 ms, on the same attempt.
CanConsume == spent.second < PerSecond /\ spent.day < PerDay
Request(c) ==
  /\ fetch[c].at = "waits" /\ CanConsume
  /\ fetch' = [fetch EXCEPT ![c] = Call("asks", @.attempt, validator)]
  /\ UNCHANGED <<version, validator, parsed, spent>>

\* consume, after the answer: it counts nothing once the budget is used up.
Consume ==
  spent' = IF CanConsume THEN [second |-> spent.second + 1, day |-> spent.day + 1] ELSE spent

SecondRolls ==
  /\ spent.second > 0 /\ spent' = [spent EXCEPT !.second = 0]
  /\ UNCHANGED <<version, validator, parsed, fetch>>
DayRolls ==
  /\ spent.day > 0 /\ spent' = [spent EXCEPT !.day = 0]
  /\ UNCHANGED <<version, validator, parsed, fetch>>

\* The provider compares what it serves with the validator that was sent.
NotModified(c) ==
  /\ fetch[c].at = "asks" /\ fetch[c].of = version /\ Consume
  /\ fetch' = [fetch EXCEPT ![c] = Call("not modified", 0, version)]
  /\ UNCHANGED <<version, validator, parsed>>

AtOnce(v)      == v
AfterParsing(v) == validator
Answered(c) ==
  /\ fetch[c].at = "asks" /\ fetch[c].of # version /\ Consume
  /\ fetch' = [fetch EXCEPT ![c] = Call("parses", @.attempt, version)]
  /\ validator' = AfterParsing(version)
  /\ UNCHANGED <<version, parsed>>

\* The body is read and parsed; the validators follow, if the answer has any.
Parses(c) ==
  /\ fetch[c].at = "parses"
  /\ fetch' = [fetch EXCEPT ![c] = Call("data", 0, @.of)] /\ parsed' = parsed \cup {fetch[c].of}
  /\ validator' \in {validator, fetch[c].of}
  /\ UNCHANGED <<version, spent>>

SameAttempt(n) == n
NextAttempt(n) == n + 1

\* No answer in time, an error status, or a body that does not parse: the next attempt, after a
\* delay, or the last error (or a fallback value) for the caller.
FetchFails(c) ==
  /\ fetch[c].at \in {"asks", "parses"}
  /\ fetch' = [fetch EXCEPT ![c] = IF @.attempt > Retries THEN Call("error", 0, NoVersion)
                                 ELSE Call("waits", NextAttempt(@.attempt), NoVersion)]
  /\ IF fetch[c].at = "asks" THEN Consume \/ UNCHANGED spent ELSE UNCHANGED spent
  /\ UNCHANGED <<version, validator, parsed>>

ProviderPublishes ==
  /\ version < MaxVersion /\ version' = version + 1
  /\ UNCHANGED <<validator, parsed, spent, fetch>>

CallStep(c) == NotModified(c) \/ Answered(c) \/ Parses(c) \/ FetchFails(c)

FetchNext ==
  \/ SecondRolls \/ DayRolls \/ ProviderPublishes
  \/ \E c \in Fetches : FetchStarts(c) \/ Request(c) \/ CallStep(c)

FetchSpec == FetchInit /\ [][FetchNext]_fetchVars

----------------------------------------------------------------------------
\* A call ends, however often the provider fails it and whatever others do with the budget: waiting
\* for the budget costs no attempt, but every failure does.
FetchEnds == \A c \in Fetches : []<>(fetch[c].at \in Results)

\* "Not modified" is said of a version whose body was parsed before, also when two calls overlap,
\* an older answer comes later or a body that does not parse brings a new validator: otherwise that
\* version's readings would be missed.
NotModifiedWasParsed ==
  \A c \in Fetches : fetch[c].at = "not modified" => fetch[c].of \in parsed
=============================================================================
