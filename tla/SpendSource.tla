---------------------------- MODULE SpendSource ----------------------------
(* spend-source.ts: overlapping reads and submissions of one wallet go to the overlay, count its  *)
(* failures, and send the wallet back to the legacy source for a while. While the wallet is on    *)
(* the legacy source, shadow reads go on asking the overlay and counting.                         *)
EXTENDS Naturals

CONSTANTS
  Uses,              \* calls of the spend source under way at the same time
  FailureThreshold,  \* config.failureThreshold
  ShadowReads        \* BSV_SPEND_SOURCE_SHADOW_READS

ASSUME SpendSourceAssumption == FailureThreshold \in Nat \ {0} /\ ShadowReads \in BOOLEAN

VARIABLES
  overlayUp,
  fallback,   \* fallbackUntil: passed, or set, or set and partly waited for
  failures,   \* lookupFailures, submitFailures
  failed,     \* history: posts that failed or were not accepted since such a counter was zero
  use         \* what a call waits for

sourceVars == <<overlayUp, fallback, failures, failed, use>>

Kinds == {"lookup", "submit"}

SourceTypeOK ==
  /\ overlayUp \in BOOLEAN
  /\ fallback \in {"over", "set", "waning"}
  /\ failures \in [Kinds -> 0..FailureThreshold - 1] /\ failed \in [Kinds -> 0..FailureThreshold]
  /\ use \in [Uses -> {"none", "count", "counted by list", "list", "submit"}]

SourceInit ==
  /\ overlayUp = TRUE /\ fallback = "over"
  /\ failures = [kind \in Kinds |-> 0] /\ failed = [kind \in Kinds |-> 0]
  /\ use = [u \in Uses |-> "none"]

----------------------------------------------------------------------------
Done(u) == use' = [use EXCEPT ![u] = "none"]

Forgets(kind) == UNCHANGED failures
RegisterSuccess(kind) == failures' = [failures EXCEPT ![kind] = 0]
Succeeded(kind) ==
  /\ RegisterSuccess(kind) /\ failed' = [failed EXCEPT ![kind] = 0]
  /\ UNCHANGED fallback

\* n calls of registerOverlayWalletFailure in a row, for one post that failed.
RegisterFailure(kind, n) ==
  IF failures[kind] + n >= FailureThreshold
  THEN /\ fallback' = "set"
       /\ failures' = [k \in Kinds |-> IF k = kind THEN (failures[k] + n) % FailureThreshold ELSE 0]
       /\ failed' = [k \in Kinds |-> failures'[k]]
  ELSE /\ failures' = [failures EXCEPT ![kind] = @ + n]
       /\ failed' = [failed EXCEPT ![kind] = @ + 1]
       /\ UNCHANGED fallback

\* getSpendSourceForWallet: the overlay is read as the primary, or as the shadow of the legacy source.
StartRead(u) ==
  /\ use[u] = "none" /\ (fallback = "over" \/ ShadowReads)
  /\ \E op \in {"count", "list"} : use' = [use EXCEPT ![u] = op]
  /\ UNCHANGED <<overlayUp, fallback, failures, failed>>
\* A submission to the legacy source is skipped and leaves nothing behind.
StartSubmit(u) ==
  /\ use[u] = "none" /\ fallback = "over"
  /\ use' = [use EXCEPT ![u] = "submit"]
  /\ UNCHANGED <<overlayUp, fallback, failures, failed>>

\* An answer to countSpendable without a total leads to a bounded listSpendable within the call.
CountWithoutTotal(u) ==
  /\ overlayUp /\ use[u] = "count" /\ Succeeded("lookup")
  /\ use' = [use EXCEPT ![u] = "counted by list"]
  /\ UNCHANGED overlayUp
ReadAnswered(u) ==
  /\ overlayUp /\ use[u] \in {"count", "list", "counted by list"}
  /\ Succeeded("lookup") /\ Done(u)
  /\ UNCHANGED overlayUp
\* postJsonWithRetry has used up its retries. A listing within a count is counted twice.
ReadFails(u) ==
  /\ ~overlayUp /\ use[u] \in {"count", "list", "counted by list"}
  /\ RegisterFailure("lookup", IF use[u] = "counted by list" THEN 2 ELSE 1) /\ Done(u)
  /\ UNCHANGED overlayUp

SubmitAccepted(u) ==
  /\ overlayUp /\ use[u] = "submit" /\ Succeeded("submit") /\ Done(u)
  /\ UNCHANGED overlayUp
\* No answer, or an answer whose hosts have not accepted.
SubmitNotAccepted(u) ==
  /\ use[u] = "submit" /\ RegisterFailure("submit", 1) /\ Done(u)
  /\ UNCHANGED overlayUp

\* isWalletTemporarilyFallback compares with the clock; a failure in between sets the time anew.
NeverElapses == fallback = "waning"
Elapses      == fallback # "over"
CooldownPasses ==
  /\ Elapses /\ fallback' = IF fallback = "set" THEN "waning" ELSE "over"
  /\ UNCHANGED <<overlayUp, failures, failed, use>>

OverlayChanges ==
  /\ overlayUp' = ~overlayUp
  /\ UNCHANGED <<fallback, failures, failed, use>>

UseEnds(u) ==
  \/ CountWithoutTotal(u) \/ ReadAnswered(u) \/ ReadFails(u)
  \/ SubmitAccepted(u) \/ SubmitNotAccepted(u)

SourceNext ==
  \/ \E u \in Uses : StartRead(u) \/ StartSubmit(u) \/ UseEnds(u)
  \/ CooldownPasses \/ OverlayChanges

SourceSpec == SourceInit /\ [][SourceNext]_sourceVars

----------------------------------------------------------------------------
\* A fallback is earned: the counters never run ahead of the failed posts by more than the one
\* double count that a listing within a count makes, and a success of the kind clears them, however
\* the answers of overlapping calls are ordered.
FallbackIsEarned ==
  /\ failures["submit"] <= failed["submit"]
  /\ failures["lookup"] <= 2 * failed["lookup"]

\* The wallet comes back to the overlay when the overlay works again, though shadow reads and
\* late answers go on counting while the wallet is away and may set the time anew.
OverlayReturns == <>[]overlayUp => []<>(fallback = "over")
=============================================================================
