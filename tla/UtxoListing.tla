---------------------------- MODULE UtxoListing ----------------------------
(* getUnspentForAddress (utxo-provider.ts): the outputs of an address as an indexer lists them,   *)
(* behind a cache, a fetch shared by all who ask meanwhile, and a cooldown after a failed one.    *)
EXTENDS Naturals

CONSTANT Askers   \* callers that ask for the same address

\* Age of a listing: 0 within UTXO_CACHE_TTL_MS, 1 within UTXO_STALE_TTL_MS, 2 within
\* UTXO_DEGRADED_STALE_TTL_MS, 3 older.
Oldest == 3
\* No listing, or an empty one, which the cache does not count as one.
Empty == 4
ListingAge  == 0..Oldest \cup {Empty}

VARIABLES
  cached,   \* age of the cached listing
  cooling,   \* cooldownUntil is in the future
  fetching,  \* inFlight, with the allowDegradedStale of the call that started it
  answer     \* per caller: its option, whether it shares another's fetch, and what it got

listingVars == <<cached, cooling, fetching, answer>>

Waiting == 5
Answer(degraded, shared, age) == [degraded |-> degraded, shared |-> shared, age |-> age]

ListingTypeOK ==
  /\ cached \in ListingAge /\ cooling \in BOOLEAN
  /\ fetching \in {"no", "strict", "degraded"}
  /\ answer \in [Askers -> [degraded : BOOLEAN, shared : BOOLEAN, age : ListingAge \cup {Waiting}]]

ListingInit ==
  /\ cached = Empty /\ cooling = FALSE /\ fetching = "no"
  /\ answer = [a \in Askers |-> Answer(FALSE, FALSE, Empty)]

----------------------------------------------------------------------------
\* maybeUseCachedUtxos, and the empty list where it has nothing.
SameForAll(degraded) == 2
AllowedAge(degraded) == IF degraded THEN 2 ELSE 1
FromCache(degraded) == IF cached <= AllowedAge(degraded) THEN cached ELSE Empty

Gets(a, degraded, shared, age) == answer' = [answer EXCEPT ![a] = Answer(degraded, shared, age)]

AskListing(a, degraded) ==
  /\ answer[a].age # Waiting
  /\ \/ fetching # "no" /\ Gets(a, degraded, TRUE, Waiting) /\ UNCHANGED fetching
     \/ fetching = "no" /\ cached = 0 /\ Gets(a, degraded, FALSE, 0) /\ UNCHANGED fetching
     \/ /\ fetching = "no" /\ cached # 0 /\ cooling
        /\ Gets(a, degraded, FALSE, FromCache(degraded)) /\ UNCHANGED fetching
     \/ /\ fetching = "no" /\ cached # 0 /\ ~cooling
        /\ Gets(a, degraded, FALSE, Waiting)
        /\ fetching' = IF degraded THEN "degraded" ELSE "strict"
  /\ UNCHANGED <<cached, cooling>>

AllGet(age) ==
  answer' = [a \in Askers |-> IF answer[a].age = Waiting THEN [answer[a] EXCEPT !.age = age] ELSE answer[a]]

\* The overlay, the configured indexer or WhatsOnChain in its place has answered.
FetchListing ==
  /\ fetching # "no" /\ fetching' = "no"
  /\ \E age \in {0, Empty} : cached' = age /\ AllGet(age)
  /\ cooling' = FALSE

\* All have failed; the cache is asked on behalf of the call that started the fetch.
ListingFails ==
  /\ fetching # "no" /\ fetching' = "no"
  /\ AllGet(FromCache(fetching = "degraded"))
  /\ cooling' = TRUE /\ UNCHANGED cached

ListingAges ==
  /\ cached < Oldest /\ cached' = cached + 1
  /\ UNCHANGED <<cooling, fetching, answer>>
CoolingEnds ==
  /\ cooling /\ cooling' = FALSE /\ UNCHANGED <<cached, fetching, answer>>

ListingNext ==
  \/ \E a \in Askers, degraded \in BOOLEAN : AskListing(a, degraded)
  \/ FetchListing \/ ListingFails \/ ListingAges \/ CoolingEnds

ListingSpec == ListingInit /\ [][ListingNext]_listingVars

----------------------------------------------------------------------------
\* A caller that wants no degraded listing gets none that is older than two minutes, through the
\* cache, a cooldown and failed fetches, unless it shares the fetch of a caller that does; and no
\* caller gets one older than fifteen.
ListingIsRecent ==
  \A a \in Askers : answer[a].age \in 0..Oldest =>
    answer[a].age <= IF answer[a].degraded \/ answer[a].shared THEN 2 ELSE 1
=============================================================================
