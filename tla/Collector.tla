----------------------------- MODULE Collector -----------------------------
(* From a provider's listing to the queue: the collectors of data-collector.ts, reduced to how    *)
(* they keep from returning a reading twice, and BaseWorker.run (worker-threads.ts), which drops  *)
(* what the process remembers, offers the rest to the queue and sets its own timer again.         *)
EXTENDS Naturals, FiniteSets

CONSTANT ReadingCount   \* readings a provider may list, by their time stamps

ASSUME CollectorAssumption == ReadingCount \in Nat \ {0}

Readings == 1..ReadingCount

----------------------------------------------------------------------------
\* A feed's mark: none; the newest time stamp read so far, of the feed or of a station; a station's
\* last one; or a buffer that is drained. What a collection reads of the listing: all, or some of
\* it, because of a limit, a part that failed or was not modified; UsgsWater reads all, "filtered",
\* and returns some.
Feed(mark, reads) == [mark |-> mark, reads |-> reads]

SeismicDataBatch        == Feed("none", "all")
EmscBuffer              == Feed("drained", "some")
EmscLatestEvents        == Feed("none", "all")
GeoNetLatestEvents      == Feed("none", "some")
SensorCommunityBatch    == Feed("changed", "some")
NdbcLatestObservations  == Feed("changed", "some")
WaqiStationsBatch       == Feed("none", "some")
AirQualityDataBatch     == Feed("none", "some")
SpaceWeatherData        == Feed("newest", "all")
GeomagnetismData        == Feed("newest", "some")
VolcanoAlerts           == Feed("newest", "all")
UpperAtmosphereData     == Feed("newest", "all")
OpenSenseMapData        == Feed("newest", "some")
IntermagnetData         == Feed("newest", "some")
IrisEvents              == Feed("newest", "all")
NasaPowerData           == Feed("none", "some")
CamsData                == Feed("none", "some")
UsgsWaterData           == Feed("newest", "filtered")
UkEaFloodWarnings       == Feed("none", "all")
UkEaFloodReadings       == Feed("newest", "some")
GbifOccurrences         == Feed("newest", "some")
INaturalistObservations == Feed("newest", "some")
ObisOccurrences         == Feed("newest", "some")
EcosSpecies             == Feed("none", "some")
NatureServeSpecies      == Feed("none", "some")
NasaEonetEvents         == Feed("newest", "some")
GfwAlerts               == Feed("none", "some")
UsgsMrdsSites           == Feed("none", "some")
NswPlanningApplications == Feed("none", "some")
OpenSkyStates           == Feed("newest", "some")
AisBufferSnapshot       == Feed("drained", "some")
MovebankTracking        == Feed("none", "some")
OpenMeteoCurrent        == Feed("none", "some")
NoaaNwsAlerts           == Feed("none", "some")   \* keeps a time stamp that it never compares,
GdacsEvents             == Feed("none", "some")   \* and so do these two
ReliefWebDisasters      == Feed("none", "some")
MetNoForecast           == Feed("none", "some")
HubeauObservations      == Feed("newest", "some")
NoaaSwpcIndices         == Feed("newest", "some")

\* What each worker's collectData calls; a disabled dataset gives it nothing. The sweeps of WAQI,
\* NOAA and Advanced over their stations are in StationSweep.
WaqiEnvironmentalWorker     == {WaqiStationsBatch, AirQualityDataBatch}
SensorCommunityWorker       == {SensorCommunityBatch}
NoaaNdbcWorker              == {NdbcLatestObservations}
UsgsWorker                  == {SeismicDataBatch}
EmscRealtimeWorker          == {EmscBuffer, EmscLatestEvents}
GeoNetWorker                == {GeoNetLatestEvents}
SpaceWeatherWorker          == {SpaceWeatherData}
GeomagnetismWorker          == {GeomagnetismData}
VolcanoWorker               == {VolcanoAlerts}
UpperAtmosphereWorker       == {UpperAtmosphereData}
OpenSenseMapWorker          == {OpenSenseMapData}
IntermagnetWorker           == {IntermagnetData}
IrisWorker                  == {IrisEvents}
NasaPowerWorker             == {NasaPowerData}
CopernicusCamsWorker        == {CamsData}
UsgsWaterWorker             == {UsgsWaterData}
UkEaFloodWorker             == {UkEaFloodWarnings, UkEaFloodReadings}
GbifWorker                  == {GbifOccurrences}
INaturalistWorker           == {INaturalistObservations}
ObisWorker                  == {ObisOccurrences}
EcosWorker                  == {EcosSpecies}
NatureServeWorker           == {NatureServeSpecies}
NasaEonetWorker             == {NasaEonetEvents}
GfwWorker                   == {GfwAlerts}
UsgsMrdsWorker              == {UsgsMrdsSites}
InternationalPlanningWorker == {NswPlanningApplications}
OpenSkyWorker               == {OpenSkyStates}
AisStreamWorker             == {AisBufferSnapshot}
MovebankWorker              == {MovebankTracking}
OpenMeteoWorker             == {OpenMeteoCurrent}
NoaaNwsAlertsWorker         == {NoaaNwsAlerts}
GdacsWorker                 == {GdacsEvents}
ReliefWebWorker             == {ReliefWebDisasters}
MetNorwayWorker             == {MetNoForecast}
HubeauFranceWorker          == {HubeauObservations}
NoaaSwpcIndicesWorker       == {NoaaSwpcIndices}

Feeds == UNION
  {WaqiEnvironmentalWorker, SensorCommunityWorker, NoaaNdbcWorker, UsgsWorker, EmscRealtimeWorker,
   GeoNetWorker, SpaceWeatherWorker, GeomagnetismWorker, VolcanoWorker, UpperAtmosphereWorker,
   OpenSenseMapWorker, IntermagnetWorker, IrisWorker, NasaPowerWorker, CopernicusCamsWorker,
   UsgsWaterWorker, UkEaFloodWorker, GbifWorker, INaturalistWorker, ObisWorker, EcosWorker,
   NatureServeWorker, NasaEonetWorker, GfwWorker, UsgsMrdsWorker, InternationalPlanningWorker,
   OpenSkyWorker, AisStreamWorker, MovebankWorker, OpenMeteoWorker, NoaaNwsAlertsWorker,
   GdacsWorker, ReliefWebWorker, MetNorwayWorker, HubeauFranceWorker, NoaaSwpcIndicesWorker}

----------------------------------------------------------------------------
VARIABLES
  feed,        \* the collector that runs
  listing,     \* what the provider lists, or the buffer holds
  mark,        \* the collector's watermark
  remembered,  \* dedupeStore: the collector's own keys and the worker's hashes
  run,         \* waits for its timer; has fetched a listing; or offers what it has left to the queue
  dry,         \* isWritePausedForFunding
  taken,       \* history: readings the queue has taken
  skipped      \* history: readings skipped while writes were paused, and not taken so far

collectorVars == <<feed, listing, mark, remembered, run, dry, taken, skipped>>

NoRun == [at |-> "timer", items |-> {}]

CollectorTypeOK ==
  /\ feed \in Feeds /\ listing \subseteq Readings /\ mark \in 0..ReadingCount
  /\ remembered \subseteq {"key", "hash"} \X Readings
  /\ run \in [at : {"timer", "fetched", "offers"}, items : SUBSET Readings]
  /\ dry \in BOOLEAN
  /\ taken \subseteq Readings /\ skipped \subseteq Readings

CollectorInit ==
  /\ feed \in Feeds /\ listing = {} /\ mark = 0 /\ remembered = {}
  /\ run = NoRun /\ dry = FALSE
  /\ taken = {} /\ skipped = {}

----------------------------------------------------------------------------
Known(kind, r) == <<kind, r>> \in remembered

\* The timer fires: run() awaits collectData, which awaits the provider.
Fetch ==
  /\ run.at = "timer"
  /\ run' = [at |-> "fetched", items |-> listing]
  /\ UNCHANGED <<feed, listing, mark, remembered, dry, taken, skipped>>

\* A reading that cannot be hashed ends the loop; the timer is set anyway, as it is when the
\* provider fails, which leaves everything as it was.
RunFails ==
  /\ run.at = "offers" /\ run' = NoRun
  /\ UNCHANGED <<feed, listing, mark, remembered, dry, taken, skipped>>

Newest(S) == CHOOSE r \in S : \A s \in S : s <= r

\* Of what is read, what the mark lets pass, and the mark afterwards. A station's last time stamp
\* is set reading by reading, so it passes itself when another one comes first.
PassesMark(read) ==
  CASE feed.mark \in {"none", "drained"} -> {[new |-> read, mark |-> mark]}
    [] feed.mark = "newest"  -> {[new |-> {r \in read : r > mark}, mark |-> Newest(read \cup {mark})]}
    [] feed.mark = "changed" ->
         IF read \subseteq {mark} THEN {[new |-> {}, mark |-> mark]}
         ELSE {p \in [new : {read, read \ {mark}}, mark : read] : p.mark \in p.new}

\* What passes and is not remembered is returned; run() skips all of it while writes are paused.
Collect ==
  /\ run.at = "fetched"
  /\ \E read \in (IF feed.reads = "some" THEN SUBSET run.items ELSE {run.items}) :
     \E pass \in PassesMark(read) :
     \E out \in (IF feed.reads = "filtered" THEN SUBSET pass.new ELSE {pass.new}) :
       LET fresh == {r \in out : ~Known("key", r)}
       IN  /\ run' = IF dry \/ fresh = {} THEN NoRun ELSE [at |-> "offers", items |-> fresh]
           /\ mark' = pass.mark
           /\ remembered' = remembered \cup ({"key"} \X out)
           /\ skipped' = IF dry THEN skipped \cup (fresh \ taken) ELSE skipped
           /\ listing' = IF feed.mark = "drained" THEN listing \ read ELSE listing
  /\ UNCHANGED <<feed, dry, taken>>

----------------------------------------------------------------------------
Offered(r) == run.at = "offers" /\ r \in run.items
Left(items) == run' = IF items = {} THEN NoRun ELSE [run EXCEPT !.items = items]

\* dedupeStore.add: the hash is there, ...
DropDuplicate(r) ==
  /\ Offered(r) /\ Known("hash", r) /\ Left(run.items \ {r})
  /\ UNCHANGED <<feed, listing, mark, remembered, dry, taken, skipped>>
\* ... or is put there before anything else is known.
Adds(r) ==
  /\ Offered(r) /\ ~Known("hash", r)
  /\ remembered' = remembered \cup {<<"hash", r>>}
  /\ UNCHANGED <<feed, listing, mark, dry>>
NotTaken == UNCHANGED <<taken, skipped>>
\* Its txid is on record already; or the sensitivity controls stop or delay it, or the queue has no
\* room for it after a direct write failed.
DropOnChain(r)   == Adds(r) /\ r \in taken /\ Left(run.items \ {r}) /\ NotTaken
DropUnwritten(r) == Adds(r) /\ Left(run.items \ {r}) /\ NotTaken
\* addToQueue, or a direct write, takes it; or the queue is full, which ends the loop.
Take(r) ==
  Adds(r) /\ Left(run.items \ {r}) /\ taken' = taken \cup {r} /\ skipped' = skipped \ {r}
Backpressured(r) == Adds(r) /\ Left({}) /\ NotTaken

Offer(r) == DropDuplicate(r) \/ DropOnChain(r) \/ DropUnwritten(r) \/ Take(r) \/ Backpressured(r)

NeverExpires(k) == FALSE
Expires(k)      == k \in remembered
\* Five minutes after it was added, whether it was seen again or not.
Forget(k) ==
  /\ Expires(k) /\ remembered' = remembered \ {k}
  /\ UNCHANGED <<feed, listing, mark, run, dry, taken, skipped>>

\* The process is restarted: marks and the dedupe store are in memory, so is a buffer. While a
\* listing is under way it is as before the request, which has changed nothing yet.
CollectorRestarts ==
  /\ run.at # "fetched"
  /\ mark' = 0 /\ remembered' = {} /\ run' = NoRun /\ dry' = FALSE
  /\ listing' = IF feed.mark = "drained" THEN {} ELSE listing
  /\ UNCHANGED <<feed, taken, skipped>>

ListingChanges(r) ==
  /\ listing' \in {listing \cup {r}, listing \ {r}} \ {listing}
  /\ UNCHANGED <<feed, mark, remembered, run, dry, taken, skipped>>
FundingChanges ==
  /\ dry' = ~dry
  /\ UNCHANGED <<feed, listing, mark, remembered, run, taken, skipped>>

RunStep == Fetch \/ RunFails \/ Collect \/ \E r \in Readings : Offer(r)

CollectorNext ==
  \/ RunStep \/ FundingChanges \/ CollectorRestarts
  \/ \E r \in Readings : ListingChanges(r) \/ Forget(<<"key", r>>) \/ Forget(<<"hash", r>>)

CollectorSpec == CollectorInit /\ [][CollectorNext]_collectorVars

\* Requests have a timeout, the loop ends and the timer is always set. A provider does not fail for
\* good, the queue does not stay full, nor do the controls stop a reading for good.
CollectorFairness ==
  /\ WF_collectorVars(RunStep)
  /\ \A r \in Readings : /\ WF_collectorVars(Forget(<<"key", r>>))
                         /\ WF_collectorVars(Forget(<<"hash", r>>))
                         /\ SF_collectorVars(Take(r))
CollectorFairSpec == CollectorSpec /\ CollectorFairness

----------------------------------------------------------------------------
\* A collector that reads all of its listing and keeps no mark loses nothing that stays listed: the
\* queue takes it in the end, though it is remembered from the time it was offered in vain, to a
\* queue that was full, while writes were paused or by a process that has exited.
ListedIsTaken ==
  \A r \in Readings :
    <>[](feed = SeismicDataBatch /\ r \in listing /\ ~dry) => []<>(r \in taken)

\* What a run skips while funding is dry is collected again, and taken, once writes resume, of any
\* feed that is read whole and goes on listing it (worker-threads.ts:171, operations-and-runbooks.md).
SkippedIsRecollected ==
  \A r \in Readings :
    ~<>[](feed.reads = "all" /\ r \in listing /\ r \in skipped /\ ~dry)
=============================================================================
