----------------------------- MODULE MCPipeline -----------------------------
(* The components that stand before and beside the queue and the inventory, from the provider's   *)
(* station to the confirmed transaction. Each behaviour is one of a single component, chosen in   *)
(* its initial state, so that one run checks them all.                                            *)
EXTENDS StationSweep, ProviderFetch, EmscSocket, Collector, WriteDryMode, FundingAdmit,
        WalletPick, SpendSource, BroadcastChannels, CheckSchedule, Confirmations, Retention,
        UtxoListing, Recovery

VARIABLE machine   \* the component that runs

Machines == {"sweep", "fetch", "socket", "collector", "gate", "admit", "wallets", "source",
             "channels", "schedule", "confirmations", "retention", "listing", "recovery"}

HandfulOfFunds ==
  {Broke, [confirmed |-> "small", any |-> "small"], [confirmed |-> "none", any |-> "large"]}

\* One feed of each mark that a collector keeps, with the most it may do.
FeedsOfEachKind == {SeismicDataBatch, UsgsWaterData, NdbcLatestObservations, AisBufferSnapshot}

\* The components that stand still are where they began.
PipelineTypeOK ==
  /\ machine \in Machines
  /\ machine = "sweep" => SweepTypeOK
  /\ machine = "fetch" => FetchTypeOK
  /\ machine = "socket" => SocketTypeOK
  /\ machine = "collector" => CollectorTypeOK
  /\ machine = "gate" => GateTypeOK
  /\ machine = "admit" => AdmitTypeOK
  /\ machine = "wallets" => PickTypeOK
  /\ machine = "source" => SourceTypeOK
  /\ machine = "channels" => ChannelsTypeOK
  /\ machine = "schedule" => ScheduleTypeOK
  /\ machine = "confirmations" => ConfirmationTypeOK
  /\ machine = "retention" => RetentionTypeOK
  /\ machine = "listing" => ListingTypeOK
  /\ machine = "recovery" => RecoveryTypeOK

PipelineInit ==
  /\ machine \in Machines
  /\ SweepInit /\ FetchInit /\ SocketInit /\ CollectorInit /\ GateInit /\ AdmitInit
  /\ PickInit /\ SourceInit /\ ChannelsInit /\ ScheduleInit /\ ConfirmationInit
  /\ RetentionInit /\ ListingInit /\ RecoveryInit
  /\ machine = "sweep" \/ sweep = "pages"
  /\ machine = "retention" \/ pooled
  /\ IF machine = "collector" THEN feed \in FeedsOfEachKind ELSE feed = SeismicDataBatch

pipelineVars ==
  <<machine, sweepVars, fetchVars, socketVars, collectorVars, gateVars, admitVars,
    pickVars, sourceVars, channelVars, scheduleVars, confirmationVars,
    retentionVars, listingVars, recoveryVars>>

\* A step of one component: the others stand still.
Only(m) ==
  /\ UNCHANGED machine
  /\ IF m = "sweep"         THEN TRUE ELSE UNCHANGED sweepVars
  /\ IF m = "fetch"         THEN TRUE ELSE UNCHANGED fetchVars
  /\ IF m = "socket"        THEN TRUE ELSE UNCHANGED socketVars
  /\ IF m = "collector"     THEN TRUE ELSE UNCHANGED collectorVars
  /\ IF m = "gate"          THEN TRUE ELSE UNCHANGED gateVars
  /\ IF m = "admit"         THEN TRUE ELSE UNCHANGED admitVars
  /\ IF m = "wallets"       THEN TRUE ELSE UNCHANGED pickVars
  /\ IF m = "source"        THEN TRUE ELSE UNCHANGED sourceVars
  /\ IF m = "channels"      THEN TRUE ELSE UNCHANGED channelVars
  /\ IF m = "schedule"      THEN TRUE ELSE UNCHANGED scheduleVars
  /\ IF m = "confirmations" THEN TRUE ELSE UNCHANGED confirmationVars
  /\ IF m = "retention"     THEN TRUE ELSE UNCHANGED retentionVars
  /\ IF m = "listing"       THEN TRUE ELSE UNCHANGED listingVars
  /\ IF m = "recovery"      THEN TRUE ELSE UNCHANGED recoveryVars

Moves(m, action) == machine = m /\ action /\ Only(m)

PipelineNext ==
  \/ Moves("sweep", SweepNext)
  \/ Moves("fetch", FetchNext)
  \/ Moves("socket", SocketNext)
  \/ Moves("collector", CollectorNext)
  \/ Moves("gate", GateNext)
  \/ Moves("admit", AdmitNext)
  \/ Moves("wallets", PickNext)
  \/ Moves("source", SourceNext)
  \/ Moves("channels", ChannelsNext)
  \/ Moves("schedule", ScheduleNext)
  \/ Moves("confirmations", ConfirmationNext)
  \/ Moves("retention", RetentionNext)
  \/ Moves("listing", ListingNext)
  \/ Moves("recovery", RecoveryNext)

----------------------------------------------------------------------------
(* The fairness of each component; as only one of them runs, steps of different ones share a      *)
(* conjunct. Requests and transactions have a timeout and timers fire; what the code repeats does *)
(* not fail each time for good.                                                                   *)

Often(i) ==
  \* neither is the queue full nor do the controls stop a reading each time it is offered;
  CASE machine = "collector" -> Moves("collector", Take(i))
  \* not all acquisitions fail;
    [] machine = "wallets" -> i = 1 /\ Moves("wallets", (\E p \in Picks : Acquired(p)))
  \* nor do all of a sweep's pages, nor the admission of what was found;
    [] machine = "admit" ->
       \/ i = 1 /\ Moves("admit", LastPage)
       \/ i = 2 /\ Moves("admit", (\E o \in Funding : o \in scan.found /\ AdmitFound))
  \* of the calls that wait for a provider's budget none always looks at the wrong time;
    [] machine = "fetch" -> Moves("fetch", Request(i))
  \* a channel that works does not turn every transaction down;
    [] machine = "channels" -> i = 1 /\ Moves("channels", (\E c \in Calls : Accepts(c, "taal_arc")))
  \* the interval pops a due item, though broadcasts and checks set the back-off again at once;
    [] machine = "schedule" -> i = 1 /\ Moves("schedule", (\E w \in Writes : PopStep(w)))
  \* neither the advisory lock nor the marker fails, nor is there a restart, on every tick;
    [] machine = "retention" ->
       \/ i = 1 /\ Moves("retention", (\E p \in Schedulers : LockTaken(p)))
       \/ i = 2 /\ Moves("retention", (\E p \in Schedulers : Claim(p)))
  \* a run has time for one chunk of stations now and then;
    [] machine = "sweep" -> i = 1 /\ Moves("sweep", AskStation)
  \* the reads of wallets that could open the gate do not all fail;
    [] machine = "gate" -> i = 1 /\ Moves("gate", ReadsUsable)
  \* not every handshake with an endpoint that is reachable fails.
    [] machine = "socket" -> i = 1 /\ Moves("socket", (\E s \in Sockets : OnOpen(s)))
    [] OTHER -> FALSE

\* The configuration numbers the transactions of CheckSchedule.
Numbered(i) == {w \in Writes : i = IF w[2] = 1 THEN w[1] ELSE Cardinality(Txids) + w[1]}

InTheEnd(i) ==
  CASE machine = "collector" ->
       \/ i = 1 /\ Moves("collector", RunStep)
       \/ i \in {2, 3} /\ Moves("collector", Forget(<<"key", i - 1>>))
       \/ i \in {4, 5} /\ Moves("collector", Forget(<<"hash", i - 3>>))
    [] machine = "wallets" ->
       \/ i \in {1, 2} /\ Moves("wallets", Picking(i))
       \/ i \in {3, 4} /\ Moves("wallets", EmptyRunsOut(i - 3))
    [] machine = "admit" ->
       \/ i = 1 /\ Moves("admit", AdmitStep)
       \/ i = 2 /\ Moves("admit", SweepAges)
    [] machine = "fetch" ->
       \/ i = 1 /\ Moves("fetch", SecondRolls)
       \/ i = 2 /\ Moves("fetch", DayRolls)
       \/ i \in {3, 4} /\ Moves("fetch", CallStep(i - 2))
    [] machine = "channels" ->
       \/ i \in {1, 2} /\ Moves("channels", BroadcastStep(i))
       \/ i = 3 /\ Moves("channels", BackoffEnds("taal_arc"))
       \/ i = 4 /\ Moves("channels", BackoffEnds("gorillapool_arc"))
       \/ i = 5 /\ Moves("channels", BackoffEnds("whatsonchain"))
    [] machine = "schedule" ->
       \/ i = 6 /\ Moves("schedule", BackoffRunsOut)
       \/ Moves("schedule", \E w \in Numbered(i) : CheckSettles(w) \/ CheckAgain(w))
    [] machine = "retention" ->
       \/ i \in {1, 2} /\ Moves("retention", PassStep(i))
       \/ i = 3 /\ Moves("retention", SessionEnds)
    [] machine = "sweep" -> i = 1 /\ Moves("sweep", SweepStep)
    [] machine = "source" ->
       \/ i \in {1, 2} /\ Moves("source", UseEnds(i))
       \/ i = 3 /\ Moves("source", CooldownPasses)
    [] machine = "gate" -> i = 1 /\ Moves("gate", GateStep)
    [] machine = "socket" ->
       \/ i = 1 /\ Moves("socket", EnsureSocket)
       \/ i = 2 /\ Moves("socket", (\E s \in Sockets : Settles(s)))
    [] OTHER -> FALSE

PipelineFairness ==
  /\ \A i \in 1..2 : SF_pipelineVars(Often(i))
  /\ \A i \in 1..6 : WF_pipelineVars(InTheEnd(i))

PipelineSpec == PipelineInit /\ [][PipelineNext]_pipelineVars /\ PipelineFairness
=============================================================================
