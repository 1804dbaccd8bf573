--------------------------- MODULE PipelineProofs ---------------------------
(* What is proved of the components holds of the pipeline: a behaviour of it is one of its        *)
(* components' and leaves the others where they began.                                            *)
EXTENDS MCPipeline, BeforeQueueProofs, BesideWriterProofs, AfterWriteProofs

----------------------------------------------------------------------------
(* Every step of the pipeline is a step of each component or leaves it alone.                     *)

LEMMA SweepSteps == [PipelineNext]_pipelineVars => [SweepNext]_sweepVars
BY DEF PipelineNext, Moves, Only, pipelineVars
LEMMA FetchSteps == [PipelineNext]_pipelineVars => [FetchNext]_fetchVars
BY DEF PipelineNext, Moves, Only, pipelineVars
LEMMA SocketSteps == [PipelineNext]_pipelineVars => [SocketNext]_socketVars
BY DEF PipelineNext, Moves, Only, pipelineVars
LEMMA CollectorSteps == [PipelineNext]_pipelineVars => [CollectorNext]_collectorVars
BY DEF PipelineNext, Moves, Only, pipelineVars
LEMMA GateSteps == [PipelineNext]_pipelineVars => [GateNext]_gateVars
BY DEF PipelineNext, Moves, Only, pipelineVars
LEMMA AdmitSteps == [PipelineNext]_pipelineVars => [AdmitNext]_admitVars
BY DEF PipelineNext, Moves, Only, pipelineVars
LEMMA PickSteps == [PipelineNext]_pipelineVars => [PickNext]_pickVars
BY DEF PipelineNext, Moves, Only, pipelineVars
LEMMA SourceSteps == [PipelineNext]_pipelineVars => [SourceNext]_sourceVars
BY DEF PipelineNext, Moves, Only, pipelineVars
LEMMA ChannelsSteps == [PipelineNext]_pipelineVars => [ChannelsNext]_channelVars
BY DEF PipelineNext, Moves, Only, pipelineVars
LEMMA ScheduleSteps == [PipelineNext]_pipelineVars => [ScheduleNext]_scheduleVars
BY DEF PipelineNext, Moves, Only, pipelineVars
LEMMA ConfirmationSteps == [PipelineNext]_pipelineVars => [ConfirmationNext]_confirmationVars
BY DEF PipelineNext, Moves, Only, pipelineVars
LEMMA RetentionSteps == [PipelineNext]_pipelineVars => [RetentionNext]_retentionVars
BY DEF PipelineNext, Moves, Only, pipelineVars
LEMMA ListingSteps == [PipelineNext]_pipelineVars => [ListingNext]_listingVars
BY DEF PipelineNext, Moves, Only, pipelineVars
LEMMA RecoverySteps == [PipelineNext]_pipelineVars => [RecoveryNext]_recoveryVars
BY DEF PipelineNext, Moves, Only, pipelineVars

\* A behaviour of the pipeline is one of every component.
LEMMA PipelineIsEach ==
  PipelineSpec =>
    /\ SweepSpec /\ FetchSpec /\ SocketSpec /\ CollectorSpec /\ GateSpec /\ AdmitSpec /\ PickSpec
    /\ SourceSpec /\ ChannelsSpec /\ ScheduleSpec /\ ConfirmationSpec
    /\ RetentionSpec /\ ListingSpec /\ RecoverySpec
<1>1. PipelineInit =>
        /\ SweepInit /\ FetchInit /\ SocketInit /\ CollectorInit /\ GateInit /\ AdmitInit
        /\ PickInit /\ SourceInit /\ ChannelsInit /\ ScheduleInit /\ ConfirmationInit
        /\ RetentionInit /\ ListingInit /\ RecoveryInit
  BY DEF PipelineInit
<1>2. PipelineSpec => SweepSpec BY <1>1, SweepSteps, PTL DEF PipelineSpec, SweepSpec
<1>3. PipelineSpec => FetchSpec BY <1>1, FetchSteps, PTL DEF PipelineSpec, FetchSpec
<1>4. PipelineSpec => SocketSpec BY <1>1, SocketSteps, PTL DEF PipelineSpec, SocketSpec
<1>5. PipelineSpec => CollectorSpec BY <1>1, CollectorSteps, PTL DEF PipelineSpec, CollectorSpec
<1>6. PipelineSpec => GateSpec BY <1>1, GateSteps, PTL DEF PipelineSpec, GateSpec
<1>7. PipelineSpec => AdmitSpec BY <1>1, AdmitSteps, PTL DEF PipelineSpec, AdmitSpec
<1>8. PipelineSpec => PickSpec BY <1>1, PickSteps, PTL DEF PipelineSpec, PickSpec
<1>9. PipelineSpec => SourceSpec BY <1>1, SourceSteps, PTL DEF PipelineSpec, SourceSpec
<1>10. PipelineSpec => ChannelsSpec BY <1>1, ChannelsSteps, PTL DEF PipelineSpec, ChannelsSpec
<1>11. PipelineSpec => ScheduleSpec BY <1>1, ScheduleSteps, PTL DEF PipelineSpec, ScheduleSpec
<1>12. PipelineSpec => ConfirmationSpec
  BY <1>1, ConfirmationSteps, PTL DEF PipelineSpec, ConfirmationSpec
<1>13. PipelineSpec => RetentionSpec BY <1>1, RetentionSteps, PTL DEF PipelineSpec, RetentionSpec
<1>14. PipelineSpec => ListingSpec BY <1>1, ListingSteps, PTL DEF PipelineSpec, ListingSpec
<1>15. PipelineSpec => RecoverySpec BY <1>1, RecoverySteps, PTL DEF PipelineSpec, RecoverySpec
<1> QED
  BY <1>2, <1>3, <1>4, <1>5, <1>6, <1>7, <1>8, <1>9, <1>10, <1>11, <1>12, <1>13, <1>14, <1>15

----------------------------------------------------------------------------
\* One component runs, and its variables keep their types: counters, cursors and positions their
\* ranges, maps and stores their statuses, under every interleaving of the handlers that write them.
THEOREM PipelineTypeCorrect == PipelineSpec => []PipelineTypeOK
<1> DEFINE OneMachine == machine \in Machines
<1>1. PipelineInit => OneMachine BY DEF PipelineInit
<1>2. OneMachine /\ [PipelineNext]_pipelineVars => OneMachine'
  BY DEF PipelineNext, Moves, Only, pipelineVars, Machines
<1>3. PipelineSpec => []OneMachine
  <2> HIDE DEF OneMachine
  <2> QED BY <1>1, <1>2, PTL DEF PipelineSpec
<1>4. /\ OneMachine /\ SweepTypeOK /\ FetchTypeOK /\ SocketTypeOK /\ CollectorTypeOK
      /\ GateTypeOK /\ AdmitTypeOK /\ PickTypeOK /\ SourceTypeOK /\ ChannelsTypeOK
      /\ ScheduleTypeOK /\ ConfirmationTypeOK /\ RetentionTypeOK /\ ListingTypeOK /\ RecoveryTypeOK
      => PipelineTypeOK
  BY DEF PipelineTypeOK
<1> HIDE DEF OneMachine
<1> QED
  BY <1>3, <1>4, PipelineIsEach, SweepTypeCorrect, FetchTypeCorrect, SocketTypeCorrect,
     CollectorTypeCorrect, GateTypeCorrect, AdmitTypeCorrect, PickTypeCorrect, SourceTypeCorrect,
     ChannelsTypeCorrect, ScheduleTypeCorrect, ConfirmationTypeCorrect, RetentionTypeCorrect,
     ListingTypeCorrect, RecoveryTypeCorrect, PTL

\* What the run of the pipeline checks in every state of a small instance holds of every instance.
THEOREM PipelineIsSafe ==
  PipelineSpec =>
    []( /\ NeverForgotten /\ TrackerBounded /\ OnlyMinedIsConfirmed /\ FallbackIsEarned
        /\ NotModifiedWasParsed /\ SecondPassNeedsLostLock /\ ListingIsRecent /\ RecoveryMends )
BY PipelineIsEach, NoEntryForgotten, MapStaysBounded, ConfirmedMeansMined, NoUnearnedFallback,
   NothingMissedAsUnmodified, PassesAreMarked, ListingsAreRecent, RecoveryHasMended, PTL

\* And so do the two properties of its steps.
THEOREM PipelineStepsAreSafe == PipelineSpec => PausedOnEvidence /\ ConfirmedReadingIsFinal
BY PipelineIsEach, NoPauseWithoutEvidence, ConfirmedStaysConfirmed, PTL
=============================================================================
