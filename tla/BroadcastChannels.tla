------------------------- MODULE BroadcastChannels -------------------------
(* broadcastTransaction (blockchain.ts): concurrent calls go down a fixed list of channels and    *)
(* share one map of back-offs, which the confirmation checks write as well.                       *)
EXTENDS Naturals

CONSTANT Calls   \* calls of broadcastTransaction under way at the same time

Arcs     == {"taal_arc", "gorillapool_arc"}
Channels == Arcs \cup {"whatsonchain"}

VARIABLES
  healthy,    \* channels that answer: no time-out, no 429, no 5xx
  backedOff,  \* broadcastBackoffUntilByChannel: channels whose back-off has not run out
  call        \* the channel a call has come to, and what it waits for there

channelVars == <<healthy, backedOff, call>>

Turns == [at : Channels, doing : {"comes", "waits", "waits again"}]
NoCall  == [at |-> "none", doing |-> "comes"]

ChannelsTypeOK ==
  /\ healthy \subseteq Channels /\ backedOff \subseteq Channels
  /\ call \in [Calls -> Turns \cup {NoCall}]

ChannelsInit ==
  /\ healthy = {} /\ backedOff = {}
  /\ call = [c \in Calls |-> NoCall]

Following(ch) ==
  CASE ch = "taal_arc"        -> "gorillapool_arc"
    [] ch = "gorillapool_arc" -> "whatsonchain"
    [] OTHER                  -> "none"         \* the call throws

At(c, ch, doing) == call[c] = [at |-> ch, doing |-> doing]
Turn(ch, doing)  == IF ch = "none" THEN NoCall ELSE [at |-> ch, doing |-> doing]
TurnsTo(c, turn)    == call' = [call EXCEPT ![c] = turn]
FallsThrough(c, ch) == TurnsTo(c, Turn(Following(ch), "comes"))

BroadcastTransaction(c) ==
  /\ call[c] = NoCall /\ TurnsTo(c, Turn("taal_arc", "comes"))
  /\ UNCHANGED <<healthy, backedOff>>

Skip(c, ch) ==
  /\ At(c, ch, "comes") /\ ch \in backedOff /\ FallsThrough(c, ch)
  /\ UNCHANGED <<healthy, backedOff>>
Ask(c, ch) ==
  /\ At(c, ch, "comes") /\ ch \notin backedOff /\ TurnsTo(c, Turn(ch, "waits"))
  /\ UNCHANGED <<healthy, backedOff>>

Waits(c, ch) == At(c, ch, "waits") \/ At(c, ch, "waits again")

\* parseArcResponse finds an accepted txid, or WhatsOnChain answers with one.
Accepts(c, ch) ==
  /\ Waits(c, ch) /\ ch \in healthy
  /\ backedOff' = backedOff \ {ch} /\ TurnsTo(c, NoCall)
  /\ UNCHANGED healthy
\* A rejecting or unexpected body with 200, or a 4xx other than 429.
Rejects(c, ch) ==
  /\ Waits(c, ch) /\ ch \in healthy /\ FallsThrough(c, ch)
  /\ UNCHANGED <<healthy, backedOff>>
\* 429, 5xx, a time-out or an error of the connection.
Fails(c, ch) ==
  /\ Waits(c, ch) /\ ch \notin healthy
  /\ backedOff' = backedOff \cup {ch} /\ FallsThrough(c, ch)
  /\ UNCHANGED healthy
\* 460, 461 or a text that says so, whatever the status: once more without the extended format.
RetriesRaw(c, ch) ==
  /\ At(c, ch, "waits") /\ TurnsTo(c, Turn(ch, "waits again"))
  /\ backedOff' = IF ch \in healthy THEN backedOff ELSE backedOff \cup {ch}
  /\ UNCHANGED healthy

ChannelTurn(c, ch) == Skip(c, ch) \/ Ask(c, ch) \/ Accepts(c, ch) \/ Rejects(c, ch) \/ Fails(c, ch)
TaalTurn(c)         == ChannelTurn(c, "taal_arc") \/ RetriesRaw(c, "taal_arc")
GorillaPoolTurn(c)  == ChannelTurn(c, "gorillapool_arc") \/ RetriesRaw(c, "gorillapool_arc")
WhatsOnChainTurn(c) == ChannelTurn(c, "whatsonchain")

\* isBroadcastChannelBackedOff compares with the clock.
OnlySuccessClears(ch) == FALSE
RunsOut(ch)           == ch \in backedOff
BackoffEnds(ch) ==
  /\ RunsOut(ch) /\ backedOff' = backedOff \ {ch}
  /\ UNCHANGED <<healthy, call>>

\* A confirmation check is answered with 429 or 5xx, or not at all.
ConfirmationCheckFails ==
  /\ "whatsonchain" \notin healthy /\ backedOff' = backedOff \cup {"whatsonchain"}
  /\ UNCHANGED <<healthy, call>>

ChannelChanges(ch) ==
  /\ healthy' \in {healthy \cup {ch}, healthy \ {ch}} \ {healthy}
  /\ UNCHANGED <<backedOff, call>>

BroadcastStep(c) == TaalTurn(c) \/ GorillaPoolTurn(c) \/ WhatsOnChainTurn(c)

ChannelsNext ==
  \/ \E c \in Calls : BroadcastTransaction(c) \/ BroadcastStep(c)
  \/ \E ch \in Channels : BackoffEnds(ch) \/ ChannelChanges(ch)
  \/ ConfirmationCheckFails

ChannelsSpec == ChannelsInit /\ [][ChannelsNext]_channelVars

----------------------------------------------------------------------------
\* An outage of TAAL, which the comments make the primary channel, is not for good: if broadcasts
\* go on, then once it answers again transactions go out through it again and again, whatever the
\* late answers of overlapping calls do to the shared back-off.
PrimaryReturns ==
  []<>(\E c \in Calls : call[c] # NoCall) /\ <>[]("taal_arc" \in healthy)
    => []<><<\E c \in Calls : Accepts(c, "taal_arc")>>_channelVars
=============================================================================
