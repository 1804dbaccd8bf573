----------------------------- MODULE EmscSocket -----------------------------
(* The WebSocket of EMSCRealtimeWorker (worker-threads.ts): opened by ensureSocket at the start   *)
(* of every run, its handlers write to fields that by then may be about another socket.           *)
EXTENDS Naturals

CONSTANT SocketCount   \* bound: sockets that exist at a time

ASSUME SocketAssumption == SocketCount \in Nat \ {0}

Sockets == 1..SocketCount
NoSocket == 0

VARIABLES
  socket,      \* this.socket
  connecting,  \* this.socketConnecting
  state,       \* of each socket; an error comes before its close, which may take its time
  reachable    \* the provider's endpoint answers

socketVars == <<socket, connecting, state, reachable>>

SocketTypeOK ==
  /\ socket \in Sockets \cup {NoSocket} /\ connecting \in BOOLEAN /\ reachable \in BOOLEAN
  /\ state \in [Sockets -> {"free", "connecting", "open", "failed"}]

SocketInit ==
  /\ socket = NoSocket /\ connecting = FALSE /\ reachable = FALSE
  /\ state = [s \in Sockets |-> "free"]

----------------------------------------------------------------------------
IsReady == socket # NoSocket /\ state[socket] \in {"connecting", "open"}

\* Neither while it connects nor while the socket it knows connects or is open; a constructor that
\* throws leaves nothing behind.
EnsureSocket ==
  /\ ~connecting /\ ~IsReady
  /\ \E s \in Sockets :
       /\ state[s] = "free" /\ state' = [state EXCEPT ![s] = "connecting"]
       /\ socket' = s /\ connecting' = TRUE
  /\ UNCHANGED reachable

OnOpen(s) ==
  /\ state[s] = "connecting" /\ reachable /\ state' = [state EXCEPT ![s] = "open"]
  /\ connecting' = FALSE /\ UNCHANGED <<socket, reachable>>

ForgetsSocket == socket' = NoSocket /\ UNCHANGED connecting
ForgetsAll    == socket' = NoSocket /\ connecting' = FALSE

\* The handlers of 'error' and 'close' forget the socket of the worker, be it theirs or not. The
\* handshake's time-out is an error.
OnError(s) ==
  /\ state[s] \in {"connecting", "open"} /\ state' = [state EXCEPT ![s] = "failed"]
  /\ ForgetsAll /\ UNCHANGED reachable
OnClose(s) ==
  /\ state[s] \in {"open", "failed"} /\ state' = [state EXCEPT ![s] = "free"]
  /\ ForgetsAll /\ UNCHANGED reachable

EndpointChanges == reachable' = ~reachable /\ UNCHANGED <<socket, connecting, state>>

Settles(s) ==
  (state[s] = "connecting" /\ (OnOpen(s) \/ OnError(s))) \/ (state[s] = "failed" /\ OnClose(s))
SocketNext ==
  EnsureSocket \/ EndpointChanges \/ \E s \in Sockets : OnOpen(s) \/ OnError(s) \/ OnClose(s)

SocketSpec == SocketInit /\ [][SocketNext]_socketVars

----------------------------------------------------------------------------
\* Once the endpoint is reachable again the worker has a stream again, of whichever socket: a late
\* close of an old socket may make it forget a new one, but never leaves it waiting for none.
StreamComesBack == <>[]reachable => []<>(\E s \in Sockets : state[s] = "open")
=============================================================================
