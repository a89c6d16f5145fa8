--------------------------- MODULE ControlChannel ---------------------------
(***************************************************************************)
(* The client's end of the control channel (client/control-channel.js):    *)
(* connecting, saying hello, heartbeat, and reconnecting for as long as it *)
(* is not closed. Delays are not modelled: a timer may fire at any time.   *)
(*                                                                         *)
(* The 'close' event of a socket that _close destroyed comes before any    *)
(* timer fires, finds neither a socket nor a connection, and has no effect.*)
(***************************************************************************)
EXTENDS Naturals, FiniteSets

CONSTANTS
  HeartbeatTimeout,  \* HEARTBEAT_TIMEOUT_MS, in heartbeat intervals
  None               \* null

VARIABLES
  attempt,         \* the connect() under way: the first one, or one of the reconnect timer
  socket,          \* _socket is set
  connected,       \* _connected; the heartbeat timer runs exactly as long
  controlClosed,   \* _closed
  reconnectTimer,  \* _reconnectTimer is set
  resuming,        \* _previousControlId is set
  silence          \* heartbeats since _lastPongAt

controlVars == <<attempt, socket, connected, controlClosed, reconnectTimer, resuming, silence>>

ControlTypeOK ==
  /\ attempt \in {None, "first", "retry"}
  /\ socket \in BOOLEAN
  /\ connected \in BOOLEAN
  /\ controlClosed \in BOOLEAN
  /\ reconnectTimer \in BOOLEAN
  /\ resuming \in BOOLEAN
  /\ silence \in 0..HeartbeatTimeout

ControlInit ==
  /\ attempt = None
  /\ socket = FALSE
  /\ connected = FALSE
  /\ controlClosed = FALSE
  /\ reconnectTimer = FALSE
  /\ resuming = FALSE
  /\ silence = 0

ScheduleReconnectAlways == reconnectTimer' = TRUE

\* At most one timer: the next attempt is scheduled once, and never by a closed channel.
ScheduleReconnect == reconnectTimer' = (reconnectTimer \/ ~controlClosed)

ConnectFailsUncaught ==
  /\ attempt # None
  /\ attempt' = None
  /\ UNCHANGED <<socket, connected, controlClosed, reconnectTimer, resuming, silence>>

\* The dial, the handshake or its verification fails. Only the callback of the reconnect timer
\* catches the error and schedules the next attempt.
ConnectFails ==
  /\ attempt # None
  /\ attempt' = None
  /\ IF attempt = "retry" THEN ScheduleReconnect ELSE UNCHANGED reconnectTimer
  /\ UNCHANGED <<socket, connected, controlClosed, resuming, silence>>

\* 101: the socket is adopted, also by a channel that was closed meanwhile.
ConnectSucceeds ==
  /\ attempt # None
  /\ attempt' = None
  /\ socket' = TRUE
  /\ UNCHANGED <<connected, controlClosed, reconnectTimer, resuming, silence>>

\* hello.ack
Acknowledge ==
  /\ socket
  /\ ~connected
  /\ ~controlClosed
  /\ connected' = TRUE
  /\ silence' = 0
  /\ UNCHANGED <<attempt, socket, controlClosed, reconnectTimer, resuming>>

\* ping or pong
PongArrives ==
  /\ socket
  /\ ~controlClosed
  /\ silence' = 0
  /\ UNCHANGED <<attempt, socket, connected, controlClosed, reconnectTimer, resuming>>

EndSessionUnchecked ==
  /\ connected' = FALSE
  /\ socket' = FALSE
  /\ ScheduleReconnect
  /\ UNCHANGED <<attempt, controlClosed, resuming, silence>>

\* _close: the socket fails or closes, a frame is malformed, or the server says goodbye.
EndSession ==
  /\ connected \/ socket
  /\ connected' = FALSE
  /\ socket' = FALSE
  /\ ScheduleReconnect
  /\ UNCHANGED <<attempt, controlClosed, resuming, silence>>

\* A heartbeat that finds the server alive, and pings it.
Heartbeat ==
  /\ connected
  /\ silence < HeartbeatTimeout
  /\ silence' = silence + 1
  /\ UNCHANGED <<attempt, socket, connected, controlClosed, reconnectTimer, resuming>>

HeartbeatTimesOutUnclosed ==
  /\ connected
  /\ silence = HeartbeatTimeout
  /\ UNCHANGED controlVars

\* A heartbeat that finds it silent for too long.
HeartbeatTimesOut ==
  /\ connected
  /\ silence = HeartbeatTimeout
  /\ EndSession

\* The reconnect timer fires.
Reconnect ==
  /\ reconnectTimer
  /\ reconnectTimer' = FALSE
  /\ attempt' = "retry"
  /\ resuming' = TRUE
  /\ UNCHANGED <<socket, connected, controlClosed, silence>>

\* close(): an attempt under way is not aborted.
CloseChannel ==
  /\ controlClosed' = TRUE
  /\ reconnectTimer' = FALSE
  /\ socket' = FALSE
  /\ connected' = FALSE
  /\ UNCHANGED <<attempt, resuming, silence>>

=============================================================================
