---------------------------- MODULE TunnelService ---------------------------
(***************************************************************************)
(* What a tunnel promises to the externals that send it requests, whatever *)
(* happens to its client, its control channel and its data sockets. A      *)
(* request waits for a data socket, is served by one, and is over; it may  *)
(* also be detached: still there, with no data socket serving it.          *)
(***************************************************************************)
EXTENDS Naturals, FiniteSets

CONSTANTS
  Requests,        \* external requests
  WsRequests,      \* those that are WebSocket upgrades
  MaxConnections,  \* how many may wait or be served at a time
  None             \* no answer

VARIABLES
  stage,   \* how far each request has come
  answer   \* what it was answered

vars == <<stage, answer>>

Stages == {"new", "waiting", "served", "detached", "over"}

Init ==
  /\ stage = [r \in Requests |-> "new"]
  /\ answer = [r \in Requests |-> None]

Waiting   == {r \in Requests : stage[r] = "waiting"}
Served    == {r \in Requests : stage[r] = "served"}
InService == Waiting \cup Served

Move(r, from, to) ==
  /\ stage[r] \in from
  /\ stage' = [stage EXCEPT ![r] = to]

Refuse(r) ==
  /\ Move(r, {"new"}, "over")
  /\ answer' = [answer EXCEPT ![r] = "503"]

Admit(r) ==
  /\ Move(r, {"new"}, "waiting")
  /\ Cardinality(InService) < MaxConnections
  /\ UNCHANGED answer

Serve(r) ==
  /\ Move(r, {"waiting"}, "served")
  /\ UNCHANGED answer

\* The response of an HTTP request is complete, or cannot be completed.
Finish(r) ==
  /\ r \notin WsRequests
  /\ Move(r, {"served"}, "over")
  /\ \E code \in {"response", "502"} : answer' = [answer EXCEPT ![r] = code]

\* A WebSocket is ended with its data socket.
End(r) ==
  /\ r \in WsRequests
  /\ Move(r, {"served", "detached"}, "over")
  /\ UNCHANGED answer

\* The external leaves.
Leave(r) ==
  /\ Move(r, {"waiting", "served", "detached"}, "over")
  /\ UNCHANGED answer

\* Something ends the wait of the requests W and the service of the requests S at once: a
\* timeout, a failure the client reports, the resumption of its control channel, the end of
\* the tunnel.
Interrupt(W, S) ==
  /\ stage' = [r \in Requests |-> IF r \in W THEN "over"
                                  ELSE IF r \in S THEN "detached" ELSE stage[r]]
  /\ answer' = [r \in Requests |-> IF r \in W THEN "503" ELSE answer[r]]

\* The client replaces the data socket of a WebSocket.
Resume(r) ==
  /\ r \in WsRequests
  /\ Move(r, {"detached"}, "served")
  /\ Cardinality(InService) < MaxConnections
  /\ UNCHANGED answer

Next ==
  \/ \E r \in Requests :
       Refuse(r) \/ Admit(r) \/ Serve(r) \/ Finish(r) \/ End(r) \/ Leave(r) \/ Resume(r)
  \/ \E W \in SUBSET Waiting, S \in SUBSET Served : Interrupt(W, S)

Spec == Init /\ [][Next]_vars

=============================================================================
