------------------------------- MODULE Replay -------------------------------
(***************************************************************************)
(* Replays started from the client's dashboard: POST /tubes/replay and its *)
(* lock (client/admin/server.js), the run itself (onReplay in              *)
(* client/index.js, runReplaySession in replay/runner.js), the event log   *)
(* with its stream (client/admin/event-log.js) and the page that follows   *)
(* it (client/admin/page.js).                                              *)
(*                                                                         *)
(* Each trigger is one POST; one of them comes from the page. All of them  *)
(* name manifests with the same steps. A step either goes out, or its      *)
(* capture cannot be read, or rendering it raises. "replay.step" stands    *)
(* for replay.step.error too: the page does the same with both.            *)
(***************************************************************************)
EXTENDS Integers, Sequences, FiniteSets, SequencesExt

CONSTANTS
  Triggers,   \* POST requests
  OwnTrigger, \* the one the page sends
  Steps,      \* the kinds of the manifest's steps: "http" or "ws"
  Loops,      \* manifest.loop
  MaxRing,    \* size of the event log: 200
  MaxQueue    \* bound: no other event is logged while so many are on their way to the page

ASSUME ReplayAssumption ==
  /\ OwnTrigger \in Triggers
  /\ Steps \in Seq({"http", "ws"}) /\ Loops \in Nat /\ MaxRing \in Nat \ {0} /\ MaxQueue \in Nat

VARIABLES
  lock,      \* replayRunning of the server
  phase,     \* per trigger: "idle" until it is "sent", "reading" its body, "waiting" between
             \* steps, "sending", "ended", or "refused"
  position,  \* per trigger: steps done, over all loops
  silent,    \* triggers whose HTTP target will never answer the step that was sent
  overlap,   \* history: two triggers had passed the lock at a time
  reports,   \* history: what the run of each trigger pushed to the log
  log,       \* [ring, turns: how many events of it started or ended a replay]
  stream,    \* [open, queue]
  page       \* [running: its replayRunning, click: "none", "sent", or the answer "accepted" or
             \*  "refused" on its way; and two histories, latest: the last start or end of a
             \*  replay it read, cleared: which that was when its own request was refused or failed]

vars == <<lock, phase, position, silent, overlap, reports, log, stream, page>>

Init ==
  /\ lock = FALSE
  /\ phase = [r \in Triggers |-> IF r = OwnTrigger THEN "idle" ELSE "sent"]
  /\ position = [r \in Triggers |-> 0]
  /\ silent = {}
  /\ overlap = FALSE
  /\ reports = [r \in Triggers |-> <<>>]
  /\ log = [ring |-> <<>>, turns |-> 0]
  /\ stream = [open |-> FALSE, queue |-> <<>>]
  /\ page = [running |-> FALSE, click |-> "none", latest |-> 0, cleared |-> 0]

-----------------------------------------------------------------------------
(* The event log.                                                          *)

\* Each push drops the oldest event of a ring that is too long.
Evict(ring) == SubSeq(ring, IF Len(ring) > MaxRing THEN Len(ring) - MaxRing + 1 ELSE 1, Len(ring))

EndTypes == {"replay.completed", "replay.error"}

TurnTypes == EndTypes \cup {"replay.started"}

\* push, of events of replays of which at most the last is a start or an end
PushAll(types) ==
  LET turns == IF \E i \in DOMAIN types : types[i] \in TurnTypes THEN log.turns + 1 ELSE log.turns
      events == [i \in DOMAIN types |->
                   [type |-> types[i],
                    turn |-> IF types[i] \in TurnTypes THEN turns ELSE log.turns]]
  IN  /\ log' = [ring |-> Evict(log.ring \o events), turns |-> turns]
      /\ stream' = [stream EXCEPT !.queue = IF stream.open THEN @ \o events ELSE @]

\* Any other event, which tells nothing of replays
OtherEvent ==
  LET e == [type |-> "request", turn |-> log.turns] IN
  /\ ~stream.open \/ Len(stream.queue) < MaxQueue
  /\ log' = [log EXCEPT !.ring = Evict(Append(@, e))]
  /\ stream' = [stream EXCEPT !.queue = IF stream.open THEN Append(@, e) ELSE @]
  /\ UNCHANGED <<lock, phase, position, silent, overlap, reports, page>>

\* clear: the notice that subscribers are sent has no effect on the page's view of replays.
ClearEvents ==
  /\ log' = [log EXCEPT !.ring = <<>>]
  /\ UNCHANGED <<lock, phase, position, silent, overlap, reports, stream, page>>

-----------------------------------------------------------------------------
(* The run.                                                                *)

Running == {r \in Triggers : phase[r] \in {"waiting", "sending"}}

Total == Loops * Len(Steps)

Kind(n) == Steps[((n - 1) % Len(Steps)) + 1]

\* Steps from..to that are sent over a WebSocket
WsSteps(from, to) == {n \in from..to : Kind(n) = "ws"}

\* Of the steps whose capture cannot be read, only those of a WebSocket are reported.
UnreadableReports(first, last) ==
  [i \in 1..Cardinality(WsSteps(first, last)) |-> "replay.step"]

Report(r, types) ==
  /\ PushAll(types)
  /\ reports' = [reports EXCEPT ![r] = @ \o types]

EndKeepingLock(r) ==
  /\ phase' = [phase EXCEPT ![r] = "ended"]
  /\ UNCHANGED lock

\* The finally of the handler
End(r) ==
  /\ phase' = [phase EXCEPT ![r] = "ended"]
  /\ lock' = FALSE

\* The runner goes on: over steps it cannot read, to a step that it sends, that raises, or to the
\* end of the last loop. Reading the manifest, or the pause after a step that was sent, may raise
\* although no step is left.
Continue(r) ==
  /\ phase[r] = "waiting"
  /\ \E n \in (position[r] + 1)..(Total + 1) :
       LET unread == UnreadableReports(position[r] + 1, n - 1) IN
       /\ position' = [position EXCEPT ![r] = n - 1]
       /\ \/ /\ n <= Total
             /\ phase' = [phase EXCEPT ![r] = "sending"]
             /\ Report(r, unread)
             /\ UNCHANGED lock
          \/ /\ n <= Total \/ n = position[r] + 1
             /\ End(r)
             /\ Report(r, unread \o <<"replay.error">>)
          \/ /\ n = Total + 1
             /\ End(r)
             /\ Report(r, unread \o <<"replay.completed">>)
  /\ UNCHANGED <<silent, overlap, page>>

Settle(r) ==
  /\ phase[r] = "sending" /\ r \notin silent
  /\ phase' = [phase EXCEPT ![r] = "waiting"]
  /\ position' = [position EXCEPT ![r] = @ + 1]
  /\ Report(r, <<"replay.step">>)
  /\ UNCHANGED <<lock, silent, overlap, page>>

\* wsSend: the upgrade is answered and the frames are sent, it fails, or 10 s pass in silence. That
\* a target never ends its head and yet sends some of it every 10 s is left out.
WsSendSettles(r) == Kind(position[r] + 1) = "ws" /\ Settle(r)

\* httpSend: an answer or a failure
HttpSendSettles(r) == Kind(position[r] + 1) = "http" /\ Settle(r)

AnyTargetSilent(r) ==
  /\ phase[r] = "sending" /\ r \notin silent
  /\ silent' = silent \cup {r}
  /\ UNCHANGED <<lock, phase, position, overlap, reports, log, stream, page>>

\* httpSend has no timeout.
TargetSilent(r) ==
  /\ phase[r] = "sending" /\ Kind(position[r] + 1) = "http" /\ r \notin silent
  /\ silent' = silent \cup {r}
  /\ UNCHANGED <<lock, phase, position, overlap, reports, log, stream, page>>

-----------------------------------------------------------------------------
(* POST /tubes/replay.                                                     *)

\* Nobody waits for the answer when the page's fetch has failed.
Answered(r, answer) ==
  [page EXCEPT !.click = IF r = OwnTrigger /\ @ = "sent" THEN answer ELSE @]

\* The head of the request: the lock is tested before the body is awaited.
HeadArrives(r) ==
  /\ phase[r] = "sent"
  /\ IF lock
       THEN /\ phase' = [phase EXCEPT ![r] = "refused"]
            /\ page' = Answered(r, "refused")
            /\ UNCHANGED overlap
       ELSE /\ phase' = [phase EXCEPT ![r] = "reading"]
            /\ overlap' = (overlap \/ \E s \in Triggers : phase[s] = "reading")
            /\ UNCHANGED page
  /\ UNCHANGED <<lock, position, silent, reports, log, stream>>

\* The body names no manifest that can be loaded, 400 or 404, or breaks off with its connection:
\* readBody waits on, for nobody.
BodyRefused(r) ==
  /\ phase[r] = "reading"
  /\ phase' = [phase EXCEPT ![r] = "refused"]
  /\ page' = Answered(r, "refused")
  /\ UNCHANGED <<lock, position, silent, overlap, reports, log, stream>>

StartUnreported(r) == Report(r, <<>>)

\* onReplay until its first await
StartReplay(r) == Report(r, <<"replay.started">>)

\* 202, and then the lock is taken.
BodyAccepted(r) ==
  /\ phase[r] = "reading"
  /\ phase' = [phase EXCEPT ![r] = "waiting"]
  /\ lock' = TRUE
  /\ page' = Answered(r, "accepted")
  /\ StartReplay(r)
  /\ UNCHANGED <<position, silent, overlap>>

-----------------------------------------------------------------------------
(* The page.                                                               *)

\* triggerReplay
Click ==
  /\ ~page.running /\ phase[OwnTrigger] = "idle"
  /\ phase' = [phase EXCEPT ![OwnTrigger] = "sent"]
  /\ page' = [page EXCEPT !.click = "sent", !.running = TRUE]
  /\ UNCHANGED <<lock, position, silent, overlap, reports, log, stream>>

\* The catch of the fetch: no replay runs, whatever the page has read of one.
FlagCleared == [page EXCEPT !.click = "none", !.running = FALSE, !.cleared = page.latest]

\* The then and the catch of its fetch
AnswerArrives ==
  /\ page.click \in {"accepted", "refused"}
  /\ page' = IF page.click = "refused" THEN FlagCleared ELSE [page EXCEPT !.click = "none"]
  /\ UNCHANGED <<lock, phase, position, silent, overlap, reports, log, stream>>

\* The connection is lost before the answer is read, wherever the request has come to.
FetchFails ==
  /\ page.click # "none"
  /\ page' = FlagCleared
  /\ UNCHANGED <<lock, phase, position, silent, overlap, reports, log, stream>>

\* The events route: __init__, which tells nothing of replays, and the history
Subscribe ==
  /\ ~stream.open
  /\ stream' = [open |-> TRUE, queue |-> log.ring]
  /\ UNCHANGED <<lock, phase, position, silent, overlap, reports, log, page>>

\* onerror: the page opens a new stream 3 s later.
StreamCloses ==
  /\ stream.open
  /\ stream' = [open |-> FALSE, queue |-> <<>>]
  /\ UNCHANGED <<lock, phase, position, silent, overlap, reports, log, page>>

RunsAfterIgnoringErrors(type, running) ==
  CASE type = "replay.started" -> TRUE
    [] type = "replay.completed" -> FALSE
    [] OTHER -> running

\* setFlowRunning and setFlowDone
RunsAfter(type, running) ==
  CASE type = "replay.started" -> TRUE
    [] type \in {"replay.completed", "replay.error"} -> FALSE
    [] OTHER -> running

Receive ==
  /\ stream.queue # <<>>
  /\ LET e == Head(stream.queue) IN
     page' = [page EXCEPT !.running = RunsAfter(e.type, @),
                          !.latest = IF e.type \in TurnTypes THEN e.turn ELSE @]
  /\ stream' = [stream EXCEPT !.queue = Tail(@)]
  /\ UNCHANGED <<lock, phase, position, silent, overlap, reports, log>>

-----------------------------------------------------------------------------

Next ==
  \/ \E r \in Triggers :
       \/ HeadArrives(r) \/ BodyRefused(r) \/ BodyAccepted(r)
       \/ Continue(r) \/ WsSendSettles(r) \/ HttpSendSettles(r) \/ TargetSilent(r)
  \/ OtherEvent \/ ClearEvents
  \/ Click \/ AnswerArrives \/ FetchFails \/ Subscribe \/ StreamCloses \/ Receive

Spec == Init /\ [][Next]_vars

\* A promise that has settled is continued, a target that will answer does so at last, and
\* wsSend has its timeout.
Fairness == \A r \in Triggers : WF_vars(Continue(r)) /\ WF_vars(Settle(r))

FairSpec == Spec /\ Fairness

-----------------------------------------------------------------------------
(* Properties.                                                             *)

\* The lock is held only while a replay runs, whichever of several ends first; and unless two
\* requests were read at a time, at most one replay runs and the lock is held while it does.
LockHonest ==
  /\ lock => Running # {}
  /\ ~overlap => /\ \A r, s \in Running : r = s
                 /\ Running # {} => lock

\* The log tells every run as a story: it starts, reports steps, and ends once, if and only if it
\* has ended; a run is completed only after every step of every loop was sent or found
\* unreadable, which of HTTP steps is not reported.
RunsReported ==
  \A r \in Triggers :
    LET story == reports[r]
        ended == story # <<>> /\ Last(story) \in EndTypes
        steps == {i \in DOMAIN story : story[i] = "replay.step"}
    IN
    /\ story # <<>> => Head(story) = "replay.started"
    /\ \A i \in DOMAIN story : story[i] \in EndTypes => i = Len(story)
    /\ ended <=> phase[r] = "ended"
    /\ r \in Running <=> story # <<>> /\ ~ended
    /\ Cardinality(steps) <= position[r]
    /\ ended /\ Last(story) = "replay.completed" =>
         /\ position[r] = Total
         /\ Cardinality(steps) >= Cardinality(WsSteps(1, Total))

\* The lock, the runs and what the log says of them agree.
ReplaysConsistent == LockHonest /\ RunsReported

\* A page that has read its stream, and in it the last start or end of a replay, whatever history
\* it read again meanwhile, shows none as running unless one runs or its own request is under way;
\* and shows a replay that runs, unless its own request was refused or failed after the start was
\* read, which clears the flag (page.js:478). Unless two requests were read at a time.
PageFollows ==
  /\ stream.open /\ stream.queue = <<>> /\ page.latest = log.turns
  /\ ~overlap
  => /\ page.running /\ page.click = "none" => Running # {}
     /\ Running # {} /\ page.cleared # log.turns => page.running

\* The lock is given up at last, unless an HTTP target never answers a step: nothing else, and no
\* other request, can block the dashboard's replays for ever.
LockReleased ==
  lock ~> ~lock \/ \E r \in silent : phase[r] = "sending" /\ Kind(position[r] + 1) = "http"

=============================================================================
