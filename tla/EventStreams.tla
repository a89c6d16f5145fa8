---------------------------- MODULE EventStreams ----------------------------
(***************************************************************************)
(* What a dashboard page learns of the server: the event logs              *)
(* (server/admin/event-log.js), their streams (server/admin/router.js) and *)
(* the pages that read them (server/admin/pages.js).                       *)
(*                                                                         *)
(* One tunnel id, taken again and again, and one address that is blocked   *)
(* and unblocked. The server stores and announces the address normalized;  *)
(* whoever edits the permanent list may write it otherwise ("[::1]"), and  *)
(* a page that does has a row of that spelling. Log 0 is the global log,   *)
(* log n that of the n-th tunnel under the id. One page is open: the       *)
(* overview, the page of the id, or the blocklist page, of which the       *)
(* temporary or the permanent list is followed. Its stream delivers in     *)
(* order and may be cut at any time; the browser opens it again.           *)
(***************************************************************************)
EXTENDS Integers, Sequences, SequencesExt

CONSTANTS
  MaxGlobal,  \* size of the global ring: 1000
  MaxEvents,  \* size of a tunnel's ring: 500
  MaxLives,   \* bound: tunnels that take the id
  MaxSeq      \* bound: events ever recorded

ASSUME StreamsAssumption ==
  /\ MaxGlobal \in Nat \ {0} /\ MaxEvents \in Nat \ {0}
  /\ MaxLives \in Nat /\ MaxSeq \in Nat

Global == 0
LogIds == 0..MaxLives
Closed == -1

PageKinds == {"overview", "tunnel", "temp", "perm"}

VARIABLES
  feed,       \* the logs and the page's stream:
              \*   seq        _seq, the number of the last event
              \*   rings      _events of each log
              \*   forwards   the logs that have their forwarder
              \*   written    how many events each log has written to its subscribers
              \*   lastFact   number of the last event of each log that concerns the page
              \*   source     the log the page is subscribed to, or Closed
              \*   ended      the server has ended the stream
              \*   queue      written to the stream and not yet read by the page
              \*   read       place in its log of the last event read from this stream, or 0
  status,     \* of the tunnel under the id; "none" when there is none
  life,       \* number of the last tunnel
  current,    \* the log manager.getEventLog finds; Global when there is none
  cleanups,   \* 5 s timers of closed tunnels, named by their log
  blocked,    \* the address: "no", "yes", or "expired" and not yet collected
  page,       \* [kind, view: what it shows, latest: number of the event it shows the effect of,
              \*  typed: it lists the address in a spelling of its own]
  edit        \* the page's own change of the list: [phase, what, typed: in that spelling, ok, seq]

vars == <<feed, status, life, current, cleanups, blocked, page, edit>>

NoEdit == [phase |-> "none", what |-> "", typed |-> FALSE, ok |-> FALSE, seq |-> 0]

Init ==
  /\ feed = [seq |-> 0, rings |-> [l \in LogIds |-> <<>>], forwards |-> {},
             written |-> [l \in LogIds |-> 0], lastFact |-> [l \in LogIds |-> 0],
             source |-> Closed, ended |-> FALSE, queue |-> <<>>, read |-> 0]
  /\ status = "none"
  /\ life = 0
  /\ current = Global
  /\ cleanups = {}
  /\ blocked \in {"no", "yes"}
  /\ page \in [kind : PageKinds, view : {"unknown"}, latest : {0}, typed : {FALSE}]
  /\ edit = NoEdit

-----------------------------------------------------------------------------
(* The logs. Of an event only what it says of the tunnel or of the address  *)
(* is kept, with its number and its place in the log that wrote it.        *)

ListFacts == {"listed", "unlisted"}
TunnelFacts == {"created", "disconnected", "connected", "expired", "destroyed"}

FactsFor(kind) == IF kind \in {"temp", "perm"} THEN ListFacts ELSE TunnelFacts

\* The events of the tunnel's life, by what handleEvent makes of them
Said(type) ==
  CASE type = "tunnel.created" -> "created"
    [] type \in {"control.disconnected", "control.heartbeat_timeout"} -> "disconnected"
    [] type \in {"control.connected", "control.resumed"} -> "connected"
    [] type = "tunnel.window_expired" -> "expired"
    [] type = "tunnel.destroyed" -> "destroyed"
    [] type \in {"ip.blocked", "ip.added_permanent"} -> "listed"
    [] type \in {"ip.unblocked", "ip.removed_permanent"} -> "unlisted"
    [] OTHER -> "nothing"

Size(l) == IF l = Global THEN MaxGlobal ELSE MaxEvents

EvictNewest(ring, l) == IF Len(ring) > Size(l) THEN Append(Front(Front(ring)), Last(ring)) ELSE ring

Evict(ring, l) == IF Len(ring) > Size(l) THEN Tail(ring) ELSE ring

\* What the subscribers of l see; a clear notice is not recorded.
Write(f, l, says, recorded) ==
  LET e == [seq |-> f.seq, says |-> says, place |-> f.written[l] + 1]
  IN  [f EXCEPT
         !.written[l] = @ + 1,
         !.lastFact[l] = IF says \in FactsFor(page.kind) THEN f.seq ELSE @,
         !.rings[l] = IF recorded THEN Evict(Append(@, e), l) ELSE <<>>,
         !.queue = IF f.source = l /\ ~f.ended THEN Append(@, e) ELSE @]

\* What the forwarder of a tunnel's log does
Forward(f, l, says) == IF l \in f.forwards THEN Write(f, Global, says, TRUE) ELSE f

Push(f, l, type) ==
  Forward(Write([f EXCEPT !.seq = @ + 1], l, Said(type), TRUE), l, Said(type))

PushIf(condition, f, l, type) == IF condition THEN Push(f, l, type) ELSE f

Clear(f, l) == Forward(Write([f EXCEPT !.seq = @ + 1], l, "nothing", FALSE), l, "nothing")

\* destroy: the stream ends behind what was written to it.
DestroyLog(f, l) ==
  [f EXCEPT !.rings[l] = <<>>, !.forwards = @ \ {l}, !.ended = @ \/ f.source = l]

\* Bound: no more than MaxSeq events
Logged(f) == f.seq <= MaxSeq /\ feed' = f

-----------------------------------------------------------------------------
(* The tunnel and its log.                                                 *)

\* createTunnel: the log forwards before the constructor of the tunnel pushes its first event.
CreateTunnel ==
  /\ status = "none" /\ life < MaxLives
  /\ status' = "disconnected"
  /\ life' = life + 1
  /\ current' = life + 1
  /\ Logged(Push([feed EXCEPT !.forwards = @ \cup {life + 1}], life + 1, "tunnel.created"))
  /\ UNCHANGED <<cleanups, blocked, page, edit>>

\* _onHello; a session that is superseded was closed before.
Hello(resumes) ==
  /\ status = "disconnected"
  /\ status' = "connected"
  /\ Logged(Push(feed, life, IF resumes THEN "control.resumed" ELSE "control.connected"))
  /\ UNCHANGED <<life, current, cleanups, blocked, page, edit>>

\* _onControlClose, of a session that was silent or not, greeted or not
ControlCloses(silent) ==
  /\ status # "none"
  /\ status' = "disconnected"
  /\ LET timedOut == PushIf(silent, feed, life, "control.heartbeat_timeout")
     IN  Logged(Push(timedOut, life, "control.disconnected"))
  /\ UNCHANGED <<life, current, cleanups, blocked, page, edit>>

\* destroy, by the reconnect window or not, with a session, greeted or not, or without one; and the
\* registry's close listener
Destroy(expired, attached) ==
  /\ status # "none"
  /\ status = "connected" => attached
  /\ status' = "none"
  /\ LET over == PushIf(expired, feed, life, "tunnel.window_expired")
         left == PushIf(attached, over, life, "control.disconnected")
     IN  Logged(Push(left, life, "tunnel.destroyed"))
  /\ cleanups' = cleanups \cup {life}
  /\ UNCHANGED <<life, current, blocked, page, edit>>

\* Any event that tells nothing of the tunnel's state
RequestLogged ==
  /\ status # "none"
  /\ Logged(Push(feed, life, "request.received"))
  /\ UNCHANGED <<status, life, current, cleanups, blocked, page, edit>>

\* The timer of a closed tunnel destroys the log that is under the id when it fires.
CleanupLog(l) ==
  /\ l \in cleanups
  /\ cleanups' = cleanups \ {l}
  /\ current' = Global
  /\ feed' = IF current = Global THEN feed ELSE DestroyLog(feed, current)
  /\ UNCHANGED <<status, life, blocked, page, edit>>

\* POST /tubes/events/clear and POST /tubes/:tunnelId/events/clear
ClearEvents(l) ==
  /\ l \in {Global, current}
  /\ Logged(Clear(feed, l))
  /\ UNCHANGED <<status, life, current, cleanups, blocked, page, edit>>

-----------------------------------------------------------------------------
(* The address, on the temporary or on the permanent list.                 *)

\* Any event of the global log that does not concern the address
ServerError ==
  /\ Logged(Push(feed, Global, "server.error"))
  /\ UNCHANGED <<status, life, current, cleanups, blocked, page, edit>>

\* The address is put on the list or taken off it; a permanent entry has events of its own.
ListChanges(to) ==
  /\ blocked' = to
  /\ Logged(Push(feed, Global, IF to = "yes" THEN "ip.blocked" ELSE "ip.unblocked"))

Block ==
  /\ blocked = "no"
  /\ ListChanges("yes")
  /\ UNCHANGED <<status, life, current, cleanups, page, edit>>

\* Time passes: a temporary block ends, but stays in the table until it is collected.
BlockExpires ==
  /\ page.kind = "temp" /\ blocked = "yes"
  /\ blocked' = "expired"
  /\ UNCHANGED <<feed, status, life, current, cleanups, page, edit>>

\* By another admin, or by the collector
Unblock ==
  /\ blocked # "no"
  /\ ListChanges("no")
  /\ UNCHANGED <<status, life, current, cleanups, page, edit>>

-----------------------------------------------------------------------------
(* The page.                                                               *)

\* The blocklist page is rendered with the list; the others know nothing yet.
Load ==
  /\ page.view = "unknown"
  /\ page' = [page EXCEPT !.view = IF blocked = "yes" THEN "listed" ELSE "unlisted",
                          !.latest = feed.seq]
  /\ UNCHANGED <<feed, status, life, current, cleanups, blocked, edit>>

Snapshot == [seq |-> feed.seq, says |-> "state", place |-> 0, status |-> status]

\* The log behind the events route of the page
Route == IF page.kind = "tunnel" THEN current ELSE Global

\* The events route and addSseClient, in one go: the snapshot (global stream only), the history,
\* and from now on what is pushed. A tunnel without a log is answered tunnel.not_found and an
\* end, which changes nothing here.
Subscribe ==
  /\ feed.source = Closed
  /\ page.kind \in {"temp", "perm"} => page.view # "unknown"
  /\ page.kind = "tunnel" => current # Global
  /\ feed' = [feed EXCEPT !.source = Route, !.ended = FALSE, !.read = 0,
                 !.queue = (IF Route = Global THEN <<Snapshot>> ELSE <<>>) \o feed.rings[Route]]
  /\ UNCHANGED <<status, life, current, cleanups, blocked, page, edit>>

\* The stream breaks, or its end is reached: the browser will open it again.
StreamCloses ==
  /\ feed.source # Closed
  /\ feed' = [feed EXCEPT !.source = Closed, !.ended = FALSE, !.queue = <<>>, !.read = 0]
  /\ UNCHANGED <<status, life, current, cleanups, blocked, page, edit>>

Shows(view, e) == [page EXCEPT !.view = view, !.latest = e.seq]

OverviewKeepingKnown(e) ==
  CASE e.says = "state" -> IF e.status # "none" THEN Shows(e.status, e) ELSE page
    [] e.says = "created" -> IF page.view = "unknown" THEN Shows("disconnected", e) ELSE page
    [] e.says \in TunnelFacts \ {"created"} ->
         IF page.view # "unknown" THEN Shows(e.says, e) ELSE page
    [] OTHER -> page

\* handleEvent of the overview: only tunnel.created adds a tunnel, the others change one that
\* is known.
OverviewHandles(e) ==
  CASE e.says = "state" -> IF e.status # "none" THEN Shows(e.status, e) ELSE page
    [] e.says = "created" -> Shows("disconnected", e)
    [] e.says \in TunnelFacts \ {"created"} ->
         IF page.view # "unknown" THEN Shows(e.says, e) ELSE page
    [] OTHER -> page

\* handleEvent of a tunnel's page
TunnelPageHandles(e) ==
  CASE e.says = "created" -> Shows("disconnected", e)
    [] e.says \in TunnelFacts \ {"created"} -> Shows(e.says, e)
    [] OTHER -> page

\* handleSse
BlocklistHandles(e) == IF e.says \in ListFacts THEN Shows(e.says, e) ELSE page

Handles(e) ==
  CASE page.kind = "overview" -> OverviewHandles(e)
    [] page.kind = "tunnel" -> TunnelPageHandles(e)
    [] page.kind \in {"temp", "perm"} -> BlocklistHandles(e)

Receive ==
  /\ feed.queue # <<>>
  /\ page' = Handles(Head(feed.queue))
  /\ feed' = [feed EXCEPT !.queue = Tail(@), !.read = Head(feed.queue).place]
  /\ UNCHANGED <<status, life, current, cleanups, blocked, edit>>

-----------------------------------------------------------------------------
(* The page's own changes, on a connection of their own.                   *)

\* A row of the list can be removed, and any spelling added.
Editable(what, typed) ==
  \/ what = "add" /\ page.kind = "perm"
  \/ what = "remove" /\ IF typed THEN page.typed ELSE page.view = "listed"

\* Bound: one change at a time
SendEdit(what, typed) ==
  /\ page.view # "unknown"
  /\ Editable(what, typed)
  /\ edit.phase = "none"
  /\ edit' = [NoEdit EXCEPT !.phase = "sent", !.what = what, !.typed = typed]
  /\ UNCHANGED <<feed, status, life, current, cleanups, blocked, page>>

\* addPermanent, removePermanent, unblock: they normalize the address, and return false when there
\* is nothing to do.
ServerEdits ==
  /\ edit.phase = "sent"
  /\ IF (edit.what = "add") = (blocked = "no")
       THEN ListChanges(IF edit.what = "add" THEN "yes" ELSE "no")
       ELSE UNCHANGED <<feed, blocked>>
  /\ edit' = [edit EXCEPT !.phase = "answered", !.ok = (edit.what = "add") = (blocked = "no"),
                          !.seq = feed'.seq]
  /\ UNCHANGED <<status, life, current, cleanups, page>>

\* The row that was typed or clicked is pushed or filtered out.
RowChanges ==
  IF edit.typed THEN [page EXCEPT !.typed = edit.what = "add"]
  ELSE Shows(IF edit.what = "add" THEN "listed" ELSE "unlisted", edit)

\* A removal is believed whatever the answer's ok says; an addition that was none is reported.
AnswerArrives ==
  /\ edit.phase = "answered"
  /\ edit' = NoEdit
  /\ page' = IF edit.what = "add" /\ ~edit.ok THEN page ELSE RowChanges
  /\ UNCHANGED <<feed, status, life, current, cleanups, blocked>>

\* The catch of the page, before or after the server has acted
EditFails ==
  /\ edit.phase # "none"
  /\ edit' = NoEdit
  /\ UNCHANGED <<feed, status, life, current, cleanups, blocked, page>>

-----------------------------------------------------------------------------

TunnelNext ==
  \/ CreateTunnel
  \/ \E resumes \in BOOLEAN : Hello(resumes)
  \/ \E silent \in BOOLEAN : ControlCloses(silent)
  \/ \E expired, attached \in BOOLEAN : Destroy(expired, attached)
  \/ RequestLogged
  \/ \E l \in LogIds : CleanupLog(l) \/ ClearEvents(l)

ListNext ==
  \/ Load \/ Block \/ BlockExpires \/ Unblock \/ ServerError \/ ClearEvents(Global)
  \/ \E what \in {"add", "remove"}, typed \in BOOLEAN : SendEdit(what, typed)
  \/ ServerEdits \/ AnswerArrives \/ EditFails

\* The events that do not concern the page are all alike: RequestLogged and ServerError stand
\* for those of the other half.
Next ==
  \/ page.kind \in {"overview", "tunnel"} /\ TunnelNext
  \/ page.kind \in {"temp", "perm"} /\ ListNext
  \/ Subscribe \/ StreamCloses \/ Receive

Spec == Init /\ [][Next]_vars

-----------------------------------------------------------------------------
(* Properties.                                                             *)

\* A stream is a log from some event on: what it delivers is consecutive, in order and without
\* repetition, although the history and the live events come from different places, the ring
\* drops and is cleared, and events are forwarded from log to log; and nothing that the ring
\* still has is left out.
StreamContiguous ==
  LET log == feed.source
      events == IF feed.queue # <<>> /\ Head(feed.queue).says = "state"
                  THEN Tail(feed.queue) ELSE feed.queue
      Coming == {events[i].place : i \in DOMAIN events}
  IN
  log # Closed /\ ~feed.ended =>
    /\ \A i \in DOMAIN events : events[i].place = feed.written[log] - Len(events) + i
    /\ feed.read # 0 => feed.read = feed.written[log] - Len(events)
    /\ \A i \in DOMAIN feed.rings[log] :
         feed.rings[log][i].place \in Coming \cup 1..feed.read

Drained == feed.source # Closed /\ feed.queue = <<>>

\* What changed the page last was not older than the last event of the log that concerns it.
UpToDate(log) == feed.lastFact[log] <= page.latest

\* An overview that has read its stream shows the status of the tunnel, wherever in the ring its
\* history begins and however often it was replayed over a newer state; only a tunnel whose log
\* has lost its forwarder is shown as it was. One that is gone is shown as active only if the
\* page never read its end.
OverviewCurrent ==
  page.kind = "overview" /\ Drained =>
    /\ status # "none" /\ life \in feed.forwards => page.view = status
    /\ status = "none" /\ life > 0 /\ UpToDate(life)
         => page.view \in {"unknown", "expired", "destroyed"}

\* A tunnel's page that has read all that concerns the tunnel it is subscribed to shows how that
\* tunnel stands, even if the log of another one under the id went before.
TunnelPageCurrent ==
  page.kind = "tunnel" /\ Drained /\ UpToDate(feed.source)
    => page.view = IF feed.source = life /\ status # "none" THEN status ELSE "destroyed"

\* A blocklist page lists the address, as the server writes it, as the server does once it has
\* learned of the last change, from its stream or from the answer to its own change of that row,
\* and never after a change it has overtaken.
BlocklistCurrent ==
  page.kind \in {"temp", "perm"} /\ page.view # "unknown" /\ UpToDate(Global) =>
    /\ blocked = "yes" => page.view = "listed"
    /\ page.view = "listed" => blocked # "no"

PagesCurrent == OverviewCurrent /\ TunnelPageCurrent /\ BlocklistCurrent

=============================================================================
