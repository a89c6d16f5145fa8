---------------------------- MODULE TunnelCluster ---------------------------
(***************************************************************************)
(* The client's side of the pairs (client/tunnel-cluster.js) and the       *)
(* failures it records (client/failure-tracker.js). A link is one local    *)
(* connection and one data socket spliced together; link 0 of a pair comes *)
(* from pair.open, the others replace it when the control channel resumes. *)
(* What the client tells the server of a pair's end (pair.failed and       *)
(* pair.closed, while connected) leaves no state behind and is left out.   *)
(***************************************************************************)
EXTENDS ControlChannel

CONSTANTS
  Pairs,            \* pairs the server may open
  WsPairs,          \* those of kind 'ws'
  MaxReplacements,  \* bound: replacements of one pair
  MaxInWindow,      \* reconnectLoopMax
  MaxTotal          \* failures in all before the client gives up

VARIABLES
  pairs,          \* keys of this.pairs
  opened,         \* pairs the server has opened
  generation,     \* which link pair.local and pair.data belong to
  link,           \* how far each link has come
  traffic,        \* pairs with bytesIn > 0 or bytesOut > 0
  clusterClosed,  \* _closed
  recent,         \* FailureTracker: failures in the window
  total           \* FailureTracker: failures in all

clusterVars == <<pairs, opened, generation, link, traffic, clusterClosed, recent, total>>

Links == Pairs \X (0..MaxReplacements)

\* local, data: the local connection, then the data socket is dialed. piped: spliced.
\* closing, failing: spliced, and the local connection was closed or has failed; its 'close'
\* event is to come. halfdial, half: the data socket is dialed or open, and nobody will close
\* it, for the local connection has failed without telling it.
Phases == {"none", "local", "data", "piped", "closing", "failing", "halfdial", "half", "over"}

ClusterTypeOK ==
  /\ pairs \subseteq Pairs
  /\ opened \subseteq Pairs
  /\ generation \in [Pairs -> 0..MaxReplacements]
  /\ link \in [Links -> Phases]
  /\ traffic \subseteq Pairs
  /\ clusterClosed \in BOOLEAN
  /\ recent \in 0..MaxInWindow
  /\ total \in 0..MaxTotal

ClusterInit ==
  /\ pairs = {}
  /\ opened = {}
  /\ generation = [p \in Pairs |-> 0]
  /\ link = [l \in Links |-> "none"]
  /\ traffic = {}
  /\ clusterClosed = FALSE
  /\ recent = 0
  /\ total = 0

Current(p) == <<p, generation[p]>>

\* What destroying both sockets of a link makes of it: only the first link of a pair listens
\* to the close of its local connection, once it is spliced.
Destroyed(l) ==
  CASE link[l] = "piped" /\ l[2] = 0         -> "closing"
    [] link[l] \in {"closing", "failing"}    -> link[l]
    [] OTHER                                 -> "over"

DestroyLinks(L) == link' = [l \in Links |-> IF l \in L THEN Destroyed(l) ELSE link[l]]

\* _openPair
OpenPairs(P) ==
  /\ opened' = opened \cup P
  /\ IF clusterClosed
       THEN UNCHANGED <<pairs, link>>
       ELSE /\ pairs' = pairs \cup P
            /\ link' = [l \in Links |-> IF l[1] \in P /\ l[2] = 0 THEN "local" ELSE link[l]]
  /\ UNCHANGED <<generation, traffic, clusterClosed, recent, total>>

ClosePairsKeepingSockets(P) ==
  /\ pairs' = pairs \ P
  /\ UNCHANGED <<opened, generation, link, traffic, clusterClosed, recent, total>>

\* _closePair
ClosePairs(P) ==
  /\ pairs' = pairs \ P
  /\ DestroyLinks({Current(p) : p \in P \cap pairs})
  /\ UNCHANGED <<opened, generation, traffic, clusterClosed, recent, total>>

ResumePairsBeside(keep, drop) ==
  LET close == (drop \cup (keep \ WsPairs)) \cap pairs
      replace == keep \cap WsPairs \cap pairs
      new == {<<p, generation[p] + 1>> : p \in replace}
  IN
  /\ \A p \in replace : generation[p] < MaxReplacements
  /\ pairs' = pairs \ close
  /\ generation' = [p \in Pairs |-> IF p \in replace THEN generation[p] + 1 ELSE generation[p]]
  /\ link' = [l \in Links |-> IF l \in new THEN "local"
                              ELSE IF l \in {Current(p) : p \in close} THEN Destroyed(l)
                              ELSE link[l]]
  /\ UNCHANGED <<opened, traffic, clusterClosed, recent, total>>

\* 'resumed': what the server drops is closed; what it keeps is replaced if it is a WebSocket.
ResumePairs(keep, drop) ==
  LET close == (drop \cup (keep \ WsPairs)) \cap pairs
      replace == keep \cap WsPairs \cap pairs
      new == {<<p, generation[p] + 1>> : p \in replace}
  IN
  /\ \A p \in replace : generation[p] < MaxReplacements
  /\ pairs' = pairs \ close
  /\ generation' = [p \in Pairs |-> IF p \in replace THEN generation[p] + 1 ELSE generation[p]]
  /\ link' = [l \in Links |-> IF l \in new THEN "local"
                              ELSE IF l \in {Current(p) : p \in close \cup replace}
                              THEN Destroyed(l) ELSE link[l]]
  /\ UNCHANGED <<opened, traffic, clusterClosed, recent, total>>

ControlLostKeepingAll == ClosePairs({})

\* 'disconnected': HTTP pairs are closed, WebSockets wait for the resumption.
ControlLost == ClosePairs(pairs \ WsPairs)

\* close()
CloseCluster ==
  /\ clusterClosed' = TRUE
  /\ pairs' = {}
  /\ DestroyLinks({Current(p) : p \in pairs})
  /\ UNCHANGED <<opened, generation, traffic, recent, total>>

-----------------------------------------------------------------------------
(* The failure tracker.                                                    *)

Record ==
  /\ recent' = IF recent < MaxInWindow THEN recent + 1 ELSE recent
  /\ total' = IF total < MaxTotal THEN total + 1 ELSE total

\* Old failures leave the window.
WindowMoves ==
  /\ recent' \in 0..recent
  /\ recent' # recent
  /\ UNCHANGED <<pairs, opened, generation, link, traffic, clusterClosed, total>>

ShouldGiveUpInWindow == recent >= MaxInWindow

ShouldGiveUp == total >= MaxTotal \/ recent >= MaxInWindow

Becomes(l, phase) == link' = [link EXCEPT ![l] = phase]

-----------------------------------------------------------------------------
(* The sockets of a link l = <<p, k>>.                                     *)

\* ECONNREFUSED: the application is down for a while; that is no failure.
LocalRefused(l) ==
  /\ link[l] = "local"
  /\ Becomes(l, "over")
  /\ pairs' = pairs \ {l[1]}
  /\ UNCHANGED <<opened, generation, traffic, clusterClosed, recent, total>>

LocalConnects(l) ==
  /\ link[l] = "local"
  /\ Becomes(l, "data")
  /\ UNCHANGED <<pairs, opened, generation, traffic, clusterClosed, recent, total>>

LocalFailsKeepingPair(l) ==
  /\ link[l] \in {"local", "data", "piped"}
  /\ Becomes(l, CASE link[l] = "local" -> "over"
                  [] link[l] = "data"  -> "halfdial"
                  [] link[l] = "piped" -> IF l[2] = 0 THEN "failing" ELSE "half")
  /\ IF l[2] = 0 THEN Record ELSE UNCHANGED <<recent, total>>
  /\ UNCHANGED <<pairs, opened, generation, traffic, clusterClosed>>

\* Any other 'error' of the local connection, at any time.
LocalFails(l) ==
  /\ link[l] \in {"local", "data", "piped"}
  /\ Becomes(l, CASE link[l] = "local" -> "over"
                  [] link[l] = "data"  -> "halfdial"
                  [] link[l] = "piped" -> IF l[2] = 0 THEN "failing" ELSE "half")
  /\ IF l[2] = 0 THEN Record ELSE UNCHANGED <<recent, total>>
  /\ pairs' = pairs \ {l[1]}
  /\ UNCHANGED <<opened, generation, traffic, clusterClosed>>

\* The data socket is up: the preamble is sent and the two are spliced.
DataConnects(l) ==
  /\ link[l] \in {"data", "halfdial"}
  /\ Becomes(l, IF link[l] = "data" THEN "piped" ELSE "half")
  /\ UNCHANGED <<pairs, opened, generation, traffic, clusterClosed, recent, total>>

\* An 'error' of the data socket, at any time. The first link also destroys its local
\* connection; a replacement leaves it open.
DataFails(l) ==
  /\ link[l] \in {"data", "piped", "failing", "halfdial", "half"}
  /\ Becomes(l, IF l[2] = 0 /\ link[l] \in {"piped", "failing"} THEN "closing" ELSE "over")
  /\ IF l[2] = 0 THEN Record ELSE UNCHANGED <<recent, total>>
  /\ pairs' = pairs \ {l[1]}
  /\ UNCHANGED <<opened, generation, traffic, clusterClosed>>

\* Bytes flow; only the first link counts them.
BytesFlow(p) ==
  /\ link[<<p, 0>>] = "piped"
  /\ traffic' = traffic \cup {p}
  /\ UNCHANGED <<pairs, opened, generation, link, clusterClosed, recent, total>>

\* The exchange is over: both sockets end, or the server closes the data socket, which
\* destroys the local connection. Of a replacement only its pipes take notice.
LinkEnds(l) ==
  /\ link[l] \in {"piped", "half"}
  /\ Becomes(l, IF link[l] = "piped" /\ l[2] = 0 THEN "closing" ELSE "over")
  /\ UNCHANGED <<pairs, opened, generation, traffic, clusterClosed, recent, total>>

\* The 'close' event of the local connection of the first link.
LocalClosed(p) ==
  /\ link[<<p, 0>>] \in {"closing", "failing"}
  /\ Becomes(<<p, 0>>, "over")
  /\ pairs' = pairs \ {p}
  /\ IF p \in traffic
       THEN recent' = 0 /\ total' = 0
       ELSE UNCHANGED <<recent, total>>
  /\ UNCHANGED <<opened, generation, traffic, clusterClosed>>

=============================================================================
