----------------------- MODULE ServerTunnelRefinement -----------------------
(* ServerTunnel implements TunnelService.                                  *)
EXTENDS ServerTunnel

InUse(r) == \E k \in SocketIds : <<r, k>> \in liveSockets

\* Where a request stands, as its external sees it.
StageOf(r) ==
  CASE external[r] = "idle"                              -> "new"
    [] external[r] \in {"ended", "gone"}                 -> "over"
    [] external[r] = "open" /\ r \in pending             -> "waiting"
    [] external[r] = "open" /\ r \notin pending /\ InUse(r)  -> "served"
    [] external[r] = "open" /\ r \notin pending /\ ~InUse(r) -> "detached"

Service == INSTANCE TunnelService WITH stage <- [r \in Requests |-> StageOf(r)]

\* The tunnel keeps what it promises to externals: at most maxConnections of them wait or are
\* served, each is answered at most once and never after it left, 503 goes to those that were
\* not served and a response or 502 to those that were, and nobody is served after an answer.
ImplementsService == Service!Spec

=============================================================================
