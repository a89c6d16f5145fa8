--------------------------- MODULE MCServerTunnel ---------------------------
(* Instances of ServerTunnel for TLC.                                      *)
EXTENDS ServerTunnelRefinement, TLC

\* Sessions differ in nothing but their names; so do WebSocket requests and HTTP requests.
Symmetry ==
  Permutations(Sessions) \cup Permutations(WsRequests) \cup Permutations(Requests \ WsRequests)

=============================================================================
