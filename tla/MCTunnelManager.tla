--------------------------- MODULE MCTunnelManager --------------------------
(* Instances of TunnelManager for TLC.                                     *)
EXTENDS TunnelManager

\* A range as short as it can be for two tunnels to compete
TwoPorts == 7001..7002

=============================================================================
