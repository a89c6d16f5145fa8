--------------------------- MODULE MCClientTunnel ---------------------------
(***************************************************************************)
(* Instances of ClientTunnel for TLC.                                      *)
(***************************************************************************)
EXTENDS ClientTunnel

CONSTANTS http1, ws1

OneOfEach == {http1, ws1}
OneHttp == {http1}
OneWs == {ws1}
NoPairs == {}

=============================================================================
