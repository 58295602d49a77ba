------------------------- MODULE MCGatewayTransport -------------------------
(* The transport and the commands that run on it, instantiated for TLC.     *)

EXTENDS Controls

=============================================================================
