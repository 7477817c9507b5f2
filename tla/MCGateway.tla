------------------------------- MODULE MCGateway -------------------------------
(***************************************************************************)
(* One WebSocket, two names to ask about, two connections to the host and  *)
(* packets of two bytes: enough to cut a packet, to register again after a *)
(* failure and to have two INFOs in flight.                                *)
(***************************************************************************)
EXTENDS Gateway
=============================================================================
