-------------------------- MODULE MCWebSocketHub ---------------------------
(***************************************************************************)
(* Two connections whose buffers hold one message, and two broadcasts.     *)
(***************************************************************************)
EXTENDS WebSocketHub
=============================================================================
