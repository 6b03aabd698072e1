---------------------------- MODULE MCWsSession ----------------------------
(* WsSession with the send timeout, the ping interval and the deadline in  *)
(* their ratio of 1 : 3 : 6, and a broadcast every tick.                   *)
EXTENDS WsSession
=============================================================================
