------------------------------ MODULE MCWsHub ------------------------------
(* The instance of WsHub that TLC checks. *)
EXTENDS WsHub
============================================================================
