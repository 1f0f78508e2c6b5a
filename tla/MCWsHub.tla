------------------------------ MODULE MCWsHub ------------------------------
(* WsHub for TLC; liveness is checked, so without symmetry. *)
EXTENDS WsHub
=============================================================================
