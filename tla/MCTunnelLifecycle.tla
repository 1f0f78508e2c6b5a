------------------------- MODULE MCTunnelLifecycle -------------------------
(* Instances of TunnelLifecycle for TLC. *)
EXTENDS TunnelLifecycle, TLC

HandlerSymmetry == Permutations(Handlers)
=============================================================================
