--------------------------- MODULE MCRefreshLoops ---------------------------
(* RefreshLoops for TLC; liveness is checked, so without symmetry. *)
EXTENDS RefreshLoops
=============================================================================
