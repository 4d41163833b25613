--------------------------- MODULE MCReplayEngine ---------------------------
(* The Rust engine on the small workflows. *)
EXTENDS ReplayEngine, MCWorkflows
=============================================================================
