-------------------------- MODULE MCSharedWidEngine --------------------------
(* The Go engine on the small workflows. *)
EXTENDS SharedWidEngine, MCWorkflows
=============================================================================
