--------------------------- MODULE MCOrchestrator ---------------------------
(* The job registry with the values of its configurations. *)
EXTENDS Orchestrator

=============================================================================
