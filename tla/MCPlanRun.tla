------------------------------ MODULE MCPlanRun ------------------------------
(* The plan of one job with the values of its configurations. *)
EXTENDS PlanRun

=============================================================================
