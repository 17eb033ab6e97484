-------------------------- MODULE MCPlanningIntake --------------------------
(* Instances of PlanningIntake for TLC. *)
EXTENDS PlanningIntake
=============================================================================
