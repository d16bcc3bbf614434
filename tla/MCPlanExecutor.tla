--------------------------- MODULE MCPlanExecutor ---------------------------
(* Instances of PlanExecutor for TLC. *)
EXTENDS PlanExecutor, TLC

(* A Python service with its requirements, a Node service, a written plan  *)
(* or a container, and a plan with a step the payload check refuses.       *)
MCManifests == {<<"main", "requirements">>, <<"package", "python">>, <<"other">>,
                <<"python", "blocked">>}
=============================================================================
