-------------------------- MODULE MCPlanExecution --------------------------
(* Instances of PlanExecution for TLC. *)
EXTENDS PlanExecution

CONSTANTS e1, e2, d1, d2

TwoDaemons == {e1, e2}
OneDaemon == {e1}
OneOperator == {d1}
TwoOperators == {d1, d2}
Everyone == Executors \cup Deciders
Nobody == {}

\* continue and revise-minor are treated alike, as are revise-major and pause.
OutcomeClasses == {"continue", "revise-major", "abort"}

=============================================================================
