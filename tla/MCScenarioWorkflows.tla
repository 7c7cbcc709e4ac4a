--------------------------- MODULE MCScenarioWorkflows ---------------------------
(* ScenarioWorkflows with two handlers: a plan of two steps, purchases with  *)
(* one and with two stages, and a maintenance order.                        *)
EXTENDS ScenarioWorkflows

MCScenarios ==
    {[key |-> "employee_lifecycle", stages |-> 1, steps |-> 2],
     [key |-> "procurement", stages |-> 1, steps |-> 1],
     [key |-> "procurement", stages |-> 2, steps |-> 1],
     [key |-> "equipment_maintenance", stages |-> 1, steps |-> 1]}
================================================================================
