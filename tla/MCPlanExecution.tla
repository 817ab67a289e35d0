--------------------------- MODULE MCPlanExecution ---------------------------
(* Instances of PlanExecution for TLC.                                     *)
EXTENDS PlanExecution, TLC

\* Requests are interchangeable; not used with temporal properties.
Symmetry == Permutations(Procs)
=============================================================================
