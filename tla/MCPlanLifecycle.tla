--------------------------- MODULE MCPlanLifecycle ---------------------------
(* Instances of PlanLifecycle for TLC; each .cfg gives the constants.      *)
EXTENDS PlanLifecycle, TLC

\* Request slots and contents are interchangeable.
Symmetry == Permutations(Procs) \cup Permutations(Defs)
=============================================================================
