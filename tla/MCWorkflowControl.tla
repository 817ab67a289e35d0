-------------------------- MODULE MCWorkflowControl --------------------------
(* Instances of WorkflowControl for TLC; each .cfg gives the constants.    *)
EXTENDS WorkflowControl, TLC

\* Request slots, step ids and keys are interchangeable (safety runs only).
Symmetry == Permutations(Procs) \cup Permutations(Steps) \cup Permutations(Keys)
=============================================================================
