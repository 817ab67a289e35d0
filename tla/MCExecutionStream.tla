-------------------------- MODULE MCExecutionStream --------------------------
(* Instances of ExecutionStream for TLC.                                   *)
EXTENDS ExecutionStream
=============================================================================
