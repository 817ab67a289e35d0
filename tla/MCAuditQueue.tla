----------------------------- MODULE MCAuditQueue -----------------------------
(* Instances of AuditQueue for TLC; each .cfg gives the constants.         *)
EXTENDS AuditQueue, TLC

\* Goroutines are interchangeable (safety runs only).
Symmetry == Permutations(Callers) \cup Permutations(Workers)
=============================================================================
