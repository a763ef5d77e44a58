------------------------------ MODULE MCOffice -------------------------------
(* Office over small sets.  Callers, schedule IDs and processes are alike. *)
EXTENDS Office, TLC

Symmetry == Permutations(Callers) \cup Permutations(Ids) \cup Permutations(Procs)
=============================================================================
