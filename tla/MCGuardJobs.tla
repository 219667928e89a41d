----------------------------- MODULE MCGuardJobs -----------------------------
(* Instances of GuardJobs for TLC, which also evaluates what MCGuardWorkbook  *)
(* says of the algorithms a job runs.                                         *)
EXTENDS GuardJobs, MCGuardWorkbook, TLC

Symmetry == Permutations(Tenants) \cup Permutations(Workers) \cup Permutations(Digests)
==============================================================================
