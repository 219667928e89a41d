----------------------------- MODULE MCWorkspace -----------------------------
(* Instances of Workspace for TLC. *)
EXTENDS Reports, MCReading, TLC

Symmetry == Permutations(Files) \cup Permutations(Emails)
==============================================================================
