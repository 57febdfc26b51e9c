------------------------ MODULE MCToolConfirmation ------------------------
(* Model values and symmetry for ToolConfirmation. *)
EXTENDS ToolConfirmation, TLC

\* Runs and calls are interchangeable: Init takes every policy.
Symmetric == Permutations(Runs) \cup Permutations(Calls)
=============================================================================
