-------------------------- MODULE MCTaskRepository --------------------------
(* Symmetry for TaskRepository: names of requests, agents and conversations   *)
(* mean nothing.                                                              *)
EXTENDS TaskRepository, TLC

Symmetric == Permutations(Requests) \cup Permutations(Slugs) \cup Permutations(Contexts)
=============================================================================
