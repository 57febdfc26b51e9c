----------------------------- MODULE MCPatterns -----------------------------
(* One agent of every pattern, and a second router whose max_depth is larger, *)
(* so that a chain of configurations may raise the limit.                     *)
EXTENDS Patterns

AllAgents == {"router", "desk", "debate", "tree", "parallel", "sequential", "plan", "simple"}
OnePerPattern == [a \in AllAgents |-> IF a \in {"router", "desk"} THEN "handoff" ELSE a]
Limits == [a \in AllAgents |-> IF a = "desk" THEN 2 ELSE 1]
=============================================================================
