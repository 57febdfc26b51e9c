---------------------------- MODULE AtomicRegistry ----------------------------
(***************************************************************************)
(* What the admin surface of the server promises (src/.agent_docs/         *)
(* a2a-protocol.md, "Admin REST surface"): every load and delete takes     *)
(* effect at one instant or not at all, a reload is a delete and a load,   *)
(* and each answer is true of the registry at that instant.                *)
(***************************************************************************)
CONSTANTS Slugs, Requests, Vacant

VARIABLES
  op,         \* what each request asks for: [kind, slug]
  registry,   \* the agent loaded under each slug
  outcome     \* what became of each request

vars == <<op, registry, outcome>>

Init ==
  /\ op \in [Requests -> [kind : {"load", "delete", "reload"}, slug : Slugs]]
  /\ registry \in [Slugs -> Slugs \cup {Vacant}]
  /\ outcome = [r \in Requests |-> "none"]

Kind(r) == op[r].kind
Occupied(r) == registry[op[r].slug] # Vacant
Decide(r, answer) == outcome' = [outcome EXCEPT ![r] = answer] /\ UNCHANGED op

\* A load puts its agent under a free slug, and so does a reload that has
\* removed the old one.
Put(r) ==
  /\ ~Occupied(r)
  /\ registry' = [registry EXCEPT ![op[r].slug] = r]
  /\ \/ Kind(r) = "load" /\ outcome[r] = "none" /\ Decide(r, "201")
     \/ outcome[r] = "removed" /\ Decide(r, "completed")

Remove(r) ==
  /\ Occupied(r)
  /\ outcome[r] = "none"
  /\ registry' = [registry EXCEPT ![op[r].slug] = Vacant]
  /\ \/ Kind(r) = "delete" /\ Decide(r, "200")
     \/ Kind(r) = "reload" /\ Decide(r, "removed")

\* A request that is turned down leaves no trace, and is told the truth.
TurnDown(r) ==
  /\ UNCHANGED registry
  /\ \/ /\ outcome[r] = "none" /\ Kind(r) = "load"
        /\ \/ Decide(r, "400")
           \/ Occupied(r) /\ \E a \in {"409", "500"} : Decide(r, a)
     \/ /\ outcome[r] = "none" /\ Kind(r) = "delete"
        /\ ~Occupied(r) /\ \E a \in {"404", "500"} : Decide(r, a)
     \/ /\ outcome[r] = "none" /\ Kind(r) = "reload"
        /\ \/ Decide(r, "400")
           \/ ~Occupied(r) /\ \E a \in {"404", "failed"} : Decide(r, a)
     \/ outcome[r] = "removed" /\ Decide(r, "failed")

Next == \E r \in Requests : Put(r) \/ Remove(r) \/ TurnDown(r)

Spec == Init /\ [][Next]_vars
=============================================================================
