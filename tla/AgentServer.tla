----------------------------- MODULE AgentServer -----------------------------
(***************************************************************************)
(* The registry of agents of one server process (server.py) under          *)
(* concurrent requests to its admin surface (api.py), and the runs that    *)
(* resolve an agent while it is loaded and unloaded.                       *)
(*                                                                         *)
(* A coroutine is interrupted only where it waits: for the asyncio.Lock,   *)
(* for MCP discovery inside load_agent, for the provider's aclose inside   *)
(* unload_agent.  Everything between two such points is one action.        *)
(*                                                                         *)
(* A runtime is named after what it was built from: the slug of the        *)
(* configured agent at start-up, or the request that carried its config.   *)
(***************************************************************************)
EXTENDS Sequences

CONSTANTS
  Slugs,      \* slugs of agents
  Requests,   \* admin requests, each of one client
  Runs,       \* messages to agents
  Vacant      \* no runtime

ASSUME ServerAssumption ==
  /\ Vacant \notin Slugs \cup Requests
  /\ Slugs \cap Requests = {}

VARIABLES
  op,          \* what each request asks for: [kind, slug]
  pc,          \* where each request is
  answer,      \* its HTTP status, or the status of its reload operation
  entry,       \* unload_agent's `entry`: the runtime taken out
  queue,       \* Server._lock: the holder, then the waiters in order
  registry,    \* Server._runtimes
  directory,   \* Server.config.agents
  mounted,     \* routers mounted under each slug
  discovered,  \* runtimes whose McpRegistry holds its tools
  provider,    \* the HTTP client of each runtime: "none", "open", "closed"
  on           \* the runtime a run resolved

served == <<registry, directory, mounted, discovered>>
runs == <<provider, on>>
vars == <<op, pc, answer, entry, queue, served, runs>>

Runtimes == Slugs \cup Requests
Ops == [kind : {"load", "delete", "reload"}, slug : Slugs]
Steps == {"idle", "scheduled", "unload", "closing", "load", "discovering", "done"}
Answers == {"none", "200", "201", "400", "404", "409", "500",
            "pending", "running", "completed", "failed"}

TypeOK ==
  /\ op \in [Requests -> Ops]
  /\ pc \in [Requests -> Steps]
  /\ answer \in [Requests -> Answers]
  /\ entry \in [Requests -> Runtimes \cup {Vacant}]
  /\ queue \in Seq(Requests)
  /\ registry \in [Slugs -> Runtimes \cup {Vacant}]
  /\ directory \subseteq Runtimes
  /\ mounted \in [Slugs -> SUBSET Runtimes]
  /\ discovered \subseteq Runtimes
  /\ provider \in [Runtimes -> {"none", "open", "closed"}]
  /\ on \in [Runs -> Runtimes \cup {Vacant}]

Slug(r) == op[r].slug
Kind(r) == op[r].kind
AgentSlug(x) == IF x \in Slugs THEN x ELSE op[x].slug
HasAgent(s) == registry[s] # Vacant
Goto(r, step) == pc' = [pc EXCEPT ![r] = step]
Answer(r, a) == answer' = [answer EXCEPT ![r] = a]
Holds(r) == queue # <<>> /\ Head(queue) = r

\* create_app: the configured agents are loaded before the first request.
Init ==
  /\ op \in [Requests -> Ops]
  /\ pc = [r \in Requests |-> "idle"]
  /\ answer = [r \in Requests |-> "none"]
  /\ entry = [r \in Requests |-> Vacant]
  /\ queue = <<>>
  /\ directory \in SUBSET Slugs
  /\ registry = [s \in Slugs |-> IF s \in directory THEN s ELSE Vacant]
  /\ mounted = [s \in Slugs |-> {s} \cap directory]
  /\ discovered = directory
  /\ provider = [x \in Runtimes |-> "none"]
  /\ on = [u \in Runs |-> Vacant]

-----------------------------------------------------------------------------
(* The handlers, up to their first wait                                    *)

Acquire(r) == queue' = Append(queue, r)

\* Answered without touching the server: an invalid body, and has_agent, which
\* is asked outside the lock.
RefuseRequest(r) ==
  /\ pc[r] = "idle"
  /\ \/ Kind(r) = "load" /\ Answer(r, "400")
     \/ Kind(r) = "load" /\ HasAgent(Slug(r)) /\ Answer(r, "409")
     \/ Kind(r) = "reload" /\ HasAgent(Slug(r)) /\ Answer(r, "400")
     \/ Kind(r) # "load" /\ ~HasAgent(Slug(r)) /\ Answer(r, "404")
  /\ Goto(r, "done")
  /\ UNCHANGED <<op, entry, queue, served, runs>>

AcceptLoad(r) ==
  /\ pc[r] = "idle" /\ Kind(r) = "load" /\ ~HasAgent(Slug(r))
  /\ Goto(r, "load")
  /\ Acquire(r)
  /\ UNCHANGED <<op, answer, entry, served, runs>>

AcceptDelete(r) ==
  /\ pc[r] = "idle" /\ Kind(r) = "delete" /\ HasAgent(Slug(r))
  /\ Goto(r, "unload")
  /\ Acquire(r)
  /\ UNCHANGED <<op, answer, entry, served, runs>>

\* schedule_reload: 202 with a pending operation; the work is a task of its own.
AcceptReload(r) ==
  /\ pc[r] = "idle" /\ Kind(r) = "reload" /\ HasAgent(Slug(r))
  /\ Goto(r, "scheduled")
  /\ Answer(r, "pending")
  /\ UNCHANGED <<op, entry, queue, served, runs>>

StartReload(r) ==
  /\ pc[r] = "scheduled"
  /\ IF HasAgent(Slug(r))
     THEN Goto(r, "unload") /\ Answer(r, "running") /\ Acquire(r)
     ELSE Goto(r, "done") /\ Answer(r, "failed") /\ UNCHANGED queue
  /\ UNCHANGED <<op, entry, served, runs>>

-----------------------------------------------------------------------------
(* load_agent, holding the lock                                            *)

\* Leaving `async with self._lock` with an exception.
Fail(r, status) ==
  /\ queue' = Tail(queue)
  /\ Goto(r, "done")
  /\ Answer(r, IF Kind(r) = "reload" THEN "failed" ELSE status)
  /\ UNCHANGED <<op, entry, served, runs>>

\* "agent slug already loaded": no handler catches the ValueError.
LoadTwice(r) ==
  /\ pc[r] = "load" /\ Holds(r)
  /\ HasAgent(Slug(r))
  /\ Fail(r, "500")

\* Mutation: the slug is looked up by the handler only.
BuildUnchecked(r) ==
  /\ pc[r] = "load" /\ Holds(r)
  /\ Goto(r, "discovering")
  /\ UNCHANGED <<op, answer, entry, queue, served, runs>>

Build(r) ==
  /\ pc[r] = "load" /\ Holds(r)
  /\ ~HasAgent(Slug(r))
  /\ Goto(r, "discovering")
  /\ UNCHANGED <<op, answer, entry, queue, served, runs>>

\* Mutation: the cleanup returns without releasing the lock.
BuildFailsHolding(r) ==
  /\ \/ pc[r] = "load" /\ Holds(r) /\ ~HasAgent(Slug(r))
     \/ pc[r] = "discovering"
  /\ Goto(r, "done")
  /\ Answer(r, IF Kind(r) = "reload" THEN "failed" ELSE "400")
  /\ UNCHANGED <<op, entry, queue, served, runs>>

\* Anything that raises before the router is mounted becomes a ConfigError.
BuildFails(r) ==
  /\ \/ pc[r] = "load" /\ Holds(r) /\ ~HasAgent(Slug(r))
     \/ pc[r] = "discovering"
  /\ Fail(r, "400")

Mount(r) ==
  /\ pc[r] = "discovering"
  /\ discovered' = discovered \cup {r}
  /\ mounted' = [mounted EXCEPT ![Slug(r)] = @ \cup {r}]
  /\ registry' = [registry EXCEPT ![Slug(r)] = r]
  /\ directory' = directory \cup {r}
  /\ queue' = Tail(queue)
  /\ Goto(r, "done")
  /\ Answer(r, IF Kind(r) = "reload" THEN "completed" ELSE "201")
  /\ UNCHANGED <<op, entry, runs>>

-----------------------------------------------------------------------------
(* unload_agent, holding the lock                                          *)

\* Mutation: unloading is made idempotent.
UnloadMissingQuietly(r) ==
  /\ pc[r] = "unload" /\ Holds(r)
  /\ ~HasAgent(Slug(r))
  /\ Fail(r, "200")

UnloadMissing(r) ==
  /\ pc[r] = "unload" /\ Holds(r)
  /\ ~HasAgent(Slug(r))
  /\ Fail(r, "500")

\* Mutation: the entry is looked up, and popped by nobody.
TakeWithoutPop(r) ==
  /\ pc[r] = "unload" /\ Holds(r)
  /\ HasAgent(Slug(r))
  /\ entry' = [entry EXCEPT ![r] = registry[Slug(r)]]
  /\ directory' = {x \in directory : AgentSlug(x) # Slug(r)}
  /\ discovered' = discovered \ {registry[Slug(r)]}
  /\ Goto(r, "closing")
  /\ UNCHANGED <<op, answer, queue, registry, mounted, runs>>

\* pop, the directory, the MCP registry; then the provider is awaited.
Take(r) ==
  /\ pc[r] = "unload" /\ Holds(r)
  /\ HasAgent(Slug(r))
  /\ entry' = [entry EXCEPT ![r] = registry[Slug(r)]]
  /\ registry' = [registry EXCEPT ![Slug(r)] = Vacant]
  /\ directory' = {x \in directory : AgentSlug(x) # Slug(r)}
  /\ discovered' = discovered \ {registry[Slug(r)]}
  /\ Goto(r, "closing")
  /\ UNCHANGED <<op, answer, queue, mounted, runs>>

\* The provider is closed, the lock released and the routes stripped, without
\* a wait in between; a reload asks for the lock again.
Close(r) ==
  /\ pc[r] = "closing"
  /\ provider' = [provider EXCEPT ![entry[r]] = IF @ = "open" THEN "closed" ELSE @]
  /\ mounted' = [mounted EXCEPT ![Slug(r)] = {}]
  /\ IF Kind(r) = "reload"
     THEN Goto(r, "load") /\ queue' = Append(Tail(queue), r) /\ UNCHANGED answer
     ELSE Goto(r, "done") /\ queue' = Tail(queue) /\ Answer(r, "200")
  /\ UNCHANGED <<op, entry, registry, directory, discovered, on>>

-----------------------------------------------------------------------------
(* Runs                                                                    *)

\* A route of the slug resolves the runtime, and the run keeps it.
Resolve(u, s) ==
  /\ on[u] = Vacant /\ HasAgent(s)
  /\ on' = [on EXCEPT ![u] = registry[s]]
  /\ UNCHANGED <<op, pc, answer, entry, queue, served, provider>>

\* get_provider: the client is built by the first run that needs it.
GetProvider(u) ==
  /\ on[u] # Vacant /\ provider[on[u]] = "none"
  /\ provider' = [provider EXCEPT ![on[u]] = "open"]
  /\ UNCHANGED <<op, pc, answer, entry, queue, served, on>>

Arrive(r) ==
  RefuseRequest(r) \/ AcceptLoad(r) \/ AcceptDelete(r) \/ AcceptReload(r)

Serve(r) ==
  \/ StartReload(r)
  \/ LoadTwice(r) \/ Build(r) \/ BuildFails(r) \/ Mount(r)
  \/ UnloadMissing(r) \/ Take(r) \/ Close(r)

Next ==
  \/ \E r \in Requests : Arrive(r) \/ Serve(r)
  \/ \E u \in Runs : (\E s \in Slugs : Resolve(u, s)) \/ GetProvider(u)

Spec == Init /\ [][Next]_vars

\* The event loop runs what is ready; discovery is under a timeout of its
\* transport and closing an HTTP client waits for no peer.
FairSpec == Spec /\ \A r \in Requests : WF_vars(Serve(r))

-----------------------------------------------------------------------------
(* Properties                                                              *)

\* Registry, directory and routes agree at every await: the directory lists
\* exactly the loaded agents, a loaded agent has exactly its own router, and
\* routes without an agent belong to an unload that is not through
\* (load_agent, unload_agent and _strip_routes_for_slug, which runs after the
\* lock is released).
RegistryAgrees ==
  /\ directory = {registry[s] : s \in {t \in Slugs : HasAgent(t)}}
  /\ \A s \in Slugs :
       IF HasAgent(s)
       THEN mounted[s] = {registry[s]}
       ELSE mounted[s] = {} \/ \E r \in Requests : pc[r] = "closing" /\ Slug(r) = s

\* Whoever resolves an agent gets one with its tools discovered and a provider
\* that is not closed: runtimes enter the registry last and leave it first.
LoadedIsUsable ==
  \A s \in Slugs :
    HasAgent(s) => registry[s] \in discovered /\ provider[registry[s]] # "closed"

\* What has become of a request, for AtomicRegistry: its effect is decided
\* when the entry is taken out or put in, its answer may come later.
Outcome(r) ==
  IF Kind(r) = "reload" /\ pc[r] \in {"closing", "load", "discovering"} THEN "removed"
  ELSE IF Kind(r) = "delete" /\ pc[r] = "closing" THEN "200"
  ELSE IF answer[r] \in {"pending", "running"} THEN "none"
  ELSE answer[r]

Atomic == INSTANCE AtomicRegistry
            WITH outcome <- [x \in Requests |-> Outcome(x)]

\* Each answer is true of the registry at one instant between the request and
\* the answer, and each request takes effect at most once (has_agent outside
\* the lock, the checks repeated under it, two acquisitions per reload).
AnswersAreTrue == Atomic!Spec

\* Every request is answered and every reload operation ends: no path through
\* load_agent and unload_agent keeps the lock.
RequestsEnd == \A r \in Requests : pc[r] # "idle" ~> pc[r] = "done"
=============================================================================
