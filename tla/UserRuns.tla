------------------------------ MODULE UserRuns ------------------------------
(***************************************************************************)
(* Runs on behalf of end users: the middleware that verifies who sends a   *)
(* request (identity.py), the context the run inherits (a2a/routes.py),    *)
(* the MCP calls it makes with it (mcp/streamable_http.py), and what it is *)
(* told from long-term memory and leaves there (runtime.py, memory/).      *)
(* Composes AgentConfig and LongTermMemory; one agent is modelled, the     *)
(* stores and registries of two agents share nothing.                      *)
(***************************************************************************)
EXTENDS AgentConfig, LongTermMemory

CONSTANTS
  Users,        \* people with a valid token
  Requests,     \* messages sent to the agent
  Tasks,
  Setups,       \* server and agent configurations
  Messages,     \* what may be sent: the task and the text of each request
  Replies,      \* replies of the extractor: sequences of facts
  MaxGens       \* bound: reloads and restarts

ASSUME UserRunsAssumption ==
  /\ NoOne \notin Users
  /\ Off \notin Requests
  /\ \A sends \in Messages : \A r \in Requests : sends[r].task \in Tasks
ASSUME TextsAssumption == \A sends \in Messages : \A r \in Requests : IsFiniteSet(sends[r].text)
ASSUME SetupsAssumption == \A s \in Setups : IsAgent(s.agent)
ASSUME RepliesAssumption ==
  \A reply \in Replies : Len(reply) \in Nat /\ DOMAIN reply = 1..Len(reply)

VARIABLES
  setup,    \* identity, agent, auth, recall, learn, scopes, forced, durable
  agent,    \* the validated configuration the runtime was built from
  handles,  \* the MCP registry: name of a server -> the server
  gen,      \* how often the runtime was rebuilt
  pc, sender, task, query,
  bound,    \* the context variables of the request's own task
  own,      \* the copy the run's task took
  since,    \* the runtime the request resolved
  sent,     \* the server, headers and discovery flag of the run's last MCP call
  shown,    \* what the run was told from memory
  answer,   \* the run whose answer is harvested
  todo,     \* extracted facts not written yet
  learned,  \* all extracted facts
  lost,     \* a write of the run failed
  client,   \* "none", "waiting", "replied", "gone"
  row,      \* the run whose text a COMPLETED task has
  store     \* the memory records, in the order written

config == <<setup, agent, handles, gen>>
request == <<sender, task, query, own, since>>
memory == <<answer, todo, learned, lost, store>>
vars == <<config, pc, request, bound, sent, shown, memory, client, row>>

None == Off
Identity == setup.identity

\* Servers that may be listed: one that forwards the user wants credentials of
\* discovery too once identities are in use.
Listable(a) == {i \in DOMAIN a.servers :
  a.servers[i].forward /\ Identity # Off => RequestHeaders(a.servers[i], TRUE, NoOne) # Off}

Init ==
  /\ setup \in Setups
  /\ agent = AtBoot(setup.agent, setup.identity)
  /\ \E up \in SUBSET Listable(agent) : handles = Handles(agent, up)
  /\ gen = 0
  /\ pc = [r \in Requests |-> "idle"] /\ client = [r \in Requests |-> "none"]
  /\ sender = [r \in Requests |-> NoOne] /\ bound = sender /\ own = sender
  /\ \E sends \in Messages :
       /\ task = [r \in Requests |-> sends[r].task]
       /\ query = [r \in Requests |-> sends[r].text]
  /\ since = [r \in Requests |-> 0] /\ sent = [r \in Requests |-> None]
  /\ shown = [r \in Requests |-> <<>>] /\ answer = [r \in Requests |-> None]
  /\ todo = shown /\ learned = shown /\ lost = [r \in Requests |-> FALSE]
  /\ row = [t \in Tasks |-> None] /\ store = <<>>

-----------------------------------------------------------------------------
\* The agent card needs no token and binds nobody.
ServeCard(r) ==
  /\ pc[r] = "idle"
  /\ pc' = [pc EXCEPT ![r] = "closed"] /\ client' = [client EXCEPT ![r] = "replied"]
  /\ UNCHANGED <<config, request, bound, sent, shown, memory, row>>

\* Without an identity block the middleware lets everybody pass, unnamed.
Arrive(r) ==
  /\ pc[r] = "idle"
  /\ \E who \in IF Identity = Off THEN {NoOne} ELSE Users :
       /\ sender' = [sender EXCEPT ![r] = who]
       /\ bound' = [bound EXCEPT ![r] = who]
  /\ pc' = [pc EXCEPT ![r] = "bound"] /\ client' = [client EXCEPT ![r] = "waiting"]
  /\ UNCHANGED <<config, task, query, own, since, sent, shown, memory, row>>
\* No token, an invalid one, or one without the claim: 401.
Unidentified(r) ==
  /\ pc[r] = "idle" /\ Identity # Off
  /\ pc' = [pc EXCEPT ![r] = "closed"] /\ client' = [client EXCEPT ![r] = "replied"]
  /\ UNCHANGED <<config, request, bound, sent, shown, memory, row>>

\* The agent's own key is checked after the token.
Rejected(r) ==
  /\ pc[r] = "bound" /\ setup.auth
  /\ pc' = [pc EXCEPT ![r] = "closed"] /\ client' = [client EXCEPT ![r] = "replied"]
  /\ bound' = [bound EXCEPT ![r] = NoOne]
  /\ UNCHANGED <<config, request, sent, shown, memory, row>>

\* The route resolves the runtime, stores the message and creates the run's
\* task, which copies the context of the request.
Spawn(r) ==
  /\ pc[r] = "bound"
  /\ own' = [own EXCEPT ![r] = bound[r]]
  /\ since' = [since EXCEPT ![r] = gen]
  /\ row' = [row EXCEPT ![task[r]] = None]
  /\ pc' = [pc EXCEPT ![r] = "recall"]
  /\ UNCHANGED <<config, sender, task, query, bound, sent, shown, memory, client>>

\* The client of a stream leaves: the middleware resets its variables while
\* the run goes on.
Leave(r) ==
  /\ client[r] = "waiting" /\ pc[r] # "bound"
  /\ client' = [client EXCEPT ![r] = "gone"]
  /\ bound' = [bound EXCEPT ![r] = NoOne]
  /\ UNCHANGED <<config, pc, request, sent, shown, memory, row>>

-----------------------------------------------------------------------------
\* A store in memory belongs to the runtime it was built with.
Home(g) == IF setup.durable THEN 0 ELSE g
Records(g) == Without(store, {i \in DOMAIN store : store[i].home # Home(g)})

Recall(r) ==
  /\ pc[r] = "recall"
  /\ shown' = [shown EXCEPT ![r] =
       IF setup.recall THEN Injected(Search(Records(since[r]), setup.scopes, query[r])) ELSE <<>>]
  /\ pc' = [pc EXCEPT ![r] = "work"]
  /\ UNCHANGED <<config, request, bound, sent, memory, client, row>>

\* current_credential is read in the run's task.
\* Mutation: it is read in the request's task.
CredentialOfRequest(r) == bound[r]
Credential(r) == own[r]

\* A runtime that was unloaded has no handles left.
CallTool(r) ==
  /\ pc[r] = "work" /\ since[r] = gen
  /\ \E name \in DOMAIN handles :
       sent' = [sent EXCEPT ![r] =
         [server |-> handles[name], headers |-> RequestHeaders(handles[name], FALSE, Credential(r)), at |-> gen]]
  /\ UNCHANGED <<config, pc, request, bound, shown, memory, client, row>>

Finish(r) ==
  /\ pc[r] = "work"
  /\ row' = [row EXCEPT ![task[r]] = r]
  /\ pc' = [pc EXCEPT ![r] = "harvest"]
  /\ UNCHANGED <<config, request, bound, sent, shown, memory, client>>
Suspend(r) ==
  /\ pc[r] = "work"
  /\ row' = [row EXCEPT ![task[r]] = None]
  /\ pc' = [pc EXCEPT ![r] = "harvest"]
  /\ UNCHANGED <<config, request, bound, sent, shown, memory, client>>
Fail(r) ==
  /\ pc[r] = "work"
  /\ row' = [row EXCEPT ![task[r]] = None]
  /\ pc' = [pc EXCEPT ![r] = "closing"]
  /\ UNCHANGED <<config, request, bound, sent, shown, memory, client>>
\* tasks/{id}:cancel overwrites any status.
Cancel(t) ==
  /\ row[t] # None
  /\ row' = [row EXCEPT ![t] = None]
  /\ UNCHANGED <<config, pc, request, bound, sent, shown, memory, client>>

-----------------------------------------------------------------------------
\* The harvest reads the task again: only a COMPLETED one teaches anything.
\* Mutation: the status is not looked at.
HarvestAny(r) ==
  /\ pc[r] = "harvest" /\ setup.learn
  /\ answer' = [answer EXCEPT ![r] = row[task[r]]]
  /\ pc' = [pc EXCEPT ![r] = "extract"]
  /\ UNCHANGED <<config, request, bound, sent, shown, todo, learned, lost, store, client, row>>
Harvest(r) ==
  /\ pc[r] = "harvest" /\ setup.learn /\ row[task[r]] # None
  /\ answer' = [answer EXCEPT ![r] = row[task[r]]]
  /\ pc' = [pc EXCEPT ![r] = "extract"]
  /\ UNCHANGED <<config, request, bound, sent, shown, todo, learned, lost, store, client, row>>
NothingToHarvest(r) ==
  /\ pc[r] = "harvest" /\ ~(setup.learn /\ row[task[r]] # None)
  /\ pc' = [pc EXCEPT ![r] = "closing"]
  /\ UNCHANGED <<config, request, bound, sent, shown, memory, client, row>>

Extract(r) ==
  /\ pc[r] = "extract"
  /\ \E reply \in Replies :
       /\ learned' = [learned EXCEPT ![r] = Extracted(reply, setup.forced)]
       /\ todo' = [todo EXCEPT ![r] = Extracted(reply, setup.forced)]
  /\ pc' = [pc EXCEPT ![r] = "write"]
  /\ UNCHANGED <<config, request, bound, sent, shown, answer, lost, store, client, row>>
\* A failing extractor or write is logged; what was written before stays.
\* Mutation: the extractor is asked again.
ExtractAgain(r) ==
  /\ pc[r] = "extract"
  /\ pc' = [pc EXCEPT ![r] = "harvest"]
  /\ UNCHANGED <<config, request, bound, sent, shown, memory, client, row>>
ExtractFails(r) ==
  /\ pc[r] = "extract"
  /\ pc' = [pc EXCEPT ![r] = "closing"]
  /\ UNCHANGED <<config, request, bound, sent, shown, memory, client, row>>
WriteFails(r) ==
  /\ pc[r] = "write" /\ todo[r] # <<>>
  /\ lost' = [lost EXCEPT ![r] = TRUE]
  /\ pc' = [pc EXCEPT ![r] = "closing"]
  /\ UNCHANGED <<config, request, bound, sent, shown, answer, todo, learned, store, client, row>>

\* A record names no user: run_message passes no user_id.
Record(r) == [text |-> Head(todo[r]).text, scope |-> Head(todo[r]).scope,
              home |-> Home(since[r]), asked |-> r, answered |-> answer[r]]
WriteFact(r) ==
  /\ pc[r] = "write" /\ todo[r] # <<>>
  /\ store' = Append(store, Record(r))
  /\ todo' = [todo EXCEPT ![r] = Tail(@)]
  /\ UNCHANGED <<config, pc, request, bound, sent, shown, answer, learned, lost, client, row>>
\* Mutation: the stream is closed before the facts are written.
HarvestedEarly(r) ==
  /\ pc[r] = "write"
  /\ pc' = [pc EXCEPT ![r] = "closing"]
  /\ UNCHANGED <<config, request, bound, sent, shown, memory, client, row>>
Harvested(r) ==
  /\ pc[r] = "write" /\ todo[r] = <<>>
  /\ pc' = [pc EXCEPT ![r] = "closing"]
  /\ UNCHANGED <<config, request, bound, sent, shown, memory, client, row>>

\* run_message's finally closes the emitter; the response ends with it.
Close(r) ==
  /\ pc[r] = "closing"
  /\ pc' = [pc EXCEPT ![r] = "closed"]
  /\ client' = [client EXCEPT ![r] = IF @ = "waiting" THEN "replied" ELSE @]
  /\ bound' = [bound EXCEPT ![r] = NoOne]
  /\ UNCHANGED <<config, request, sent, shown, memory, row>>

-----------------------------------------------------------------------------
\* Reloading builds the runtime, its registry and a store in memory anew.
Rebuilt(a) ==
  /\ gen < MaxGens /\ gen' = gen + 1
  /\ agent' = a
  /\ \E up \in SUBSET Listable(a) : handles' = Handles(a, up)
  /\ UNCHANGED setup
Reload ==
  /\ Rebuilt(ByAdmin(setup.agent))
  /\ UNCHANGED <<pc, request, bound, sent, shown, memory, client, row>>

\* The process dies and starts again: all that was running is gone.
Restart ==
  /\ Rebuilt(AtBoot(setup.agent, setup.identity))
  /\ pc' = [r \in Requests |-> IF pc[r] \in {"idle", "closed"} THEN pc[r] ELSE "dead"]
  /\ client' = [r \in Requests |-> IF client[r] = "waiting" THEN "gone" ELSE client[r]]
  /\ bound' = [r \in Requests |-> NoOne]
  /\ UNCHANGED <<request, sent, shown, memory, row>>

HarvestStep(r) ==
  \/ Harvest(r) \/ NothingToHarvest(r) \/ Extract(r) \/ ExtractFails(r)
  \/ WriteFails(r) \/ WriteFact(r) \/ Harvested(r) \/ Close(r)
RequestStep(r) ==
  \/ ServeCard(r) \/ Arrive(r) \/ Unidentified(r) \/ Rejected(r) \/ Spawn(r) \/ Leave(r)
RunStep(r) ==
  \/ Recall(r) \/ CallTool(r) \/ Finish(r) \/ Suspend(r) \/ Fail(r)
Next ==
  \/ \E r \in Requests : RequestStep(r) \/ RunStep(r) \/ HarvestStep(r)
  \/ \E t \in Tasks : Cancel(t)
  \/ Reload \/ Restart

Spec == Init /\ [][Next]_vars
\* The provider's client and the database have timeouts: a harvest goes on.
FairSpec == Spec /\ \A r \in Requests : WF_vars(HarvestStep(r))

-----------------------------------------------------------------------------
Phases == {"idle", "bound", "recall", "work", "harvest", "extract", "write", "closing", "closed", "dead"}
TypeOK ==
  /\ setup \in Setups /\ gen \in 0..MaxGens
  /\ pc \in [Requests -> Phases]
  /\ sender \in [Requests -> Users \cup {NoOne}] /\ bound \in [Requests -> Users \cup {NoOne}]
  /\ \A r \in Requests : own[r] \in {NoOne, sender[r]} /\ since[r] \in 0..gen
  /\ row \in [Tasks -> Requests \cup {None}]
  /\ \A i \in DOMAIN store : store[i].scope \in {"user", "agent"} /\ store[i].text # {}
  /\ client \in [Requests -> {"none", "waiting", "replied", "gone"}]

\* A call that forwards an identity forwards the one of the user whose message
\* started the run, whoever else is served meanwhile, whether or not that
\* user's request still lasts; no other call carries one.
CallsAreOwn ==
  \A r \in Requests : sent[r] # None =>
    sent[r].headers = IF sent[r].server.forward /\ Identity # Off
                        THEN [header |-> sent[r].server.header, credential |-> sender[r]]
                        ELSE Off

\* A juicefs block is one server however often it is compiled, and validating
\* the result once more changes nothing, on either path.  Once identities are
\* in use, the juicefs calls of an agent loaded at boot carry the header the
\* server is configured with, and with a service token its server can be
\* listed.
CompiledAsConfigured ==
  LET block == setup.agent.juicefs
      Compiled(s) == s.name = block.name /\ s.forward
  IN  /\ Desugar(agent) = agent
      /\ gen = 0 => WithIdentity(agent, Identity) = agent
      /\ block # Off /\ Named(setup.agent.servers, block.name) = {} =>
           Cardinality(Named(agent.servers, block.name)) = 1
      /\ Identity # Off /\ block # Off =>
           /\ \A r \in Requests : sent[r] # None /\ sent[r].at = 0 /\ Compiled(sent[r].server) =>
                sent[r].headers.header = Identity.header
           /\ gen = 0 /\ Identity.service => \E i \in Listable(agent) : agent.servers[i].name = block.name

\* What is remembered comes from an answer that some run of the same task
\* gave; a run that failed, asked or was cancelled teaches nothing.
OnlyAnswersTeach ==
  \A i \in DOMAIN store :
    /\ store[i].answered \in Requests
    /\ task[store[i].answered] = task[store[i].asked]
    /\ pc[store[i].answered] \in {"harvest", "extract", "write", "closing", "closed", "dead"}

\* When the response has ended, every fact taken from it is in the store, once
\* and in order, unless a write failed: the sender's next message finds it.
RepliedIsLearned ==
  \A r \in Requests : client[r] = "replied" /\ ~lost[r] =>
    LET mine == {i \in DOMAIN store : store[i].asked = r}
        Rank(i) == Cardinality({j \in mine : j <= i})
    IN  /\ Cardinality(mine) = Len(learned[r])
        /\ \A i \in mine : store[i].text = learned[r][Rank(i)].text /\ store[i].home = Home(since[r])

\* A run is told what ranks highest: a record it is told, or one that says the
\* same, outranks every record it could have been told and was not, equal
\* scores going by age.
RecallIsBest ==
  [][\A r \in Requests : Recall(r) /\ setup.recall =>
       LET ms == Candidates(Records(since[r]), setup.scopes, query[r])
           Told(i) == \E k \in DOMAIN shown'[r] : shown'[r][k] = ms[i]
       IN  \A i, j \in DOMAIN ms : Told(i) /\ ~Told(j) =>
             \E e \in DOMAIN ms : ms[e] = ms[i] /\ Outranks(ms, e, j, query[r])]_vars

\* A run whose answer is out comes to its end: neither the extractor nor the
\* store can keep the response open.
HarvestEnds == \A r \in Requests : pc[r] = "harvest" ~> pc[r] \in {"closed", "dead"}
=============================================================================
