----------------------------- MODULE AgentConfig -----------------------------
(***************************************************************************)
(* What the validators make of an agent's YAML (config/models.py,          *)
(* juicefs/binding.py), what discovery makes of the result                 *)
(* (mcp/client.py), and the headers of an MCP request                      *)
(* (mcp/streamable_http.py).                                               *)
(*                                                                         *)
(* An MCP server is a record of the fields that decide about identity; it  *)
(* stands for all the tools it lists, and a filter pattern for all the     *)
(* tools of a server.                                                      *)
(***************************************************************************)
EXTENDS Naturals, Sequences, FiniteSets

CONSTANTS Off, NoOne, Service, DefaultHeader

ASSUME ServiceAssumption == Service # NoOne

\* What a YAML parses to: the juicefs block, the listed servers and the filters.
IsAgent(a) ==
  /\ a = [juicefs |-> a.juicefs, servers |-> a.servers, filters |-> a.filters]
  /\ a.filters = [include |-> a.filters.include, exclude |-> a.filters.exclude]
  /\ Len(a.servers) \in Nat /\ a.servers = [i \in 1..Len(a.servers) |-> a.servers[i]]

NoFilters == [include |-> {}, exclude |-> {}]
Plain(name) == [name |-> name, forward |-> FALSE, header |-> DefaultHeader, service |-> NoOne]

CompileJuicefs(block, identity) ==
  [name |-> block.name, forward |-> TRUE,
   header |-> IF identity = Off THEN DefaultHeader ELSE identity.header,
   service |-> IF identity # Off /\ identity.service THEN Service ELSE NoOne]

MergeFilters(base, extra) ==
  [include |-> base.include \cup extra.include, exclude |-> base.exclude \cup extra.exclude]

Named(servers, name) == {i \in DOMAIN servers : servers[i].name = name}

\* AgentConfig's pass: it cannot see the server's identity.
Desugar(agent) ==
  IF agent.juicefs = Off THEN agent
  ELSE [agent EXCEPT
          !.servers = IF Named(@, agent.juicefs.name) # {} THEN @
                      ELSE Append(@, CompileJuicefs(agent.juicefs, Off)),
          !.filters = MergeFilters(@, agent.juicefs.filters)]

\* ServerConfig's pass replaces the first server of that name.
First(S) == CHOOSE i \in S : \A j \in S : i <= j
\* Mutation: what the agent's own pass compiled is kept.
WithIdentityKept(agent, identity) == Desugar(agent)
WithIdentity(agent, identity) ==
  IF agent.juicefs = Off THEN agent
  ELSE LET compiled == CompileJuicefs(agent.juicefs, identity)
           same == Named(agent.servers, compiled.name)
       IN  [agent EXCEPT
              !.servers = IF same = {} THEN Append(@, compiled) ELSE [@ EXCEPT ![First(same)] = compiled],
              !.filters = MergeFilters(@, agent.juicefs.filters)]

\* load_server_config validates each agent and then the whole.
AtBoot(agent, identity) == WithIdentity(Desugar(agent), identity)
\* POST /admin/agents and /reloads validate the agent alone.
ByAdmin(agent) == Desugar(agent)

-----------------------------------------------------------------------------
Passes(name, filters) ==
  /\ filters.include = {} \/ name \in filters.include
  /\ name \notin filters.exclude

\* The registry after discovery: of two servers with one name the later one
\* answers for their tools.  `up` are the servers that could be listed.
Handles(agent, up) ==
  LET listed == {i \in up : Passes(agent.servers[i].name, agent.filters)}
      Last(name) == CHOOSE i \in listed :
                      /\ agent.servers[i].name = name
                      /\ \A j \in listed : agent.servers[j].name = name => j <= i
  IN  [name \in {agent.servers[i].name : i \in listed} |-> agent.servers[Last(name)]]

\* The header and credential of a request: discovery speaks for the service,
\* a call for the end user; without one no header is set.
RequestHeaders(server, discovery, user) ==
  LET value == IF discovery THEN server.service ELSE user
  IN  IF ~server.forward \/ value = NoOne THEN Off
      ELSE [header |-> server.header, credential |-> value]
=============================================================================
