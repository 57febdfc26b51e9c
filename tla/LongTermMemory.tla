--------------------------- MODULE LongTermMemory ---------------------------
(***************************************************************************)
(* Long-term memory (memory/): what a search returns, what of it reaches   *)
(* the prompt, and what a harvest makes of the extractor's reply.          *)
(*                                                                         *)
(* A text is the set of its tokens; its length is their number.  Both      *)
(* stores keep the records of an agent in the order they were written.     *)
(***************************************************************************)
EXTENDS Naturals, Sequences, FiniteSets

CONSTANTS
  TopK,      \* memory.long_term.read.top_k
  MaxChars   \* memory.long_term.read.max_chars

ASSUME TopKAssumption == TopK \in Nat

\* The entries of a list but those at the places left out.
Without(s, out) ==
  LET Place(k) == CHOOSE i \in DOMAIN s \ out : i = k + Cardinality({j \in out : j < i})
  IN  [k \in 1..(Len(s) - Cardinality(out)) |-> s[Place(k)]]

\* overlap_score: the share of the query's tokens, here not yet divided by
\* their number, which is the same for all records of a search.
Score(text, query) == Cardinality(text \cap query)

Candidates(records, scopes, query) ==
  Without(records, {i \in DOMAIN records : records[i].scope \notin scopes \/ Score(records[i].text, query) = 0})

\* The sort is stable: of equal scores the older record comes first.
Outranks(ms, i, j, query) ==
  \/ Score(ms[i].text, query) > Score(ms[j].text, query)
  \/ Score(ms[i].text, query) = Score(ms[j].text, query) /\ i < j
RankOf(ms, i, query) == Cardinality({j \in DOMAIN ms : Outranks(ms, j, i, query)})
Ranked(ms, query) ==
  [k \in DOMAIN ms |-> ms[CHOOSE i \in DOMAIN ms : RankOf(ms, i, query) = k - 1]]

Search(records, scopes, query) ==
  LET ranked == Ranked(Candidates(records, scopes, query), query)
  IN  SubSeq(ranked, 1, IF Len(ranked) < TopK THEN Len(ranked) ELSE TopK)

\* inject_long_term: entries as long as they fit, up to the first that does
\* not; what the first n of them take of the budget.
Spent(found) ==
  LET spent[n \in 0..Len(found)] == IF n = 0 THEN 0 ELSE spent[n - 1] + Cardinality(found[n].text) + 1
  IN  spent
Fits(found, n) == Spent(found)[n - 1] + Cardinality(found[n].text) + 2 <= MaxChars
\* Mutation: an entry that does not fit is passed over.
InjectedPastMisfits(found) == Without(found, {n \in DOMAIN found : ~Fits(<<found[n]>>, 1)})
Injected(found) ==
  SubSeq(found, 1, Cardinality({n \in DOMAIN found : \A k \in 1..n : Fits(found, k)}))

\* extract_facts: a reply that holds no JSON gives no facts; facts without a
\* text are dropped; the scope is the forced one, else the extractor's, else
\* the agent's.
NotJson == <<>>
ScopeOf(fact, forced) ==
  IF forced \in {"user", "agent"} THEN forced
  ELSE IF fact.scope \in {"user", "agent"} THEN fact.scope ELSE "agent"
Extracted(reply, forced) ==
  LET facts == Without(reply, {i \in DOMAIN reply : reply[i].text = {}})
  IN  [k \in DOMAIN facts |-> [text |-> facts[k].text, scope |-> ScopeOf(facts[k], forced)]]
=============================================================================
