----------------------------- MODULE MCUserRuns -----------------------------
\* Runs of two users on a small instance.
EXTENDS UserRuns

CONSTANTS j, w, own_header, t1, t2, t3, t4, r1, r2, k1, k2

Block(filters) == [name |-> j, filters |-> filters]
OnlyJ == [include |-> {j}, exclude |-> {}]
OnlyW == [include |-> {w}, exclude |-> {}]
NotW == [include |-> {}, exclude |-> {w}]
Yaml(block, servers, filters) == [juicefs |-> block, servers |-> servers, filters |-> filters]

Alone == Yaml(Block(NoFilters), <<>>, NoFilters)
Beside == Yaml(Block(NotW), <<Plain(w)>>, OnlyJ)
Narrowed == Yaml(Block(OnlyJ), <<Plain(w)>>, OnlyW)
Explicit == Yaml(Block(NoFilters), <<Plain(j)>>, NoFilters)
Bare == Yaml(Off, <<>>, NoFilters)

Jwt(header, service) == [header |-> header, service |-> service]
Setup(identity, agnt, auth, recall, learn, scopes, forced, durable) ==
  [identity |-> identity, agent |-> agnt, auth |-> auth, recall |-> recall, learn |-> learn,
   scopes |-> scopes, forced |-> forced, durable |-> durable]
Both == {"user", "agent"}
MCSetups ==
  { Setup(Jwt(own_header, TRUE), Alone, FALSE, FALSE, FALSE, Both, "infer", TRUE),
    Setup(Jwt(own_header, FALSE), Narrowed, TRUE, FALSE, FALSE, Both, "infer", TRUE),
    Setup(Jwt(DefaultHeader, TRUE), Explicit, FALSE, FALSE, FALSE, Both, "infer", TRUE),
    Setup(Off, Beside, FALSE, FALSE, FALSE, Both, "user", TRUE),
    Setup(Off, Bare, FALSE, TRUE, TRUE, {"user"}, "infer", FALSE),
    Setup(Off, Bare, FALSE, TRUE, TRUE, Both, "user", TRUE) }

Send(k, text) == [task |-> k, text |-> text]
MCMessages ==
  { [r \in {r1, r2} |-> IF r = r1 THEN Send(k1, {t1}) ELSE Send(k, {t1, t2, t3})] : k \in {k1, k2} }
Fact(text, scope) == [text |-> text, scope |-> scope]
\* A fact without a text, one the extractor gives twice, and between the two
\* one too long for the prompt.
MCReplies ==
  { NotJson,
    <<Fact({}, "user"), Fact({t1}, "other"), Fact({t1, t2, t3, t4}, "user"), Fact({t1}, "other")>> }
=============================================================================
