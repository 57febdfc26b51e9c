------------------------------ MODULE AgentLoop ------------------------------
(***************************************************************************)
(* What the model is shown during one run of simple or react               *)
(* (patterns/simple.py, react.py): the message list the loop keeps, the    *)
(* replay of a confirmed call (patterns/confirm.py), the sliding summary   *)
(* of working memory (memory/working.py), the translation into each        *)
(* provider's wire format, its retries, and the check for repeated         *)
(* answers (guardrails/anti_loop.py).                                      *)
(*                                                                         *)
(* The summary shortens what one call sends; the loop's own list keeps     *)
(* everything.  A message is its role, the ids of the calls it makes or    *)
(* the id of the call it answers.  A text is a sequence of words.          *)
(***************************************************************************)
EXTENDS Naturals, Sequences, FiniteSets, SequencesExt

CONSTANTS
  Tools,       \* names of tools
  MaxCalls,    \* bound: calls of one response
  Texts,       \* texts a model may answer, the empty one among them
  MinOverlap,  \* is_loop: words two texts must share to be the same
  Windows,     \* memory.working.window; 0: the memory is off
  MaxLoops,    \* guardrails.max_loops, pattern.max_iterations
  MaxNudges,   \* _MAX_EMPTY_RETRIES
  MaxAttempts, \* openai_compat: requests for one chat
  None

Patterns == {"simple", "react"}
Providers == {"openai", "anthropic", "google", "vertex"}

ASSUME LoopAssumption ==
  /\ <<>> \in Texts
  /\ Windows \subseteq Nat \ {1}
  /\ {MaxLoops, MaxCalls, MaxAttempts} \subseteq Nat \ {0}
  /\ MaxNudges \in Nat /\ MinOverlap \in Nat

VARIABLES
  pattern, provider, window,
  messages,   \* the loop's list
  pc,
  loops,      \* iterations begun
  nudges,     \* empty_retries
  seen,       \* seen_assistant
  todo,       \* calls of the response that are not decided yet
  cut,        \* how many messages the next call leaves out after the head
  attempt,    \* requests made for the present chat
  outcome,    \* "running", "completed", "suspended", "failed"
  answer      \* the final text

setup == <<pattern, provider, window>>
vars == <<setup, messages, pc, loops, nudges, seen, todo, cut, attempt, outcome, answer>>

Said(role) == [role |-> role, calls |-> <<>>, answers |-> None]
Calling(ids) == [role |-> "assistant", calls |-> ids, answers |-> None]
Result(id) == [role |-> "tool", calls |-> <<>>, answers |-> id]
System == Said("system")
User == Said("user")

\* The ids of the calls a response asks for.  OpenAI and Anthropic name each
\* call; Gemini does not, and the tool's own name stands for it.
OpenAiCalls(tools) == [k \in DOMAIN tools |-> <<tools[k], loops, k>>]
AnthropicCalls(tools) == [k \in DOMAIN tools |-> <<tools[k], loops, k>>]
GoogleCalls(tools) == [k \in DOMAIN tools |-> <<tools[k]>>]
CallIds(tools) == CASE provider = "openai" -> OpenAiCalls(tools)
                    [] provider = "anthropic" -> AnthropicCalls(tools)
                    [] provider \in {"google", "vertex"} -> GoogleCalls(tools)
Pending == <<"pending">>

\* A confirmed call is replayed as if the model had just made it.
\* Mutation: the tool_calls turn is not replayed.
ReplayResult(resumed) == IF resumed THEN <<Result(Pending)>> ELSE <<>>
Replay(resumed) == IF resumed THEN <<Calling(<<Pending>>), Result(Pending)>> ELSE <<>>

\* Only simple shows the conversation's history; react always has a prompt.
Opening(p, system, history, resumed) ==
  (IF system \/ p = "react" THEN <<System>> ELSE <<>>)
    \o (IF p = "simple" THEN history ELSE <<>>) \o <<User>> \o Replay(resumed)

Init ==
  /\ pattern \in Patterns /\ provider \in Providers /\ window \in Windows
  /\ \E system, resumed \in BOOLEAN, history \in {<<>>, <<User, Said("assistant")>>} :
       messages = Opening(pattern, system, history, resumed)
  /\ pc = "loop" /\ loops = 0 /\ nudges = 0 /\ seen = <<>> /\ todo = <<>>
  /\ cut = 0 /\ attempt = 0 /\ outcome = "running" /\ answer = <<>>

-----------------------------------------------------------------------------
\* apply_sliding_summary: the leading system message stays, the last `window`
\* messages stay, what is between becomes one summary.
Head1 == IF messages[1].role = "system" THEN 1 ELSE 0
Monus(a, b) == IF a > b THEN a - b ELSE 0
\* Mutation: the message before the window is left out of the summary.
MiddleShort == IF window = 0 \/ Len(messages) <= window THEN 0
               ELSE Monus(Len(messages) - window - 1, Head1)
Middle == IF window = 0 \/ Len(messages) <= window THEN 0
          ELSE Monus(Len(messages) - window, Head1)

\* The tail is counted from the end, whatever the middle was.
Tail1 == IF cut = 0 THEN SubSeq(messages, Head1 + 1, Len(messages))
         ELSE SubSeq(messages, Len(messages) - window + 1, Len(messages))
Summary == IF cut = 0 THEN <<>> ELSE <<System>>
Sent == SubSeq(messages, 1, Head1) \o Summary \o Tail1

-----------------------------------------------------------------------------
\* A message on the wire: the model sees who speaks, what is called and what
\* is answered.
Item(role, m) == [role |-> role, calls |-> m.calls, answers |-> m.answers]
IsTurn(m) == m.role # "system"
\* The messages but the system's, in order.
Turns(ms) ==
  LET system == {i \in DOMAIN ms : ~IsTurn(ms[i])}
      Place(k) == CHOOSE i \in DOMAIN ms \ system : i = k + Cardinality({j \in system : j < i})
  IN  [k \in 1..(Len(ms) - Cardinality(system)) |-> ms[Place(k)]]

\* openai_compat keeps the system messages where they are.
OpenAi(ms) == [i \in DOMAIN ms |-> Item(ms[i].role, ms[i])]
\* anthropic moves them to the front; a tool's result is the user's.
AnthropicRole(m) == IF m.role = "tool" THEN "user" ELSE m.role
Anthropic(ms) == LET turns == Turns(ms)
                 IN  [i \in DOMAIN turns |-> Item(AnthropicRole(turns[i]), turns[i])]
\* google likewise, with roles of its own; vertex sends what google sends.
GoogleRole(m) == IF m.role \in {"user", "tool"} THEN "user" ELSE "model"
\* Mutation: an assistant turn with calls is sent as text.
GoogleTextOnly(ms) ==
  LET turns == Turns(ms)
  IN  [i \in DOMAIN turns |-> [Item(GoogleRole(turns[i]), turns[i]) EXCEPT !.calls = <<>>]]
Google(ms) == LET turns == Turns(ms)
              IN  [i \in DOMAIN turns |-> Item(GoogleRole(turns[i]), turns[i])]
Vertex(ms) == Google(ms)
Wire == CASE provider = "openai" -> OpenAi(Sent)
          [] provider = "anthropic" -> Anthropic(Sent)
          [] provider = "google" -> Google(Sent)
          [] provider = "vertex" -> Vertex(Sent)

-----------------------------------------------------------------------------
\* is_loop: the texts are equal, or one begins with the other and they share
\* MinOverlap words.
SameStart(a, b) ==
  LET head == IF Len(a) < Len(b) THEN Len(a) ELSE Len(b)
  IN  a # <<>> /\ b # <<>>
        /\ (a = b \/ (head >= MinOverlap /\ SubSeq(a, 1, head) = SubSeq(b, 1, head)))
IsLoop(history, text) == \E i \in DOMAIN history : SameStart(history[i], text)

Says(ms) == messages' = messages \o ms
Ends(how) == outcome' = how /\ pc' = "ended"

\* One iteration of the loop, and call_llm's summary of what it would send.
NextLoop ==
  /\ pc = "loop" /\ loops < MaxLoops
  /\ loops' = loops + 1
  /\ cut' = Middle
  /\ attempt' = 0
  /\ pc' = IF Middle = 0 THEN "chat" ELSE "summarise"
  /\ UNCHANGED <<setup, messages, nudges, seen, todo, outcome, answer>>
LoopsExhausted ==
  /\ pc = "loop" /\ loops = MaxLoops
  /\ Ends("failed")
  /\ UNCHANGED <<setup, messages, loops, nudges, seen, todo, cut, attempt, answer>>

\* The summary is a chat of its own.
Summarised ==
  /\ pc = "summarise"
  /\ pc' = "chat" /\ attempt' = 0
  /\ UNCHANGED <<setup, messages, loops, nudges, seen, todo, cut, outcome, answer>>

\* Status 429 is tried again by the OpenAI-compatible adapter only, after a
\* pause.
Backoff == [summarise |-> "summarise_wait", chat |-> "chat_wait"]
\* Mutation: the attempts are not counted.
RateLimitedUncounted ==
  /\ pc \in DOMAIN Backoff /\ provider = "openai" /\ attempt + 1 < MaxAttempts
  /\ pc' = Backoff[pc]
  /\ UNCHANGED <<setup, messages, loops, nudges, seen, todo, cut, attempt, outcome, answer>>
RateLimited ==
  /\ pc \in DOMAIN Backoff /\ provider = "openai" /\ attempt + 1 < MaxAttempts
  /\ attempt' = attempt + 1
  /\ pc' = Backoff[pc]
  /\ UNCHANGED <<setup, messages, loops, nudges, seen, todo, cut, outcome, answer>>
TriesAgain ==
  /\ \E p \in DOMAIN Backoff : pc = Backoff[p] /\ pc' = p
  /\ UNCHANGED <<setup, messages, loops, nudges, seen, todo, cut, attempt, outcome, answer>>

\* Any other failure of a request: of the transport, or a status from 400 on,
\* for vertex also of the token each request is given.
ChatFails ==
  /\ pc \in {"summarise", "chat"}
  /\ Ends("failed")
  /\ UNCHANGED <<setup, messages, loops, nudges, seen, todo, cut, attempt, answer>>
\* A response that overspends max_tokens.
BudgetSpent ==
  /\ pc = "chat"
  /\ Ends("failed")
  /\ UNCHANGED <<setup, messages, loops, nudges, seen, todo, cut, attempt, answer>>

-----------------------------------------------------------------------------
Answers(text) ==
  /\ Ends("completed") /\ answer' = text
  /\ UNCHANGED <<setup, messages, loops, nudges, seen, todo, cut, attempt>>

\* simple: a text is the answer; an empty one is asked for again.
SimpleAnswer ==
  /\ pc = "chat" /\ pattern = "simple"
  /\ \E text \in Texts \ {<<>>} : Answers(text)
SimpleNudge ==
  /\ pc = "chat" /\ pattern = "simple" /\ nudges < MaxNudges
  /\ nudges' = nudges + 1
  /\ Says(<<User>>)
  /\ pc' = "loop"
  /\ UNCHANGED <<setup, loops, seen, todo, cut, attempt, outcome, answer>>
SimpleFallback ==
  /\ pc = "chat" /\ pattern = "simple" /\ nudges = MaxNudges
  /\ Answers(<<"fallback">>)

\* react: a repeated answer is asked for again, any other is final.
ReactAnswer ==
  /\ pc = "chat" /\ pattern = "react"
  /\ \E text \in Texts : ~IsLoop(seen, text) /\ Answers(text)
\* Mutation: the repeated answer is not remembered.
ReactNudgeForgets ==
  /\ pc = "chat" /\ pattern = "react"
  /\ \E text \in Texts : IsLoop(seen, text) /\ seen' = seen
  /\ Says(<<Said("assistant"), User>>)
  /\ pc' = "loop"
  /\ UNCHANGED <<setup, loops, nudges, todo, cut, attempt, outcome, answer>>
ReactNudge ==
  /\ pc = "chat" /\ pattern = "react"
  /\ \E text \in Texts : IsLoop(seen, text) /\ seen' = Append(seen, text)
  /\ Says(<<Said("assistant"), User>>)
  /\ pc' = "loop"
  /\ UNCHANGED <<setup, loops, nudges, todo, cut, attempt, outcome, answer>>

\* A response with calls: the turn is kept, then each call is decided.
Responses == UNION {[1..n -> Tools] : n \in 1..MaxCalls}
ModelCalls ==
  /\ pc = "chat"
  /\ \E tools \in Responses, text \in Texts :
       LET ids == CallIds(tools)
       IN  /\ Says(<<Calling(ids)>>)
           /\ todo' = ids
           /\ seen' = IF pattern = "react" THEN Append(seen, text) ELSE seen
  /\ pc' = "tools"
  /\ UNCHANGED <<setup, loops, nudges, cut, attempt, outcome, answer>>

\* decide_tool ran or denied the call: its text is appended.
ToolDecided ==
  /\ pc = "tools" /\ todo # <<>>
  /\ Says(<<Result(Head(todo))>>)
  /\ todo' = Tail(todo)
  /\ UNCHANGED <<setup, pc, loops, nudges, seen, cut, attempt, outcome, answer>>
\* It asked the user: the run ends, the call is in the row.
ToolSuspends ==
  /\ pc = "tools" /\ todo # <<>>
  /\ Ends("suspended")
  /\ UNCHANGED <<setup, messages, loops, nudges, seen, todo, cut, attempt, answer>>
ToolsDone ==
  /\ pc = "tools" /\ todo = <<>>
  /\ pc' = "loop"
  /\ UNCHANGED <<setup, messages, loops, nudges, seen, todo, cut, attempt, outcome, answer>>

Next ==
  \/ NextLoop \/ LoopsExhausted \/ Summarised \/ RateLimited \/ TriesAgain \/ ChatFails \/ BudgetSpent
  \/ SimpleAnswer \/ SimpleNudge \/ SimpleFallback
  \/ ReactAnswer \/ ReactNudge
  \/ ModelCalls \/ ToolDecided \/ ToolSuspends \/ ToolsDone

Spec == Init /\ [][Next]_vars
\* A tool has no timeout: it may stay where it is.
FairSpec == Spec /\ WF_vars(Next /\ pc # "tools") /\ WF_vars(ToolsDone)

-----------------------------------------------------------------------------
Roles == {"system", "user", "assistant", "tool"}
TypeOK ==
  /\ pattern \in Patterns /\ provider \in Providers /\ window \in Windows
  /\ \A i \in DOMAIN messages : messages[i].role \in Roles
  /\ pc \in {"loop", "summarise", "summarise_wait", "chat", "chat_wait", "tools", "ended"}
  /\ loops \in 0..MaxLoops /\ nudges \in 0..MaxNudges /\ attempt \in 0..(MaxAttempts - 1)
  /\ cut \in Nat
  /\ outcome \in {"running", "completed", "suspended", "failed"}
  /\ (pc = "ended") = (outcome # "running")

\* The turn a result belongs to: the last one before it that is no result.
IsResult(m) == m.answers # None
Source(ms, i) ==
  LET turns == {j \in 1..(i - 1) : ~IsResult(ms[j])}
  IN  IF turns = {} THEN <<>> ELSE ms[CHOOSE j \in turns : \A k \in turns : k <= j].calls
ResultsFollow(ms) ==
  \A i \in DOMAIN ms : IsResult(ms[i]) => \E k \in DOMAIN Source(ms, i) : Source(ms, i)[k] = ms[i].answers
CallsAnswered(ms) ==
  \A i \in DOMAIN ms : \A k \in DOMAIN ms[i].calls :
    /\ i + k <= Len(ms)
    /\ ms[i + k].answers = ms[i].calls[k]

\* Every call that is sent is followed by its results, one for each and in
\* order, and every result of a list that is sent uncut follows the turn that
\* called for it: an exchange the providers accept, also on the wire of each,
\* after a resume, and after any number of turns.
ExchangeIsValid ==
  pc = "chat" => CallsAnswered(Wire) /\ (cut = 0 => ResultsFollow(Wire))

\* What the comment of resume_pending says of the providers holds for every
\* list that is sent.
ToolMessagesFollowTurn == pc = "chat" => ResultsFollow(Wire)

\* What a call leaves out is in the summary, message by message; what it sends
\* is bounded by the window, its prompt and the summary; and the prompt is
\* never summarised away: it comes first, and the summary next.
NothingForgotten ==
  pc \in {"summarise", "chat"} =>
    /\ Len(Sent) - Len(Summary) + cut = Len(messages)
    /\ window # 0 => Len(Sent) <= window + 2
    /\ messages[1].role = "system" =>
         Len(Sent) >= 2 /\ Sent[1] = messages[1] /\ (cut > 0 => Sent[2] = System)

\* react never delivers an answer that repeats what the model said before in
\* the run, and what it compares with is all of it: the turns with calls and
\* the answers turned down.
SaidNow == {i \in DOMAIN messages : messages[i].role = "assistant" /\ messages[i].calls # <<Pending>>}
AnswerIsNew ==
  outcome = "completed" /\ pattern = "react" =>
    ~IsLoop(seen, answer) /\ Len(seen) = Cardinality(SaidNow)

\* A run ends unless a tool hangs: loops, nudges and retries are all bounded.
LoopEnds == <>(pc \in {"ended", "tools"})
=============================================================================
