------------------------------ MODULE Patterns ------------------------------
(***************************************************************************)
(* The multi-call patterns (patterns/debate.py, tree_of_thoughts.py,       *)
(* orchestrate.py, plan_execute.py) and handoff (patterns/handoff.py),     *)
(* which runs another agent's pattern inside its own run: on the same      *)
(* task, through the same event stream, with the same provider.            *)
(*                                                                         *)
(* A run is a stack of frames, one per nested pattern; only the top one    *)
(* moves.  A frame waits for its calls (of the model, or of remote agents  *)
(* through a2a/client.py), which asyncio.gather starts together and which  *)
(* end in any order.  simple and react are one step here: ToolConfirmation *)
(* has their loop.  Nothing in the program sets a run's cancel_event.      *)
(***************************************************************************)
EXTENDS Integers, Sequences, FiniteSets

CONSTANTS
  Agents,     \* agent configurations
  Pattern,    \* pattern.type of each agent, with orchestrate's two modes
  MaxDepth,   \* guardrails.max_depth of each agent
  Debaters, Rounds,            \* debate
  Branches, Depth, TopK,       \* tree_of_thoughts
  Scores,                      \* what an evaluator may answer
  Remotes,                     \* orchestrate: number of agents
  MaxReplans, MaxSteps,        \* plan_execute
  PlanLengths,                 \* steps a planner may return
  MaxEvents                    \* bound: events of a remote agent's stream

PatternTypes == {"handoff", "debate", "tree", "parallel", "sequential", "plan", "simple"}

ASSUME PatternsAssumption ==
  /\ Pattern \in [Agents -> PatternTypes]
  /\ MaxDepth \in [Agents -> Nat \ {0}]
  /\ {Debaters, Rounds, Branches, Depth, TopK, Remotes, MaxSteps} \subseteq Nat \ {0}
  /\ MaxReplans \in Nat /\ MaxEvents \in Nat
  /\ PlanLengths \subseteq Nat /\ Scores \subseteq Int

VARIABLES
  stack,     \* frames, the running one last
  outcome,   \* of run_message: "running", "completed", "asked", "failed"
  row,       \* state of the task
  finals,    \* states of the events that were final
  reply,     \* text of the last COMPLETED status: the answers it quotes
  orphans,   \* calls still under way that nobody awaits
  told       \* history: somebody gave an answer for the user

vars == <<stack, outcome, row, finals, reply, orphans, told>>

Phases == {"route", "sub", "remote", "debate", "expand", "score",
           "parallel", "sequential", "plan", "step", "judge", "simple"}
First == [handoff |-> "route", debate |-> "debate", tree |-> "expand", parallel |-> "parallel",
          sequential |-> "sequential", plan |-> "plan", simple |-> "simple"]

\* A call: what the transcript held when it was made, and its result.
Pending(saw) == [state |-> "pending", saw |-> saw, value |-> 0]
Calls(n, saw) == [i \in 1..n |-> Pending(saw)]

Frame(agent) ==
  [agent |-> agent, phase |-> First[Pattern[agent]], turn |-> 0, size |-> 0, calls |-> <<>>,
   notes |-> <<>>, captured |-> <<>>, heard |-> [state |-> "FAILED", text |-> <<>>, final |-> FALSE]]

Init ==
  /\ \E a \in Agents : stack = <<Frame(a)>>
  /\ outcome = "running"
  /\ row = "WORKING"
  /\ finals = <<>>
  /\ reply = <<>>
  /\ orphans = 0
  /\ told = FALSE

-----------------------------------------------------------------------------
Top == stack[Len(stack)]
In(phase) == outcome = "running" /\ Top.phase = phase
Becomes(f) == stack' = [stack EXCEPT ![Len(stack)] = f]
Moves(f) == Becomes(f) /\ UNCHANGED <<outcome, row, finals, reply, orphans, told>>
Idle == Top.calls = <<>>
AllOk == ~Idle /\ \A i \in DOMAIN Top.calls : Top.calls[i].state = "ok"
Waiting == {i \in DOMAIN Top.calls : Top.calls[i].state = "pending"}
Ask(n, saw) == Idle /\ Moves([Top EXCEPT !.calls = Calls(n, saw)])

\* An exception leaves every pattern.  run_message records and reports a
\* PatternError, the route any other (MessageStream has the difference).
Raises(running) ==
  /\ stack' = <<>>
  /\ outcome' = "failed"
  /\ row' = "FAILED"
  /\ finals' = Append(finals, "FAILED")
  /\ orphans' = running
  /\ UNCHANGED <<reply, told>>

\* The pattern on top returns to its parent, or ends the run.
Pops(below, end) ==
  /\ stack' = below
  /\ outcome' = IF below = <<>> THEN end ELSE outcome

\* emit_status(COMPLETED): the event passes the capturing emitter of every
\* handoff above, each of which keeps the text.
Below == SubSeq(stack, 1, Len(stack) - 1)
Captured(frames, text) == [i \in DOMAIN frames |-> [frames[i] EXCEPT !.captured = @ \o text]]
Completes(text) ==
  /\ Pops(Captured(Below, text), "completed")
  /\ row' = "COMPLETED"
  /\ finals' = Append(finals, "COMPLETED")
  /\ reply' = text
  /\ told' = (told \/ text # <<>>)
  /\ UNCHANGED orphans

-----------------------------------------------------------------------------
\* A call returns.  The model's answer matters where it is a score or a plan.
Answers(i, v) ==
  Moves([Top EXCEPT !.calls[i].state = "ok", !.calls[i].value = v])
Answer ==
  /\ outcome = "running" /\ Top.phase # "remote"
  /\ \E i \in Waiting :
       \/ Top.phase # "score" /\ Answers(i, 0)
       \/ Top.phase = "score" /\ \E v \in Scores : Answers(i, v)

\* A call raises: gather passes the first exception on at once and leaves the
\* other calls running; orchestrate keeps it as that agent's result.
Collects == Top.phase \in {"parallel", "sequential"}
CallRaises ==
  /\ outcome = "running" /\ Top.phase # "remote" /\ ~Collects /\ Waiting # {}
  /\ Raises(Cardinality(Waiting) - 1)
RemoteFails ==
  /\ outcome = "running" /\ Collects
  /\ \E i \in Waiting : Moves([Top EXCEPT !.calls[i].state = "error"])

OrphanEnds == orphans > 0 /\ orphans' = orphans - 1
              /\ UNCHANGED <<stack, outcome, row, finals, reply, told>>

-----------------------------------------------------------------------------
\* run_debate: a round asks every debater with the transcript so far, ...
\* Mutation: the debaters are asked one after the other.
RoundOneByOne == In("debate") /\ Top.turn < Rounds /\ Ask(1, Len(Top.notes))
Round == In("debate") /\ Top.turn < Rounds /\ Ask(Debaters, Len(Top.notes))

\* ... and appends their arguments, in the debaters' order.
Note(i, call) == [who |-> i, saw |-> call.saw, value |-> call.state]
Noted == [i \in DOMAIN Top.calls |-> Note(i, Top.calls[i])]
RoundEnds ==
  /\ In("debate") /\ AllOk
  /\ Moves([Top EXCEPT !.notes = @ \o Noted, !.turn = @ + 1, !.calls = <<>>])
RoundsDone == In("debate") /\ Idle /\ Top.turn = Rounds /\ Moves([Top EXCEPT !.phase = "judge"])

\* run_tree_of_thoughts: every thought of the frontier (one, at first) is
\* expanded, ...
Frontier == IF Top.turn = 0 THEN 1 ELSE Len(Top.notes)
Expand == In("expand") /\ Top.turn < Depth /\ Ask(Branches * Frontier, Top.turn)
Expanded ==
  In("expand") /\ AllOk /\ Moves([Top EXCEPT !.phase = "score", !.size = Len(Top.calls), !.calls = <<>>])

\* ... every candidate is scored, ...
Score == In("score") /\ Ask(Top.size, Top.turn)

\* ... and the first TopK by a stable sort are kept ("best" keeps one).
Rank(calls, i) == Cardinality({j \in DOMAIN calls :
  calls[j].value > calls[i].value \/ (calls[j].value = calls[i].value /\ j < i)})
Least(a, b) == IF a < b THEN a ELSE b
Kept(calls) == [k \in 1..Least(TopK, Len(calls)) |->
  CHOOSE i \in DOMAIN calls : Rank(calls, i) = k - 1]
Prune ==
  /\ In("score") /\ AllOk
  /\ Moves([Top EXCEPT !.phase = IF Top.turn + 1 = Depth THEN "judge" ELSE "expand",
                       !.turn = @ + 1, !.calls = <<>>,
                       !.notes = [k \in DOMAIN Kept(Top.calls) |->
                          [who |-> Kept(Top.calls)[k],
                           value |-> Top.calls[Kept(Top.calls)[k]].value,
                           dropped |-> {Top.calls[i].value : i \in
                              DOMAIN Top.calls \ {Kept(Top.calls)[j] : j \in DOMAIN Kept(Top.calls)}}]]])

\* run_orchestrate: all agents at once, or each after the one before; the
\* transcript has one line per agent, an answer or an error.
Dispatch == In("parallel") /\ Ask(Remotes, 0)
DispatchNext ==
  /\ In("sequential") /\ Waiting = {} /\ Len(Top.calls) < Remotes
  /\ Moves([Top EXCEPT !.calls = Append(@, Pending(Len(Top.calls)))])
\* Mutation: the first error ends the wait.
CollectedEarly ==
  /\ outcome = "running" /\ Collects /\ Len(Top.calls) = Remotes
  /\ Waiting = {} \/ \E i \in DOMAIN Top.calls : Top.calls[i].state = "error"
  /\ Becomes([Top EXCEPT !.phase = "judge", !.notes = Noted, !.calls = <<>>])
  /\ orphans' = orphans + Cardinality(Waiting)
  /\ UNCHANGED <<outcome, row, finals, reply, told>>
Collected ==
  /\ outcome = "running" /\ Collects /\ Len(Top.calls) = Remotes /\ Waiting = {}
  /\ Moves([Top EXCEPT !.phase = "judge", !.notes = Noted, !.calls = <<>>])

\* run_plan_execute: the planner is asked until its plan is valid, ...
RequestPlan == In("plan") /\ Ask(1, Top.turn)
PlanValid ==
  /\ In("plan") /\ AllOk
  /\ \E n \in PlanLengths \ {0} :
       Moves([Top EXCEPT !.phase = "step", !.size = Least(n, MaxSteps), !.turn = 0, !.calls = <<>>])
\* Mutation: the attempts are not counted.
PlanInvalidAgain == In("plan") /\ AllOk /\ Moves([Top EXCEPT !.calls = <<>>])
PlanInvalid ==
  /\ In("plan") /\ AllOk /\ Top.turn < MaxReplans
  /\ Moves([Top EXCEPT !.turn = @ + 1, !.calls = <<>>])
PlanGivenUp == In("plan") /\ AllOk /\ Top.turn = MaxReplans /\ Raises(0)
\* JSON of another shape is not caught.
PlanMisshapen == In("plan") /\ AllOk /\ Raises(0)

\* ... then each of its first MaxSteps steps is executed in turn.
ExecuteStep == In("step") /\ Top.turn < Top.size /\ Ask(1, Len(Top.notes))
StepDone ==
  /\ In("step") /\ AllOk
  /\ Moves([Top EXCEPT !.notes = @ \o Noted, !.turn = @ + 1, !.calls = <<>>])
StepsDone == In("step") /\ Idle /\ Top.turn = Top.size /\ Moves([Top EXCEPT !.phase = "judge"])

\* Judge, synthesiser and aggregator: one more call, and the answer.
Judge == In("judge") /\ Ask(1, Len(Top.notes))
Conclude == In("judge") /\ AllOk /\ Completes(<<Top.agent>>)

-----------------------------------------------------------------------------
\* run_simple and run_react: an answer, a question that suspends the task, or
\* a PatternError.
SimpleAnswers == In("simple") /\ Completes(<<Top.agent>>)
SimpleAsks ==
  /\ In("simple")
  /\ Pops(Below, "asked")
  /\ row' = "INPUT_REQUIRED"
  /\ UNCHANGED <<finals, reply, orphans, told>>
SimpleRaises == In("simple") /\ Raises(0)

-----------------------------------------------------------------------------
\* run_handoff: the router is asked and must name a target.
Route == In("route") /\ Ask(1, 0)
RouteUnknown == In("route") /\ AllOk /\ Raises(0)

\* _run_local: the sub-agent's pattern runs in a frame of its own.
\* Mutation: the depth is not passed on.
DepthOfRoot == 0
DepthOfTop == Len(stack) - 1
TooDeep == In("route") /\ AllOk /\ DepthOfTop >= MaxDepth[Top.agent] /\ Raises(0)
RouteLocal ==
  /\ In("route") /\ AllOk /\ DepthOfTop < MaxDepth[Top.agent]
  /\ \E a \in Agents :
       stack' = Append([stack EXCEPT ![Len(stack)] = [Top EXCEPT !.phase = "sub", !.calls = <<>>]],
                       Frame(a))
  /\ row' = "WORKING"
  /\ UNCHANGED <<outcome, finals, reply, orphans, told>>

\* The sub-agent's runner has returned, whatever it did.
SubReturns == In("sub") /\ Completes(Top.captured)

\* _run_remote: send_text reads the events of the remote agent's stream.
RouteRemote == In("route") /\ AllOk /\ Moves([Top EXCEPT !.phase = "remote", !.calls = <<>>])

Listening == In("remote") /\ Top.turn < MaxEvents /\ ~Top.heard.final
\* The last state and the last text count.
\* Mutation: a status without a message forgets the text.
TextForgotten(old, new) == new
Text(old, new) == IF new = <<>> THEN old ELSE new
Hears(state, text, final) ==
  /\ Listening
  /\ Becomes([Top EXCEPT !.turn = @ + 1,
       !.heard = [state |-> state, text |-> Text(@.text, text), final |-> final]])
  /\ told' = (told \/ text # <<>>)
  /\ UNCHANGED <<outcome, row, finals, reply, orphans>>
RemoteArtifact == In("remote") /\ Hears(Top.heard.state, <<"remote">>, FALSE)
RemoteStatus ==
  \E s \in {"WORKING", "INPUT_REQUIRED", "COMPLETED", "FAILED"}, text \in {<<>>, <<"remote">>},
     final \in BOOLEAN : Hears(s, text, final)

\* A final event, or the end of the stream.
RemoteReturns ==
  /\ In("remote")
  /\ IF Top.heard.state = "COMPLETED" THEN Completes(Top.heard.text) ELSE Raises(0)
RemoteBreaks == In("remote") /\ Raises(0)

-----------------------------------------------------------------------------
Next ==
  \/ Answer \/ CallRaises \/ RemoteFails \/ OrphanEnds
  \/ Round \/ RoundEnds \/ RoundsDone
  \/ Expand \/ Expanded \/ Score \/ Prune
  \/ Dispatch \/ DispatchNext \/ Collected
  \/ RequestPlan \/ PlanValid \/ PlanInvalid \/ PlanGivenUp \/ PlanMisshapen
  \/ ExecuteStep \/ StepDone \/ StepsDone
  \/ Judge \/ Conclude
  \/ SimpleAnswers \/ SimpleAsks \/ SimpleRaises
  \/ Route \/ RouteUnknown \/ TooDeep \/ RouteLocal \/ SubReturns \/ RouteRemote
  \/ RemoteArtifact \/ RemoteStatus \/ RemoteReturns \/ RemoteBreaks

Spec == Init /\ [][Next]_vars
FairSpec == Spec /\ WF_vars(Next)

-----------------------------------------------------------------------------
States == {"WORKING", "INPUT_REQUIRED", "COMPLETED", "FAILED"}
TypeOK ==
  /\ \A i \in DOMAIN stack :
       /\ stack[i].agent \in Agents
       /\ stack[i].phase \in Phases
       /\ stack[i].heard.state \in States
       /\ \A c \in DOMAIN stack[i].calls : stack[i].calls[c].state \in {"pending", "ok", "error"}
  /\ outcome \in {"running", "completed", "asked", "failed"}
  /\ (outcome = "running") = (stack # <<>>)
  /\ row \in States
  /\ \A i \in DOMAIN finals : finals[i] \in States
  /\ orphans \in Nat
  /\ told \in BOOLEAN

\* A run that completes leaves no call of its own under way, whatever its
\* gathers met; only a failed run does.
CompletedIsQuiet == outcome # "failed" => orphans = 0

\* What the judge, synthesiser or aggregator is shown: one entry per debater
\* and round, agent or step, in the configured order; an entry of a round was
\* made knowing the rounds before it and nothing of its own.  The frontier of a
\* tree is ordered by score and holds nothing that a dropped candidate beats.
TranscriptInOrder ==
  \A i \in DOMAIN stack :
    LET f == stack[i]  pattern == Pattern[f.agent]  n == Len(f.notes)
    IN  /\ pattern = "debate" =>
             /\ n = Debaters * f.turn
             /\ \A k \in 1..n : /\ f.notes[k].saw = Debaters * ((k - 1) \div Debaters)
                                /\ f.notes[k].who = 1 + ((k - 1) % Debaters)
        /\ pattern \in {"parallel", "sequential"} /\ f.phase = "judge" =>
             n = Remotes /\ \A k \in 1..n : f.notes[k].who = k
        /\ pattern = "plan" /\ f.phase = "judge" =>
             n \in 1..MaxSteps /\ \A k \in 1..n : f.notes[k].saw = k - 1
        /\ pattern = "tree" => \A k \in 1..n :
             /\ \A v \in f.notes[k].dropped : f.notes[k].value >= v
             /\ k > 1 => f.notes[k].value <= f.notes[k - 1].value

\* Sub-agents nest no deeper than the largest max_depth of the chain, whatever
\* the router picks, itself included.
DepthBounded ==
  stack # <<>> => \E i \in DOMAIN stack : Len(stack) - 1 <= MaxDepth[stack[i].agent]

\* However sub-agents end, the stream's last final event says what the row
\* says, a failure is the only final event of its run, and a handoff answers
\* "(empty)" only if nobody below it, local or remote, gave an answer.
LastWordAgrees ==
  /\ outcome \in {"completed", "failed"} => finals # <<>> /\ row = finals[Len(finals)]
  /\ outcome = "asked" => finals = <<>> /\ row = "INPUT_REQUIRED"
  /\ \A i \in DOMAIN finals : finals[i] = "FAILED" => Len(finals) = 1
  /\ outcome = "completed" /\ told => reply # <<>>

\* Under timeouts of the model's and the remote agents' calls, and streams
\* that end, every run ends and leaves nothing running.
RunEnds == <>[](outcome # "running" /\ orphans = 0)
=============================================================================
