-------------------------- MODULE ToolConfirmation --------------------------
(***************************************************************************)
(* One task of an agent whose pattern calls tools (`simple` or `react`),   *)
(* and the runs that messages with its taskId start: patterns/confirm.py,  *)
(* the loops of patterns/simple.py and patterns/react.py, and the writes   *)
(* of emit_status to the task row.                                         *)
(*                                                                         *)
(* Every message starts a run of its own; nothing in the code serialises   *)
(* the runs of one task.  They interleave at every await: each call of the *)
(* (persistent) task store, of the model and of a tool is a step here, and *)
(* what a run read before an await it keeps in `held`.                     *)
(*                                                                         *)
(* Abstracted: texts (an answer approves or it does not), the message list *)
(* (AgentLoop of the plan), artifacts and stored messages, the order of    *)
(* the calls in one response (a set, taken in any order), and the reason   *)
(* why a policy is auto_approve (a tool without destructiveHint has it).   *)
(***************************************************************************)
EXTENDS Naturals, FiniteSets

CONSTANTS
  Runs,         \* the messages sent with this taskId, one run each
  Calls,        \* tool calls the model may make, each with its own id
  NoCall,       \* pending_action is None
  MaxLoops,     \* guardrails.max_loops, or the pattern's max_iterations
  MaxReply,     \* bound: tool calls in one response
  MaxReloads,   \* bound: reloads of the agent
  OneAtATime,   \* TRUE: clients wait for a run to end before the next message
  Faults        \* what may go wrong besides a PatternError

ASSUME ConfirmationAssumption ==
  /\ NoCall \notin Calls
  /\ MaxLoops \in Nat \ {0}
  /\ MaxReply \in Nat \ {0}
  /\ MaxReloads \in Nat
  /\ OneAtATime \in BOOLEAN
  /\ Faults \subseteq {"prelude", "provider", "tool", "restart"}

VARIABLES
  task,      \* the row: its state and its pending_action
  policy,    \* policy_for of every call under the agent's current config
  reloads,   \* reloads so far
  pc,        \* where each run is
  approves,  \* is_approval(user_text) of the run's message
  streams,   \* message:stream (TRUE) or message:send
  held,      \* the pending call the run read, or the one it is asking about
  todo,      \* calls of the current response not decided yet
  loops,     \* iterations of the run's loop
  stale,     \* the run's MCP registry was cleared by a reload
  issued,    \* call ids used so far
  asked,     \* history: calls whose INPUT_REQUIRED event was emitted
  seen,      \* history: `asked` when the run's message arrived
  refused,   \* history: calls a run answered with "Cancelled at user request."
  executed   \* history: [run, call] pairs sent to a tool server

local == <<approves, streams, stale, seen>>
history == <<asked, refused, executed>>
config == <<policy, reloads>>
vars == <<task, config, pc, local, held, todo, loops, issued, history>>

\* "absent": the current registry has no such tool.
Policies == {"auto_approve", "auto_deny", "prompt", "absent"}
Settled == {"COMPLETED", "FAILED", "CANCELED", "INPUT_REQUIRED"}
States == {"NONE", "SUBMITTED", "WORKING"} \cup Settled
Ended == {"done", "lost"}
Steps == {"start", "acknowledge", "refuse", "resume", "resuming", "consume",
          "working", "turn", "model", "tools", "tool", "ask", "persist",
          "complete", "fail", "error"}

Active(r) == pc[r] \in Steps
Goto(r, step) == pc' = [pc EXCEPT ![r] = step]
SetState(s) == task' = [task EXCEPT !.state = s]

TypeOK ==
  /\ task \in [state : States, pending : Calls \cup {NoCall}]
  /\ policy \in [Calls -> Policies]
  /\ reloads \in 0..MaxReloads
  /\ pc \in [Runs -> Steps \cup Ended \cup {"idle"}]
  /\ approves \in [Runs -> BOOLEAN]
  /\ streams \in [Runs -> BOOLEAN]
  /\ held \in [Runs -> Calls \cup {NoCall}]
  /\ todo \in [Runs -> SUBSET Calls]
  /\ loops \in [Runs -> 0..MaxLoops]
  /\ stale \in [Runs -> BOOLEAN]
  /\ seen \in [Runs -> SUBSET Calls]
  /\ issued \subseteq Calls
  /\ asked \subseteq Calls
  /\ refused \subseteq Calls
  /\ executed \subseteq [run : Runs, call : Calls]

Init ==
  /\ task = [state |-> "NONE", pending |-> NoCall]
  /\ policy \in [Calls -> Policies]
  /\ reloads = 0
  /\ pc = [r \in Runs |-> "idle"]
  /\ approves = [r \in Runs |-> FALSE]
  /\ streams = [r \in Runs |-> FALSE]
  /\ held = [r \in Runs |-> NoCall]
  /\ todo = [r \in Runs |-> {}]
  /\ loops = [r \in Runs |-> 0]
  /\ stale = [r \in Runs |-> FALSE]
  /\ seen = [r \in Runs |-> {}]
  /\ issued = {}
  /\ asked = {}
  /\ refused = {}
  /\ executed = {}

-----------------------------------------------------------------------------
(* The routes: a message arrives, a task is cancelled.                     *)

\* message:send / message:stream up to the start of run_message: the first
\* message creates the task, the others find it by taskId.
Send(r, approval, stream) ==
  /\ pc[r] = "idle"
  /\ OneAtATime => \A q \in Runs : ~Active(q)
  /\ IF task.state = "NONE" THEN SetState("SUBMITTED") ELSE UNCHANGED task
  /\ Goto(r, "start")
  /\ approves' = [approves EXCEPT ![r] = approval]
  /\ streams' = [streams EXCEPT ![r] = stream]
  /\ seen' = [seen EXCEPT ![r] = asked]
  /\ UNCHANGED <<config, held, todo, loops, stale, issued, history>>

\* tasks/{id}:cancel writes the row and touches no run: ctx.cancel_event is
\* never set.
Cancel ==
  /\ task.state # "NONE"
  /\ SetState("CANCELED")
  /\ UNCHANGED <<config, pc, local, held, todo, loops, issued, history>>

\* An exception other than PatternError leaves run_message.  The streaming
\* producer records FAILED; message:send answers 500 and leaves the row.
Error(r) ==
  /\ pc[r] = "error"
  /\ IF streams[r] THEN SetState("FAILED") /\ Goto(r, "done")
                   ELSE Goto(r, "lost") /\ UNCHANGED task
  /\ UNCHANGED <<config, local, held, todo, loops, issued, history>>

\* run_message fails before the pattern starts (memory, history, provider).
PreludeFails(r) ==
  /\ "prelude" \in Faults
  /\ pc[r] = "start"
  /\ Goto(r, "error")
  /\ UNCHANGED <<task, config, local, held, todo, loops, issued, history>>

-----------------------------------------------------------------------------
(* resume_pending                                                          *)

ReadPending(r) ==
  /\ pc[r] = "start"
  /\ held' = [held EXCEPT ![r] = task.pending]
  /\ Goto(r, IF task.pending = NoCall THEN "working" ELSE "acknowledge")
  /\ UNCHANGED <<task, config, local, todo, loops, issued, history>>

\* Mutation: the answer is not looked at.
AcknowledgeAnyAnswer(r) ==
  /\ pc[r] = "acknowledge"
  /\ SetState("WORKING")
  /\ Goto(r, "resume")
  /\ UNCHANGED <<config, local, held, todo, loops, issued, history>>

Acknowledge(r) ==
  /\ pc[r] = "acknowledge"
  /\ SetState("WORKING")
  /\ Goto(r, IF approves[r] THEN "resume" ELSE "refuse")
  /\ UNCHANGED <<config, local, held, todo, loops, issued, history>>

\* Mutation: the run returns "cancelled" before it reports the status.
RefuseSilently(r) ==
  /\ pc[r] = "refuse"
  /\ refused' = refused \cup {held[r]}
  /\ Goto(r, "done")
  /\ UNCHANGED <<task, config, local, held, todo, loops, issued, asked, executed>>

\* "Cancelled at user request.": the pending slot is left as it was.
Refuse(r) ==
  /\ pc[r] = "refuse"
  /\ SetState("COMPLETED")
  /\ refused' = refused \cup {held[r]}
  /\ Goto(r, "done")
  /\ UNCHANGED <<config, local, held, todo, loops, issued, asked, executed>>

Registered(r, c) == ~stale[r] /\ policy[c] # "absent"

\* dispatch_tool: the call reaches its server if the run's registry has the
\* tool, and is answered "not registered" otherwise.
Dispatch(r, c) ==
  executed' = IF Registered(r, c)
              THEN executed \cup {[run |-> r, call |-> c]}
              ELSE executed

\* The persisted call is dispatched; policy_for is not consulted again.
Resume(r) ==
  /\ pc[r] = "resume"
  /\ Dispatch(r, held[r])
  /\ Goto(r, "resuming")
  /\ UNCHANGED <<task, config, local, held, todo, loops, issued, asked, refused>>

ResumeReturns(r) ==
  /\ pc[r] = "resuming"
  /\ Goto(r, "consume")
  /\ UNCHANGED <<task, config, local, held, todo, loops, issued, history>>

\* Mutation: clear_pending is forgotten.
ConsumeKeepsPending(r) ==
  /\ pc[r] = "consume"
  /\ SetState("WORKING")
  /\ Goto(r, "working")
  /\ UNCHANGED <<config, local, held, todo, loops, issued, history>>

\* update_status(WORKING, clear_pending=True)
Consume(r) ==
  /\ pc[r] = "consume"
  /\ task' = [state |-> "WORKING", pending |-> NoCall]
  /\ Goto(r, "working")
  /\ UNCHANGED <<config, local, held, todo, loops, issued, history>>

-----------------------------------------------------------------------------
(* The loop of run_simple and run_react                                    *)

StartWork(r) ==
  /\ pc[r] = "working"
  /\ SetState("WORKING")
  /\ Goto(r, "turn")
  /\ UNCHANGED <<config, local, held, todo, loops, issued, history>>

\* Mutation: one iteration too many.
CallModelOnceMore(r) ==
  /\ pc[r] = "turn"
  /\ loops[r] <= MaxLoops
  /\ loops' = [loops EXCEPT ![r] = @ + 1]
  /\ Goto(r, "model")
  /\ UNCHANGED <<task, config, local, held, todo, issued, history>>

\* Mutation: iterations that only nudge the model are not counted.
CallModelUncounted(r) ==
  /\ pc[r] = "turn"
  /\ loops[r] < MaxLoops
  /\ Goto(r, "model")
  /\ UNCHANGED <<task, config, local, held, todo, loops, issued, history>>

\* The head of the for loop and the call of the model.
CallModel(r) ==
  /\ pc[r] = "turn"
  /\ loops[r] < MaxLoops
  /\ loops' = [loops EXCEPT ![r] = @ + 1]
  /\ Goto(r, "model")
  /\ UNCHANGED <<task, config, local, held, todo, issued, history>>

\* The for loop's else branch: PatternError("max_loops exceeded").
LoopsExhausted(r) ==
  /\ pc[r] = "turn"
  /\ loops[r] = MaxLoops
  /\ Goto(r, "fail")
  /\ UNCHANGED <<task, config, local, held, todo, loops, issued, history>>

\* The response has no tool calls: it is the answer, or the loop nudges the
\* model for another (empty reply, repeated answer); over the token budget it
\* raises PatternError.
ModelAnswers(r) ==
  /\ pc[r] = "model"
  /\ \E next \in {"complete", "turn", "fail"} : Goto(r, next)
  /\ UNCHANGED <<task, config, local, held, todo, loops, issued, history>>

ModelCallsTools(r, cs) ==
  /\ pc[r] = "model"
  /\ cs # {} /\ cs \cap issued = {}
  /\ todo' = [todo EXCEPT ![r] = cs]
  /\ issued' = issued \cup cs
  /\ Goto(r, "tools")
  /\ UNCHANGED <<task, config, local, held, loops, history>>

\* ProviderError, or the provider was closed under the run.
ModelFails(r) ==
  /\ "provider" \in Faults
  /\ pc[r] = "model"
  /\ Goto(r, "error")
  /\ UNCHANGED <<task, config, local, held, todo, loops, issued, history>>

\* Mutation: only `prompt` is gated.
RunToolUnlessPrompt(r, c) ==
  /\ pc[r] = "tools"
  /\ c \in todo[r]
  /\ Registered(r, c) => policy[c] # "prompt"
  /\ Dispatch(r, c)
  /\ todo' = [todo EXCEPT ![r] = @ \ {c}]
  /\ Goto(r, "tool")
  /\ UNCHANGED <<task, config, local, held, loops, issued, asked, refused>>

\* decide_tool: a tool that is not destructive, that needs no confirmation or
\* that is not registered is dispatched at once.
RunTool(r, c) ==
  /\ pc[r] = "tools"
  /\ c \in todo[r]
  /\ Registered(r, c) => policy[c] = "auto_approve"
  /\ Dispatch(r, c)
  /\ todo' = [todo EXCEPT ![r] = @ \ {c}]
  /\ Goto(r, "tool")
  /\ UNCHANGED <<task, config, local, held, loops, issued, asked, refused>>

DenyTool(r, c) ==
  /\ pc[r] = "tools"
  /\ c \in todo[r]
  /\ Registered(r, c) /\ policy[c] = "auto_deny"
  /\ todo' = [todo EXCEPT ![r] = @ \ {c}]
  /\ UNCHANGED <<task, config, pc, local, held, loops, issued, history>>

\* Mutation: emit_status stores the pending call, ahead of the question.
AskUserAfterStoring(r, c) ==
  /\ pc[r] = "tools"
  /\ c \in todo[r]
  /\ Registered(r, c) /\ policy[c] = "prompt"
  /\ task' = [state |-> "INPUT_REQUIRED", pending |-> c]
  /\ held' = [held EXCEPT ![r] = c]
  /\ todo' = [todo EXCEPT ![r] = {}]
  /\ Goto(r, "ask")
  /\ UNCHANGED <<config, local, loops, issued, history>>

\* suspend_for_confirmation, first half: emit_status writes the row ...
AskUser(r, c) ==
  /\ pc[r] = "tools"
  /\ c \in todo[r]
  /\ Registered(r, c) /\ policy[c] = "prompt"
  /\ SetState("INPUT_REQUIRED")
  /\ held' = [held EXCEPT ![r] = c]
  /\ todo' = [todo EXCEPT ![r] = {}]
  /\ Goto(r, "ask")
  /\ UNCHANGED <<config, local, loops, issued, history>>

\* ... then the question goes out ...
PublishQuestion(r) ==
  /\ pc[r] = "ask"
  /\ asked' = asked \cup {held[r]}
  /\ Goto(r, "persist")
  /\ UNCHANGED <<task, config, local, held, todo, loops, issued, refused, executed>>

\* Mutation: the second update_status loses its pending_action.
PersistNothing(r) ==
  /\ pc[r] = "persist"
  /\ SetState("INPUT_REQUIRED")
  /\ Goto(r, "done")
  /\ UNCHANGED <<config, local, held, todo, loops, issued, history>>

\* ... and only then is the call stored for the resume.  The run is over.
PersistQuestion(r) ==
  /\ pc[r] = "persist"
  /\ task' = [state |-> "INPUT_REQUIRED", pending |-> held[r]]
  /\ Goto(r, "done")
  /\ UNCHANGED <<config, local, held, todo, loops, issued, history>>

ToolReturns(r) ==
  /\ pc[r] = "tool"
  /\ Goto(r, "tools")
  /\ UNCHANGED <<task, config, local, held, todo, loops, issued, history>>

\* The transport of a dispatched call raises.
ToolRaises(r) ==
  /\ "tool" \in Faults
  /\ pc[r] \in {"tool", "resuming"}
  /\ Goto(r, "error")
  /\ UNCHANGED <<task, config, local, held, todo, loops, issued, history>>

ToolsDone(r) ==
  /\ pc[r] = "tools"
  /\ todo[r] = {}
  /\ Goto(r, "turn")
  /\ UNCHANGED <<task, config, local, held, todo, loops, issued, history>>

Complete(r) ==
  /\ pc[r] = "complete"
  /\ SetState("COMPLETED")
  /\ Goto(r, "done")
  /\ UNCHANGED <<config, local, held, todo, loops, issued, history>>

\* run_message's except PatternError
FailRun(r) ==
  /\ pc[r] = "fail"
  /\ SetState("FAILED")
  /\ Goto(r, "done")
  /\ UNCHANGED <<config, local, held, todo, loops, issued, history>>

-----------------------------------------------------------------------------
(* The server around the task                                              *)

\* Reload of the agent: the new runtime has new policies, the old registry is
\* cleared under the runs that still use it.
Reload ==
  /\ reloads < MaxReloads
  /\ reloads' = reloads + 1
  /\ policy' \in [Calls -> Policies]
  /\ stale' = [r \in Runs |-> stale[r] \/ Active(r)]
  /\ UNCHANGED <<task, pc, approves, streams, seen, held, todo, loops, issued, history>>

\* The process dies and starts again: runs are lost, the row is not.
Restart ==
  /\ "restart" \in Faults
  /\ \E r \in Runs : Active(r)
  /\ pc' = [r \in Runs |-> IF Active(r) THEN "lost" ELSE pc[r]]
  /\ UNCHANGED <<task, config, local, held, todo, loops, issued, history>>

ReplySets == {cs \in SUBSET Calls : Cardinality(cs) <= MaxReply}

\* What a run does on its own, and what it gets from the model and the tools.
RunStep(r) ==
  \/ Error(r) \/ PreludeFails(r)
  \/ ReadPending(r) \/ Acknowledge(r) \/ Refuse(r) \/ Resume(r) \/ Consume(r)
  \/ StartWork(r) \/ CallModel(r) \/ LoopsExhausted(r)
  \/ ModelAnswers(r) \/ ModelFails(r)
  \/ \E cs \in ReplySets : ModelCallsTools(r, cs)
  \/ \E c \in Calls : RunTool(r, c) \/ DenyTool(r, c) \/ AskUser(r, c)
  \/ PublishQuestion(r) \/ PersistQuestion(r)
  \/ ToolsDone(r) \/ Complete(r) \/ FailRun(r)

ToolStep(r) == ResumeReturns(r) \/ ToolReturns(r) \/ ToolRaises(r)

Next ==
  \/ \E r \in Runs :
       \/ \E approval, stream \in BOOLEAN : Send(r, approval, stream)
       \/ RunStep(r)
       \/ ToolStep(r)
  \/ Cancel
  \/ Reload
  \/ Restart

Spec == Init /\ [][Next]_vars

\* The event loop runs every ready coroutine and the providers' HTTP timeout
\* bounds a model call.  A tool call has no timeout: nothing is assumed of
\* ToolStep, nor of the clients.
FairSpec == Spec /\ \A r \in Runs : WF_vars(RunStep(r))

-----------------------------------------------------------------------------
(* Properties                                                              *)

\* INPUT_REQUIRED means there is a question to resume: the pending call is
\* stored, or a run is still between its two writes of the suspension
\* (confirm.py suspend_for_confirmation against resume_pending's clear_pending
\* and every other run's emit_status).  Needs that the process does not die.
SuspendedHasQuestion ==
  task.state = "INPUT_REQUIRED" =>
    \/ task.pending # NoCall
    \/ \E r \in Runs : pc[r] \in {"ask", "persist"}

\* A task is only left SUBMITTED or WORKING by a run that ended in an
\* exception or with the process: the last status written by all the runs
\* that interleave on the row is a settled one (simple.py, react.py, confirm.py
\* and run_message's except branch).
WorkingMeansRunning ==
  task.state \in {"SUBMITTED", "WORKING"} =>
    \E r \in Runs : Active(r) \/ pc[r] = "lost"

\* A call whose policy is `prompt` reaches its tool only in a run whose message
\* approves, and after the question was emitted, whatever runs, reloads and
\* cancellations interleave (decide_tool and resume_pending).
PromptNeedsConsent ==
  [][\A e \in executed' \ executed :
       policy[e.call] = "prompt" => approves[e.run] /\ e.call \in asked]_vars

\* A call is sent to its tool at most once over all the runs of the task
\* (resume_pending clears the pending slot after the dispatch).
AtMostOnce ==
  \A d, e \in executed : d.call = e.call => d = e

\* An approval that arrives after a question was emitted, and before the call
\* was run, is an answer to it: it never starts a new turn (resume_pending's
\* read against suspend_for_confirmation's second write).
ApprovalResumes ==
  [][\A r \in Runs :
       pc[r] = "start" /\ pc'[r] = "working" /\ approves[r] =>
         \A c \in seen[r] : \E e \in executed : e.call = c]_vars

\* Only a question the sender had seen is answered by his approval.
ConsentFollowsQuestion ==
  [][\A e \in executed' \ executed :
       pc[e.run] = "resume" => e.call \in seen[e.run]]_vars

\* "anything else cancels": a call refused by the user is not run afterwards.
RefusedNeverRuns ==
  [][\A e \in executed' \ executed : e.call \notin refused]_vars

\* "auto_deny refuses without running".
DeniedNeverRuns ==
  [][\A e \in executed' \ executed : policy[e.call] # "auto_deny"]_vars

\* Every run comes to its end, unless a tool keeps it waiting: the loops are
\* bounded, whatever the model answers (max_loops, max_iterations).
RunsEnd ==
  \A r \in Runs :
    Active(r) ~> pc[r] \in Ended \cup {"tool", "resuming"}
=============================================================================
