----------------------- MODULE ToolConfirmationProofs -----------------------
(***************************************************************************)
(* Proofs about ToolConfirmation, for every number of runs and calls.      *)
(***************************************************************************)
EXTENDS ToolConfirmation, TLAPS

USE ConfirmationAssumption
USE DEF Goto, SetState, local, history, config

\* Steps between which a run holds a call: the one it resumes or asks about.
Holding == {"acknowledge", "refuse", "resume", "resuming", "consume", "ask", "persist"}

HoldsCall == \A r \in Runs : pc[r] \in Holding => held[r] \in Calls

Typed == TypeOK /\ HoldsCall

\* The actions of the routes and of the server, of resume_pending, of the
\* loop, and of the tools: Next split in four.
Around ==
  \/ \E r \in Runs : \/ \E a, s \in BOOLEAN : Send(r, a, s)
                     \/ Error(r) \/ PreludeFails(r)
  \/ Cancel \/ Reload \/ Restart

Resuming ==
  \E r \in Runs : ReadPending(r) \/ Acknowledge(r) \/ Refuse(r) \/ Resume(r)
                  \/ ResumeReturns(r) \/ Consume(r)

Looping ==
  \E r \in Runs :
    \/ StartWork(r) \/ CallModel(r) \/ LoopsExhausted(r)
    \/ ModelAnswers(r) \/ ModelFails(r) \/ ToolsDone(r)
    \/ Complete(r) \/ FailRun(r)
    \/ \E cs \in SUBSET Calls : ModelCallsTools(r, cs)

Calling ==
  \E r \in Runs :
    \/ \E c \in Calls : RunTool(r, c) \/ DenyTool(r, c) \/ AskUser(r, c)
    \/ PublishQuestion(r) \/ PersistQuestion(r)
    \/ ToolReturns(r) \/ ToolRaises(r)

LEMMA NextSplit == Next => Around \/ Resuming \/ Looping \/ Calling
  BY DEF Next, RunStep, ToolStep, ReplySets, Around, Resuming, Looping, Calling

-----------------------------------------------------------------------------

LEMMA InitTyped == Init => Typed
  BY DEF Init, Typed, TypeOK, HoldsCall, Holding, States, Settled, Steps, Ended, Policies

LEMMA NextTyped == Typed /\ [Next]_vars => Typed'
<1> SUFFICES ASSUME Typed, [Next]_vars PROVE Typed'
  OBVIOUS
<1> USE DEF Typed, TypeOK, HoldsCall, Holding, States, Settled, Steps, Ended
<1>1. CASE Around
  <2>1. ASSUME NEW r \in Runs, NEW a \in BOOLEAN, NEW s \in BOOLEAN, Send(r, a, s)
        PROVE  Typed'
    BY <2>1 DEF Send
  <2>2. ASSUME NEW r \in Runs, Error(r) \/ PreludeFails(r) PROVE Typed'
    BY <2>2 DEF Error, PreludeFails
  <2>3. CASE Cancel
    BY <2>3 DEF Cancel
  <2>4. CASE Reload
    BY <2>4 DEF Reload
  <2>5. CASE Restart
    BY <2>5 DEF Restart
  <2>6. QED
    BY <1>1, <2>1, <2>2, <2>3, <2>4, <2>5 DEF Around
<1>2. CASE Resuming
  BY <1>2 DEF Resuming, ReadPending, Acknowledge, Refuse, Resume, ResumeReturns,
              Consume, Dispatch
<1>3. CASE Looping
  BY <1>3 DEF Looping, StartWork, CallModel, LoopsExhausted, ModelAnswers, ModelFails,
              ToolsDone, Complete, FailRun, ModelCallsTools
<1>4. CASE Calling
  BY <1>4 DEF Calling, RunTool, DenyTool, AskUser, PublishQuestion, PersistQuestion,
              ToolReturns, ToolRaises, Dispatch
<1>5. CASE UNCHANGED vars
  BY <1>5 DEF vars
<1>6. QED
  BY <1>1, <1>2, <1>3, <1>4, <1>5, NextSplit

THEOREM TypeCorrect == Spec => []TypeOK
<1>1. Spec => []Typed
  BY InitTyped, NextTyped, PTL DEF Spec
<1>2. Typed => TypeOK
  BY DEF Typed
<1>3. QED
  BY <1>1, <1>2, PTL

-----------------------------------------------------------------------------
(* Whoever writes SUBMITTED or WORKING is still running or was lost.       *)

LEMMA NextSettled == Typed /\ WorkingMeansRunning /\ [Next]_vars => WorkingMeansRunning'
<1> SUFFICES ASSUME Typed, WorkingMeansRunning, [Next]_vars PROVE WorkingMeansRunning'
  OBVIOUS
<1> USE DEF Typed, TypeOK, WorkingMeansRunning, Active, Steps, Ended
<1>1. CASE Around
  <2>1. ASSUME NEW r \in Runs, NEW a \in BOOLEAN, NEW s \in BOOLEAN, Send(r, a, s)
        PROVE  WorkingMeansRunning'
    BY <2>1 DEF Send
  <2>2. ASSUME NEW r \in Runs, Error(r) \/ PreludeFails(r) PROVE WorkingMeansRunning'
    BY <2>2 DEF Error, PreludeFails
  <2>3. CASE Cancel
    BY <2>3 DEF Cancel
  <2>4. CASE Reload
    BY <2>4 DEF Reload
  <2>5. CASE Restart
    BY <2>5 DEF Restart
  <2>6. QED
    BY <1>1, <2>1, <2>2, <2>3, <2>4, <2>5 DEF Around
<1>2. CASE Resuming
  BY <1>2 DEF Resuming, ReadPending, Acknowledge, Refuse, Resume, ResumeReturns, Consume
<1>3. CASE Looping
  BY <1>3 DEF Looping, StartWork, CallModel, LoopsExhausted, ModelAnswers, ModelFails,
              ToolsDone, Complete, FailRun, ModelCallsTools
<1>4. CASE Calling
  BY <1>4 DEF Calling, RunTool, DenyTool, AskUser, PublishQuestion, PersistQuestion,
              ToolReturns, ToolRaises
<1>5. CASE UNCHANGED vars
  BY <1>5 DEF vars
<1>6. QED
  BY <1>1, <1>2, <1>3, <1>4, <1>5, NextSplit

\* A task is left SUBMITTED or WORKING only by a run that an exception or the
\* death of the process ended (simple.py, react.py, confirm.py, run_message).
THEOREM SettledWhenQuiet == Spec => []WorkingMeansRunning
<1>1. Init => WorkingMeansRunning
  BY DEF Init, WorkingMeansRunning
<1>2. QED
  BY <1>1, InitTyped, NextTyped, NextSettled, PTL DEF Spec

-----------------------------------------------------------------------------
(* INPUT_REQUIRED without a stored call exists only inside a suspension.   *)

LEMMA NextSuspended ==
  ASSUME "restart" \notin Faults
  PROVE  Typed /\ SuspendedHasQuestion /\ [Next]_vars => SuspendedHasQuestion'
<1> SUFFICES ASSUME Typed, SuspendedHasQuestion, [Next]_vars PROVE SuspendedHasQuestion'
  OBVIOUS
<1> USE DEF Typed, TypeOK, HoldsCall, Holding, SuspendedHasQuestion
<1>1. CASE Around
  <2>1. ASSUME NEW r \in Runs, NEW a \in BOOLEAN, NEW s \in BOOLEAN, Send(r, a, s)
        PROVE  SuspendedHasQuestion'
    BY <2>1 DEF Send
  <2>2. ASSUME NEW r \in Runs, Error(r) \/ PreludeFails(r) PROVE SuspendedHasQuestion'
    BY <2>2 DEF Error, PreludeFails
  <2>3. CASE Cancel
    BY <2>3 DEF Cancel
  <2>4. CASE Reload
    BY <2>4 DEF Reload
  <2>5. QED
    BY <1>1, <2>1, <2>2, <2>3, <2>4 DEF Around, Restart
<1>2. CASE Resuming
  BY <1>2 DEF Resuming, ReadPending, Acknowledge, Refuse, Resume, ResumeReturns, Consume
<1>3. CASE Looping
  BY <1>3 DEF Looping, StartWork, CallModel, LoopsExhausted, ModelAnswers, ModelFails,
              ToolsDone, Complete, FailRun, ModelCallsTools
<1>4. CASE Calling
  BY <1>4 DEF Calling, RunTool, DenyTool, AskUser, PublishQuestion, PersistQuestion,
              ToolReturns, ToolRaises
<1>5. CASE UNCHANGED vars
  BY <1>5 DEF vars
<1>6. QED
  BY <1>1, <1>2, <1>3, <1>4, <1>5, NextSplit

\* While the process lives, a task that is INPUT_REQUIRED has its pending call
\* stored, or a run is about to store one (confirm.py suspend_for_confirmation
\* against the resume_pending of any number of other runs).
THEOREM SuspensionIsResumable ==
  ASSUME "restart" \notin Faults
  PROVE  Spec => []SuspendedHasQuestion
<1>1. Init => SuspendedHasQuestion
  BY DEF Init, SuspendedHasQuestion
<1>2. QED
  BY <1>1, InitTyped, NextTyped, NextSuspended, PTL DEF Spec

-----------------------------------------------------------------------------
(* What is stored, read or dispatched on an approval was asked before.     *)

QuestionsAsked ==
  /\ task.pending # NoCall => task.pending \in asked
  /\ \A r \in Runs :
       /\ pc[r] \in Holding \ {"ask"} => held[r] \in asked
       /\ pc[r] = "resume" => approves[r]

LEMMA NextAsked == Typed /\ QuestionsAsked /\ [Next]_vars => QuestionsAsked'
<1> SUFFICES ASSUME Typed, QuestionsAsked, [Next]_vars PROVE QuestionsAsked'
  OBVIOUS
<1> USE DEF Typed, TypeOK, HoldsCall, Holding, QuestionsAsked
<1>1. CASE Around
  <2>1. ASSUME NEW r \in Runs, NEW a \in BOOLEAN, NEW s \in BOOLEAN, Send(r, a, s)
        PROVE  QuestionsAsked'
    BY <2>1 DEF Send
  <2>2. ASSUME NEW r \in Runs, Error(r) \/ PreludeFails(r) PROVE QuestionsAsked'
    BY <2>2 DEF Error, PreludeFails
  <2>3. CASE Cancel
    BY <2>3 DEF Cancel
  <2>4. CASE Reload
    BY <2>4 DEF Reload
  <2>5. CASE Restart
    BY <2>5 DEF Restart
  <2>6. QED
    BY <1>1, <2>1, <2>2, <2>3, <2>4, <2>5 DEF Around
<1>2. CASE Resuming
  BY <1>2 DEF Resuming, ReadPending, Acknowledge, Refuse, Resume, ResumeReturns, Consume
<1>3. CASE Looping
  BY <1>3 DEF Looping, StartWork, CallModel, LoopsExhausted, ModelAnswers, ModelFails,
              ToolsDone, Complete, FailRun, ModelCallsTools
<1>4. CASE Calling
  BY <1>4 DEF Calling, RunTool, DenyTool, AskUser, PublishQuestion, PersistQuestion,
              ToolReturns, ToolRaises
<1>5. CASE UNCHANGED vars
  BY <1>5 DEF vars
<1>6. QED
  BY <1>1, <1>2, <1>3, <1>4, <1>5, NextSplit

ConsentedDispatch ==
  \A e \in executed' \ executed :
    policy[e.call] = "prompt" => approves[e.run] /\ e.call \in asked

LEMMA NextConsented == Typed /\ QuestionsAsked /\ [Next]_vars => ConsentedDispatch
<1> SUFFICES ASSUME Typed, QuestionsAsked, [Next]_vars,
                    NEW e \in executed' \ executed, policy[e.call] = "prompt"
             PROVE  approves[e.run] /\ e.call \in asked
  BY DEF ConsentedDispatch
<1>1. CASE Around
  BY <1>1 DEF Around, Send, Error, PreludeFails, Cancel, Reload, Restart
<1>2. CASE Resuming
  <2>1. PICK r \in Runs : Resume(r)
    BY <1>2 DEF Resuming, ReadPending, Acknowledge, Refuse, ResumeReturns, Consume
  <2>2. e = [run |-> r, call |-> held[r]]
    BY <2>1 DEF Resume, Dispatch
  <2>3. QED
    BY <2>1, <2>2 DEF Resume, QuestionsAsked, Holding
<1>3. CASE Looping
  BY <1>3 DEF Looping, StartWork, CallModel, LoopsExhausted, ModelAnswers, ModelFails,
              ToolsDone, Complete, FailRun, ModelCallsTools
<1>4. CASE Calling
  <2>1. PICK r \in Runs, c \in Calls : RunTool(r, c)
    BY <1>4 DEF Calling, DenyTool, AskUser, PublishQuestion, PersistQuestion,
                ToolReturns, ToolRaises
  <2>2. e = [run |-> r, call |-> c] /\ Registered(r, c)
    BY <2>1 DEF RunTool, Dispatch
  <2>3. QED
    BY <2>1, <2>2 DEF RunTool
<1>5. CASE UNCHANGED vars
  BY <1>5 DEF vars
<1>6. QED
  BY <1>1, <1>2, <1>3, <1>4, <1>5, NextSplit

\* A call whose policy is `prompt` is dispatched only by a run whose message
\* approves and after its question went out, however the runs, reloads,
\* cancellations and restarts interleave (decide_tool, resume_pending).
THEOREM ConsentBeforeDispatch == Spec => PromptNeedsConsent
<1>1. Init => QuestionsAsked
  BY DEF Init, QuestionsAsked, Holding
<1>2. ConsentedDispatch => [ConsentedDispatch]_vars
  OBVIOUS
<1>3. QED
  BY <1>1, InitTyped, NextTyped, NextAsked, NextConsented, PTL
     DEF Spec, PromptNeedsConsent, ConsentedDispatch

-----------------------------------------------------------------------------
(* Clients that wait: one run at a time, so the row a run reads is the row  *)
(* it writes.                                                               *)

\* Where the call of a resumption is held, and where the slot is known empty.
Answering == {"acknowledge", "refuse", "resume", "resuming", "consume"}
Fresh == {"working", "turn", "model", "tools", "tool", "ask", "persist",
          "complete", "fail"}

Alone ==
  /\ \A q, r \in Runs : Active(q) /\ Active(r) => q = r
  /\ \A r \in Runs : /\ pc[r] \in Answering => held[r] = task.pending
                     /\ pc[r] \in Fresh => task.pending = NoCall

LEMMA NextAlone ==
  ASSUME OneAtATime
  PROVE  Typed /\ Alone /\ [Next]_vars => Alone'
<1> SUFFICES ASSUME Typed, Alone, [Next]_vars PROVE Alone'
  OBVIOUS
<1> USE DEF Typed, TypeOK, Alone, Active, Answering, Fresh, Steps, Ended
<1>1. CASE Around
  <2>1. ASSUME NEW r \in Runs, NEW a \in BOOLEAN, NEW s \in BOOLEAN, Send(r, a, s)
        PROVE  Alone'
    BY <2>1 DEF Send
  <2>2. ASSUME NEW r \in Runs, Error(r) \/ PreludeFails(r) PROVE Alone'
    BY <2>2 DEF Error, PreludeFails
  <2>3. CASE Cancel
    BY <2>3 DEF Cancel
  <2>4. CASE Reload
    BY <2>4 DEF Reload
  <2>5. CASE Restart
    BY <2>5 DEF Restart
  <2>6. QED
    BY <1>1, <2>1, <2>2, <2>3, <2>4, <2>5 DEF Around
<1>2. CASE Resuming
  BY <1>2 DEF Resuming, ReadPending, Acknowledge, Refuse, Resume, ResumeReturns, Consume
<1>3. CASE Looping
  BY <1>3 DEF Looping, StartWork, CallModel, LoopsExhausted, ModelAnswers, ModelFails,
              ToolsDone, Complete, FailRun, ModelCallsTools
<1>4. CASE Calling
  BY <1>4 DEF Calling, RunTool, DenyTool, AskUser, PublishQuestion, PersistQuestion,
              ToolReturns, ToolRaises
<1>5. CASE UNCHANGED vars
  BY <1>5 DEF vars
<1>6. QED
  BY <1>1, <1>2, <1>3, <1>4, <1>5, NextSplit

WasRun(c) == \E e \in executed : e.call = c

\* A stored call was dispatched only while the run that resumes it is between
\* the dispatch and the write that clears the slot.
NeverTwice ==
  /\ \A e \in executed : e.call \in issued
  /\ task.pending # NoCall => task.pending \in issued
  /\ task.pending # NoCall /\ WasRun(task.pending) =>
       \E r \in Runs : pc[r] \in {"resuming", "consume"}
  /\ \A r \in Runs :
       /\ pc[r] \in {"ask", "persist"} => held[r] \in issued /\ ~WasRun(held[r])
       /\ pc[r] \in {"tools", "tool"} =>
            todo[r] \subseteq issued /\ \A c \in todo[r] : ~WasRun(c)

LEMMA NextOnce ==
  ASSUME OneAtATime, "tool" \notin Faults, "restart" \notin Faults
  PROVE  Typed /\ Alone /\ NeverTwice /\ AtMostOnce /\ [Next]_vars
           => NeverTwice' /\ AtMostOnce'
<1> SUFFICES ASSUME Typed, Alone, NeverTwice, AtMostOnce, [Next]_vars
             PROVE  NeverTwice' /\ AtMostOnce'
  OBVIOUS
<1> USE DEF Typed, TypeOK, HoldsCall, Holding, NeverTwice, WasRun, AtMostOnce
<1>1. CASE Around
  <2>1. ASSUME NEW r \in Runs, NEW a \in BOOLEAN, NEW s \in BOOLEAN, Send(r, a, s)
        PROVE  NeverTwice' /\ AtMostOnce'
    BY <2>1 DEF Send
  <2>2. ASSUME NEW r \in Runs, Error(r) \/ PreludeFails(r)
        PROVE  NeverTwice' /\ AtMostOnce'
    BY <2>2 DEF Error, PreludeFails
  <2>3. CASE Cancel
    BY <2>3 DEF Cancel
  <2>4. CASE Reload
    BY <2>4 DEF Reload
  <2>5. QED
    BY <1>1, <2>1, <2>2, <2>3, <2>4 DEF Around, Restart
<1>2. CASE Resuming
  <2>1. ASSUME NEW r \in Runs, Resume(r)
        PROVE  NeverTwice' /\ AtMostOnce'
    <3>1. held[r] = task.pending /\ task.pending \in Calls
      BY <2>1 DEF Resume, Alone, Answering
    <3>2. \A q \in Runs : pc[q] \notin {"resuming", "consume", "ask", "persist", "tools", "tool"}
      BY <2>1 DEF Resume, Alone, Active, Steps
    <3>3. ~WasRun(held[r])
      BY <3>1, <3>2
    <3>4. executed' = executed \/ executed' = executed \cup {[run |-> r, call |-> held[r]]}
      BY <2>1 DEF Resume, Dispatch
    <3>5. pc' = [pc EXCEPT ![r] = "resuming"] /\ UNCHANGED <<task, held, todo, issued>>
      BY <2>1 DEF Resume
    <3>6. QED
      BY <3>1, <3>2, <3>3, <3>4, <3>5
  <2>2. ASSUME NEW r \in Runs,
               ReadPending(r) \/ Acknowledge(r) \/ Refuse(r) \/ ResumeReturns(r) \/ Consume(r)
        PROVE  NeverTwice' /\ AtMostOnce'
    BY <2>2 DEF ReadPending, Acknowledge, Refuse, ResumeReturns, Consume
  <2>3. QED
    BY <1>2, <2>1, <2>2 DEF Resuming
<1>3. CASE Looping
  <2>1. ASSUME NEW r \in Runs, NEW cs \in SUBSET Calls, ModelCallsTools(r, cs)
        PROVE  NeverTwice' /\ AtMostOnce'
    BY <2>1 DEF ModelCallsTools
  <2>2. QED
    BY <1>3, <2>1 DEF Looping, StartWork, CallModel, LoopsExhausted, ModelAnswers,
                      ModelFails, ToolsDone, Complete, FailRun
<1>4. CASE Calling
  <2>1. ASSUME NEW r \in Runs, NEW c \in Calls, RunTool(r, c)
        PROVE  NeverTwice' /\ AtMostOnce'
    <3>1. \A q \in Runs : q # r => pc[q] \notin {"resuming", "consume", "ask", "persist", "tools", "tool"}
      BY <2>1 DEF RunTool, Alone, Active, Steps
    <3>2. task.pending = NoCall
      BY <2>1 DEF RunTool, Alone, Fresh
    <3>3. executed' = executed \/ executed' = executed \cup {[run |-> r, call |-> c]}
      BY <2>1 DEF RunTool, Dispatch
    <3>4. QED
      BY <2>1, <3>1, <3>2, <3>3 DEF RunTool
  <2>2. ASSUME NEW r \in Runs, NEW c \in Calls, DenyTool(r, c) \/ AskUser(r, c)
        PROVE  NeverTwice' /\ AtMostOnce'
    BY <2>2 DEF DenyTool, AskUser
  <2>3. ASSUME NEW r \in Runs,
               PublishQuestion(r) \/ PersistQuestion(r) \/ ToolReturns(r)
        PROVE  NeverTwice' /\ AtMostOnce'
    BY <2>3 DEF PublishQuestion, PersistQuestion, ToolReturns
  <2>4. QED
    BY <1>4, <2>1, <2>2, <2>3 DEF Calling, ToolRaises
<1>5. CASE UNCHANGED vars
  BY <1>5 DEF vars
<1>6. QED
  BY <1>1, <1>2, <1>3, <1>4, <1>5, NextSplit

\* When clients wait for an answer, no call reaches its tool twice over all the
\* runs of the task, whatever reloads and cancellations do (resume_pending's
\* dispatch before it clears the slot).  A tool that raises and a process that
\* dies in between leave the slot full, which is why both are excluded.
THEOREM DispatchedOnce ==
  ASSUME OneAtATime, "tool" \notin Faults, "restart" \notin Faults
  PROVE  Spec => []AtMostOnce
<1>1. Init => Alone /\ NeverTwice /\ AtMostOnce
  BY DEF Init, Alone, Active, Steps, Answering, Fresh, NeverTwice, WasRun, AtMostOnce
<1>2. QED
  BY <1>1, InitTyped, NextTyped, NextAlone, NextOnce, PTL DEF Spec

-----------------------------------------------------------------------------
(* Only a question that was seen is answered.                              *)

\* What a run finds in the slot its sender had seen, as long as nobody else
\* writes the slot.
Foreseen ==
  \A r \in Runs :
    /\ pc[r] = "start" /\ task.pending # NoCall => task.pending \in seen[r]
    /\ pc[r] \in {"acknowledge", "resume"} => held[r] \in seen[r]

LEMMA NextForeseen ==
  ASSUME OneAtATime
  PROVE  Typed /\ QuestionsAsked /\ Alone /\ Foreseen /\ [Next]_vars => Foreseen'
<1> SUFFICES ASSUME Typed, QuestionsAsked, Alone, Foreseen, [Next]_vars PROVE Foreseen'
  OBVIOUS
<1> USE DEF Typed, TypeOK, HoldsCall, Holding, Foreseen
<1>1. CASE Around
  <2>1. ASSUME NEW r \in Runs, NEW a \in BOOLEAN, NEW s \in BOOLEAN, Send(r, a, s)
        PROVE  Foreseen'
    BY <2>1 DEF Send, QuestionsAsked
  <2>2. ASSUME NEW r \in Runs, Error(r) \/ PreludeFails(r) PROVE Foreseen'
    BY <2>2 DEF Error, PreludeFails
  <2>3. CASE Cancel
    BY <2>3 DEF Cancel
  <2>4. CASE Reload
    BY <2>4 DEF Reload
  <2>5. CASE Restart
    BY <2>5 DEF Restart
  <2>6. QED
    BY <1>1, <2>1, <2>2, <2>3, <2>4, <2>5 DEF Around
<1>2. CASE Resuming
  BY <1>2 DEF Resuming, ReadPending, Acknowledge, Refuse, Resume, ResumeReturns, Consume
<1>3. CASE Looping
  BY <1>3 DEF Looping, StartWork, CallModel, LoopsExhausted, ModelAnswers, ModelFails,
              ToolsDone, Complete, FailRun, ModelCallsTools
<1>4. CASE Calling
  <2>1. ASSUME NEW r \in Runs, PersistQuestion(r) PROVE Foreseen'
    BY <2>1 DEF PersistQuestion, Alone, Active, Steps
  <2>2. QED
    BY <1>4, <2>1 DEF Calling, RunTool, DenyTool, AskUser, PublishQuestion,
                      ToolReturns, ToolRaises
<1>5. CASE UNCHANGED vars
  BY <1>5 DEF vars
<1>6. QED
  BY <1>1, <1>2, <1>3, <1>4, <1>5, NextSplit

ResumesTheSeen ==
  \A e \in executed' \ executed : pc[e.run] = "resume" => e.call \in seen[e.run]

LEMMA NextResumesTheSeen == Typed /\ Foreseen /\ [Next]_vars => ResumesTheSeen
<1> SUFFICES ASSUME Typed, Foreseen, [Next]_vars,
                    NEW e \in executed' \ executed, pc[e.run] = "resume"
             PROVE  e.call \in seen[e.run]
  BY DEF ResumesTheSeen
<1>1. CASE Around
  BY <1>1 DEF Around, Send, Error, PreludeFails, Cancel, Reload, Restart
<1>2. CASE Resuming
  <2>1. PICK r \in Runs : Resume(r)
    BY <1>2 DEF Resuming, ReadPending, Acknowledge, Refuse, ResumeReturns, Consume
  <2>2. e = [run |-> r, call |-> held[r]]
    BY <2>1 DEF Resume, Dispatch
  <2>3. QED
    BY <2>1, <2>2 DEF Resume, Foreseen
<1>3. CASE Looping
  BY <1>3 DEF Looping, StartWork, CallModel, LoopsExhausted, ModelAnswers, ModelFails,
              ToolsDone, Complete, FailRun, ModelCallsTools
<1>4. CASE Calling
  <2>1. PICK r \in Runs, c \in Calls : RunTool(r, c)
    BY <1>4 DEF Calling, DenyTool, AskUser, PublishQuestion, PersistQuestion,
                ToolReturns, ToolRaises
  <2>2. e = [run |-> r, call |-> c] /\ pc[r] = "tools"
    BY <2>1 DEF RunTool, Dispatch
  <2>3. QED
    BY <2>2
<1>5. CASE UNCHANGED vars
  BY <1>5 DEF vars
<1>6. QED
  BY <1>1, <1>2, <1>3, <1>4, <1>5, NextSplit

\* When clients wait for an answer, an approval only ever runs a call whose
\* question was out before the approving message arrived, through any faults,
\* reloads and restarts (resume_pending's read of the row).
THEOREM ConsentIsInformed ==
  ASSUME OneAtATime
  PROVE  Spec => ConsentFollowsQuestion
<1>1. Init => QuestionsAsked /\ Alone /\ Foreseen
  BY DEF Init, QuestionsAsked, Holding, Alone, Active, Steps, Answering, Fresh, Foreseen
<1>2. ResumesTheSeen => [ResumesTheSeen]_vars
  OBVIOUS
<1>3. QED
  BY <1>1, <1>2, InitTyped, NextTyped, NextAsked, NextAlone, NextForeseen,
     NextResumesTheSeen, PTL
     DEF Spec, ConsentFollowsQuestion, ResumesTheSeen

-----------------------------------------------------------------------------
(* Under one configuration, what is held or stored was asked about.        *)

HeldIsPrompt ==
  /\ task.pending # NoCall => policy[task.pending] = "prompt"
  /\ \A r \in Runs : pc[r] \in Holding => policy[held[r]] = "prompt"

LEMMA NextHeldIsPrompt ==
  ASSUME MaxReloads = 0
  PROVE  Typed /\ HeldIsPrompt /\ [Next]_vars => HeldIsPrompt'
<1> SUFFICES ASSUME Typed, HeldIsPrompt, [Next]_vars PROVE HeldIsPrompt'
  OBVIOUS
<1> USE DEF Typed, TypeOK, HoldsCall, Holding, HeldIsPrompt
<1>1. CASE Around
  <2>1. ASSUME NEW r \in Runs, NEW a \in BOOLEAN, NEW s \in BOOLEAN, Send(r, a, s)
        PROVE  HeldIsPrompt'
    BY <2>1 DEF Send
  <2>2. ASSUME NEW r \in Runs, Error(r) \/ PreludeFails(r) PROVE HeldIsPrompt'
    BY <2>2 DEF Error, PreludeFails
  <2>3. CASE Cancel
    BY <2>3 DEF Cancel
  <2>4. ~Reload
    BY DEF Reload
  <2>5. CASE Restart
    BY <2>5 DEF Restart
  <2>6. QED
    BY <1>1, <2>1, <2>2, <2>3, <2>4, <2>5 DEF Around
<1>2. CASE Resuming
  BY <1>2 DEF Resuming, ReadPending, Acknowledge, Refuse, Resume, ResumeReturns, Consume
<1>3. CASE Looping
  BY <1>3 DEF Looping, StartWork, CallModel, LoopsExhausted, ModelAnswers, ModelFails,
              ToolsDone, Complete, FailRun, ModelCallsTools
<1>4. CASE Calling
  BY <1>4 DEF Calling, RunTool, DenyTool, AskUser, PublishQuestion, PersistQuestion,
              ToolReturns, ToolRaises
<1>5. CASE UNCHANGED vars
  BY <1>5 DEF vars
<1>6. QED
  BY <1>1, <1>2, <1>3, <1>4, <1>5, NextSplit

DispatchedUndenied ==
  \A e \in executed' \ executed : policy[e.call] # "auto_deny"

LEMMA NextUndenied == Typed /\ HeldIsPrompt /\ [Next]_vars => DispatchedUndenied
<1> SUFFICES ASSUME Typed, HeldIsPrompt, [Next]_vars, NEW e \in executed' \ executed
             PROVE  policy[e.call] # "auto_deny"
  BY DEF DispatchedUndenied
<1>1. CASE Around
  BY <1>1 DEF Around, Send, Error, PreludeFails, Cancel, Reload, Restart
<1>2. CASE Resuming
  <2>1. PICK r \in Runs : Resume(r)
    BY <1>2 DEF Resuming, ReadPending, Acknowledge, Refuse, ResumeReturns, Consume
  <2>2. e = [run |-> r, call |-> held[r]]
    BY <2>1 DEF Resume, Dispatch
  <2>3. QED
    BY <2>1, <2>2 DEF Resume, HeldIsPrompt, Holding
<1>3. CASE Looping
  BY <1>3 DEF Looping, StartWork, CallModel, LoopsExhausted, ModelAnswers, ModelFails,
              ToolsDone, Complete, FailRun, ModelCallsTools
<1>4. CASE Calling
  <2>1. PICK r \in Runs, c \in Calls : RunTool(r, c)
    BY <1>4 DEF Calling, DenyTool, AskUser, PublishQuestion, PersistQuestion,
                ToolReturns, ToolRaises
  <2>2. e = [run |-> r, call |-> c] /\ Registered(r, c)
    BY <2>1 DEF RunTool, Dispatch
  <2>3. QED
    BY <2>1, <2>2 DEF RunTool
<1>5. CASE UNCHANGED vars
  BY <1>5 DEF vars
<1>6. QED
  BY <1>1, <1>2, <1>3, <1>4, <1>5, NextSplit

\* Between two reloads, a call that is auto_deny never reaches its tool: not at
\* once, and not by an approval, however the runs of the task interleave and
\* whatever faults and restarts interrupt them (decide_tool; resume_pending
\* does not consult it again, so a reload is excluded).
THEOREM DenialHolds ==
  ASSUME MaxReloads = 0
  PROVE  Spec => DeniedNeverRuns
<1>1. Init => HeldIsPrompt
  BY DEF Init, HeldIsPrompt, Holding
<1>2. DispatchedUndenied => [DispatchedUndenied]_vars
  OBVIOUS
<1>3. QED
  BY <1>1, <1>2, InitTyped, NextTyped, NextHeldIsPrompt, NextUndenied, PTL
     DEF Spec, DeniedNeverRuns, DispatchedUndenied

-----------------------------------------------------------------------------
(* No question is lost.                                                    *)

\* A question is open in the slot or about to be stored, or its call was run.
NoneLost ==
  /\ \A c \in asked : \/ WasRun(c)
                      \/ c = task.pending
                      \/ \E r \in Runs : pc[r] = "persist" /\ held[r] = c
  /\ \A r \in Runs : /\ ~stale[r]
                     /\ seen[r] \subseteq asked
                     /\ pc[r] \in {"resuming", "consume"} => WasRun(held[r])

LEMMA NextNoneLost ==
  ASSUME OneAtATime, MaxReloads = 0, "restart" \notin Faults
  PROVE  Typed /\ Alone /\ HeldIsPrompt /\ NoneLost /\ [Next]_vars => NoneLost'
<1> SUFFICES ASSUME Typed, Alone, HeldIsPrompt, NoneLost, [Next]_vars PROVE NoneLost'
  OBVIOUS
<1> USE DEF Typed, TypeOK, HoldsCall, Holding, NoneLost, WasRun
<1>1. CASE Around
  <2>1. ASSUME NEW r \in Runs, NEW a \in BOOLEAN, NEW s \in BOOLEAN, Send(r, a, s)
        PROVE  NoneLost'
    BY <2>1 DEF Send
  <2>2. ASSUME NEW r \in Runs, Error(r) \/ PreludeFails(r) PROVE NoneLost'
    BY <2>2 DEF Error, PreludeFails
  <2>3. CASE Cancel
    BY <2>3 DEF Cancel
  <2>4. QED
    BY <1>1, <2>1, <2>2, <2>3 DEF Around, Reload, Restart
<1>2. CASE Resuming
  <2>1. ASSUME NEW r \in Runs, Resume(r) PROVE NoneLost'
    <3>1. executed' = executed \cup {[run |-> r, call |-> held[r]]}
      BY <2>1 DEF Resume, Dispatch, Registered, HeldIsPrompt
    <3>2. [run |-> r, call |-> held[r]].call = held[r]
      OBVIOUS
    <3>3. WasRun(held[r])' /\ \A c \in Calls : WasRun(c) => WasRun(c)'
      BY <2>1, <3>1, <3>2 DEF Resume
    <3>4. QED
      BY <2>1, <3>3 DEF Resume
  <2>2. ASSUME NEW r \in Runs, Consume(r) PROVE NoneLost'
    BY <2>2 DEF Consume, Alone, Answering
  <2>3. ASSUME NEW r \in Runs,
               ReadPending(r) \/ Acknowledge(r) \/ Refuse(r) \/ ResumeReturns(r)
        PROVE  NoneLost'
    BY <2>3 DEF ReadPending, Acknowledge, Refuse, ResumeReturns
  <2>4. QED
    BY <1>2, <2>1, <2>2, <2>3 DEF Resuming
<1>3. CASE Looping
  BY <1>3 DEF Looping, StartWork, CallModel, LoopsExhausted, ModelAnswers, ModelFails,
              ToolsDone, Complete, FailRun, ModelCallsTools
<1>4. CASE Calling
  <2>1. ASSUME NEW r \in Runs, NEW c \in Calls, RunTool(r, c) PROVE NoneLost'
    <3>1. executed \subseteq executed'
      BY <2>1 DEF RunTool, Dispatch
    <3>2. QED
      BY <2>1, <3>1 DEF RunTool
  <2>2. ASSUME NEW r \in Runs, PersistQuestion(r) PROVE NoneLost'
    BY <2>2 DEF PersistQuestion, Alone, Active, Steps, Fresh
  <2>3. ASSUME NEW r \in Runs, PublishQuestion(r) PROVE NoneLost'
    BY <2>3 DEF PublishQuestion
  <2>4. QED
    BY <1>4, <2>1, <2>2, <2>3 DEF Calling, DenyTool, AskUser, ToolReturns, ToolRaises
<1>5. CASE UNCHANGED vars
  BY <1>5 DEF vars
<1>6. QED
  BY <1>1, <1>2, <1>3, <1>4, <1>5, NextSplit

TurnsWithoutDebt ==
  \A r \in Runs :
    pc[r] = "start" /\ pc'[r] = "working" /\ approves[r] =>
      \A c \in seen[r] : \E e \in executed : e.call = c

LEMMA NextTurnsWithoutDebt ==
  Typed /\ Alone /\ NoneLost /\ [Next]_vars => TurnsWithoutDebt
<1> SUFFICES ASSUME Typed, Alone, NoneLost, [Next]_vars, NEW r \in Runs,
                    pc[r] = "start", pc'[r] = "working", NEW c \in seen[r]
             PROVE  WasRun(c)
  BY DEF TurnsWithoutDebt, WasRun
<1>1. task.pending = NoCall
  <2> USE DEF Typed, TypeOK
  <2>1. CASE Around
    BY <2>1 DEF Around, Send, Error, PreludeFails, Cancel, Reload, Restart
  <2>2. CASE Resuming
    BY <2>2 DEF Resuming, ReadPending, Acknowledge, Refuse, Resume, ResumeReturns, Consume
  <2>3. CASE Looping
    BY <2>3 DEF Looping, StartWork, CallModel, LoopsExhausted, ModelAnswers, ModelFails,
                ToolsDone, Complete, FailRun, ModelCallsTools
  <2>4. CASE Calling
    BY <2>4 DEF Calling, RunTool, DenyTool, AskUser, PublishQuestion, PersistQuestion,
                ToolReturns, ToolRaises
  <2>5. CASE UNCHANGED vars
    BY <2>5 DEF vars
  <2>6. QED
    BY <2>1, <2>2, <2>3, <2>4, <2>5, NextSplit
<1>2. \A q \in Runs : pc[q] # "persist"
  BY DEF Alone, Active, Steps
<1>3. c \in asked /\ asked \subseteq Calls
  BY DEF NoneLost, Typed, TypeOK
<1>4. QED
  BY <1>1, <1>2, <1>3 DEF NoneLost

\* When clients wait for an answer, an approval that follows a question never
\* starts a new turn while the call is still waiting for it: the two writes of
\* suspend_for_confirmation and the clearing by resume_pending lose no question.
\* A restart between the two writes, or a reload that drops the tool, does.
THEOREM QuestionsAreNotLost ==
  ASSUME OneAtATime, MaxReloads = 0, "restart" \notin Faults
  PROVE  Spec => ApprovalResumes
<1>1. Init => Alone /\ HeldIsPrompt /\ NoneLost
  BY DEF Init, Alone, Active, Steps, Answering, Fresh, HeldIsPrompt, Holding, NoneLost
<1>2. TurnsWithoutDebt => [TurnsWithoutDebt]_vars
  OBVIOUS
<1>3. QED
  BY <1>1, <1>2, InitTyped, NextTyped, NextAlone, NextHeldIsPrompt, NextNoneLost,
     NextTurnsWithoutDebt, PTL
     DEF Spec, ApprovalResumes, TurnsWithoutDebt
=============================================================================
