--------------------------- MODULE PatternsProofs ---------------------------
(***************************************************************************)
(* Proofs about Patterns: how deep sub-agents nest, what a run leaves      *)
(* behind, that it says its last word to the client and to the task's row  *)
(* alike, and what its judge is shown, for every set of agents, any limits *)
(* and any answers.                                                        *)
(***************************************************************************)
EXTENDS Patterns, FiniteSetTheorems, TLAPS

HasAgent(f) == "agent" \in DOMAIN f /\ f.agent \in Agents

\* A sequence, whatever its elements are.
IsSequence(s) == \E S : s \in Seq(S)

Stacked ==
  /\ IsSequence(stack)
  /\ \A i \in 1..Len(stack) : HasAgent(stack[i])
  /\ (outcome = "running") = (stack # <<>>)

\* Whoever has a sub-agent was allowed to have it at its own depth.
Allowed == \A i \in 1..(Len(stack) - 1) : i <= MaxDepth[stack[i].agent]

Contained == Stacked /\ Allowed /\ CompletedIsQuiet

LEMMA InitContained == Init => Contained
<1> SUFFICES ASSUME Init PROVE Contained
  OBVIOUS
<1>1. PICK a \in Agents : stack = <<Frame(a)>>
  BY DEF Init
<1>2. stack \in Seq({Frame(a)}) /\ Len(stack) = 1 /\ stack # <<>>
  BY <1>1
<1>3. HasAgent(Frame(a))
  BY DEF HasAgent, Frame
<1>4. IsSequence(stack)
  BY <1>2 DEF IsSequence
<1>5. Stacked
  BY <1>1, <1>2, <1>3, <1>4 DEF Init, Stacked
<1> QED
  BY <1>2, <1>5 DEF Init, Contained, Allowed, CompletedIsQuiet

LEMMA TopHasAgent ==
  ASSUME Stacked, outcome = "running"
  PROVE  Len(stack) \in Nat \ {0} /\ HasAgent(Top) /\ DOMAIN stack = 1..Len(stack)
<1>1. PICK S : stack \in Seq(S)
  BY DEF Stacked, IsSequence
<1>2. Len(stack) \in Nat /\ DOMAIN stack = 1..Len(stack) /\ (stack # <<>> => Len(stack) # 0)
  BY <1>1
<1> QED
  BY <1>2 DEF Stacked, Top

\* The top frame moves on: its agent stays.
MovesOn ==
  /\ outcome = "running" /\ UNCHANGED <<outcome, orphans>>
  /\ \E f : HasAgent(f) /\ f.agent = Top.agent /\ Becomes(f)

LEMMA MovesOnContained == Contained /\ MovesOn => Contained'
<1> SUFFICES ASSUME Contained, MovesOn PROVE Contained'
  OBVIOUS
<1>0. Stacked /\ Allowed /\ CompletedIsQuiet
  BY DEF Contained
<1>1. PICK f : HasAgent(f) /\ f.agent = Top.agent /\ Becomes(f)
  BY DEF MovesOn
<1>2. PICK S : stack \in Seq(S)
  BY <1>0 DEF Stacked, IsSequence
<1>3. stack \in Seq(S \cup {f}) /\ Len(stack) \in Nat \ {0} /\ DOMAIN stack = 1..Len(stack)
  BY <1>0, <1>2, TopHasAgent DEF MovesOn
<1>4. stack' = [stack EXCEPT ![Len(stack)] = f]
  BY <1>1 DEF Becomes
<1>5. stack' \in Seq(S \cup {f}) /\ Len(stack') = Len(stack)
  BY <1>3, <1>4
<1>6. stack' # <<>>
  BY <1>3, <1>5
<1>7. \A i \in 1..Len(stack) : HasAgent(stack'[i]) /\ stack'[i].agent = stack[i].agent
  BY <1>0, <1>1, <1>3, <1>4 DEF Stacked, Top
<1>8. IsSequence(stack')
  BY <1>5 DEF IsSequence
<1>9. Stacked'
  BY <1>5, <1>6, <1>7, <1>8 DEF MovesOn, Stacked
<1>10. Allowed'
  <2> SUFFICES ASSUME NEW i \in 1..(Len(stack) - 1) PROVE i <= MaxDepth[stack'[i].agent]
    BY <1>5 DEF Allowed
  <2>1. i \in 1..Len(stack)
    BY <1>3
  <2>2. stack'[i].agent = stack[i].agent
    BY <1>7, <2>1
  <2>3. i <= MaxDepth[stack[i].agent]
    BY <1>0 DEF Allowed
  <2> QED
    BY <2>2, <2>3
<1> QED
  BY <1>0, <1>9, <1>10 DEF MovesOn, Contained, CompletedIsQuiet

\* The run fails: nothing is left of the stack.
LEMMA RaisesContained ==
  ASSUME NEW n, Raises(n)
  PROVE  Contained'
<1>1. stack' = <<>> /\ outcome' = "failed"
  BY DEF Raises
<1>2. stack' \in Seq({}) /\ Len(stack') = 0
  BY <1>1
<1>3. IsSequence(stack')
  BY <1>2 DEF IsSequence
<1> QED
  BY <1>1, <1>2, <1>3 DEF Contained, Stacked, Allowed, CompletedIsQuiet

\* The top pattern returns, and those below may keep a text.
Returns ==
  /\ outcome = "running" /\ UNCHANGED orphans
  /\ \E end \in {"completed", "asked"} :
       \/ Pops(Below, end)
       \/ \E text : Pops(Captured(Below, text), end)

LEMMA ReturnsContained == Contained /\ Returns => Contained'
<1> SUFFICES ASSUME Contained, Returns PROVE Contained'
  OBVIOUS
<1>0. Stacked /\ Allowed /\ CompletedIsQuiet
  BY DEF Contained
<1>1. PICK S : stack \in Seq(S)
  BY <1>0 DEF Stacked, IsSequence
<1> DEFINE n == Len(stack) - 1
<1>2. Len(stack) \in Nat \ {0} /\ n \in Nat /\ DOMAIN stack = 1..Len(stack)
  BY <1>0, TopHasAgent DEF Returns
<1>3. Below \in Seq(S) /\ Len(Below) = n /\ \A i \in 1..n : Below[i] = stack[i]
  BY <1>1, <1>2 DEF Below
<1> DEFINE Shortened ==
              /\ IsSequence(stack')
              /\ Len(stack') = n
              /\ \A i \in 1..n : HasAgent(stack'[i]) /\ stack'[i].agent = stack[i].agent
<1>4. Shortened
  <2>1. CASE stack' = Below
    BY <2>1, <1>0, <1>2, <1>3 DEF Stacked, IsSequence
  <2>2. ASSUME NEW text, stack' = Captured(Below, text) PROVE Shortened
    <3>1. DOMAIN Below = 1..n
      BY <1>3
    <3>2. stack' = [i \in 1..n |-> [Below[i] EXCEPT !.captured = @ \o text]]
      BY <2>2, <3>1 DEF Captured
    <3> DEFINE T == {stack'[i] : i \in 1..n}
    <3>3. stack' \in Seq(T) /\ Len(stack') = n
      <4>1. stack' \in [1..n -> T]
        BY <3>2
      <4> HIDE DEF T, n
      <4> QED
        BY <4>1, <1>2
    <3>4. \A i \in 1..n : stack'[i] = [stack[i] EXCEPT !.captured = @ \o text]
      BY <3>2, <1>3
    <3>5. \A i \in 1..n : HasAgent(stack[i])
      BY <1>0, <1>2 DEF Stacked
    <3>6. \A i \in 1..n : HasAgent(stack'[i]) /\ stack'[i].agent = stack[i].agent
      BY <3>4, <3>5 DEF HasAgent
    <3>7. IsSequence(stack')
      BY <3>3 DEF IsSequence
    <3> QED
      BY <3>3, <3>6, <3>7
  <2> QED
    BY <2>1, <2>2 DEF Returns, Pops
<1>5. (outcome' = "running") = (stack' # <<>>) /\ outcome' # "failed"
  <2>1. CASE stack' = Below
    BY <2>1 DEF Returns, Pops
  <2> QED
    BY DEF Returns, Pops
<1>6. \A i \in 1..(Len(stack') - 1) : i <= MaxDepth[stack'[i].agent]
  BY <1>0, <1>2, <1>4 DEF Allowed
<1> QED
  BY <1>0, <1>4, <1>5, <1>6 DEF Contained, Stacked, Allowed, CompletedIsQuiet, Returns

LEMMA RouteLocalContained == Contained /\ RouteLocal => Contained'
<1> SUFFICES ASSUME Contained, RouteLocal PROVE Contained'
  OBVIOUS
<1>0. Stacked /\ Allowed /\ CompletedIsQuiet
  BY DEF Contained
<1>1. outcome = "running" /\ UNCHANGED <<outcome, orphans>> /\ DepthOfTop < MaxDepth[Top.agent]
  BY DEF RouteLocal, In
<1> DEFINE n == Len(stack)
           f == [Top EXCEPT !.phase = "sub", !.calls = <<>>]
           waiting == [stack EXCEPT ![n] = f]
<1>2. PICK a \in Agents : stack' = Append(waiting, Frame(a))
  BY DEF RouteLocal
<1>3. PICK S : stack \in Seq(S)
  BY <1>0 DEF Stacked, IsSequence
<1>4. n \in Nat \ {0} /\ HasAgent(Top) /\ DOMAIN stack = 1..n
  BY <1>0, <1>1, TopHasAgent
<1>5. HasAgent(f) /\ f.agent = Top.agent
  BY <1>4 DEF HasAgent
<1> HIDE DEF f
<1> DEFINE T == S \cup {f, Frame(a)}
<1>6. stack \in Seq(T) /\ f \in T /\ Frame(a) \in T
  BY <1>3
<1> HIDE DEF T
<1>7. waiting \in Seq(T) /\ Len(waiting) = n
  BY <1>4, <1>5, <1>6
<1>8. \A i \in 1..n : HasAgent(waiting[i]) /\ waiting[i].agent = stack[i].agent
  BY <1>0, <1>4, <1>5 DEF Stacked, Top
<1> HIDE DEF waiting
<1>9. /\ stack' \in Seq(T) /\ Len(stack') = n + 1
      /\ stack'[n + 1] = Frame(a)
      /\ \A i \in 1..n : stack'[i] = waiting[i]
  BY <1>2, <1>4, <1>6, <1>7
<1>10. HasAgent(Frame(a))
  BY DEF HasAgent, Frame
<1>11. IsSequence(stack') /\ stack' # <<>>
  BY <1>4, <1>9 DEF IsSequence
<1>12. \A i \in 1..(n + 1) : HasAgent(stack'[i])
  BY <1>4, <1>8, <1>9, <1>10
<1>13. \A i \in 1..n : i <= MaxDepth[stack'[i].agent]
  <2>1. n <= MaxDepth[stack[n].agent]
    BY <1>1, <1>4, PatternsAssumption DEF DepthOfTop, Top, HasAgent
  <2>2. QED
    <3>1. \A i \in 1..n : stack'[i].agent = stack[i].agent
      BY <1>8, <1>9
    <3>2. \A i \in 1..(n - 1) : i <= MaxDepth[stack[i].agent]
      BY <1>0 DEF Allowed
    <3> SUFFICES ASSUME NEW i \in 1..n PROVE i <= MaxDepth[stack[i].agent]
      BY <3>1
    <3>3. i = n \/ i \in 1..(n - 1)
      <4>1. n \in Nat
        BY <1>4
      <4> HIDE DEF n
      <4> QED
        BY <4>1
    <3>4. CASE i = n
      BY <1>4, <2>1, <3>4
    <3>5. CASE i \in 1..(n - 1)
      BY <3>2, <3>5
    <3> QED
      BY <3>3, <3>4, <3>5
<1> QED
  BY <1>0, <1>1, <1>4, <1>9, <1>11, <1>12, <1>13 DEF Contained, Stacked, Allowed, CompletedIsQuiet

-----------------------------------------------------------------------------
\* A new value in any field but one leaves that one.
LEMMA MovesTop ==
  ASSUME Contained, outcome = "running", UNCHANGED <<outcome, orphans>>,
         NEW f, HasAgent(f), f.agent = Top.agent, Becomes(f)
  PROVE  Contained'
  BY MovesOnContained DEF MovesOn

LEMMA NextContained == Contained /\ [Next]_vars => Contained'
<1> SUFFICES ASSUME Contained, [Next]_vars PROVE Contained'
  OBVIOUS
<1>0. outcome = "running" => HasAgent(Top)
  BY TopHasAgent DEF Contained
<1> USE DEF HasAgent, In, Moves, Ask
<1>1. CASE Answer \/ RemoteFails
  BY <1>1, <1>0, MovesTop DEF Answer, Answers, RemoteFails
<1>2. CASE Round \/ RoundEnds \/ RoundsDone
  BY <1>2, <1>0, MovesTop DEF Round, RoundEnds, RoundsDone
<1>3. CASE Expand \/ Expanded \/ Score
  BY <1>3, <1>0, MovesTop DEF Expand, Expanded, Score
<1>4. CASE Prune
  BY <1>4, <1>0, MovesTop DEF Prune
<1>5. CASE Dispatch \/ DispatchNext \/ Collected
  BY <1>5, <1>0, MovesTop DEF Dispatch, DispatchNext, Collected
<1>6. CASE RequestPlan \/ PlanValid \/ PlanInvalid
  BY <1>6, <1>0, MovesTop DEF RequestPlan, PlanValid, PlanInvalid
<1>7. CASE ExecuteStep \/ StepDone \/ StepsDone
  BY <1>7, <1>0, MovesTop DEF ExecuteStep, StepDone, StepsDone
<1>8. CASE Judge \/ Route \/ RouteRemote
  BY <1>8, <1>0, MovesTop DEF Judge, Route, RouteRemote
<1>9. CASE RemoteArtifact \/ RemoteStatus
  BY <1>9, <1>0, MovesTop DEF RemoteArtifact, RemoteStatus, Hears, Listening
<1>10. CASE CallRaises \/ PlanGivenUp \/ PlanMisshapen \/ SimpleRaises \/ RouteUnknown \/ TooDeep \/ RemoteBreaks
  BY <1>10, RaisesContained
     DEF CallRaises, PlanGivenUp, PlanMisshapen, SimpleRaises, RouteUnknown, TooDeep, RemoteBreaks
<1>11. CASE Conclude \/ SimpleAnswers \/ SimpleAsks \/ SubReturns
  BY <1>11, ReturnsContained
     DEF Conclude, SimpleAnswers, SimpleAsks, SubReturns, Completes, Returns
<1>12. CASE RemoteReturns
  BY <1>12, ReturnsContained, RaisesContained DEF RemoteReturns, Completes, Returns
<1>13. CASE RouteLocal
  BY <1>13, RouteLocalContained
<1>14. CASE OrphanEnds
  BY <1>14 DEF OrphanEnds, Contained, Stacked, Allowed, CompletedIsQuiet
<1>15. CASE UNCHANGED vars
  BY <1>15 DEF vars, Contained, Stacked, Allowed, CompletedIsQuiet
<1> QED
  BY <1>1, <1>2, <1>3, <1>4, <1>5, <1>6, <1>7, <1>8, <1>9, <1>10, <1>11, <1>12, <1>13, <1>14, <1>15
     DEF Next

LEMMA AlwaysContained == Spec => []Contained
  BY InitContained, NextContained, PTL DEF Spec

\* However often routers hand on, to whichever configuration, themselves
\* included, the stack is no deeper than the limit of one of its agents:
\* DepthBounded (the depth that run_handoff compares and passes on).
THEOREM NestingBounded == Spec => []DepthBounded
<1>1. Contained => DepthBounded
  <2> SUFFICES ASSUME Contained, stack # <<>>
               PROVE  \E i \in DOMAIN stack : Len(stack) - 1 <= MaxDepth[stack[i].agent]
    BY DEF DepthBounded
  <2>1. Stacked /\ Allowed
    BY DEF Contained
  <2>2. Len(stack) \in Nat \ {0} /\ DOMAIN stack = 1..Len(stack)
    BY <2>1, TopHasAgent DEF Stacked
  <2>3. CASE Len(stack) = 1
    <3>1. MaxDepth[stack[1].agent] \in Nat
      BY <2>1, <2>3, PatternsAssumption DEF Stacked, HasAgent
    <3> QED
      BY <2>2, <2>3, <3>1
  <2>4. CASE Len(stack) # 1
    <3> DEFINE k == Len(stack) - 1
    <3>1. k \in 1..(Len(stack) - 1) /\ k \in DOMAIN stack
      BY <2>2, <2>4
    <3>2. k <= MaxDepth[stack[k].agent]
      BY <2>1, <3>1 DEF Allowed
    <3> QED
      BY <3>1, <3>2
  <2> QED
    BY <2>3, <2>4
<1> QED
  BY <1>1, AlwaysContained, PTL

\* Whatever its gathers meet, a run that did not fail leaves no call of its own
\* under way: CompletedIsQuiet, for any number of debaters, branches and agents.
THEOREM NothingLeftRunning == Spec => []CompletedIsQuiet
<1>1. Contained => CompletedIsQuiet
  BY DEF Contained
<1> QED
  BY <1>1, AlwaysContained, PTL

-----------------------------------------------------------------------------
\* What the run told and what it will: a frame keeps the texts it overheard
\* and what it heard as sequences; one with a sub-agent has no calls.
IsFrame(f) ==
  /\ {"phase", "calls", "captured", "heard"} \subseteq DOMAIN f
  /\ IsSequence(f.captured) /\ IsSequence(f.heard.text)
  /\ f.phase = "sub" => f.calls = <<>>

Framed(frames) ==
  /\ \A i \in 1..Len(frames) : IsFrame(frames[i])
  /\ \A i \in 1..(Len(frames) - 1) : frames[i].phase = "sub"

\* While a run goes on, a final event came from a sub-agent that returned, and
\* an answer that somebody gave is what the top frame heard or what every
\* frame overheard.
Voiced(frames, ended, said) ==
  LET top == frames[Len(frames)]
  IN  /\ \A i \in 1..Len(ended) : ended[i] # "FAILED"
      /\ Len(ended) # 0 => top.phase = "sub"
      /\ said => \/ top.phase = "remote" /\ top.heard.text # <<>>
                 \/ top.phase = "sub" /\ \A i \in 1..Len(frames) : frames[i].captured # <<>>

Spoken ==
  /\ Framed(stack) /\ IsSequence(finals)
  /\ outcome = "running" => Voiced(stack, finals, told)
  /\ LastWordAgrees

\* The list of final events with one more.
OneMore(s, e, more) ==
  /\ IsSequence(more) /\ Len(s) \in Nat
  /\ Len(more) = Len(s) + 1 /\ more[Len(s) + 1] = e
  /\ DOMAIN more = 1..(Len(s) + 1)
  /\ \A i \in 1..Len(s) : more[i] = s[i]
  /\ more # <<>>

LEMMA OneMoreFinal ==
  ASSUME NEW s, IsSequence(s), NEW e
  PROVE  OneMore(s, e, Append(s, e))
<1>1. PICK S : s \in Seq(S)
  BY DEF IsSequence
<1> DEFINE T == S \cup {e}
<1>2. s \in Seq(T) /\ e \in T
  BY <1>1
<1> HIDE DEF T
<1>3. Append(s, e) \in Seq(T) /\ Len(Append(s, e)) = Len(s) + 1 /\ Len(s) \in Nat
  BY <1>2
<1>4. Append(s, e)[Len(s) + 1] = e /\ \A i \in 1..Len(s) : Append(s, e)[i] = s[i]
  BY <1>2
<1>5. Append(s, e) # <<>> /\ DOMAIN Append(s, e) = 1..(Len(s) + 1)
  BY <1>3
<1> QED
  BY <1>3, <1>4, <1>5 DEF IsSequence, OneMore

LEMMA Emptiness ==
  ASSUME NEW s, IsSequence(s)
  PROVE  /\ Len(s) \in Nat /\ DOMAIN s = 1..Len(s)
         /\ (s = <<>>) = (Len(s) = 0)
  BY DEF IsSequence

\* The top frame is another, those below stay.
LEMMA BecomesTop ==
  ASSUME Stacked, outcome = "running", NEW f, Becomes(f)
  PROVE  /\ Len(stack) \in Nat \ {0} /\ Len(stack') = Len(stack) /\ stack'[Len(stack)] = f
         /\ \A i \in 1..(Len(stack) - 1) : stack'[i] = stack[i]
<1>1. PICK S : stack \in Seq(S)
  BY DEF Stacked, IsSequence
<1>2. Len(stack) \in Nat \ {0} /\ DOMAIN stack = 1..Len(stack)
  BY TopHasAgent
<1>3. stack \in Seq(S \cup {f})
  BY <1>1
<1>4. stack' = [stack EXCEPT ![Len(stack)] = f]
  BY DEF Becomes
<1>5. stack' \in Seq(S \cup {f}) /\ Len(stack') = Len(stack)
  BY <1>2, <1>3, <1>4
<1>6. stack'[Len(stack)] = f
  BY <1>2, <1>4
<1>7. ASSUME NEW i \in 1..(Len(stack) - 1) PROVE stack'[i] = stack[i]
  <2>1. i \in 1..Len(stack) /\ i # Len(stack)
    <3> DEFINE n == Len(stack)
    <3>1. n \in Nat /\ i \in 1..(n - 1)
      BY <1>2
    <3> HIDE DEF n
    <3>2. i \in 1..n /\ i # n
      BY ONLY <3>1
    <3> QED
      BY <3>2 DEF n
  <2> QED
    BY ONLY <1>2, <1>4, <2>1
<1> QED
  BY <1>2, <1>5, <1>6, <1>7

\* The frames left when the top one returns: those below, which may keep a
\* text.
LEMMA ReturnsBelow ==
  ASSUME Stacked, outcome = "running"
  PROVE  /\ Len(stack) \in Nat \ {0} /\ Len(Below) = Len(stack) - 1 /\ (Below = <<>>) = (Len(stack) = 1)
         /\ \A i \in 1..(Len(stack) - 1) : Below[i] = stack[i]
         /\ \A text : /\ Len(Captured(Below, text)) = Len(stack) - 1
                      /\ (Captured(Below, text) = <<>>) = (Len(stack) = 1)
                      /\ \A i \in 1..(Len(stack) - 1) :
                           Captured(Below, text)[i] = [stack[i] EXCEPT !.captured = @ \o text]
<1> DEFINE n == Len(stack) - 1
<1>1. PICK S : stack \in Seq(S)
  BY DEF Stacked, IsSequence
<1>2. Len(stack) \in Nat \ {0} /\ n \in Nat
  BY TopHasAgent
<1>3. Below \in Seq(S) /\ Len(Below) = n /\ DOMAIN Below = 1..n /\ \A i \in 1..n : Below[i] = stack[i]
  <2>1. 1 \in 1..(Len(stack) + 1) /\ n \in 0..Len(stack) /\ n - 1 + 1 = n /\ \A i \in 1..n : 1 + i - 1 = i
    BY <1>2
  <2>2. Below = SubSeq(stack, 1, n)
    BY DEF Below
  <2> HIDE DEF n
  <2>3. Below \in Seq(S) /\ Len(Below) = n
    BY ONLY <1>1, <1>2, <2>1, <2>2
  <2>4. DOMAIN Below = 1..n /\ \A i \in 1..n : Below[i] = stack[i]
    BY ONLY <1>1, <1>2, <2>1, <2>2
  <2> QED
    BY <2>3, <2>4
<1>4. (Below = <<>>) = (n = 0)
  BY <1>2, <1>3
<1>5. ASSUME NEW text
      PROVE  /\ Len(Captured(Below, text)) = n /\ (Captured(Below, text) = <<>>) = (n = 0)
             /\ \A i \in 1..n : Captured(Below, text)[i] = [stack[i] EXCEPT !.captured = @ \o text]
  <2> DEFINE c == Captured(Below, text)
             T == {c[i] : i \in 1..n}
  <2>1. c = [i \in 1..n |-> [Below[i] EXCEPT !.captured = @ \o text]]
    BY <1>3 DEF Captured
  <2>2. \A i \in 1..n : c[i] = [stack[i] EXCEPT !.captured = @ \o text]
    BY <1>3, <2>1
  <2>3. c \in [1..n -> T]
    BY <2>1
  <2> HIDE DEF c, T, n
  <2>4. c \in Seq(T) /\ Len(c) = n
    BY <1>2, <2>3
  <2>5. (c = <<>>) = (n = 0)
    BY <1>2, <2>4
  <2> QED
    BY <2>2, <2>4, <2>5 DEF c
<1>6. (n = 0) = (Len(stack) = 1)
  BY <1>2
<1> HIDE DEF n
<1> QED
  BY <1>2, <1>3, <1>4, <1>5, <1>6 DEF n

LEMMA InitSpoken == Init => Spoken
<1> SUFFICES ASSUME Init PROVE Spoken
  OBVIOUS
<1>1. PICK a \in Agents : stack = <<Frame(a)>>
  BY DEF Init
<1>2. Len(stack) = 1 /\ stack[1] = Frame(a)
  BY <1>1
<1>3. IsSequence(<<>>)
  BY DEF IsSequence
<1>4. IsFrame(Frame(a))
  BY <1>3 DEF IsFrame, Frame
<1>5. Len(<<>>) = 0 /\ DOMAIN <<>> = {}
  OBVIOUS
<1>6. Framed(stack)
  BY <1>2, <1>4 DEF Framed
<1>7. Voiced(stack, finals, told)
  BY <1>5 DEF Init, Voiced
<1> QED
  BY <1>3, <1>5, <1>6, <1>7 DEF Init, Spoken, LastWordAgrees

\* A step of a pattern that neither has a sub-agent nor listens to a remote
\* one: nothing was said yet.
LEMMA MovesSpoken ==
  ASSUME Stacked, Spoken, outcome = "running", Top.phase \notin {"sub", "remote"},
         NEW f, IsFrame(f), Moves(f)
  PROVE  Spoken'
<1>1. /\ Len(stack) \in Nat \ {0} /\ Len(stack') = Len(stack) /\ stack'[Len(stack)] = f
      /\ \A i \in 1..(Len(stack) - 1) : stack'[i] = stack[i]
  BY BecomesTop DEF Moves
<1>2. Framed(stack')
  <2>1. \A i \in 1..Len(stack) : i = Len(stack) \/ i \in 1..(Len(stack) - 1)
    BY <1>1
  <2>2. \A i \in 1..Len(stack) : IsFrame(stack'[i])
    BY <1>1, <2>1 DEF Spoken, Framed
  <2> QED
    BY <1>1, <2>2 DEF Spoken, Framed
<1>3. Len(finals) = 0 /\ ~told /\ Voiced(stack, finals, told)
  BY DEF Spoken, Voiced, Top
<1>4. UNCHANGED <<outcome, row, finals, reply, told>>
  BY DEF Moves
<1>5. Voiced(stack', finals, told)
  BY <1>3 DEF Voiced
<1> QED
  BY <1>2, <1>4, <1>5 DEF Spoken, LastWordAgrees

\* A failure is reported by a frame that said nothing and has no sub-agent.
LEMMA RaisesSpoken ==
  ASSUME Spoken, outcome = "running", Top.phase # "sub", NEW n, Raises(n)
  PROVE  Spoken'
<1>1. stack' = <<>> /\ outcome' = "failed" /\ row' = "FAILED" /\ finals' = Append(finals, "FAILED")
  BY DEF Raises
<1>2. Len(stack') = 0
  BY <1>1
<1>3. Len(finals) = 0 /\ IsSequence(finals)
  BY DEF Spoken, Voiced, Top
<1>4. /\ IsSequence(finals') /\ Len(finals') = 1 /\ finals'[1] = "FAILED" /\ finals' # <<>>
  <2>1. OneMore(finals, "FAILED", finals')
    BY <1>1, <1>3, OneMoreFinal
  <2> QED
    BY <1>3, <2>1 DEF OneMore
<1>5. LastWordAgrees'
  BY <1>1, <1>4 DEF LastWordAgrees
<1> QED
  BY <1>1, <1>2, <1>4, <1>5 DEF Spoken, Framed

\* A frame that overhears a text.
Overheard(f, text, g) ==
  /\ IsFrame(g) /\ g.phase = f.phase
  /\ text # <<>> => g.captured # <<>>

LEMMA Overhears ==
  ASSUME NEW f, IsFrame(f), NEW text, IsSequence(text)
  PROVE  Overheard(f, text, [f EXCEPT !.captured = @ \o text])
<1> DEFINE g == [f EXCEPT !.captured = @ \o text]
<1>1. PICK S : f.captured \in Seq(S)
  BY DEF IsFrame, IsSequence
<1>2. PICK R : text \in Seq(R)
  BY DEF IsSequence
<1> DEFINE T == S \cup R
<1>3. f.captured \in Seq(T) /\ text \in Seq(T)
  BY <1>1, <1>2
<1> HIDE DEF T
<1>4. (f.captured \o text) \in Seq(T)
  BY <1>3
<1>5. text # <<>> => f.captured \o text # <<>>
  <2> SUFFICES ASSUME text # <<>> PROVE f.captured \o text # <<>>
    OBVIOUS
  <2>1. Len(text) \in Nat /\ Len(text) # 0 /\ Len(f.captured) \in Nat
    BY <1>3
  <2>2. Len(f.captured \o text) = Len(f.captured) + Len(text)
    BY <1>3
  <2> QED
    BY <1>4, <2>1, <2>2
<1>6. g.captured = f.captured \o text /\ g.phase = f.phase /\ g.heard = f.heard /\ g.calls = f.calls
  BY DEF IsFrame
<1>7. IsSequence(g.captured)
  BY <1>4, <1>6 DEF IsSequence
<1>8. {"phase", "calls", "captured", "heard"} \subseteq DOMAIN g
  BY DEF IsFrame
<1>9. IsSequence(f.heard.text) /\ (f.phase = "sub" => f.calls = <<>>)
  BY DEF IsFrame
<1>10. IsFrame(g)
  BY ONLY <1>6, <1>7, <1>8, <1>9 DEF IsFrame
<1> QED
  BY <1>5, <1>6, <1>10 DEF Overheard

\* An answer is announced: who said it is told, and so are all above.
LEMMA CompletesSpoken ==
  ASSUME Stacked, Spoken, outcome = "running", NEW text, IsSequence(text),
         told => text # <<>>, Completes(text)
  PROVE  Spoken'
<1> DEFINE n == Len(stack) - 1
<1>1. /\ stack' = Captured(Below, text) /\ row' = "COMPLETED" /\ finals' = Append(finals, "COMPLETED")
      /\ outcome' = (IF stack' = <<>> THEN "completed" ELSE outcome)
      /\ reply' = text /\ told' = (told \/ text # <<>>)
  BY DEF Completes, Pops
<1>2. /\ Len(stack) \in Nat \ {0} /\ Len(stack') = n /\ (stack' = <<>>) = (Len(stack) = 1)
      /\ \A i \in 1..n : stack'[i] = [stack[i] EXCEPT !.captured = @ \o text]
  BY <1>1, ReturnsBelow
<1>3. n \in Nat /\ \A i \in 1..n : i \in 1..Len(stack)
  BY <1>2
<1>4. \A i \in 1..n : IsFrame(stack[i]) /\ stack[i].phase = "sub"
  BY <1>3 DEF Spoken, Framed
<1>5. ASSUME NEW i \in 1..n
      PROVE  /\ IsFrame(stack'[i]) /\ stack'[i].phase = "sub"
             /\ text # <<>> => stack'[i].captured # <<>>
  <2> DEFINE g == stack'[i]
  <2>1. g = [stack[i] EXCEPT !.captured = @ \o text] /\ IsFrame(stack[i]) /\ stack[i].phase = "sub"
    BY <1>2, <1>4
  <2> HIDE DEF g
  <2>2. Overheard(stack[i], text, g)
    BY <2>1, Overhears
  <2> QED
    BY <2>1, <2>2 DEF g, Overheard
<1>6. Framed(stack')
  <2>1. \A i \in 1..(n - 1) : i \in 1..n
    BY <1>3
  <2> HIDE DEF n
  <2> QED
    BY <1>2, <1>5, <2>1 DEF Framed
<1>7. Voiced(stack, finals, told) /\ IsSequence(finals)
  BY DEF Spoken
<1>8. /\ IsSequence(finals') /\ Len(finals) \in Nat /\ Len(finals') = Len(finals) + 1 /\ finals'[Len(finals')] = "COMPLETED"
      /\ finals' # <<>> /\ DOMAIN finals' = 1..(Len(finals) + 1)
      /\ \A i \in 1..Len(finals) : finals'[i] = finals[i]
  <2>1. OneMore(finals, "COMPLETED", finals')
    BY <1>1, <1>7, OneMoreFinal
  <2> QED
    BY <2>1 DEF OneMore
<1>9. \A i \in 1..Len(finals') : finals'[i] # "FAILED"
  <2> SUFFICES ASSUME NEW i \in 1..Len(finals') PROVE finals'[i] # "FAILED"
    OBVIOUS
  <2>1. i = Len(finals') \/ i \in 1..Len(finals)
    BY <1>8
  <2> QED
    BY <1>7, <1>8, <2>1 DEF Voiced
<1>10. told' = (text # <<>>)
  BY <1>1
<1>11. CASE Len(stack) = 1
  <2>1. outcome' = "completed" /\ DOMAIN finals' = 1..Len(finals')
    BY <1>1, <1>2, <1>8, <1>11
  <2>2. LastWordAgrees'
    BY <1>1, <1>8, <1>9, <1>10, <2>1 DEF LastWordAgrees
  <2> QED
    BY <1>6, <1>8, <2>1, <2>2 DEF Spoken
<1>12. CASE Len(stack) # 1
  <2>1. outcome' = "running" /\ DOMAIN finals' = 1..Len(finals')
    BY <1>1, <1>2, <1>8, <1>12
  <2>2. n \in 1..n
    BY <1>2, <1>3, <1>12
  <2>3. Voiced(stack', finals', told')
    <3> HIDE DEF n
    <3> QED
      BY <1>2, <1>5, <1>9, <1>10, <2>2 DEF Voiced
  <2>4. LastWordAgrees'
    BY <1>9, <2>1 DEF LastWordAgrees
  <2> QED
    BY <1>6, <1>8, <2>3, <2>4 DEF Spoken
<1> QED
  BY <1>11, <1>12

\* What a remote agent says is heard by the top frame.
LEMMA HearsSpoken ==
  ASSUME Stacked, Spoken, NEW state, NEW text \in {<<>>, <<"remote">>}, NEW final, In("remote"),
         Hears(state, text, final)
  PROVE  Spoken'
<1> DEFINE n == Len(stack)
           heard == [state |-> state, text |-> Text(Top.heard.text, text), final |-> final]
           f == [Top EXCEPT !.turn = @ + 1, !.heard = heard]
<1>0. outcome = "running" /\ Top.phase = "remote"
  BY DEF In
<1>1. /\ Becomes(f) /\ told' = (told \/ text # <<>>) /\ UNCHANGED <<outcome, row, finals, reply>>
  BY DEF Hears
<1>2. Voiced(stack, finals, told) /\ n \in Nat \ {0}
  BY <1>0, TopHasAgent DEF Spoken
<1>3. IsFrame(Top) /\ Top = stack[n]
  BY <1>2 DEF Spoken, Framed, Top
<1>4. /\ IsSequence(heard.text) /\ heard.text = Text(Top.heard.text, text)
      /\ (heard.text # <<>>) = (text # <<>> \/ Top.heard.text # <<>>)
  <2>1. IsSequence(<<>>) /\ IsSequence(<<"remote">>) /\ <<"remote">> # <<>>
    <3>1. <<>> \in Seq({"remote"}) /\ <<"remote">> \in Seq({"remote"}) /\ <<"remote">> # <<>>
      OBVIOUS
    <3> QED
      BY <3>1 DEF IsSequence
  <2>2. IsSequence(Top.heard.text)
    BY <1>3 DEF IsFrame
  <2> QED
    BY <2>1, <2>2 DEF Text
<1> HIDE DEF heard
<1>5. /\ f.phase = "remote" /\ f.heard = heard /\ f.captured = Top.captured
      /\ {"phase", "calls", "captured", "heard"} \subseteq DOMAIN f
  BY <1>0, <1>3 DEF IsFrame
<1>6. IsFrame(f)
  <2>1. IsSequence(f.captured)
    BY <1>3, <1>5 DEF IsFrame
  <2> HIDE DEF f
  <2> QED
    BY <1>4, <1>5, <2>1 DEF IsFrame
<1> HIDE DEF f
<1>7. /\ Len(stack') = n /\ stack'[n] = f /\ \A i \in 1..(n - 1) : stack'[i] = stack[i]
  BY <1>0, <1>1, BecomesTop
<1> HIDE DEF n
<1>8. Framed(stack')
  <2>1. \A i \in 1..n : i = n \/ i \in 1..(n - 1)
    BY <1>2
  <2>2. \A i \in 1..n : IsFrame(stack'[i])
    BY <1>6, <1>7, <2>1 DEF Spoken, Framed, n
  <2>3. \A i \in 1..(n - 1) : stack'[i].phase = "sub"
    BY <1>7 DEF Spoken, Framed, n
  <2> QED
    BY <1>7, <2>2, <2>3 DEF Framed
<1>9. Voiced(stack', finals, told')
  <2>1. Len(finals) = 0 \/ Len(finals) # 0
    OBVIOUS
  <2>2. ~(Len(finals) # 0)
    BY <1>0, <1>2, <1>3 DEF Voiced, n
  <2>3. \A i \in 1..Len(finals) : finals[i] # "FAILED"
    BY <1>2 DEF Voiced
  <2>4. told => Top.heard.text # <<>>
    BY <1>0, <1>2, <1>3 DEF Voiced, n
  <2>5. told' => f.heard.text # <<>>
    BY <1>1, <1>4, <1>5, <2>4
  <2> QED
    BY <1>5, <1>7, <2>2, <2>3, <2>5 DEF Voiced
<1> QED
  BY <1>0, <1>1, <1>8, <1>9 DEF Spoken, LastWordAgrees

\* A sub-agent begins: nothing was said yet.
LEMMA RouteLocalSpoken ==
  ASSUME Stacked, Spoken, RouteLocal
  PROVE  Spoken'
<1> DEFINE n == Len(stack)
           f == [Top EXCEPT !.phase = "sub", !.calls = <<>>]
           waiting == [stack EXCEPT ![n] = f]
<1>0. outcome = "running" /\ Top.phase = "route"
  BY DEF RouteLocal, In
<1>1. PICK a \in Agents : stack' = Append(waiting, Frame(a))
  BY DEF RouteLocal
<1>2. UNCHANGED <<outcome, finals, reply, told>>
  BY DEF RouteLocal
<1>3. PICK S : stack \in Seq(S)
  BY DEF Stacked, IsSequence
<1>4. n \in Nat \ {0} /\ DOMAIN stack = 1..n /\ Top = stack[n]
  BY <1>0, TopHasAgent DEF Top
<1>5. IsFrame(f) /\ f.phase = "sub"
  BY <1>4 DEF Spoken, Framed, IsFrame
<1>6. IsFrame(Frame(a))
  <2>1. IsSequence(<<>>)
    BY DEF IsSequence
  <2> QED
    BY <2>1 DEF IsFrame, Frame
<1> HIDE DEF f
<1> DEFINE T == S \cup {f, Frame(a)}
<1>7. stack \in Seq(T) /\ f \in T /\ Frame(a) \in T
  BY <1>3
<1> HIDE DEF T
<1>8. waiting \in Seq(T) /\ Len(waiting) = n
  BY <1>4, <1>7
<1>9. waiting[n] = f /\ \A i \in 1..(n - 1) : waiting[i] = stack[i]
  <2>1. n \in Nat \ {0}
    BY <1>4
  <2>2. waiting[n] = f
    BY <1>4
  <2>3. \A i \in 1..n : i # n => waiting[i] = stack[i]
    BY <1>4
  <2> HIDE DEF waiting, n
  <2>4. \A i \in 1..(n - 1) : i \in 1..n /\ i # n
    BY <2>1
  <2> QED
    BY <2>2, <2>3, <2>4
<1> HIDE DEF waiting
<1>10. /\ Len(stack') = n + 1 /\ stack'[n + 1] = Frame(a)
       /\ \A i \in 1..n : stack'[i] = waiting[i]
  BY <1>1, <1>4, <1>7, <1>8
<1>11. \A i \in 1..(n - 1) : IsFrame(stack[i]) /\ stack[i].phase = "sub"
  <2>1. \A i \in 1..(n - 1) : i \in 1..n
    BY <1>4
  <2> QED
    BY <2>1 DEF Spoken, Framed
<1>12. Framed(stack')
  <2>1. n \in Nat \ {0}
    BY <1>4
  <2> HIDE DEF n
  <2>2. \A i \in 1..n : i = n \/ i \in 1..(n - 1)
    BY <2>1
  <2>3. \A i \in 1..(n + 1) : i = n + 1 \/ i \in 1..n
    BY <2>1
  <2>4. \A i \in 1..n : IsFrame(stack'[i]) /\ stack'[i].phase = "sub"
    BY <1>5, <1>9, <1>10, <1>11, <2>2
  <2>5. \A i \in 1..(n + 1) : IsFrame(stack'[i])
    BY <1>6, <1>10, <2>3, <2>4
  <2>6. (n + 1) - 1 = n
    BY <2>1
  <2> QED
    BY <1>10, <2>4, <2>5, <2>6 DEF Framed
<1>13. Len(finals) = 0 /\ ~told
  BY <1>0, <1>4, Emptiness DEF Spoken, Voiced
<1>14. Voiced(stack', finals, told)
  BY <1>13 DEF Voiced
<1> QED
  BY <1>0, <1>2, <1>12, <1>14 DEF Spoken, LastWordAgrees

\* A question: the run ends with it, or the frames above go on.
LEMMA AsksSpoken ==
  ASSUME Stacked, Spoken, SimpleAsks
  PROVE  Spoken'
<1> DEFINE n == Len(stack) - 1
<1>1. /\ outcome = "running" /\ Top.phase = "simple"
      /\ stack' = Below /\ outcome' = (IF stack' = <<>> THEN "asked" ELSE outcome)
      /\ row' = "INPUT_REQUIRED" /\ UNCHANGED <<finals, reply, told>>
  BY DEF SimpleAsks, In, Pops
<1>2. /\ Len(stack) \in Nat \ {0} /\ Len(stack') = n /\ (stack' = <<>>) = (Len(stack) = 1)
      /\ \A i \in 1..n : stack'[i] = stack[i]
  BY <1>1, ReturnsBelow
<1>3. n \in Nat /\ \A i \in 1..n : i \in 1..Len(stack)
  BY <1>2
<1>4. \A i \in 1..n : IsFrame(stack[i]) /\ stack[i].phase = "sub"
  BY <1>3 DEF Spoken, Framed
<1>5. Framed(stack')
  <2>1. \A i \in 1..(n - 1) : i \in 1..n
    BY <1>3
  <2> HIDE DEF n
  <2> QED
    BY <1>2, <1>4, <2>1 DEF Framed
<1>6. Len(finals) = 0 /\ ~told /\ finals = <<>>
  BY <1>1, Emptiness DEF Spoken, Voiced, Top
<1>7. DOMAIN finals = {} /\ Voiced(stack', finals, told)
  BY <1>6 DEF Voiced
<1>8. outcome' \in {"running", "asked"}
  BY <1>1
<1>9. LastWordAgrees'
  BY <1>1, <1>6, <1>7, <1>8 DEF LastWordAgrees
<1> QED
  BY <1>1, <1>5, <1>7, <1>9 DEF Spoken

LEMMA NextSpoken == Stacked /\ Spoken /\ [Next]_vars => Spoken'
<1> SUFFICES ASSUME Stacked, Spoken, [Next]_vars PROVE Spoken'
  OBVIOUS
<1>0. outcome = "running" =>
        /\ {"phase", "calls", "captured", "heard"} \subseteq DOMAIN Top
        /\ IsSequence(Top.captured) /\ IsSequence(Top.heard.text)
        /\ Top.phase = "sub" => Top.calls = <<>>
  BY TopHasAgent DEF Spoken, Framed, IsFrame, Top
<1>1. DOMAIN <<>> = {}
  OBVIOUS
<1>2. Top.phase = "sub" /\ outcome = "running" => Waiting = {} /\ ~AllOk
  BY <1>0, <1>1 DEF Waiting, AllOk, Idle
<1> USE DEF In, IsFrame
<1>3. CASE Answer
  <2>1. outcome = "running" /\ Top.phase # "remote"
    BY <1>3 DEF Answer
  <2>2. PICK i \in Waiting, v \in Int : Answers(i, v)
    BY <1>3, PatternsAssumption DEF Answer
  <2>3. Top.phase # "sub"
    BY <1>2, <2>1, <2>2
  <2> DEFINE f == [Top EXCEPT !.calls[i].state = "ok", !.calls[i].value = v]
  <2>4. Moves(f)
    BY <2>2 DEF Answers
  <2>5. IsFrame(f)
    BY <1>0, <2>1, <2>3
  <2> QED
    BY <2>1, <2>3, <2>4, <2>5, MovesSpoken
<1>4. CASE RemoteFails
  <2>1. outcome = "running" /\ Top.phase \in {"parallel", "sequential"}
    BY <1>4 DEF RemoteFails, Collects
  <2>2. PICK i \in Waiting : Moves([Top EXCEPT !.calls[i].state = "error"])
    BY <1>4 DEF RemoteFails
  <2>3. IsFrame([Top EXCEPT !.calls[i].state = "error"])
    BY <1>0, <2>1
  <2> QED
    BY <2>1, <2>2, <2>3, MovesSpoken
<1>5. CASE Round \/ RoundEnds \/ RoundsDone
  BY <1>5, <1>0, MovesSpoken DEF Round, RoundEnds, RoundsDone, Ask
<1>6. CASE Expand \/ Expanded \/ Score
  BY <1>6, <1>0, MovesSpoken DEF Expand, Expanded, Score, Ask
<1>7. CASE Prune
  <2> DEFINE q == IF Top.turn + 1 = Depth THEN "judge" ELSE "expand"
             notes == [k \in DOMAIN Kept(Top.calls) |->
                          [who |-> Kept(Top.calls)[k],
                           value |-> Top.calls[Kept(Top.calls)[k]].value,
                           dropped |-> {Top.calls[i].value : i \in
                              DOMAIN Top.calls \ {Kept(Top.calls)[j] : j \in DOMAIN Kept(Top.calls)}}]]
  <2>1. Moves([Top EXCEPT !.phase = q, !.turn = @ + 1, !.calls = <<>>, !.notes = notes]) /\ q # "sub"
    BY <1>7, Zenon DEF Prune
  <2> HIDE DEF q, notes
  <2>2. outcome = "running" /\ Top.phase = "score"
    BY <1>7 DEF Prune
  <2> QED
    BY <1>0, <2>1, <2>2, MovesSpoken
<1>8. CASE Dispatch \/ DispatchNext \/ Collected
  BY <1>8, <1>0, MovesSpoken DEF Dispatch, DispatchNext, Collected, Collects, Ask
<1>9. CASE RequestPlan \/ PlanValid \/ PlanInvalid
  BY <1>9, <1>0, MovesSpoken DEF RequestPlan, PlanValid, PlanInvalid, Ask
<1>10. CASE ExecuteStep \/ StepDone \/ StepsDone
  BY <1>10, <1>0, MovesSpoken DEF ExecuteStep, StepDone, StepsDone, Ask
<1>11. CASE Judge \/ Route \/ RouteRemote
  BY <1>11, <1>0, MovesSpoken DEF Judge, Route, RouteRemote, Ask
<1>12. CASE CallRaises
  BY <1>12, <1>2, RaisesSpoken DEF CallRaises
<1>13. CASE PlanGivenUp \/ PlanMisshapen \/ SimpleRaises \/ RouteUnknown \/ TooDeep \/ RemoteBreaks
  BY <1>13, RaisesSpoken
     DEF PlanGivenUp, PlanMisshapen, SimpleRaises, RouteUnknown, TooDeep, RemoteBreaks
<1>14. CASE RemoteArtifact \/ RemoteStatus
  <2>1. CASE RemoteArtifact
    <3>1. In("remote") /\ Hears(Top.heard.state, <<"remote">>, FALSE)
      BY <2>1 DEF RemoteArtifact
    <3> QED
      BY <3>1, HearsSpoken
  <2>2. CASE RemoteStatus
    <3>1. PICK state \in {"WORKING", "INPUT_REQUIRED", "COMPLETED", "FAILED"},
               text \in {<<>>, <<"remote">>}, final \in BOOLEAN : Hears(state, text, final)
      BY <2>2 DEF RemoteStatus
    <3>2. In("remote")
      BY <3>1 DEF Hears, Listening
    <3> QED
      BY <3>1, <3>2, HearsSpoken
  <2> QED
    BY <1>14, <2>1, <2>2
<1>15. ASSUME NEW S, NEW x \in S PROVE IsSequence(<<x>>) /\ <<x>> # <<>>
  <2>1. <<x>> \in Seq(S) /\ <<x>> # <<>>
    OBVIOUS
  <2> QED
    BY <2>1 DEF IsSequence
<1>16. CASE Conclude \/ SimpleAnswers
  <2>1. outcome = "running" /\ Completes(<<Top.agent>>)
    BY <1>16 DEF Conclude, SimpleAnswers
  <2> QED
    BY <1>15, <2>1, CompletesSpoken
<1>17. outcome = "running" => Voiced(stack, finals, told) /\ Top = stack[Len(stack)] /\ Len(stack) \in Nat \ {0}
  BY TopHasAgent DEF Spoken, Top
<1>18. CASE SubReturns
  <2>1. outcome = "running" /\ Top.phase = "sub" /\ Completes(Top.captured)
    BY <1>18 DEF SubReturns
  <2>2. told => Top.captured # <<>>
    BY <1>17, <2>1 DEF Voiced
  <2> QED
    BY <1>0, <2>1, <2>2, CompletesSpoken
<1>19. CASE RemoteReturns
  <2>1. outcome = "running" /\ Top.phase = "remote"
    BY <1>19 DEF RemoteReturns
  <2>2. told => Top.heard.text # <<>>
    BY <1>17, <2>1 DEF Voiced
  <2>3. CASE Completes(Top.heard.text)
    BY <1>0, <2>1, <2>2, <2>3, CompletesSpoken
  <2>4. CASE Raises(0)
    BY <2>1, <2>4, RaisesSpoken
  <2> QED
    BY <1>19, <2>3, <2>4 DEF RemoteReturns
<1>20. CASE SimpleAsks
  BY <1>20, AsksSpoken
<1>21. CASE RouteLocal
  BY <1>21, RouteLocalSpoken
<1>22. CASE OrphanEnds \/ UNCHANGED vars
  BY <1>22 DEF OrphanEnds, vars, Spoken, LastWordAgrees
<1> QED
  BY <1>3, <1>4, <1>5, <1>6, <1>7, <1>8, <1>9, <1>10, <1>11, <1>12, <1>13, <1>14, <1>16, <1>18, <1>19,
     <1>20, <1>21, <1>22 DEF Next

\* However handoffs nest and whoever answers or fails, the row, the last final
\* event and the reply agree, a failure is the only final event, and "(empty)"
\* is said only if nobody said anything: LastWordAgrees (_CaptureEmitter keeps
\* what sub-agents say, send_text the last text of a remote one).
THEOREM LastWordHolds == Spec => []LastWordAgrees
<1>1. Init => Contained /\ Spoken
  BY InitContained, InitSpoken
<1>2. Contained /\ Spoken /\ [Next]_vars => (Contained /\ Spoken)'
  BY NextContained, NextSpoken DEF Contained
<1>3. Spoken => LastWordAgrees
  BY DEF Spoken
<1> QED
  BY <1>1, <1>2, <1>3, PTL DEF Spec

-----------------------------------------------------------------------------
\* Rounds of a debate are blocks of the transcript.
LEMMA Multiples ==
  ASSUME NEW d \in Nat, NEW a \in Nat, NEW b \in Nat
  PROVE  d * a \in Nat /\ d * (a + 1) = d * a + d /\ (a <= b => d * a <= d * b)
<1>1. d * a \in Nat /\ d * (a + 1) = d * a + d
  OBVIOUS
<1>2. a <= b => d * a <= d * b
  <2> SUFFICES ASSUME a <= b PROVE d * a <= d * b
    OBVIOUS
  <2>1. PICK c \in Nat : b = a + c
    <3>1. b - a \in Nat /\ b = a + (b - a)
      OBVIOUS
    <3> QED
      BY <3>1
  <2>2. d * b = d * a + d * c /\ d * c \in Nat /\ d * a \in Nat
    BY <2>1
  <2> QED
    BY <2>2
<1> QED
  BY <1>1, <1>2

LEMMA InBlock ==
  ASSUME NEW d \in Nat \ {0}, NEW t \in Nat, NEW i \in 1..d
  PROVE  ((d * t + i) - 1) \div d = t /\ ((d * t + i) - 1) % d = i - 1
<1> DEFINE m == d * t
           a == (m + i) - 1
           q == a \div d
           r == a % d
<1>1. m \in Nat /\ a \in Nat
  BY Multiples
<1>2. a = d * q + r /\ r \in 0..(d - 1) /\ q \in Nat
  <2> HIDE DEF a
  <2> QED
    BY <1>1
<1>3. CASE q < t
  <2>1. d * (q + 1) <= m /\ d * (q + 1) = d * q + d
    BY <1>2, <1>3, Multiples
  <2> HIDE DEF m, q, r
  <2> QED
    BY <1>1, <1>2, <2>1
<1>4. CASE q > t
  <2>1. d * (t + 1) <= d * q /\ d * (t + 1) = m + d
    BY <1>2, <1>4, Multiples
  <2> HIDE DEF m, q, r
  <2> QED
    BY <1>1, <1>2, <2>1
<1>5. CASE q = t
  <2> HIDE DEF m
  <2>1. d * q = m
    BY <1>5 DEF m
  <2> HIDE DEF q, r
  <2> QED
    BY <1>1, <1>2, <1>5, <2>1 DEF q, r, m
<1> QED
  BY <1>2, <1>3, <1>4, <1>5

-----------------------------------------------------------------------------
\* The ranks of n candidates are 0 to n - 1, each the rank of one of them.
Beats(calls, j, i) ==
  calls[j].value > calls[i].value \/ (calls[j].value = calls[i].value /\ j < i)

LEMMA RankOrders ==
  ASSUME NEW calls, NEW n \in Nat, DOMAIN calls = 1..n, \A i \in 1..n : calls[i].value \in Int,
         NEW i \in 1..n, NEW j \in 1..n
  PROVE  /\ Rank(calls, i) \in 0..(n - 1)
         /\ i = j \/ Beats(calls, i, j) \/ Beats(calls, j, i)
         /\ Beats(calls, i, j) => Rank(calls, i) < Rank(calls, j)
<1> DEFINE Above(x) == {c \in 1..n : Beats(calls, c, x)}
<1>1. \A x \in 1..n : Rank(calls, x) = Cardinality(Above(x))
  BY DEF Rank, Beats
<1>2. IsFiniteSet(1..n) /\ Cardinality(1..n) = n
  BY FS_Interval
<1>3. \A x \in 1..n : Above(x) \subseteq 1..n /\ x \notin Above(x)
  BY DEF Beats
<1>4. ASSUME NEW x \in 1..n
      PROVE  IsFiniteSet(Above(x)) /\ Cardinality(Above(x)) \in Nat /\ Cardinality(Above(x)) < n
  <2> HIDE DEF Above
  <2>1. IsFiniteSet(Above(x)) /\ Cardinality(Above(x)) \in Nat /\ Cardinality(Above(x)) <= n
    BY <1>2, <1>3, FS_Subset, FS_CardinalityType
  <2>2. Cardinality(Above(x)) # n
    BY <1>2, <1>3, FS_Subset
  <2> QED
    BY <2>1, <2>2
<1>5. i = j \/ Beats(calls, i, j) \/ Beats(calls, j, i)
  BY DEF Beats
<1>6. ASSUME Beats(calls, i, j) PROVE Cardinality(Above(i)) < Cardinality(Above(j))
  <2>1. Above(i) \subseteq Above(j)
    BY <1>6 DEF Beats
  <2>2. i \in Above(j) /\ i \notin Above(i)
    BY <1>3, <1>6
  <2> HIDE DEF Above
  <2>3. Cardinality(Above(i)) <= Cardinality(Above(j)) /\ Cardinality(Above(i)) # Cardinality(Above(j))
    BY <1>4, <2>1, <2>2, FS_Subset
  <2> QED
    BY <1>4, <2>3
<1> HIDE DEF Above
<1> QED
  BY <1>1, <1>4, <1>5, <1>6

LEMMA EachRankIsTaken ==
  ASSUME NEW calls, NEW n \in Nat, DOMAIN calls = 1..n, \A i \in 1..n : calls[i].value \in Int,
         NEW r \in 0..(n - 1)
  PROVE  \E i \in 1..n : Rank(calls, i) = r
<1> SUFFICES ASSUME \A i \in 1..n : Rank(calls, i) # r PROVE FALSE
  OBVIOUS
<1> DEFINE T == (0..(n - 1)) \ {r}
           f == [i \in 1..n |-> Rank(calls, i)]
<1>1. \A i \in 1..n : Rank(calls, i) \in T
  BY RankOrders
<1>2. IsFiniteSet(1..n) /\ Cardinality(1..n) = n
  BY FS_Interval
<1>3. IsFiniteSet(0..(n - 1)) /\ Cardinality(0..(n - 1)) = n
  <2> DEFINE m == n - 1
  <2>1. m \in Nat /\ 0 \in Int /\ m - 0 + 1 = n /\ ~(0 > m)
    OBVIOUS
  <2> HIDE DEF m
  <2>2. IsFiniteSet(0..m) /\ Cardinality(0..m) = m - 0 + 1
    BY ONLY <2>1, FS_Interval
  <2> QED
    BY <2>1, <2>2 DEF m
<1>4. IsFiniteSet(T) /\ Cardinality(T) = n - 1
  <2> DEFINE R == 0..(n - 1)
  <2>1. r \in R
    OBVIOUS
  <2> HIDE DEF R
  <2>2. IsFiniteSet(R \ {r}) /\ Cardinality(R \ {r}) = Cardinality(R) - 1
    BY <1>3, <2>1, FS_RemoveElement DEF R
  <2> QED
    BY <1>3, <2>2 DEF R
<1> HIDE DEF T
<1>5. f \in [1..n -> T] /\ \A i \in 1..n : f[i] = Rank(calls, i)
  BY <1>1
<1> HIDE DEF f
<1>6. \E i, j \in 1..n : i # j /\ f[i] = f[j]
  <2>1. Cardinality(T) < Cardinality(1..n)
    BY <1>2, <1>4
  <2> QED
    BY <1>2, <1>4, <1>5, <2>1, FS_PigeonHole
<1>7. PICK i \in 1..n, j \in 1..n : i # j /\ Rank(calls, i) = Rank(calls, j)
  BY <1>5, <1>6
<1>8. Rank(calls, i) \in Int /\ (Rank(calls, i) < Rank(calls, j) \/ Rank(calls, j) < Rank(calls, i))
  <2>1. Beats(calls, i, j) \/ Beats(calls, j, i)
    BY <1>7, RankOrders
  <2>2. Rank(calls, i) \in 0..(n - 1)
    BY RankOrders
  <2>3. Beats(calls, i, j) => Rank(calls, i) < Rank(calls, j)
    BY RankOrders
  <2>4. Beats(calls, j, i) => Rank(calls, j) < Rank(calls, i)
    BY RankOrders
  <2> QED
    BY <2>1, <2>2, <2>3, <2>4
<1> QED
  BY <1>7, <1>8

-----------------------------------------------------------------------------
\* Two things about sequences: a function on 1..n is one, and what a
\* concatenation holds.
LEMMA FunctionIsSequence ==
  ASSUME NEW n \in Nat, NEW s, s = [i \in 1..n |-> s[i]]
  PROVE  IsSequence(s) /\ Len(s) = n /\ DOMAIN s = 1..n
<1> DEFINE T == {s[i] : i \in 1..n}
<1>1. s \in [1..n -> T]
  OBVIOUS
<1> HIDE DEF T
<1>2. s \in Seq(T) /\ Len(s) = n
  BY <1>1
<1> QED
  BY <1>2 DEF IsSequence

Joined(a, b, c) ==
  /\ IsSequence(c) /\ Len(a) \in Nat /\ Len(b) \in Nat /\ Len(c) = Len(a) + Len(b)
  /\ \A i \in 1..Len(a) : c[i] = a[i]
  /\ \A i \in 1..Len(b) : c[Len(a) + i] = b[i]

LEMMA Joining ==
  ASSUME NEW a, IsSequence(a), NEW b, IsSequence(b)
  PROVE  Joined(a, b, a \o b)
<1>1. PICK S : a \in Seq(S)
  BY DEF IsSequence
<1>2. PICK R : b \in Seq(R)
  BY DEF IsSequence
<1> DEFINE T == S \cup R
<1>3. a \in Seq(T) /\ b \in Seq(T)
  BY <1>1, <1>2
<1> HIDE DEF T
<1>4. (a \o b) \in Seq(T) /\ Len(a) \in Nat /\ Len(b) \in Nat /\ Len(a \o b) = Len(a) + Len(b)
  BY <1>3
<1>5. \A i \in 1..Len(a) : (a \o b)[i] = a[i]
  BY <1>3
<1>6. \A i \in 1..Len(b) : (a \o b)[Len(a) + i] = b[i]
  BY <1>3
<1> QED
  BY <1>4, <1>5, <1>6 DEF IsSequence, Joined

-----------------------------------------------------------------------------
\* The shape of a frame, and what its transcript holds at each phase.
Fits(pattern, phase) ==
  \/ pattern = "handoff" /\ phase \in {"route", "sub", "remote"}
  \/ pattern = "debate" /\ phase \in {"debate", "judge"}
  \/ pattern = "tree" /\ phase \in {"expand", "score", "judge"}
  \/ pattern = "parallel" /\ phase \in {"parallel", "judge"}
  \/ pattern = "sequential" /\ phase \in {"sequential", "judge"}
  \/ pattern = "plan" /\ phase \in {"plan", "step", "judge"}
  \/ pattern = "simple" /\ phase = "simple"

AreCalls(calls) ==
  /\ IsSequence(calls)
  /\ \A i \in 1..Len(calls) : {"state", "saw", "value"} \subseteq DOMAIN calls[i] /\ calls[i].value \in Int

\* A debate: whole rounds, each knowing those before it.
ByRounds(notes, turn) ==
  /\ Len(notes) = Debaters * turn
  /\ \A k \in 1..Len(notes) : /\ notes[k].saw = Debaters * ((k - 1) \div Debaters)
                              /\ notes[k].who = 1 + ((k - 1) % Debaters)
Debated(phase, turn, calls, notes) ==
  /\ ByRounds(notes, turn)
  /\ phase = "debate" /\ calls # <<>> =>
       Len(calls) = Debaters /\ \A i \in 1..Debaters : calls[i].saw = Len(notes)

\* A plan: one entry per step done, each knowing those before it.
BySteps(notes) == \A k \in 1..Len(notes) : notes[k].saw = k - 1
Planned(phase, turn, size, calls, notes) ==
  /\ phase = "plan" => notes = <<>>
  /\ phase # "plan" => size \in 1..MaxSteps /\ Len(notes) = turn /\ turn <= size /\ BySteps(notes)
  /\ phase = "step" /\ calls # <<>> => Len(calls) = 1 /\ calls[1].saw = turn /\ turn < size
  /\ phase = "judge" => turn = size

Listed(phase, notes) ==
  phase = "judge" => Len(notes) = Remotes /\ \A k \in 1..Len(notes) : notes[k].who = k

\* A tree's frontier: in order, and no worse than what was dropped.
Sorted(notes) ==
  \A k \in 1..Len(notes) :
    /\ \A v \in notes[k].dropped : notes[k].value >= v
    /\ k > 1 => notes[k].value <= notes[k - 1].value

Fitting(agent, phase, turn, size, calls, notes) ==
  /\ agent \in Agents /\ turn \in Nat /\ size \in Nat
  /\ AreCalls(calls) /\ IsSequence(notes) /\ Fits(Pattern[agent], phase)
  /\ Pattern[agent] = "debate" => Debated(phase, turn, calls, notes)
  /\ Pattern[agent] = "plan" => Planned(phase, turn, size, calls, notes)
  /\ Pattern[agent] \in {"parallel", "sequential"} => Listed(phase, notes)
  /\ Pattern[agent] = "tree" => Sorted(notes)

HasFields(f) == {"agent", "phase", "turn", "size", "calls", "notes", "captured", "heard"} \subseteq DOMAIN f
Orderly(f) == HasFields(f) /\ Fitting(f.agent, f.phase, f.turn, f.size, f.calls, f.notes)

Ordered == \A i \in 1..Len(stack) : Orderly(stack[i])

LEMMA OrderedIsInOrder == Stacked /\ Ordered => TranscriptInOrder
<1> SUFFICES ASSUME Stacked, Ordered, NEW i \in DOMAIN stack
             PROVE  LET f == stack[i]  pattern == Pattern[f.agent]  n == Len(f.notes)
                    IN  /\ pattern = "debate" =>
                             /\ n = Debaters * f.turn
                             /\ \A k \in 1..n : /\ f.notes[k].saw = Debaters * ((k - 1) \div Debaters)
                                                /\ f.notes[k].who = 1 + ((k - 1) % Debaters)
                        /\ pattern \in {"parallel", "sequential"} /\ f.phase = "judge" =>
                             n = Remotes /\ \A k \in 1..n : f.notes[k].who = k
                        /\ pattern = "plan" /\ f.phase = "judge" =>
                             n \in 1..MaxSteps /\ \A k \in 1..n : f.notes[k].saw = k - 1
                        /\ pattern = "tree" => \A k \in 1..n :
                             /\ \A v \in f.notes[k].dropped : f.notes[k].value >= v
                             /\ k > 1 => f.notes[k].value <= f.notes[k - 1].value
  BY DEF TranscriptInOrder
<1>1. i \in 1..Len(stack)
  BY Emptiness DEF Stacked
<1> DEFINE f == stack[i]
<1>2. Orderly(f)
  BY <1>1 DEF Ordered
<1> HIDE DEF f
<1>3. Pattern[f.agent] = "debate" => ByRounds(f.notes, f.turn)
  BY <1>2 DEF Orderly, Fitting, Debated
<1>4. Pattern[f.agent] \in {"parallel", "sequential"} => Listed(f.phase, f.notes)
  BY <1>2 DEF Orderly, Fitting
<1>5. Pattern[f.agent] = "plan" /\ f.phase = "judge" => Len(f.notes) \in 1..MaxSteps /\ BySteps(f.notes)
  BY <1>2 DEF Orderly, Fitting, Planned
<1>6. Pattern[f.agent] = "tree" => Sorted(f.notes)
  BY <1>2 DEF Orderly, Fitting
<1> QED
  BY <1>3, <1>4, <1>5, <1>6 DEF f, ByRounds, Listed, BySteps, Sorted

-----------------------------------------------------------------------------
\* Calls made together, and one more call.
LEMMA CallsMade ==
  ASSUME NEW n \in Nat, NEW saw
  PROVE  AreCalls(Calls(n, saw)) /\ Len(Calls(n, saw)) = n /\ \A i \in 1..n : Calls(n, saw)[i].saw = saw
<1> DEFINE c == Calls(n, saw)
<1>1. c = [i \in 1..n |-> c[i]] /\ \A i \in 1..n : c[i] = Pending(saw)
  BY DEF Calls
<1>2. {"state", "saw", "value"} \subseteq DOMAIN Pending(saw) /\ Pending(saw).value \in Int /\ Pending(saw).saw = saw
  BY DEF Pending
<1> HIDE DEF c
<1>3. IsSequence(c) /\ Len(c) = n
  BY <1>1, FunctionIsSequence
<1>4. AreCalls(c) /\ Len(c) = n /\ \A i \in 1..n : c[i].saw = saw
  BY <1>1, <1>2, <1>3 DEF AreCalls
<1> QED
  BY <1>4 DEF c

LEMMA NoCalls == AreCalls(<<>>) /\ IsSequence(<<>>) /\ Len(<<>>) = 0
<1>1. IsSequence(<<>>) /\ Len(<<>>) = 0
  BY DEF IsSequence
<1> QED
  BY <1>1 DEF AreCalls

LEMMA OneMoreCall ==
  ASSUME NEW calls, AreCalls(calls), NEW saw
  PROVE  AreCalls(Append(calls, Pending(saw)))
<1> DEFINE c == Append(calls, Pending(saw))
<1>1. IsSequence(calls) /\ OneMore(calls, Pending(saw), c)
  BY OneMoreFinal DEF AreCalls
<1>2. {"state", "saw", "value"} \subseteq DOMAIN Pending(saw) /\ Pending(saw).value \in Int
  BY DEF Pending
<1> HIDE DEF c
<1>3. ASSUME NEW i \in 1..Len(c)
      PROVE  {"state", "saw", "value"} \subseteq DOMAIN c[i] /\ c[i].value \in Int
  <2>1. i = Len(calls) + 1 \/ i \in 1..Len(calls)
    BY <1>1, <1>3 DEF OneMore
  <2> QED
    BY <1>1, <1>2, <2>1 DEF OneMore, AreCalls
<1>4. AreCalls(c)
  BY <1>1, <1>3 DEF AreCalls, OneMore
<1> QED
  BY <1>4 DEF c

\* A call that returns or fails is the same call.
AsAsked(calls, c) ==
  /\ AreCalls(c) /\ Len(c) = Len(calls) /\ (c = <<>>) = (calls = <<>>)
  /\ \A i \in 1..Len(calls) : c[i].saw = calls[i].saw

LEMMA ResultOfCall ==
  ASSUME NEW calls, AreCalls(calls), NEW i \in 1..Len(calls), NEW d,
         {"state", "saw", "value"} \subseteq DOMAIN d, d.value \in Int, d.saw = calls[i].saw
  PROVE  AsAsked(calls, [calls EXCEPT ![i] = d])
<1> DEFINE c == [calls EXCEPT ![i] = d]
<1>1. Len(calls) \in Nat /\ DOMAIN calls = 1..Len(calls)
  BY Emptiness DEF AreCalls
<1>2. c = [j \in 1..Len(calls) |-> c[j]] /\ c[i] = d /\ \A j \in 1..Len(calls) : j # i => c[j] = calls[j]
  BY <1>1
<1> HIDE DEF c
<1>3. IsSequence(c) /\ Len(c) = Len(calls)
  BY <1>1, <1>2, FunctionIsSequence
<1>4. (c = <<>>) = (calls = <<>>)
  BY <1>3, Emptiness DEF AreCalls
<1>5. AreCalls(c)
  BY <1>2, <1>3 DEF AreCalls
<1>6. \A j \in 1..Len(calls) : c[j].saw = calls[j].saw
  BY <1>2
<1> QED
  BY <1>3, <1>4, <1>5, <1>6 DEF c, AsAsked

\* The notes of a round are whole, in order, and blind to each other.
LEMMA NextRound ==
  ASSUME NEW turn \in Nat, NEW notes, IsSequence(notes), ByRounds(notes, turn),
         NEW more, IsSequence(more), Len(more) = Debaters,
         \A i \in 1..Debaters : more[i].saw = Len(notes) /\ more[i].who = i
  PROVE  ByRounds(notes \o more, turn + 1)
<1> DEFINE all == notes \o more
           m == Debaters * turn
<1>1. Debaters \in Nat \ {0}
  BY PatternsAssumption
<1>2. m \in Nat /\ Debaters * (turn + 1) = m + Debaters
  BY <1>1, Multiples
<1>3. Joined(notes, more, all)
  BY Joining
<1>4. Len(notes) = m
  BY DEF ByRounds
<1> HIDE DEF all
<1>5. Len(all) = Debaters * (turn + 1)
  BY <1>2, <1>3, <1>4 DEF Joined
<1>6. ASSUME NEW k \in 1..Len(all)
      PROVE  all[k].saw = Debaters * ((k - 1) \div Debaters) /\ all[k].who = 1 + ((k - 1) % Debaters)
  <2> HIDE DEF m
  <2>1. CASE k \in 1..m
    <3>1. all[k] = notes[k]
      BY <1>3, <1>4, <2>1 DEF Joined
    <3> QED
      BY <1>4, <2>1, <3>1 DEF ByRounds
  <2>2. CASE k \notin 1..m
    <3> DEFINE i == k - m
    <3>1. i \in 1..Debaters /\ m + i = k
      BY <1>1, <1>2, <1>5, <2>2
    <3>2. ((m + i) - 1) \div Debaters = turn /\ ((m + i) - 1) % Debaters = i - 1
      BY <1>1, <3>1, InBlock DEF m
    <3>3. all[k] = more[i]
      BY <1>3, <1>4, <3>1 DEF Joined
    <3> HIDE DEF i
    <3>4. all[k].saw = Debaters * turn /\ all[k].who = i
      BY <1>4, <3>1, <3>3 DEF m
    <3>5. 1 + (i - 1) = i
      BY <3>1
    <3> QED
      BY <3>1, <3>2, <3>4, <3>5
  <2> QED
    BY <2>1, <2>2
<1> QED
  BY <1>5, <1>6 DEF ByRounds, all

\* What a finished gather leaves: one note per call, in the order of the calls.
LEMMA NotesOfCalls ==
  ASSUME AreCalls(Top.calls)
  PROVE  /\ IsSequence(Noted) /\ Len(Noted) = Len(Top.calls)
         /\ \A i \in 1..Len(Top.calls) : Noted[i].who = i /\ Noted[i].saw = Top.calls[i].saw
<1> DEFINE n == Len(Top.calls)
<1>1. n \in Nat /\ DOMAIN Top.calls = 1..n
  BY Emptiness DEF AreCalls
<1>2. Noted = [i \in 1..n |-> Note(i, Top.calls[i])]
  BY <1>1 DEF Noted
<1>3. Noted = [i \in 1..n |-> Noted[i]] /\ \A i \in 1..n : Noted[i] = Note(i, Top.calls[i])
  BY <1>2
<1>4. IsSequence(Noted) /\ Len(Noted) = n
  BY <1>1, <1>3, FunctionIsSequence
<1> HIDE DEF n
<1>5. \A i \in 1..n : Noted[i].who = i /\ Noted[i].saw = Top.calls[i].saw
  BY <1>3 DEF Note
<1> QED
  BY <1>4, <1>5 DEF n

\* The candidates kept are the first by rank.
LEMMA KeptByRank ==
  ASSUME NEW calls, NEW n \in Nat, DOMAIN calls = 1..n, Len(calls) = n,
         \A i \in 1..n : calls[i].value \in Int
  PROVE  /\ Least(TopK, n) \in 0..n /\ DOMAIN Kept(calls) = 1..Least(TopK, n)
         /\ \A k \in 1..Least(TopK, n) : Kept(calls)[k] \in 1..n /\ Rank(calls, Kept(calls)[k]) = k - 1
<1> DEFINE m == Least(TopK, n)
<1>1. m \in 0..n
  BY PatternsAssumption DEF Least
<1> HIDE DEF m
<1>2. Kept(calls) = [k \in 1..m |-> CHOOSE i \in 1..n : Rank(calls, i) = k - 1]
  BY DEF Kept, m
<1>3. ASSUME NEW k \in 1..m
      PROVE  Kept(calls)[k] \in 1..n /\ Rank(calls, Kept(calls)[k]) = k - 1
  <2> DEFINE r == k - 1
  <2>1. r \in 0..(n - 1)
    BY <1>1
  <2> HIDE DEF r
  <2>2. \E i \in 1..n : Rank(calls, i) = r
    BY <2>1, EachRankIsTaken
  <2>3. Kept(calls)[k] = CHOOSE i \in 1..n : Rank(calls, i) = r
    BY <1>2 DEF r
  <2>4. Kept(calls)[k] \in 1..n /\ Rank(calls, Kept(calls)[k]) = r
    BY <2>2, <2>3
  <2> QED
    BY <2>4 DEF r
<1>4. DOMAIN Kept(calls) = 1..m
  BY <1>2
<1> QED
  BY <1>1, <1>3, <1>4 DEF m

\* A lower rank is no worse a score, and equal ranks are equal candidates.
LEMMA LowerIsNoWorse ==
  ASSUME NEW calls, NEW n \in Nat, DOMAIN calls = 1..n, \A i \in 1..n : calls[i].value \in Int,
         NEW i \in 1..n, NEW j \in 1..n
  PROVE  /\ Rank(calls, i) \in Nat /\ Rank(calls, j) \in Nat
         /\ Rank(calls, i) <= Rank(calls, j) => calls[i].value >= calls[j].value
         /\ Rank(calls, i) = Rank(calls, j) => i = j
<1>1. Rank(calls, i) \in 0..(n - 1) /\ Rank(calls, j) \in 0..(n - 1)
  BY RankOrders
<1>2. i = j \/ Beats(calls, i, j) \/ Beats(calls, j, i)
  BY RankOrders
<1>3. Beats(calls, i, j) => Rank(calls, i) < Rank(calls, j)
  BY RankOrders
<1>4. Beats(calls, j, i) => Rank(calls, j) < Rank(calls, i)
  BY RankOrders
<1>5. calls[i].value \in Int /\ calls[j].value \in Int
  OBVIOUS
<1>6. Beats(calls, i, j) => calls[i].value >= calls[j].value
  BY <1>5 DEF Beats
<1>7. i = j => calls[i].value >= calls[j].value
  BY <1>5
<1> QED
  BY <1>1, <1>2, <1>3, <1>4, <1>6, <1>7

\* The frontier after a round.
Pruned(calls, notes) ==
  /\ IsSequence(notes) /\ Len(notes) = Len(Kept(calls)) /\ DOMAIN notes = DOMAIN Kept(calls)
  /\ \A k \in DOMAIN Kept(calls) :
       /\ notes[k].value = calls[Kept(calls)[k]].value
       /\ notes[k].dropped = {calls[i].value : i \in
            DOMAIN calls \ {Kept(calls)[j] : j \in DOMAIN Kept(calls)}}

LEMMA PrunedIsSorted ==
  ASSUME NEW calls, AreCalls(calls), NEW notes, Pruned(calls, notes)
  PROVE  Sorted(notes)
<1> DEFINE n == Len(calls)
           m == Least(TopK, n)
           kept == Kept(calls)
<1>1. n \in Nat /\ DOMAIN calls = 1..n /\ \A i \in 1..n : calls[i].value \in Int
  BY Emptiness DEF AreCalls
<1>2. m \in 0..n /\ DOMAIN kept = 1..m
  BY <1>1, KeptByRank
<1>3. \A k \in 1..m : kept[k] \in 1..n /\ Rank(calls, kept[k]) = k - 1
  BY <1>1, KeptByRank
<1>4. Len(notes) = m /\ DOMAIN notes = 1..m
  BY <1>2, Emptiness DEF Pruned
<1> HIDE DEF n, kept
<1>5. ASSUME NEW k \in 1..m, NEW i \in 1..n, \A j \in 1..m : kept[j] # i
      PROVE  calls[kept[k]].value >= calls[i].value
  <2>1. Rank(calls, i) \in Nat
    BY <1>1, LowerIsNoWorse
  <2>2. Rank(calls, i) >= m
    <3> SUFFICES ASSUME Rank(calls, i) < m PROVE FALSE
      BY <1>2, <2>1
    <3> DEFINE j == Rank(calls, i) + 1
    <3>1. j \in 1..m /\ j - 1 = Rank(calls, i)
      BY <1>2, <2>1
    <3> HIDE DEF j
    <3>2. kept[j] \in 1..n /\ Rank(calls, kept[j]) = Rank(calls, i)
      BY <1>3, <3>1
    <3>3. kept[j] = i
      BY <1>1, <3>2, LowerIsNoWorse
    <3> QED
      BY <1>5, <3>1, <3>3
  <2>3. kept[k] \in 1..n /\ Rank(calls, kept[k]) <= Rank(calls, i)
    BY <1>2, <1>3, <2>1, <2>2
  <2> QED
    BY <1>1, <2>3, LowerIsNoWorse
<1>6. ASSUME NEW k \in 1..m, k > 1
      PROVE  k - 1 \in 1..m /\ calls[kept[k]].value <= calls[kept[k - 1]].value
  <2> DEFINE p == k - 1
  <2>1. p \in 1..m /\ p - 1 <= k - 1
    BY <1>2, <1>6
  <2> HIDE DEF p
  <2>2. kept[p] \in 1..n /\ kept[k] \in 1..n /\ Rank(calls, kept[p]) <= Rank(calls, kept[k])
    BY <1>3, <2>1
  <2>3. calls[kept[p]].value >= calls[kept[k]].value
    BY <1>1, <2>2, LowerIsNoWorse
  <2>4. calls[kept[p]].value \in Int /\ calls[kept[k]].value \in Int
    BY <1>1, <2>2
  <2>5. calls[kept[k]].value <= calls[kept[p]].value
    BY <2>3, <2>4
  <2> QED
    BY <2>1, <2>5 DEF p
<1>7. ASSUME NEW k \in 1..m
      PROVE  /\ notes[k].value = calls[kept[k]].value
             /\ \A v \in notes[k].dropped : \E i \in 1..n : v = calls[i].value /\ \A j \in 1..m : kept[j] # i
  BY <1>1, <1>2 DEF Pruned, kept
<1>8. ASSUME NEW k \in 1..Len(notes)
      PROVE  /\ \A v \in notes[k].dropped : notes[k].value >= v
             /\ k > 1 => notes[k].value <= notes[k - 1].value
  <2>1. \A v \in notes[k].dropped : notes[k].value >= v
    BY <1>4, <1>5, <1>7
  <2>2. k > 1 => notes[k].value <= notes[k - 1].value
    BY <1>4, <1>6, <1>7
  <2> QED
    BY <2>1, <2>2
<1> QED
  BY <1>8 DEF Sorted

-----------------------------------------------------------------------------
LEMMA FrameIsOrderly == ASSUME NEW a \in Agents PROVE Orderly(Frame(a))
<1> DEFINE f == Frame(a)
<1>1. HasFields(f)
  BY DEF Frame, HasFields
<1>2. /\ f.agent = a /\ f.phase = First[Pattern[a]] /\ f.turn = 0 /\ f.size = 0
      /\ f.calls = <<>> /\ f.notes = <<>>
  BY DEF Frame
<1> HIDE DEF f
<1>3. Pattern[a] \in PatternTypes
  BY PatternsAssumption
<1>4. Fits(Pattern[a], First[Pattern[a]])
  BY <1>3 DEF Fits, First, PatternTypes
<1>5. ByRounds(<<>>, 0)
  <2>1. Debaters * 0 = 0
    BY PatternsAssumption
  <2> QED
    BY <2>1, NoCalls DEF ByRounds
<1>6. Pattern[a] = "debate" => Debated(f.phase, 0, <<>>, <<>>)
  BY <1>5 DEF Debated
<1>7. Pattern[a] = "plan" => Planned(f.phase, 0, 0, <<>>, <<>>)
  BY <1>2 DEF Planned, First
<1>8. Pattern[a] \in {"parallel", "sequential"} => Listed(f.phase, <<>>)
  BY <1>2 DEF Listed, First
<1>9. Sorted(<<>>)
  BY NoCalls DEF Sorted
<1>10. Fitting(f.agent, f.phase, f.turn, f.size, f.calls, f.notes)
  BY <1>2, <1>4, <1>6, <1>7, <1>8, <1>9, NoCalls DEF Fitting
<1> QED
  BY <1>1, <1>10 DEF Orderly, f

LEMMA InitOrdered == Init => Ordered
<1> SUFFICES ASSUME Init PROVE Ordered
  OBVIOUS
<1>1. PICK a \in Agents : stack = <<Frame(a)>>
  BY DEF Init
<1>2. Len(stack) = 1 /\ stack[1] = Frame(a)
  BY <1>1
<1> QED
  BY <1>2, FrameIsOrderly DEF Ordered

LEMMA TopIsOrderly ==
  ASSUME Stacked, Ordered, outcome = "running"
  PROVE  Orderly(Top) /\ HasFields(Top)
BY TopHasAgent DEF Ordered, Top, Orderly

\* The top frame becomes an orderly one.
Reorders == outcome = "running" /\ \E f : Orderly(f) /\ Becomes(f)

LEMMA ReordersOrdered == Stacked /\ Ordered /\ Reorders => Ordered'
<1> SUFFICES ASSUME Stacked, Ordered, Reorders PROVE Ordered'
  OBVIOUS
<1>1. outcome = "running"
  BY DEF Reorders
<1>2. PICK f : Orderly(f) /\ Becomes(f)
  BY DEF Reorders
<1>3. /\ Len(stack) \in Nat \ {0} /\ Len(stack') = Len(stack) /\ stack'[Len(stack)] = f
      /\ \A i \in 1..(Len(stack) - 1) : stack'[i] = stack[i]
  BY <1>1, <1>2, BecomesTop
<1>4. \A i \in 1..Len(stack) : i = Len(stack) \/ i \in 1..(Len(stack) - 1)
  BY <1>3
<1>5. \A i \in 1..Len(stack) : Orderly(stack'[i])
  BY <1>2, <1>3, <1>4 DEF Ordered
<1> QED
  BY <1>3, <1>5 DEF Ordered

\* A sub-agent begins.
LEMMA RouteLocalOrdered ==
  ASSUME Stacked, Ordered, RouteLocal
  PROVE  Ordered'
<1> DEFINE n == Len(stack)
           f == [Top EXCEPT !.phase = "sub", !.calls = <<>>]
           waiting == [stack EXCEPT ![n] = f]
<1>0. outcome = "running" /\ Top.phase = "route"
  BY DEF RouteLocal, In
<1>1. PICK a \in Agents : stack' = Append(waiting, Frame(a))
  BY DEF RouteLocal
<1>2. IsSequence(stack) /\ n \in Nat \ {0} /\ DOMAIN stack = 1..n
  BY <1>0, TopHasAgent DEF Stacked
<1>3. Orderly(f)
  <2>1. Orderly(Top) /\ HasFields(Top)
    BY <1>0, TopIsOrderly
  <2>2. /\ HasFields(f) /\ f.agent = Top.agent /\ f.phase = "sub" /\ f.turn = Top.turn
        /\ f.size = Top.size /\ f.calls = <<>> /\ f.notes = Top.notes
    BY <2>1 DEF HasFields
  <2> HIDE DEF f
  <2>3. Fitting(Top.agent, "sub", Top.turn, Top.size, <<>>, Top.notes)
    BY <1>0, <2>1, NoCalls DEF Orderly, Fitting, Fits
  <2> QED
    BY <2>2, <2>3 DEF Orderly
<1> HIDE DEF f
<1>4. waiting = [i \in 1..n |-> waiting[i]] /\ waiting[n] = f /\ \A i \in 1..n : i # n => waiting[i] = stack[i]
  <2>1. n \in 1..n
    BY <1>2
  <2>2. DOMAIN stack = 1..n
    BY <1>2
  <2> HIDE DEF n
  <2>3. waiting = [i \in 1..n |-> IF i = n THEN f ELSE stack[i]]
    BY ONLY <2>2
  <2> HIDE DEF waiting
  <2>4. \A i \in 1..n : waiting[i] = IF i = n THEN f ELSE stack[i]
    BY ONLY <2>3
  <2>5. waiting = [i \in 1..n |-> waiting[i]]
    BY ONLY <2>3
  <2> QED
    BY <2>1, <2>4, <2>5
<1> HIDE DEF waiting
<1>5. IsSequence(waiting) /\ Len(waiting) = n
  BY <1>2, <1>4, FunctionIsSequence
<1>6. OneMore(waiting, Frame(a), stack')
  BY <1>1, <1>5, OneMoreFinal
<1>7. \A i \in 1..n : Orderly(waiting[i])
  BY <1>3, <1>4 DEF Ordered
<1>8. Orderly(Frame(a))
  BY FrameIsOrderly
<1>9. ASSUME NEW i \in 1..Len(stack') PROVE Orderly(stack'[i])
  <2>1. i = n + 1 \/ i \in 1..n
    BY <1>2, <1>5, <1>6 DEF OneMore
  <2> QED
    BY <1>5, <1>6, <1>7, <1>8, <2>1 DEF OneMore
<1> QED
  BY <1>9 DEF Ordered

\* A sub-agent returns: the frames above keep a text.
LEMMA ReturnsOrdered ==
  ASSUME Stacked, Ordered, outcome = "running", NEW text,
         stack' = Below \/ stack' = Captured(Below, text)
  PROVE  Ordered'
<1> DEFINE n == Len(stack) - 1
<1>1. /\ Len(stack') = n
      /\ \A i \in 1..n : stack'[i] = stack[i] \/ stack'[i] = [stack[i] EXCEPT !.captured = @ \o text]
  BY ReturnsBelow
<1>2. \A i \in 1..n : i \in 1..Len(stack)
  BY ReturnsBelow
<1>3. ASSUME NEW f, Orderly(f) PROVE Orderly([f EXCEPT !.captured = @ \o text])
  <2> DEFINE g == [f EXCEPT !.captured = @ \o text]
  <2>1. /\ HasFields(g) /\ g.agent = f.agent /\ g.phase = f.phase /\ g.turn = f.turn
        /\ g.size = f.size /\ g.calls = f.calls /\ g.notes = f.notes
    BY <1>3 DEF Orderly, HasFields
  <2> HIDE DEF g
  <2>2. Orderly(g)
    BY <1>3, <2>1 DEF Orderly
  <2> QED
    BY <2>2 DEF g
<1> HIDE DEF n
<1>4. ASSUME NEW i \in 1..n PROVE Orderly(stack'[i])
  <2>1. Orderly(stack[i])
    BY <1>2 DEF Ordered
  <2>2. CASE stack'[i] = stack[i]
    BY <2>1, <2>2
  <2>3. CASE stack'[i] = [stack[i] EXCEPT !.captured = @ \o text]
    <3>1. Orderly([stack[i] EXCEPT !.captured = @ \o text])
      BY <1>3, <2>1
    <3> QED
      BY <2>3, <3>1
  <2> QED
    BY <1>1, <2>2, <2>3
<1> QED
  BY <1>1, <1>4 DEF Ordered

-----------------------------------------------------------------------------
\* Calls that are made, and calls that return, keep the transcript.
LEMMA AskReorders ==
  ASSUME outcome = "running", Orderly(Top), NEW n \in Nat, NEW saw, Ask(n, saw),
         Top.phase = "debate" => n = Debaters /\ saw = Len(Top.notes),
         Top.phase = "step" => n = 1 /\ saw = Len(Top.notes) /\ Top.turn < Top.size
  PROVE  Reorders
<1> DEFINE c == Calls(n, saw)
           f == [Top EXCEPT !.calls = c]
<1>1. Becomes(f)
  BY DEF Ask, Moves
<1>2. AreCalls(c) /\ Len(c) = n /\ \A i \in 1..n : c[i].saw = saw
  BY CallsMade
<1> HIDE DEF c
<1>3. /\ HasFields(f) /\ f.agent = Top.agent /\ f.phase = Top.phase /\ f.turn = Top.turn
      /\ f.size = Top.size /\ f.calls = c /\ f.notes = Top.notes
  BY DEF Orderly, HasFields
<1> HIDE DEF f
<1>4. Fitting(Top.agent, Top.phase, Top.turn, Top.size, Top.calls, Top.notes)
  BY DEF Orderly
<1>5. Pattern[Top.agent] = "debate" => Debated(Top.phase, Top.turn, c, Top.notes)
  BY <1>2, <1>4 DEF Fitting, Debated
<1>6. Pattern[Top.agent] = "plan" => Planned(Top.phase, Top.turn, Top.size, c, Top.notes)
  BY <1>2, <1>4 DEF Fitting, Planned
<1>7. Fitting(Top.agent, Top.phase, Top.turn, Top.size, c, Top.notes)
  BY <1>2, <1>4, <1>5, <1>6 DEF Fitting
<1> QED
  BY <1>1, <1>3, <1>7 DEF Reorders, Orderly

LEMMA ResultReorders ==
  ASSUME outcome = "running", Orderly(Top), NEW c, AsAsked(Top.calls, c), Moves([Top EXCEPT !.calls = c])
  PROVE  Reorders
<1> DEFINE f == [Top EXCEPT !.calls = c]
<1>1. Becomes(f)
  BY DEF Moves
<1>2. AreCalls(c) /\ Len(c) = Len(Top.calls) /\ (c = <<>>) = (Top.calls = <<>>)
      /\ \A i \in 1..Len(Top.calls) : c[i].saw = Top.calls[i].saw
  BY DEF AsAsked
<1>3. /\ HasFields(f) /\ f.agent = Top.agent /\ f.phase = Top.phase /\ f.turn = Top.turn
      /\ f.size = Top.size /\ f.calls = c /\ f.notes = Top.notes
  BY DEF Orderly, HasFields
<1> HIDE DEF f
<1>4. Fitting(Top.agent, Top.phase, Top.turn, Top.size, Top.calls, Top.notes)
  BY DEF Orderly
<1>5. Pattern[Top.agent] = "debate" => Debated(Top.phase, Top.turn, c, Top.notes)
  BY <1>2, <1>4 DEF Fitting, Debated
<1>6. Pattern[Top.agent] = "plan" => Planned(Top.phase, Top.turn, Top.size, c, Top.notes)
  <2> SUFFICES ASSUME Pattern[Top.agent] = "plan"
               PROVE  Planned(Top.phase, Top.turn, Top.size, c, Top.notes)
    OBVIOUS
  <2>1. Planned(Top.phase, Top.turn, Top.size, Top.calls, Top.notes)
    BY <1>4 DEF Fitting
  <2>2. Top.phase = "step" /\ c # <<>> => Len(c) = 1 /\ c[1].saw = Top.turn /\ Top.turn < Top.size
    BY <1>2, <2>1 DEF Planned
  <2> QED
    BY <2>1, <2>2 DEF Planned
<1>7. Fitting(Top.agent, Top.phase, Top.turn, Top.size, c, Top.notes)
  BY <1>2, <1>4, <1>5, <1>6 DEF Fitting
<1> QED
  BY <1>1, <1>3, <1>7 DEF Reorders, Orderly

LEMMA AnswerReorders ==
  ASSUME Orderly(Top), Answer \/ RemoteFails
  PROVE  Reorders
<1>0. outcome = "running" /\ HasFields(Top)
  BY DEF Answer, RemoteFails, Orderly
<1>1. AreCalls(Top.calls) /\ Waiting \subseteq 1..Len(Top.calls)
  BY Emptiness DEF Orderly, Fitting, AreCalls, Waiting
<1>2. ASSUME NEW i \in Waiting, NEW d,
             {"state", "saw", "value"} \subseteq DOMAIN d, d.value \in Int, d.saw = Top.calls[i].saw,
             Moves([Top EXCEPT !.calls = [Top.calls EXCEPT ![i] = d]])
      PROVE  Reorders
  <2> DEFINE c == [Top.calls EXCEPT ![i] = d]
  <2>1. AsAsked(Top.calls, c)
    BY <1>1, <1>2, ResultOfCall
  <2>2. Moves([Top EXCEPT !.calls = c])
    BY <1>2
  <2> HIDE DEF c
  <2> QED
    BY <1>0, <2>1, <2>2, ResultReorders
<1>3. CASE Answer
  <2>1. PICK i \in Waiting, v \in Int : Answers(i, v)
    BY <1>3, PatternsAssumption DEF Answer
  <2> DEFINE d == [Top.calls[i] EXCEPT !.state = "ok", !.value = v]
  <2>2. {"state", "saw", "value"} \subseteq DOMAIN Top.calls[i]
    BY <1>1, <2>1 DEF AreCalls
  <2>3. {"state", "saw", "value"} \subseteq DOMAIN d /\ d.value \in Int /\ d.saw = Top.calls[i].saw
    BY <2>2
  <2>4. Moves([Top EXCEPT !.calls = [Top.calls EXCEPT ![i] = d]])
    <3>1. Moves([Top EXCEPT !.calls[i].state = "ok", !.calls[i].value = v])
      BY <2>1 DEF Answers
    <3>2. [Top EXCEPT !.calls[i].state = "ok", !.calls[i].value = v]
            = [Top EXCEPT !.calls = [Top.calls EXCEPT ![i] = d]]
      BY <1>0, <1>1, <2>1, <2>2 DEF HasFields
    <3> QED
      BY <3>1, <3>2
  <2> HIDE DEF d
  <2> QED
    BY <1>2, <2>1, <2>3, <2>4
<1>4. CASE RemoteFails
  <2>1. PICK i \in Waiting : Moves([Top EXCEPT !.calls[i].state = "error"])
    BY <1>4 DEF RemoteFails
  <2> DEFINE d == [Top.calls[i] EXCEPT !.state = "error"]
  <2>2. {"state", "saw", "value"} \subseteq DOMAIN Top.calls[i] /\ Top.calls[i].value \in Int
    BY <1>1, <2>1 DEF AreCalls
  <2>3. {"state", "saw", "value"} \subseteq DOMAIN d /\ d.value \in Int /\ d.saw = Top.calls[i].saw
    BY <2>2
  <2>4. Moves([Top EXCEPT !.calls = [Top.calls EXCEPT ![i] = d]])
    BY <2>1
  <2> HIDE DEF d
  <2> QED
    BY <1>2, <2>1, <2>3, <2>4
<1> QED
  BY <1>3, <1>4

\* A pattern's step that changes its phase, its turn, its size or its notes.
Reframed(f, phase, turn, size, notes) ==
  /\ HasFields(f) /\ f.agent = Top.agent /\ f.phase = phase /\ f.turn = turn
  /\ f.size = size /\ f.calls = <<>> /\ f.notes = notes

LEMMA ReframedReorders ==
  ASSUME outcome = "running", NEW f, NEW phase, NEW turn \in Nat, NEW size \in Nat, NEW notes,
         Reframed(f, phase, turn, size, notes), Becomes(f), Top.agent \in Agents, IsSequence(notes),
         Fits(Pattern[Top.agent], phase),
         Pattern[Top.agent] = "debate" => ByRounds(notes, turn),
         Pattern[Top.agent] = "plan" => Planned(phase, turn, size, <<>>, notes),
         Pattern[Top.agent] \in {"parallel", "sequential"} => Listed(phase, notes),
         Pattern[Top.agent] = "tree" => Sorted(notes)
  PROVE  Reorders
<1>1. Fitting(Top.agent, phase, turn, size, <<>>, notes)
  BY NoCalls DEF Fitting, Debated
<1>2. Orderly(f)
  BY <1>1 DEF Orderly, Reframed
<1> QED
  BY <1>2 DEF Reorders

\* What Top is, as facts of its own.
LEMMA TopFits ==
  ASSUME Orderly(Top)
  PROVE  /\ HasFields(Top) /\ Top.agent \in Agents /\ Top.turn \in Nat /\ Top.size \in Nat
         /\ AreCalls(Top.calls) /\ IsSequence(Top.notes) /\ Fits(Pattern[Top.agent], Top.phase)
         /\ Pattern[Top.agent] = "debate" => Debated(Top.phase, Top.turn, Top.calls, Top.notes)
         /\ Pattern[Top.agent] = "plan" => Planned(Top.phase, Top.turn, Top.size, Top.calls, Top.notes)
         /\ Pattern[Top.agent] \in {"parallel", "sequential"} => Listed(Top.phase, Top.notes)
         /\ Pattern[Top.agent] = "tree" => Sorted(Top.notes)
BY DEF Orderly, Fitting

LEMMA DebateReorders ==
  ASSUME Orderly(Top), Round \/ RoundEnds \/ RoundsDone
  PROVE  Reorders
<1>0. outcome = "running" /\ Top.phase = "debate"
  BY DEF Round, RoundEnds, RoundsDone, In
<1>1. /\ HasFields(Top) /\ Top.agent \in Agents /\ Top.turn \in Nat /\ Top.size \in Nat
      /\ AreCalls(Top.calls) /\ IsSequence(Top.notes)
  BY TopFits
<1>2. Pattern[Top.agent] = "debate"
  BY <1>0, TopFits DEF Fits
<1>3. Debated(Top.phase, Top.turn, Top.calls, Top.notes)
  BY <1>2, TopFits
<1>4. Fits("debate", "debate") /\ Fits("debate", "judge")
  BY DEF Fits
<1>5. CASE Round
  <2>1. Debaters \in Nat /\ Ask(Debaters, Len(Top.notes))
    BY <1>5, PatternsAssumption DEF Round
  <2> QED
    BY <1>0, <2>1, AskReorders
<1>6. CASE RoundEnds
  <2> DEFINE notes == Top.notes \o Noted
             f == [Top EXCEPT !.notes = @ \o Noted, !.turn = @ + 1, !.calls = <<>>]
  <2>1. Becomes(f) /\ Top.calls # <<>>
    BY <1>6 DEF RoundEnds, Moves, AllOk, Idle
  <2>2. Reframed(f, "debate", Top.turn + 1, Top.size, notes)
    BY <1>0, <1>1 DEF Reframed, HasFields
  <2> HIDE DEF f
  <2>3. Len(Top.calls) = Debaters /\ \A i \in 1..Debaters : Top.calls[i].saw = Len(Top.notes)
    BY <1>0, <1>3, <2>1 DEF Debated
  <2>4. IsSequence(Noted) /\ Len(Noted) = Debaters
        /\ \A i \in 1..Debaters : Noted[i].saw = Len(Top.notes) /\ Noted[i].who = i
    BY <1>1, <2>3, NotesOfCalls
  <2>5. ByRounds(notes, Top.turn + 1)
    BY <1>1, <1>3, <2>4, NextRound DEF Debated
  <2>6. IsSequence(notes)
    BY <1>1, <2>4, Joining DEF Joined
  <2>7. Top.turn + 1 \in Nat
    BY <1>1
  <2> HIDE DEF notes
  <2> QED
    BY <1>0, <1>1, <1>2, <1>4, <2>1, <2>2, <2>5, <2>6, <2>7, ReframedReorders
<1>7. CASE RoundsDone
  <2> DEFINE f == [Top EXCEPT !.phase = "judge"]
  <2>1. Becomes(f) /\ Top.calls = <<>>
    BY <1>7 DEF RoundsDone, Moves, Idle
  <2>2. Reframed(f, "judge", Top.turn, Top.size, Top.notes)
    BY <1>1, <2>1 DEF Reframed, HasFields
  <2> HIDE DEF f
  <2>3. ByRounds(Top.notes, Top.turn)
    BY <1>3 DEF Debated
  <2> QED
    BY <1>0, <1>1, <1>2, <1>4, <2>1, <2>2, <2>3, ReframedReorders
<1> QED
  BY <1>5, <1>6, <1>7

LEMMA TreeReorders ==
  ASSUME Orderly(Top), Expand \/ Expanded \/ Score \/ Prune
  PROVE  Reorders
<1>0. outcome = "running" /\ Top.phase \in {"expand", "score"}
  BY DEF Expand, Expanded, Score, Prune, In
<1>1. /\ HasFields(Top) /\ Top.agent \in Agents /\ Top.turn \in Nat /\ Top.size \in Nat
      /\ AreCalls(Top.calls) /\ IsSequence(Top.notes)
  BY TopFits
<1>2. Pattern[Top.agent] = "tree"
  BY <1>0, TopFits DEF Fits
<1>3. Sorted(Top.notes)
  BY <1>2, TopFits
<1>4. Fits("tree", "expand") /\ Fits("tree", "score") /\ Fits("tree", "judge")
  BY DEF Fits
<1>5. CASE Expand
  <2>1. Frontier \in Nat
    BY <1>1, Emptiness DEF Frontier
  <2>2. Branches * Frontier \in Nat
    <3>1. Branches \in Nat
      BY PatternsAssumption
    <3> QED
      BY <2>1, <3>1, Multiples
  <2>3. Ask(Branches * Frontier, Top.turn)
    BY <1>5 DEF Expand
  <2> QED
    BY <1>0, <2>2, <2>3, AskReorders
<1>6. CASE Expanded
  <2> DEFINE f == [Top EXCEPT !.phase = "score", !.size = Len(Top.calls), !.calls = <<>>]
  <2>1. Becomes(f)
    BY <1>6 DEF Expanded, Moves
  <2>2. Reframed(f, "score", Top.turn, Len(Top.calls), Top.notes)
    BY <1>1 DEF Reframed, HasFields
  <2> HIDE DEF f
  <2>3. Len(Top.calls) \in Nat
    BY <1>1, Emptiness DEF AreCalls
  <2> QED
    BY <1>0, <1>1, <1>2, <1>3, <1>4, <2>1, <2>2, <2>3, ReframedReorders
<1>7. CASE Score
  <2>1. Ask(Top.size, Top.turn) /\ Top.phase = "score"
    BY <1>7 DEF Score, In
  <2> QED
    BY <1>0, <1>1, <2>1, AskReorders
<1>8. CASE Prune
  <2> DEFINE phase == IF Top.turn + 1 = Depth THEN "judge" ELSE "expand"
             notes == [k \in DOMAIN Kept(Top.calls) |->
                          [who |-> Kept(Top.calls)[k],
                           value |-> Top.calls[Kept(Top.calls)[k]].value,
                           dropped |-> {Top.calls[i].value : i \in
                              DOMAIN Top.calls \ {Kept(Top.calls)[j] : j \in DOMAIN Kept(Top.calls)}}]]
             f == [Top EXCEPT !.phase = phase, !.turn = @ + 1, !.calls = <<>>, !.notes = notes]
  <2>1. Becomes(f)
    BY <1>8, Zenon DEF Prune, Moves
  <2>2. Pruned(Top.calls, notes)
    <3> DEFINE m == Least(TopK, Len(Top.calls))
    <3>1. m \in Nat /\ DOMAIN Kept(Top.calls) = 1..m
      BY <1>1, Emptiness, KeptByRank DEF AreCalls
    <3>2. \A k \in 1..m :
            /\ notes[k].value = Top.calls[Kept(Top.calls)[k]].value
            /\ notes[k].dropped = {Top.calls[i].value : i \in
                 DOMAIN Top.calls \ {Kept(Top.calls)[j] : j \in DOMAIN Kept(Top.calls)}}
      BY <3>1
    <3>3. notes = [k \in 1..m |-> notes[k]]
      BY <3>1
    <3>4. Kept(Top.calls) = [k \in 1..m |-> Kept(Top.calls)[k]]
      BY <3>1 DEF Kept
    <3> HIDE DEF m, notes
    <3>5. IsSequence(notes) /\ Len(notes) = m /\ DOMAIN notes = 1..m /\ Len(Kept(Top.calls)) = m
      BY <3>1, <3>3, <3>4, FunctionIsSequence
    <3> QED
      BY <3>1, <3>2, <3>5 DEF Pruned
  <2> HIDE DEF notes, phase
  <2>3. Reframed(f, phase, Top.turn + 1, Top.size, notes)
    BY <1>1 DEF Reframed, HasFields
  <2> HIDE DEF f
  <2>4. Sorted(notes) /\ IsSequence(notes)
    BY <1>1, <2>2, PrunedIsSorted DEF Pruned
  <2>5. Top.turn + 1 \in Nat
    BY <1>1
  <2>6. Fits("tree", phase)
    BY DEF Fits, phase
  <2> QED
    BY <1>0, <1>1, <1>2, <2>1, <2>3, <2>4, <2>5, <2>6, ReframedReorders
<1> QED
  BY <1>5, <1>6, <1>7, <1>8

LEMMA OrchestrateReorders ==
  ASSUME Orderly(Top), Dispatch \/ DispatchNext \/ Collected
  PROVE  Reorders
<1>0. outcome = "running" /\ Top.phase \in {"parallel", "sequential"}
  BY DEF Dispatch, DispatchNext, Collected, Collects, In
<1>1. /\ HasFields(Top) /\ Top.agent \in Agents /\ Top.turn \in Nat /\ Top.size \in Nat
      /\ AreCalls(Top.calls) /\ IsSequence(Top.notes)
  BY TopFits
<1>2. Pattern[Top.agent] = Top.phase
  BY <1>0, TopFits DEF Fits
<1>3. CASE Dispatch
  <2>1. Remotes \in Nat /\ Ask(Remotes, 0)
    BY <1>3, PatternsAssumption DEF Dispatch
  <2> QED
    BY <1>0, <2>1, AskReorders
<1>4. CASE DispatchNext
  <2> DEFINE c == Append(Top.calls, Pending(Len(Top.calls)))
             f == [Top EXCEPT !.calls = c]
  <2>1. Becomes(f)
    BY <1>4 DEF DispatchNext, Moves
  <2>2. AreCalls(c)
    BY <1>1, OneMoreCall
  <2> HIDE DEF c
  <2>3. /\ HasFields(f) /\ f.agent = Top.agent /\ f.phase = Top.phase /\ f.turn = Top.turn
        /\ f.size = Top.size /\ f.calls = c /\ f.notes = Top.notes
    BY <1>1 DEF HasFields
  <2> HIDE DEF f
  <2>4. Fitting(Top.agent, Top.phase, Top.turn, Top.size, c, Top.notes)
    BY <1>0, <1>1, <1>2, <2>2, TopFits DEF Fitting
  <2> QED
    BY <1>0, <2>1, <2>3, <2>4 DEF Reorders, Orderly
<1>5. CASE Collected
  <2> DEFINE f == [Top EXCEPT !.phase = "judge", !.notes = Noted, !.calls = <<>>]
  <2>1. Becomes(f) /\ Len(Top.calls) = Remotes
    BY <1>5 DEF Collected, Moves
  <2>2. Reframed(f, "judge", Top.turn, Top.size, Noted)
    BY <1>1 DEF Reframed, HasFields
  <2> HIDE DEF f
  <2>3. IsSequence(Noted) /\ Listed("judge", Noted)
    BY <1>1, <2>1, NotesOfCalls DEF Listed
  <2>4. Fits(Pattern[Top.agent], "judge")
    BY <1>0, <1>2 DEF Fits
  <2> QED
    BY <1>0, <1>1, <1>2, <2>1, <2>2, <2>3, <2>4, ReframedReorders
<1> QED
  BY <1>3, <1>4, <1>5

LEMMA PlanReorders ==
  ASSUME Orderly(Top), RequestPlan \/ PlanValid \/ PlanInvalid
  PROVE  Reorders
<1>0. outcome = "running" /\ Top.phase = "plan"
  BY DEF RequestPlan, PlanValid, PlanInvalid, In
<1>1. /\ HasFields(Top) /\ Top.agent \in Agents /\ Top.turn \in Nat /\ Top.size \in Nat
      /\ IsSequence(Top.notes)
  BY TopFits
<1>2. Pattern[Top.agent] = "plan"
  BY <1>0, TopFits DEF Fits
<1>3. Top.notes = <<>>
  BY <1>0, <1>2, TopFits DEF Planned
<1>4. Fits("plan", "plan") /\ Fits("plan", "step")
  BY DEF Fits
<1>5. CASE RequestPlan
  <2>1. 1 \in Nat /\ Ask(1, Top.turn)
    BY <1>5 DEF RequestPlan
  <2> QED
    BY <1>0, <2>1, AskReorders
<1>6. CASE PlanValid
  <2>1. PICK n \in PlanLengths \ {0} :
          Moves([Top EXCEPT !.phase = "step", !.size = Least(n, MaxSteps), !.turn = 0, !.calls = <<>>])
    BY <1>6 DEF PlanValid
  <2> DEFINE size == Least(n, MaxSteps)
             f == [Top EXCEPT !.phase = "step", !.size = size, !.turn = 0, !.calls = <<>>]
  <2>2. Becomes(f)
    BY <2>1 DEF Moves
  <2>3. size \in 1..MaxSteps /\ size \in Nat
    BY PatternsAssumption DEF Least
  <2> HIDE DEF size
  <2>4. Reframed(f, "step", 0, size, Top.notes)
    BY <1>1 DEF Reframed, HasFields
  <2> HIDE DEF f
  <2>5. Planned("step", 0, size, <<>>, Top.notes)
    BY <1>3, <2>3, NoCalls DEF Planned, BySteps
  <2> QED
    BY <1>0, <1>1, <1>2, <1>4, <2>2, <2>3, <2>4, <2>5, ReframedReorders
<1>7. CASE PlanInvalid
  <2> DEFINE f == [Top EXCEPT !.turn = @ + 1, !.calls = <<>>]
  <2>1. Becomes(f)
    BY <1>7 DEF PlanInvalid, Moves
  <2>2. Reframed(f, "plan", Top.turn + 1, Top.size, Top.notes)
    BY <1>0, <1>1 DEF Reframed, HasFields
  <2> HIDE DEF f
  <2>3. Planned("plan", Top.turn + 1, Top.size, <<>>, Top.notes) /\ Top.turn + 1 \in Nat
    BY <1>1, <1>3 DEF Planned
  <2> QED
    BY <1>0, <1>1, <1>2, <1>4, <2>1, <2>2, <2>3, ReframedReorders
<1> QED
  BY <1>5, <1>6, <1>7

LEMMA StepReorders ==
  ASSUME Orderly(Top), ExecuteStep \/ StepDone \/ StepsDone
  PROVE  Reorders
<1>0. outcome = "running" /\ Top.phase = "step"
  BY DEF ExecuteStep, StepDone, StepsDone, In
<1>1. /\ HasFields(Top) /\ Top.agent \in Agents /\ Top.turn \in Nat /\ Top.size \in Nat
      /\ AreCalls(Top.calls) /\ IsSequence(Top.notes)
  BY TopFits
<1>2. Pattern[Top.agent] = "plan"
  BY <1>0, TopFits DEF Fits
<1>3. Planned(Top.phase, Top.turn, Top.size, Top.calls, Top.notes)
  BY <1>2, TopFits
<1>4. /\ Fits("plan", "step") /\ Fits("plan", "judge")
  BY DEF Fits
<1>5. Top.size \in 1..MaxSteps /\ Len(Top.notes) = Top.turn /\ Top.turn <= Top.size /\ BySteps(Top.notes)
  BY <1>0, <1>3 DEF Planned
<1>6. CASE ExecuteStep
  <2>1. 1 \in Nat /\ Ask(1, Len(Top.notes)) /\ Top.turn < Top.size
    BY <1>6 DEF ExecuteStep
  <2> QED
    BY <1>0, <2>1, AskReorders
<1>7. CASE StepDone
  <2> DEFINE notes == Top.notes \o Noted
             f == [Top EXCEPT !.notes = @ \o Noted, !.turn = @ + 1, !.calls = <<>>]
             turn == Top.turn + 1
  <2>1. Becomes(f) /\ Top.calls # <<>>
    BY <1>7 DEF StepDone, Moves, AllOk, Idle
  <2>2. Reframed(f, "step", turn, Top.size, notes)
    BY <1>0, <1>1 DEF Reframed, HasFields
  <2> HIDE DEF f
  <2>3. Len(Top.calls) = 1 /\ Top.calls[1].saw = Top.turn /\ Top.turn < Top.size
    BY <1>0, <1>3, <2>1 DEF Planned
  <2>4. IsSequence(Noted) /\ Len(Noted) = 1 /\ Noted[1].saw = Top.turn
    BY <1>1, <2>3, NotesOfCalls
  <2>5. Joined(Top.notes, Noted, notes)
    BY <1>1, <2>4, Joining
  <2> HIDE DEF notes
  <2>6. turn \in Nat /\ turn <= Top.size /\ Len(notes) = turn
    BY <1>1, <1>5, <2>3, <2>4, <2>5 DEF Joined
  <2>7. ASSUME NEW k \in 1..Len(notes) PROVE notes[k].saw = k - 1
    <3>1. CASE k \in 1..Top.turn
      BY <1>5, <2>5, <3>1 DEF Joined, BySteps
    <3>2. CASE k = Top.turn + 1
      <4>1. notes[k] = Noted[1]
        BY <1>5, <2>4, <2>5, <3>2 DEF Joined
      <4> QED
        BY <1>1, <2>4, <3>2, <4>1
    <3>3. k \in 1..Top.turn \/ k = Top.turn + 1
      BY <1>1, <2>6
    <3> QED
      BY <3>1, <3>2, <3>3
  <2>8. Planned("step", turn, Top.size, <<>>, notes)
    BY <1>5, <2>6, <2>7 DEF Planned, BySteps
  <2> HIDE DEF turn
  <2> QED
    BY <1>0, <1>1, <1>2, <1>4, <2>1, <2>2, <2>5, <2>6, <2>8, ReframedReorders DEF Joined
<1>8. CASE StepsDone
  <2> DEFINE f == [Top EXCEPT !.phase = "judge"]
  <2>1. Becomes(f) /\ Top.calls = <<>> /\ Top.turn = Top.size
    BY <1>8 DEF StepsDone, Moves, Idle
  <2>2. Reframed(f, "judge", Top.turn, Top.size, Top.notes)
    BY <1>1, <2>1 DEF Reframed, HasFields
  <2> HIDE DEF f
  <2>3. Planned("judge", Top.turn, Top.size, <<>>, Top.notes)
    BY <1>5, <2>1 DEF Planned
  <2> QED
    BY <1>0, <1>1, <1>2, <1>4, <2>1, <2>2, <2>3, ReframedReorders
<1> QED
  BY <1>6, <1>7, <1>8

\* handoff keeps no transcript; a judge is asked with the one it is shown.
LEMMA OthersReorder ==
  ASSUME Orderly(Top), Judge \/ Route \/ RouteRemote \/ RemoteArtifact \/ RemoteStatus
  PROVE  Reorders
<1>1. /\ HasFields(Top) /\ Top.agent \in Agents /\ Top.turn \in Nat /\ Top.size \in Nat
      /\ AreCalls(Top.calls) /\ IsSequence(Top.notes)
  BY TopFits
<1>2. CASE Judge \/ Route
  <2>1. outcome = "running" /\ Top.phase \in {"judge", "route"}
    BY <1>2 DEF Judge, Route, In
  <2>2. Ask(1, Len(Top.notes)) \/ Ask(1, 0)
    BY <1>2 DEF Judge, Route
  <2> QED
    BY <2>1, <2>2, AskReorders
<1>3. Top.phase \in {"route", "remote"} => Pattern[Top.agent] = "handoff"
  BY TopFits DEF Fits
<1>4. CASE RouteRemote
  <2> DEFINE f == [Top EXCEPT !.phase = "remote", !.calls = <<>>]
  <2>1. outcome = "running" /\ Top.phase = "route" /\ Becomes(f)
    BY <1>4 DEF RouteRemote, Moves, In
  <2>2. Reframed(f, "remote", Top.turn, Top.size, Top.notes)
    BY <1>1 DEF Reframed, HasFields
  <2> HIDE DEF f
  <2>3. Fits("handoff", "remote") /\ Pattern[Top.agent] = "handoff"
    BY <1>3, <2>1 DEF Fits
  <2> QED
    BY <1>1, <2>1, <2>2, <2>3, ReframedReorders
<1>5. ASSUME NEW state, NEW text, NEW final, Hears(state, text, final) PROVE Reorders
  <2> DEFINE heard == [state |-> state, text |-> Text(Top.heard.text, text), final |-> final]
             f == [Top EXCEPT !.turn = @ + 1, !.heard = heard]
  <2>1. outcome = "running" /\ Top.phase = "remote" /\ Becomes(f)
    BY <1>5 DEF Hears, Listening, In
  <2> HIDE DEF heard
  <2>2. /\ HasFields(f) /\ f.agent = Top.agent /\ f.phase = Top.phase /\ f.turn = Top.turn + 1
        /\ f.size = Top.size /\ f.calls = Top.calls /\ f.notes = Top.notes
    BY <1>1 DEF HasFields
  <2> HIDE DEF f
  <2>3. Fits("handoff", "remote") /\ Pattern[Top.agent] = "handoff" /\ Top.turn + 1 \in Nat
    BY <1>1, <1>3, <2>1 DEF Fits
  <2>4. Fitting(Top.agent, Top.phase, Top.turn + 1, Top.size, Top.calls, Top.notes)
    BY <1>1, <2>1, <2>3 DEF Fitting
  <2> QED
    BY <2>1, <2>2, <2>4 DEF Reorders, Orderly
<1>6. CASE RemoteArtifact
  BY <1>5, <1>6 DEF RemoteArtifact
<1>7. CASE RemoteStatus
  BY <1>5, <1>7 DEF RemoteStatus
<1> QED
  BY <1>2, <1>4, <1>6, <1>7

LEMMA NextOrdered == Stacked /\ Ordered /\ [Next]_vars => Ordered'
<1> SUFFICES ASSUME Stacked, Ordered, [Next]_vars PROVE Ordered'
  OBVIOUS
<1>1. outcome = "running" => Orderly(Top)
  BY TopIsOrderly
<1>2. CASE Reorders
  BY <1>2, ReordersOrdered
<1>3. CASE Answer \/ RemoteFails
  BY <1>1, <1>2, <1>3, AnswerReorders DEF Answer, RemoteFails
<1>4. CASE Round \/ RoundEnds \/ RoundsDone
  BY <1>1, <1>2, <1>4, DebateReorders DEF Round, RoundEnds, RoundsDone, In
<1>5. CASE Expand \/ Expanded \/ Score \/ Prune
  <2>1. outcome = "running"
    BY <1>5 DEF Expand, Expanded, Score, Prune, In
  <2> QED
    BY <1>1, <1>2, <1>5, <2>1, TreeReorders
<1>6. CASE Dispatch \/ DispatchNext \/ Collected
  BY <1>1, <1>2, <1>6, OrchestrateReorders DEF Dispatch, DispatchNext, Collected, In
<1>7. CASE RequestPlan \/ PlanValid \/ PlanInvalid
  BY <1>1, <1>2, <1>7, PlanReorders DEF RequestPlan, PlanValid, PlanInvalid, In
<1>8. CASE ExecuteStep \/ StepDone \/ StepsDone
  BY <1>1, <1>2, <1>8, StepReorders DEF ExecuteStep, StepDone, StepsDone, In
<1>9. CASE Judge \/ Route \/ RouteRemote \/ RemoteArtifact \/ RemoteStatus
  <2>1. outcome = "running"
    BY <1>9 DEF Judge, Route, RouteRemote, RemoteArtifact, RemoteStatus, Hears, Listening, In
  <2> QED
    BY <1>1, <1>2, <1>9, <2>1, OthersReorder
<1>10. ASSUME NEW n, Raises(n) PROVE Ordered'
  BY <1>10, NoCalls DEF Raises, Ordered
<1>11. CASE CallRaises \/ PlanGivenUp \/ PlanMisshapen \/ SimpleRaises \/ RouteUnknown \/ TooDeep \/ RemoteBreaks
  BY <1>10, <1>11
     DEF CallRaises, PlanGivenUp, PlanMisshapen, SimpleRaises, RouteUnknown, TooDeep, RemoteBreaks
<1>12. ASSUME NEW text, outcome = "running", Completes(text) PROVE Ordered'
  BY <1>12, ReturnsOrdered DEF Completes, Pops
<1>13. CASE Conclude \/ SimpleAnswers \/ SubReturns
  BY <1>12, <1>13 DEF Conclude, SimpleAnswers, SubReturns, In
<1>14. CASE RemoteReturns
  BY <1>10, <1>12, <1>14 DEF RemoteReturns, In
<1>15. CASE SimpleAsks
  BY <1>15, ReturnsOrdered DEF SimpleAsks, Pops, In
<1>16. CASE RouteLocal
  BY <1>16, RouteLocalOrdered
<1>17. CASE OrphanEnds \/ UNCHANGED vars
  BY <1>17 DEF OrphanEnds, vars, Ordered
<1> QED
  BY <1>3, <1>4, <1>5, <1>6, <1>7, <1>8, <1>9, <1>11, <1>13, <1>14, <1>15, <1>16, <1>17 DEF Next

\* Whatever order its calls end in, what a debate, a plan or an orchestration
\* shows its judge is whole and in the configured order, and the frontier of a
\* tree is the best of its candidates, sorted: TranscriptInOrder, for any
\* number of debaters, rounds, branches, agents and steps.
THEOREM TranscriptsAreInOrder == Spec => []TranscriptInOrder
<1>1. Init => Contained /\ Ordered
  BY InitContained, InitOrdered
<1>2. Contained /\ Ordered /\ [Next]_vars => (Contained /\ Ordered)'
  BY NextContained, NextOrdered DEF Contained
<1>3. Contained /\ Ordered => TranscriptInOrder
  BY OrderedIsInOrder DEF Contained
<1> QED
  BY <1>1, <1>2, <1>3, PTL DEF Spec
=============================================================================
