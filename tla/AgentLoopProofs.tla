--------------------------- MODULE AgentLoopProofs ---------------------------
(***************************************************************************)
(* Proofs about AgentLoop: the sliding summary loses nothing, for every    *)
(* window and any length of the conversation.                              *)
(***************************************************************************)
EXTENDS AgentLoop, FiniteSetTheorems, SequenceTheorems, TLAPS

USE LoopAssumption DEF setup

Sending == {"summarise", "summarise_wait", "chat", "chat_wait"}

\* A sequence, whatever its elements are.
IsSequence(s) == \E S : s \in Seq(S)

Prompted ==
  /\ IsSequence(messages) /\ Len(messages) # 0
  /\ messages[1].role = "system" => Len(messages) # 1

\* Between the summary and the end of the chat the list does not change.
CutIsMiddle == pc \in Sending => cut = Middle

Counted == window \in Windows /\ Prompted /\ CutIsMiddle

-----------------------------------------------------------------------------
\* At least as long as a list of one, and longer than a list of one, is not one.
LEMMA Longer ==
  ASSUME NEW m \in Nat, NEW n \in Nat, m # 0, n >= m
  PROVE  n # 0 /\ (m # 1 => n # 1)
  OBVIOUS

\* Appending to a list keeps its first message.
LEMMA Appending ==
  ASSUME NEW s, NEW t, IsSequence(s), IsSequence(t), Len(s) # 0
  PROVE  /\ IsSequence(s \o t) /\ (s \o t)[1] = s[1]
         /\ Len(s \o t) \in Nat /\ Len(s) \in Nat /\ Len(s \o t) >= Len(s)
<1>1. PICK S : s \in Seq(S)
  BY DEF IsSequence
<1>2. PICK T : t \in Seq(T)
  BY DEF IsSequence
<1> DEFINE U == S \cup T
<1>3. s \in Seq(U) /\ t \in Seq(U)
  BY <1>1, <1>2
<1> HIDE DEF U
<1>4. s \o t \in Seq(U) /\ (s \o t)[1] = s[1]
  BY <1>3
<1>5. Len(s \o t) \in Nat /\ Len(s) \in Nat /\ Len(s \o t) >= Len(s)
  BY <1>3
<1> QED
  BY <1>4, <1>5 DEF IsSequence

LEMMA OneMessage == \A m : IsSequence(<<m>>) /\ Len(<<m>>) = 1 /\ <<m>>[1] = m
<1> TAKE m
<1>1. <<m>> \in Seq({m})
  OBVIOUS
<1> QED
  BY <1>1 DEF IsSequence

LEMMA Nothing == IsSequence(<<>>)
<1>1. <<>> \in Seq({})
  OBVIOUS
<1> QED
  BY <1>1 DEF IsSequence

LEMMA TwoMessages == \A m, n : IsSequence(<<m, n>>) /\ Len(<<m, n>>) = 2 /\ <<m, n>>[1] = m
<1> TAKE m, n
<1>1. <<m, n>> \in Seq({m, n})
  OBVIOUS
<1> QED
  BY <1>1 DEF IsSequence

\* What stands before the replay: a prompt and a history, if any, and the
\* user's message.
LEMMA BeforeReplay ==
  ASSUME NEW head \in {<<>>, <<System>>}, NEW past \in {<<>>, <<User, Said("assistant")>>}
  PROVE  LET lead == head \o past \o <<User>>
         IN  IsSequence(lead) /\ Len(lead) \in Nat \ {0} /\ (lead[1] = User \/ Len(lead) # 1)
<1> DEFINE S == {System, User, Said("assistant")}
           lead == head \o past \o <<User>>
<1>1. System \in S /\ User \in S /\ Said("assistant") \in S
  OBVIOUS
<1> HIDE DEF S
<1>2. <<>> \in Seq(S) /\ <<System>> \in Seq(S) /\ <<User>> \in Seq(S)
  BY <1>1
<1>3. <<User, Said("assistant")>> \in Seq(S)
  BY <1>1
<1>4. head \in Seq(S) /\ past \in Seq(S)
  BY <1>2, <1>3
<1>5. lead \in Seq(S) /\ Len(lead) = Len(head) + Len(past) + 1 /\ Len(head) \in Nat /\ Len(past) \in Nat
  BY <1>2, <1>4
<1>6. CASE Len(head) = 0 /\ Len(past) = 0
  <2>1. lead[1] = User
    BY <1>2, <1>4, <1>6
  <2> QED
    BY <1>5, <2>1 DEF IsSequence
<1>7. CASE Len(head) # 0 \/ Len(past) # 0
  <2>1. Len(lead) \in Nat \ {0} /\ Len(lead) # 1
    BY <1>5, <1>7
  <2> QED
    BY <1>5, <2>1 DEF IsSequence
<1> QED
  BY <1>6, <1>7

\* What every run begins with.
LEMMA OpeningPrompted ==
  ASSUME NEW p, NEW system \in BOOLEAN, NEW resumed \in BOOLEAN,
         NEW history \in {<<>>, <<User, Said("assistant")>>},
         messages = Opening(p, system, history, resumed)
  PROVE  Prompted
<1>1. PICK past \in {<<>>, <<User, Said("assistant")>>}, head \in {<<>>, <<System>>} :
        messages = head \o past \o <<User>> \o Replay(resumed)
  BY DEF Opening
<1> DEFINE lead == head \o past \o <<User>>
<1>2. IsSequence(lead) /\ Len(lead) \in Nat \ {0} /\ (lead[1] = User \/ Len(lead) # 1)
  BY BeforeReplay
<1>3. messages = lead \o Replay(resumed)
  BY <1>1
<1> HIDE DEF lead
<1>4. IsSequence(Replay(resumed))
  BY Nothing, TwoMessages DEF Replay
<1>5. /\ IsSequence(messages) /\ messages[1] = lead[1]
      /\ Len(messages) \in Nat /\ Len(messages) >= Len(lead)
  BY <1>2, <1>3, <1>4, Appending
<1>6. User.role # "system"
  BY DEF User, Said
<1>7. Len(messages) # 0 /\ (Len(lead) # 1 => Len(messages) # 1)
  BY <1>2, <1>5, Longer
<1>8. messages[1].role = "system" => Len(lead) # 1
  BY <1>2, <1>5, <1>6, Zenon
<1> QED
  BY <1>5, <1>7, <1>8, Zenon DEF Prompted

LEMMA InitCounted == Init => Counted
  BY OpeningPrompted DEF Init, Counted, CutIsMiddle, Sending

-----------------------------------------------------------------------------
\* A step that appends messages, or none, and sends nothing.
LEMMA SaysCounted ==
  ASSUME Counted, UNCHANGED window, NEW ms, IsSequence(ms), Says(ms), pc' \notin Sending
  PROVE  Counted'
<1>1. Prompted /\ messages' = messages \o ms
  BY DEF Counted, Says
<1>2. /\ IsSequence(messages') /\ messages'[1] = messages[1]
      /\ Len(messages') \in Nat /\ Len(messages) \in Nat /\ Len(messages') >= Len(messages)
  BY <1>1, Appending DEF Prompted
<1>3. Len(messages) # 0 /\ (messages[1].role = "system" => Len(messages) # 1)
  BY <1>1 DEF Prompted
<1>4. Len(messages') # 0 /\ (Len(messages) # 1 => Len(messages') # 1)
  BY <1>2, <1>3, Longer
<1>5. Prompted'
  BY <1>2, <1>3, <1>4, Zenon DEF Prompted
<1> QED
  BY <1>5 DEF Counted, CutIsMiddle

\* A step that leaves the list alone.
LEMMA StillCounted ==
  ASSUME Counted, UNCHANGED <<window, messages>>, CutIsMiddle'
  PROVE  Counted'
  BY DEF Counted, Prompted

LEMMA NextCounted == Counted /\ [Next]_vars => Counted'
<1> SUFFICES ASSUME Counted, [Next]_vars PROVE Counted'
  OBVIOUS
<1>0. CutIsMiddle
  BY DEF Counted
<1> USE DEF CutIsMiddle, Sending, Middle, Head1
<1>1. CASE NextLoop
  BY <1>1, StillCounted DEF NextLoop
<1>2. CASE Summarised \/ RateLimited \/ TriesAgain
  BY <1>2, <1>0, StillCounted DEF Summarised, RateLimited, TriesAgain, Backoff
<1>3. CASE LoopsExhausted \/ ChatFails \/ BudgetSpent \/ ToolSuspends \/ ToolsDone
  BY <1>3, StillCounted DEF LoopsExhausted, ChatFails, BudgetSpent, ToolSuspends, ToolsDone, Ends
<1>4. CASE SimpleAnswer \/ SimpleFallback \/ ReactAnswer
  BY <1>4, StillCounted DEF SimpleAnswer, SimpleFallback, ReactAnswer, Answers, Ends
<1>5. CASE SimpleNudge
  BY <1>5, SaysCounted, OneMessage DEF SimpleNudge
<1>6. CASE ReactNudge
  BY <1>6, SaysCounted, TwoMessages DEF ReactNudge
<1>7. CASE ModelCalls
  BY <1>7, SaysCounted, OneMessage DEF ModelCalls
<1>8. CASE ToolDecided
  BY <1>8, SaysCounted, OneMessage DEF ToolDecided
<1>9. CASE UNCHANGED vars
  BY <1>9, <1>0, StillCounted DEF vars
<1> QED
  BY <1>1, <1>2, <1>3, <1>4, <1>5, <1>6, <1>7, <1>8, <1>9 DEF Next

-----------------------------------------------------------------------------
\* The three parts of what is sent.
LEMMA CutLosesNothing ==
  ASSUME Counted, pc \in {"summarise", "chat"}
  PROVE  /\ Len(Sent) - Len(Summary) + cut = Len(messages)
         /\ window # 0 => Len(Sent) <= window + 2
         /\ messages[1].role = "system" =>
              Len(Sent) >= 2 /\ Sent[1] = messages[1] /\ (cut > 0 => Sent[2] = System)
<1> DEFINE L == Len(messages)
           H == Head1
           front == SubSeq(messages, 1, H)
<1>1. PICK S : messages \in Seq(S)
  BY DEF Counted, Prompted, IsSequence
<1>2. /\ L \in Nat \ {0} /\ H \in {0, 1} /\ window \in Nat /\ cut = Middle
      /\ messages[1].role = "system" => H = 1 /\ L # 1
  BY <1>1 DEF Counted, Prompted, CutIsMiddle, Sending, Head1
<1> DEFINE T == S \cup {System}
<1>3. messages \in Seq(T)
  BY <1>1
<1>4. System \in T
  OBVIOUS
<1> HIDE DEF T, H
<1>5. front \in Seq(T) /\ Len(front) = H /\ (H = 1 => front[1] = messages[1])
  BY <1>2, <1>3
<1>6. CASE cut = 0
  <2>1. Summary = <<>> /\ Tail1 = SubSeq(messages, H + 1, L)
    BY <1>6 DEF Summary, Tail1, H
  <2>2. Tail1 \in Seq(T) /\ Len(Tail1) = L - H
    BY <2>1, <1>2, <1>3
  <2>3. Sent = front \o Tail1
    BY <2>1, <1>5 DEF Sent, H
  <2>4. Len(Sent) = L /\ (H = 1 => Sent[1] = messages[1])
    BY <2>2, <2>3, <1>2, <1>5
  <2>5. window # 0 => L <= window + 1
    BY <1>2, <1>6 DEF Middle, Monus, H
  <2> QED
    BY <1>2, <1>6, <2>1, <2>4, <2>5
<1>7. CASE cut # 0
  <2>1. cut = L - window - H /\ window # 0 /\ L > window + H /\ cut > 0
    BY <1>2, <1>7 DEF Middle, Monus, H
  <2>2. Summary = <<System>> /\ Tail1 = SubSeq(messages, L - window + 1, L)
    BY <1>7 DEF Summary, Tail1
  <2>3. Tail1 \in Seq(T) /\ Len(Tail1) = window
    BY <2>1, <2>2, <1>2, <1>3
  <2>4. Sent = (front \o <<System>>) \o Tail1
    BY <2>2 DEF Sent, H
  <2>5. /\ front \o <<System>> \in Seq(T) /\ Len(front \o <<System>>) = H + 1
        /\ H = 1 => (front \o <<System>>)[1] = messages[1] /\ (front \o <<System>>)[2] = System
    BY <1>2, <1>4, <1>5
  <2>6. /\ Len(Sent) = H + 1 + window
        /\ H = 1 => Sent[1] = messages[1] /\ Sent[2] = System
    BY <2>3, <2>4, <2>5, <1>2
  <2> QED
    BY <1>2, <2>1, <2>2, <2>6
<1> QED
  BY <1>6, <1>7

\* Whatever the window and however long the conversation, what a call leaves
\* out is in the summary, what it sends is bounded and the prompt comes first:
\* NothingForgotten (apply_sliding_summary cuts by position).
THEOREM SummaryLosesNothing == Spec => []NothingForgotten
<1>1. Counted => NothingForgotten
  BY CutLosesNothing DEF NothingForgotten
<1> QED
  BY <1>1, InitCounted, NextCounted, PTL DEF Spec

-----------------------------------------------------------------------------
\* What the model said itself, at each place of a list: the replayed call was
\* made in an earlier run.
Own(m) == m.role = "assistant" /\ m.calls # <<Pending>>
OwnAt(ms) == {i \in DOMAIN ms : Own(ms[i])}

\* A tool is not named like the mark of the replay.
NoToolIsPending == "pending" \notin Tools

Compared ==
  /\ pattern \in Patterns /\ provider \in Providers
  /\ IsSequence(messages) /\ IsSequence(seen)
  /\ pattern = "react" => Len(seen) = Cardinality(OwnAt(messages))
  /\ (outcome = "completed") => pc = "ended"
  /\ outcome = "completed" /\ pattern = "react" => ~IsLoop(seen, answer)

\* The places of a list are finitely many, and a list that goes on has those
\* of the first part and, moved up, those of the second.
LEMMA OwnOfLonger ==
  ASSUME NEW s, NEW m, IsSequence(s)
  PROVE  /\ IsFiniteSet(OwnAt(s))
         /\ Own(m) => Cardinality(OwnAt(s \o <<m>>)) = Cardinality(OwnAt(s)) + 1
         /\ ~Own(m) => Cardinality(OwnAt(s \o <<m>>)) = Cardinality(OwnAt(s))
         /\ IsSequence(s \o <<m>>)
<1>1. PICK S : s \in Seq(S)
  BY DEF IsSequence
<1> DEFINE T == S \cup {m}
           n == Len(s) + 1
           longer == s \o <<m>>
<1>2. s \in Seq(T) /\ <<m>> \in Seq(T) /\ Len(s) \in Nat /\ DOMAIN s = 1..Len(s)
  BY <1>1
<1>3. /\ longer \in Seq(T) /\ DOMAIN longer = 1..n /\ longer[n] = m
      /\ \A i \in 1..Len(s) : longer[i] = s[i]
  BY <1>2
<1>4. IsFiniteSet(1..Len(s))
  BY <1>2, FS_Interval
<1>5. IsFiniteSet(OwnAt(s))
  BY <1>2, <1>4, FS_Subset DEF OwnAt
<1>6. n \notin OwnAt(s)
  BY <1>2 DEF OwnAt
<1>7. ASSUME Own(m) PROVE OwnAt(longer) = OwnAt(s) \cup {n}
  BY <1>2, <1>3, <1>7 DEF OwnAt
<1>8. ASSUME ~Own(m) PROVE OwnAt(longer) = OwnAt(s)
  BY <1>2, <1>3, <1>8 DEF OwnAt
<1>9. Cardinality(OwnAt(s) \cup {n}) = Cardinality(OwnAt(s)) + 1
  BY <1>5, <1>6, FS_AddElement
<1> QED
  BY <1>3, <1>5, <1>7, <1>8, <1>9 DEF IsSequence

LEMMA OwnOfNothing == Cardinality(OwnAt(<<>>)) = 0
<1>1. OwnAt(<<>>) = {}
  BY DEF OwnAt
<1> QED
  BY <1>1, FS_EmptySet

\* Two messages at once, or one after the other.
LEMMA TwoAtOnce ==
  ASSUME NEW s, NEW m, NEW n, IsSequence(s)
  PROVE  s \o <<m, n>> = (s \o <<m>>) \o <<n>>
<1>1. PICK S : s \in Seq(S)
  BY DEF IsSequence
<1> DEFINE T == S \cup {m, n}
<1>2. s \in Seq(T) /\ <<m, n>> \in Seq(T) /\ <<m>> \in Seq(T) /\ <<n>> \in Seq(T)
  BY <1>1
<1> HIDE DEF T
<1>3. s \o <<m, n>> \in Seq(T) /\ (s \o <<m>>) \in Seq(T) /\ (s \o <<m>>) \o <<n>> \in Seq(T)
  BY <1>2
<1>4. Len(s \o <<m, n>>) = Len(s) + 2 /\ Len((s \o <<m>>) \o <<n>>) = Len(s) + 2
  BY <1>2, <1>3
<1>5. ASSUME NEW i \in 1..(Len(s) + 2)
      PROVE  (s \o <<m, n>>)[i] = ((s \o <<m>>) \o <<n>>)[i]
  BY <1>2, <1>3, <1>4
<1>6. Len(s) + 2 \in Nat
  BY <1>2
<1> QED
  BY <1>3, <1>4, <1>5, <1>6, SeqEqual

\* A run that begins shows the model nothing it said in this run.
LEMMA OpeningIsNew ==
  ASSUME NEW system \in BOOLEAN, NEW resumed \in BOOLEAN, NEW history
  PROVE  LET ms == Opening("react", system, history, resumed)
         IN  IsSequence(ms) /\ Cardinality(OwnAt(ms)) = 0
<1>1. Opening("react", system, history, resumed) = ((<<>> \o <<System>>) \o <<User>>) \o Replay(resumed)
  BY DEF Opening
<1>2. ~Own(System) /\ ~Own(User) /\ ~Own(Calling(<<Pending>>)) /\ ~Own(Result(Pending))
  BY DEF Own, System, User, Said, Calling, Result
<1> DEFINE one == <<>> \o <<System>>
           two == one \o <<User>>
           three == two \o <<Calling(<<Pending>>)>>
           four == three \o <<Result(Pending)>>
<1>3. IsSequence(one) /\ Cardinality(OwnAt(one)) = 0
  BY <1>2, Nothing, OwnOfNothing, OwnOfLonger
<1> HIDE DEF one
<1>4. IsSequence(two) /\ Cardinality(OwnAt(two)) = 0
  BY <1>2, <1>3, OwnOfLonger
<1> HIDE DEF two
<1>5. IsSequence(three) /\ Cardinality(OwnAt(three)) = 0
  BY <1>2, <1>4, OwnOfLonger
<1> HIDE DEF three
<1>6. IsSequence(four) /\ Cardinality(OwnAt(four)) = 0
  BY <1>2, <1>5, OwnOfLonger
<1> HIDE DEF four
<1>7. CASE resumed
  <2>1. Opening("react", system, history, resumed) = two \o <<Calling(<<Pending>>), Result(Pending)>>
    BY <1>1, <1>7 DEF Replay, one, two
  <2>2. two \o <<Calling(<<Pending>>), Result(Pending)>> = four
    BY <1>4, TwoAtOnce DEF three, four
  <2> QED
    BY <1>6, <2>1, <2>2
<1>8. CASE ~resumed
  <2>1. Opening("react", system, history, resumed) = two \o <<>>
    BY <1>1, <1>8 DEF Replay, one, two
  <2>2. two \o <<>> = two
    BY <1>4 DEF IsSequence
  <2> QED
    BY <1>4, <2>1, <2>2
<1> QED
  BY <1>7, <1>8

LEMMA InitCompared == Init => Compared
<1> SUFFICES ASSUME Init PROVE Compared
  OBVIOUS
<1>1. PICK system \in BOOLEAN, resumed \in BOOLEAN, history \in {<<>>, <<User, Said("assistant")>>} :
        messages = Opening(pattern, system, history, resumed)
  BY DEF Init
<1>2. Prompted
  BY <1>1, OpeningPrompted
<1>3. pattern = "react" => Cardinality(OwnAt(messages)) = 0
  BY <1>1, OpeningIsNew
<1>4. seen = <<>> /\ IsSequence(seen) /\ Len(seen) = 0
  BY Nothing DEF Init
<1>5. pattern \in Patterns /\ provider \in Providers /\ outcome = "running"
  BY DEF Init
<1> QED
  BY <1>2, <1>3, <1>4, <1>5 DEF Compared, Prompted

\* The calls of a response are not mistaken for the replay.
LEMMA CallsAreNew ==
  ASSUME NoToolIsPending, provider \in Providers, NEW tools \in Responses
  PROVE  CallIds(tools) # <<Pending>>
<1>1. PICK n \in 1..MaxCalls : tools \in [1..n -> Tools]
  BY DEF Responses
<1>2. 1 \in DOMAIN tools /\ tools[1] \in Tools
  BY <1>1
<1> DEFINE replayed == <<Pending>>
<1>5. replayed[1] = Pending
  OBVIOUS
<1> HIDE DEF replayed
<1>6. SUFFICES CallIds(tools)[1] # Pending
  BY <1>5 DEF replayed
<1>3. CASE provider \in {"openai", "anthropic"}
  <2>1. CallIds(tools)[1] = <<tools[1], loops, 1>>
    BY <1>2, <1>3 DEF CallIds, OpenAiCalls, AnthropicCalls
  <2>2. <<tools[1], loops, 1>> # Pending
    BY DEF Pending
  <2> QED
    BY <2>1, <2>2
<1>4. CASE provider \in {"google", "vertex"}
  <2>1. CallIds(tools)[1] = <<tools[1]>>
    BY <1>2, <1>4 DEF CallIds, GoogleCalls
  <2>2. <<tools[1]>> # Pending
    BY <1>2 DEF Pending, NoToolIsPending
  <2> QED
    BY <2>1, <2>2
<1> QED
  BY <1>3, <1>4 DEF Providers

LEMMA OneMoreSaid ==
  ASSUME NEW s, NEW text, IsSequence(s)
  PROVE  IsSequence(Append(s, text)) /\ Len(Append(s, text)) = Len(s) + 1 /\ Len(s) \in Nat
<1>1. PICK S : s \in Seq(S)
  BY DEF IsSequence
<1>2. s \in Seq(S \cup {text})
  BY <1>1
<1> QED
  BY <1>2 DEF IsSequence

\* A step that says nothing and ends no run with an answer.
LEMMA StillCompared ==
  ASSUME Compared, UNCHANGED <<setup, messages, seen, answer>>, outcome' # "completed" \/ UNCHANGED <<outcome, pc>>
  PROVE  Compared'
  BY DEF Compared, IsLoop, SameStart, OwnAt

LEMMA NextCompared == NoToolIsPending /\ Compared /\ [Next]_vars => Compared'
<1> SUFFICES ASSUME NoToolIsPending, Compared, [Next]_vars PROVE Compared'
  OBVIOUS
<1>0. pc # "ended" => outcome # "completed"
  BY DEF Compared
<1>1. CASE NextLoop
  BY <1>1, <1>0, StillCompared DEF NextLoop
<1>2. CASE Summarised \/ RateLimited \/ TriesAgain
  BY <1>2, <1>0, StillCompared DEF Summarised, RateLimited, TriesAgain, Backoff
<1>3. CASE LoopsExhausted \/ ChatFails \/ BudgetSpent \/ ToolSuspends \/ ToolsDone
  BY <1>3, <1>0, StillCompared DEF LoopsExhausted, ChatFails, BudgetSpent, ToolSuspends, ToolsDone, Ends
<1>4. CASE SimpleAnswer \/ SimpleFallback
  BY <1>4 DEF SimpleAnswer, SimpleFallback, Answers, Ends, Compared, OwnAt
<1>5. CASE ReactAnswer
  BY <1>5 DEF ReactAnswer, Answers, Ends, Compared, OwnAt, IsLoop
<1>6. CASE SimpleNudge
  <2>1. /\ messages' = messages \o <<User>> /\ pattern = "simple"
        /\ UNCHANGED <<setup, seen, outcome>> /\ outcome # "completed"
    BY <1>6, <1>0 DEF SimpleNudge, Says
  <2>2. IsSequence(messages')
    BY <2>1, OwnOfLonger DEF Compared
  <2> QED
    BY <2>1, <2>2 DEF Compared
<1>7. CASE ReactNudge
  <2>1. PICK text \in Texts : seen' = Append(seen, text)
    BY <1>7 DEF ReactNudge
  <2>2. /\ messages' = messages \o <<Said("assistant"), User>> /\ pattern = "react"
        /\ UNCHANGED <<setup, outcome>> /\ outcome # "completed"
    BY <1>7, <1>0 DEF ReactNudge, Says
  <2>3. IsSequence(messages) /\ IsSequence(seen) /\ Len(seen) = Cardinality(OwnAt(messages))
    BY <2>2 DEF Compared
  <2> DEFINE one == messages \o <<Said("assistant")>>
  <2>4. messages' = one \o <<User>>
    BY <2>2, <2>3, TwoAtOnce
  <2>5. Own(Said("assistant")) /\ ~Own(User)
    <3>1. <<>> # <<Pending>>
      OBVIOUS
    <3> QED
      BY <3>1 DEF Own, Said, User
  <2>6. IsSequence(one) /\ Cardinality(OwnAt(one)) = Cardinality(OwnAt(messages)) + 1
    BY <2>3, <2>5, OwnOfLonger
  <2> HIDE DEF one
  <2>7. IsSequence(messages') /\ Cardinality(OwnAt(messages')) = Cardinality(OwnAt(messages)) + 1
    BY <2>4, <2>5, <2>6, OwnOfLonger
  <2>8. IsSequence(seen') /\ Len(seen') = Len(seen) + 1
    BY <2>1, <2>3, OneMoreSaid
  <2>9. Len(seen') = Cardinality(OwnAt(messages'))
    BY <2>3, <2>7, <2>8
  <2> QED
    BY <2>2, <2>7, <2>8, <2>9 DEF Compared, OwnAt
<1>8. CASE ModelCalls
  <2>1. PICK tools \in Responses, text \in Texts :
          /\ messages' = messages \o <<Calling(CallIds(tools))>>
          /\ seen' = IF pattern = "react" THEN Append(seen, text) ELSE seen
    BY <1>8 DEF ModelCalls, Says
  <2>2. UNCHANGED <<setup, outcome>> /\ outcome # "completed"
    BY <1>8, <1>0 DEF ModelCalls
  <2>3. IsSequence(messages) /\ IsSequence(seen) /\ provider \in Providers
    BY DEF Compared
  <2>4. Own(Calling(CallIds(tools)))
    BY <2>3, CallsAreNew DEF Own, Calling
  <2>5. IsSequence(messages') /\ Cardinality(OwnAt(messages')) = Cardinality(OwnAt(messages)) + 1
    BY <2>1, <2>3, <2>4, OwnOfLonger
  <2>6. CASE pattern = "react"
    <3>1. IsSequence(seen') /\ Len(seen') = Len(seen) + 1
      BY <2>1, <2>3, <2>6, OneMoreSaid
    <3>2. Len(seen) = Cardinality(OwnAt(messages))
      BY <2>6 DEF Compared
    <3>3. Len(seen') = Cardinality(OwnAt(messages'))
      BY <2>5, <3>1, <3>2
    <3> QED
      BY <2>2, <2>5, <3>1, <3>3 DEF Compared, OwnAt
  <2>7. CASE pattern # "react"
    BY <2>1, <2>2, <2>5, <2>7 DEF Compared
  <2> QED
    BY <2>6, <2>7
<1>9. CASE ToolDecided
  <2>1. messages' = messages \o <<Result(Head(todo))>> /\ UNCHANGED <<setup, seen, outcome>> /\ outcome # "completed"
    BY <1>9, <1>0 DEF ToolDecided, Says
  <2>2. IsSequence(messages) /\ IsSequence(seen)
    BY DEF Compared
  <2>3. ~Own(Result(Head(todo)))
    BY DEF Own, Result
  <2>4. IsSequence(messages') /\ Cardinality(OwnAt(messages')) = Cardinality(OwnAt(messages))
    BY <2>1, <2>2, <2>3, OwnOfLonger
  <2> QED
    BY <2>1, <2>4 DEF Compared, OwnAt
<1>10. CASE UNCHANGED vars
  BY <1>10, StillCompared DEF vars
<1> QED
  BY <1>1, <1>2, <1>3, <1>4, <1>5, <1>6, <1>7, <1>8, <1>9, <1>10 DEF Next

\* react delivers no answer that repeats what the model said before in the
\* run, and what it compares with is all of it: AnswerIsNew, for any texts,
\* any number of iterations and calls, and any measure of likeness
\* (react.py's seen_assistant and is_loop).
THEOREM AnswersAreNew ==
  ASSUME NoToolIsPending
  PROVE  Spec => []AnswerIsNew
<1>1. Compared => AnswerIsNew
  BY DEF Compared, AnswerIsNew, SaidNow, OwnAt, Own
<1>2. Compared /\ [Next]_vars => Compared'
  BY NextCompared
<1> QED
  BY <1>1, <1>2, InitCompared, PTL DEF Spec

-----------------------------------------------------------------------------
\* None is no id of a call.
NoneIsNoCall == ~IsSequence(None)
AreCalls(ids) == \A k \in DOMAIN ids : ids[k] # None

\* Only the first message may be the system's; neither it nor a result calls.
WellFormed(ms) ==
  \A i \in DOMAIN ms :
    /\ IsSequence(ms[i].calls)
    /\ IsTurn(ms[i]) \/ (i = 1 /\ ms[i].answers = None /\ ms[i].calls = <<>>)
    /\ IsResult(ms[i]) => ms[i].calls = <<>>

\* Every call has its result at its place behind the turn, or is still due.
AnsweredOrDue(ms, due) ==
  \A i \in DOMAIN ms : \A k \in DOMAIN ms[i].calls :
    \/ i + k <= Len(ms) /\ ms[i + k].answers = ms[i].calls[k]
    \/ i + k - Len(ms) \in 1..Len(due) /\ due[i + k - Len(ms)] = ms[i].calls[k]

\* The turn at p is the one that the place i belongs to, and has a call for it.
Serves(ms, p, i) ==
  /\ p < i /\ ~IsResult(ms[p]) /\ i - p \in DOMAIN ms[p].calls
  /\ \A j \in (p + 1)..(i - 1) : IsResult(ms[j])
Sourced(ms) ==
  \A i \in DOMAIN ms : IsResult(ms[i]) =>
    \E p \in 1..(i - 1) : Serves(ms, p, i) /\ ms[p].calls[i - p] = ms[i].answers
Owing(ms, due) ==
  due # <<>> =>
    \E p \in DOMAIN ms :
      /\ Serves(ms, p, Len(ms) + 1)
      /\ Len(ms) + Len(due) = p + Len(ms[p].calls)
      /\ \A k \in 1..Len(due) : due[k] = ms[p].calls[Len(ms) - p + k]

Coherent(ms, due) ==
  /\ IsSequence(ms) /\ IsSequence(due) /\ AreCalls(due) /\ WellFormed(ms)
  /\ AnsweredOrDue(ms, due) /\ Sourced(ms) /\ Owing(ms, due)

Exchanged ==
  /\ window \in Windows /\ provider \in Providers
  /\ Coherent(messages, todo)
  /\ pc \notin {"tools", "ended"} => todo = <<>>

\* A list that goes on with one message.
LEMMA OneMore ==
  ASSUME NEW s, NEW m, IsSequence(s)
  PROVE  LET longer == s \o <<m>>
         IN  /\ Len(s) \in Nat /\ DOMAIN s = 1..Len(s)
             /\ IsSequence(longer) /\ Len(longer) = Len(s) + 1 /\ DOMAIN longer = 1..(Len(s) + 1)
             /\ longer[Len(s) + 1] = m /\ \A i \in 1..Len(s) : longer[i] = s[i]
<1>1. PICK S : s \in Seq(S)
  BY DEF IsSequence
<1> DEFINE T == S \cup {m}
           longer == s \o <<m>>
<1>2. s \in Seq(T) /\ <<m>> \in Seq(T) /\ Len(s) \in Nat /\ DOMAIN s = 1..Len(s)
  BY <1>1
<1>3. /\ longer \in Seq(T) /\ Len(longer) = Len(s) + 1 /\ DOMAIN longer = 1..(Len(s) + 1)
      /\ longer[Len(s) + 1] = m /\ \A i \in 1..Len(s) : longer[i] = s[i]
  BY <1>2
<1> QED
  BY <1>2, <1>3 DEF IsSequence

LEMMA SequenceDomain ==
  ASSUME NEW s, IsSequence(s)
  PROVE  Len(s) \in Nat /\ DOMAIN s = 1..Len(s)
  BY DEF IsSequence

\* What is called for and sourced in a list is so in a longer one.
LEMMA LongerSourced ==
  ASSUME NEW ms, NEW due, NEW m, Coherent(ms, due), ~IsResult(m)
  PROVE  Sourced(ms \o <<m>>)
<1> DEFINE longer == ms \o <<m>>
           n == Len(ms)
<1>1. IsSequence(ms) /\ Sourced(ms)
  BY DEF Coherent
<1>2. /\ n \in Nat /\ DOMAIN ms = 1..n /\ DOMAIN longer = 1..(n + 1)
      /\ longer[n + 1] = m /\ \A i \in 1..n : longer[i] = ms[i]
  BY <1>1, OneMore
<1> HIDE DEF longer, n
<1> SUFFICES ASSUME NEW i \in DOMAIN longer, IsResult(longer[i])
             PROVE  \E p \in 1..(i - 1) : Serves(longer, p, i) /\ longer[p].calls[i - p] = longer[i].answers
  BY DEF Sourced, longer
<1>3. i \in 1..n
  BY <1>2
<1>4. PICK p \in 1..(i - 1) : Serves(ms, p, i) /\ ms[p].calls[i - p] = ms[i].answers
  BY <1>1, <1>2, <1>3 DEF Sourced
<1>5. \A j \in 1..i : longer[j] = ms[j]
  BY <1>2, <1>3
<1>6. Serves(longer, p, i) /\ longer[p].calls[i - p] = longer[i].answers
  BY <1>2, <1>3, <1>4, <1>5 DEF Serves
<1> QED
  BY <1>6

\* A message that neither calls nor answers, after all results are there.
Plain(m) == m.calls = <<>> /\ m.answers = None /\ IsTurn(m)

LEMMA NothingDue == AreCalls(<<>>) /\ Len(<<>>) = 0 /\ DOMAIN <<>> = {}
  BY DEF AreCalls

LEMMA PlainCoheres ==
  ASSUME NEW ms, NEW m, Coherent(ms, <<>>), Plain(m)
  PROVE  Coherent(ms \o <<m>>, <<>>)
<1> DEFINE longer == ms \o <<m>>
           n == Len(ms)
<1>1. IsSequence(ms) /\ WellFormed(ms) /\ AnsweredOrDue(ms, <<>>)
  BY DEF Coherent
<1>2. /\ n \in Nat /\ DOMAIN ms = 1..n /\ DOMAIN longer = 1..(n + 1)
      /\ longer[n + 1] = m /\ \A i \in 1..n : longer[i] = ms[i]
      /\ IsSequence(longer) /\ Len(longer) = n + 1
  BY <1>1, OneMore
<1>3. Sourced(longer)
  BY LongerSourced DEF Plain, IsResult
<1> HIDE DEF longer, n
<1>4. WellFormed(longer)
  <2>1. ASSUME NEW i \in 1..n
        PROVE  /\ IsSequence(longer[i].calls)
               /\ IsTurn(longer[i]) \/ (i = 1 /\ longer[i].answers = None /\ longer[i].calls = <<>>)
               /\ IsResult(longer[i]) => longer[i].calls = <<>>
    BY <1>1, <1>2 DEF WellFormed
  <2>2. /\ IsSequence(longer[n + 1].calls)
        /\ IsTurn(longer[n + 1])
        /\ IsResult(longer[n + 1]) => longer[n + 1].calls = <<>>
    BY <1>2, Nothing DEF Plain
  <2>3. DOMAIN longer = 1..n \cup {n + 1}
    BY <1>2
  <2> QED
    BY <2>1, <2>2, <2>3 DEF WellFormed
<1>5. AnsweredOrDue(longer, <<>>)
  <2> SUFFICES ASSUME NEW i \in DOMAIN longer, NEW k \in DOMAIN longer[i].calls
               PROVE  i + k <= Len(longer) /\ longer[i + k].answers = longer[i].calls[k]
    BY DEF AnsweredOrDue
  <2>1. i \in 1..n
    BY <1>2, NothingDue DEF Plain
  <2>2. k \in Nat \ {0}
    <3>1. IsSequence(ms[i].calls) /\ longer[i] = ms[i]
      BY <1>1, <1>2, <2>1 DEF WellFormed
    <3> QED
      BY <3>1, SequenceDomain
  <2>3. i + k <= n /\ ms[i + k].answers = ms[i].calls[k]
    BY <1>1, <1>2, <2>1, <2>2, NothingDue DEF AnsweredOrDue, n
  <2> QED
    BY <1>2, <2>1, <2>2, <2>3
<1> QED
  BY <1>2, <1>3, <1>4, <1>5, Nothing, NothingDue DEF Coherent, Owing, longer

\* A turn with calls, after all results are there: its own are due.
LEMMA CallingCoheres ==
  ASSUME NEW ms, NEW ids, Coherent(ms, <<>>), IsSequence(ids), AreCalls(ids)
  PROVE  Coherent(ms \o <<Calling(ids)>>, ids)
<1> DEFINE m == Calling(ids)
           longer == ms \o <<m>>
           n == Len(ms)
<1>0. m.calls = ids /\ m.answers = None /\ m.role = "assistant"
  BY DEF Calling
<1>1. IsSequence(ms) /\ WellFormed(ms) /\ AnsweredOrDue(ms, <<>>)
  BY DEF Coherent
<1> HIDE DEF m
<1>2. /\ n \in Nat /\ DOMAIN ms = 1..n /\ DOMAIN longer = 1..(n + 1)
      /\ longer[n + 1] = m /\ \A i \in 1..n : longer[i] = ms[i]
      /\ IsSequence(longer) /\ Len(longer) = n + 1
  BY <1>1, OneMore
<1>3. Sourced(longer)
  BY <1>0, LongerSourced DEF IsResult
<1> HIDE DEF longer, n
<1>4. WellFormed(longer)
  <2>1. ASSUME NEW i \in 1..n
        PROVE  /\ IsSequence(longer[i].calls)
               /\ IsTurn(longer[i]) \/ (i = 1 /\ longer[i].answers = None /\ longer[i].calls = <<>>)
               /\ IsResult(longer[i]) => longer[i].calls = <<>>
    BY <1>1, <1>2 DEF WellFormed
  <2>2. IsSequence(longer[n + 1].calls) /\ IsTurn(longer[n + 1]) /\ ~IsResult(longer[n + 1])
    BY <1>0, <1>2 DEF IsTurn, IsResult
  <2>3. DOMAIN longer = 1..n \cup {n + 1}
    BY <1>2
  <2> QED
    BY <2>1, <2>2, <2>3 DEF WellFormed
<1>5. Len(ids) \in Nat /\ DOMAIN ids = 1..Len(ids)
  BY SequenceDomain
<1>6. AnsweredOrDue(longer, ids)
  <2> SUFFICES ASSUME NEW i \in DOMAIN longer, NEW k \in DOMAIN longer[i].calls
               PROVE  \/ i + k <= Len(longer) /\ longer[i + k].answers = longer[i].calls[k]
                      \/ i + k - Len(longer) \in 1..Len(ids) /\ ids[i + k - Len(longer)] = longer[i].calls[k]
    BY DEF AnsweredOrDue
  <2>1. CASE i \in 1..n
    <3>1. IsSequence(ms[i].calls) /\ longer[i] = ms[i]
      BY <1>1, <1>2, <2>1 DEF WellFormed
    <3>2. k \in Nat \ {0}
      BY <3>1, SequenceDomain
    <3>3. i + k <= n /\ ms[i + k].answers = ms[i].calls[k]
      BY <1>1, <1>2, <2>1, <3>1, <3>2, NothingDue DEF AnsweredOrDue, n
    <3> QED
      BY <1>2, <2>1, <3>2, <3>3
  <2>2. CASE i = n + 1
    <3>1. k \in 1..Len(ids) /\ longer[i].calls = ids
      BY <1>0, <1>2, <1>5, <2>2
    <3>2. i + k - Len(longer) = k
      BY <1>2, <1>5, <2>2, <3>1
    <3> QED
      BY <3>1, <3>2
  <2> QED
    BY <1>2, <2>1, <2>2
<1>7. Owing(longer, ids)
  <2> SUFFICES ASSUME ids # <<>>
               PROVE  /\ Serves(longer, n + 1, Len(longer) + 1)
                      /\ Len(longer) + Len(ids) = n + 1 + Len(longer[n + 1].calls)
                      /\ \A k \in 1..Len(ids) : ids[k] = longer[n + 1].calls[Len(longer) - (n + 1) + k]
    <3>1. n + 1 \in DOMAIN longer
      BY <1>2
    <3> QED
      BY <3>1 DEF Owing
  <2>1. Len(ids) # 0
    BY DEF IsSequence
  <2>2. 1 \in DOMAIN ids
    BY <1>5, <2>1
  <2>3. Serves(longer, n + 1, n + 2)
    <3>1. (n + 2) - (n + 1) = 1 /\ ((n + 1) + 1)..((n + 2) - 1) = {} /\ n + 1 < n + 2
      BY <1>2
    <3> QED
      BY <1>0, <1>2, <2>2, <3>1 DEF Serves, IsResult
  <2>4. Len(longer) + 1 = n + 2
    BY <1>2
  <2>5. \A k \in 1..Len(ids) : Len(longer) - (n + 1) + k = k
    BY <1>2, <1>5
  <2>6. Len(longer) + Len(ids) = n + 1 + Len(longer[n + 1].calls)
    BY <1>0, <1>2
  <2> QED
    BY <1>0, <1>2, <2>3, <2>4, <2>5, <2>6
<1> QED
  BY <1>2, <1>3, <1>4, <1>6, <1>7 DEF Coherent, longer, m

LEMMA HeadAndTail ==
  ASSUME NEW s, IsSequence(s), s # <<>>
  PROVE  /\ IsSequence(Tail(s)) /\ Len(s) \in Nat \ {0} /\ Len(Tail(s)) = Len(s) - 1
         /\ Head(s) = s[1] /\ \A k \in 1..(Len(s) - 1) : Tail(s)[k] = s[k + 1]
<1>1. PICK S : s \in Seq(S)
  BY DEF IsSequence
<1>2. Tail(s) \in Seq(S)
  BY <1>1
<1> QED
  BY <1>1, <1>2 DEF IsSequence

\* The first of the calls due has its result.
LEMMA ResultCoheres ==
  ASSUME NEW ms, NEW due, Coherent(ms, due), due # <<>>
  PROVE  Coherent(ms \o <<Result(Head(due))>>, Tail(due))
<1> DEFINE m == Result(Head(due))
           rest == Tail(due)
           longer == ms \o <<m>>
           n == Len(ms)
<1>1. /\ IsSequence(ms) /\ IsSequence(due) /\ AreCalls(due) /\ WellFormed(ms)
      /\ AnsweredOrDue(ms, due) /\ Sourced(ms)
  BY DEF Coherent
<1>2. PICK p \in DOMAIN ms :
        /\ Serves(ms, p, n + 1) /\ n + Len(due) = p + Len(ms[p].calls)
        /\ \A k \in 1..Len(due) : due[k] = ms[p].calls[n - p + k]
  BY DEF Coherent, Owing
<1>3. /\ IsSequence(rest) /\ Len(due) \in Nat \ {0} /\ Len(rest) = Len(due) - 1
      /\ Head(due) = due[1] /\ \A k \in 1..(Len(due) - 1) : rest[k] = due[k + 1]
  BY <1>1, HeadAndTail
<1>4. DOMAIN due = 1..Len(due)
  BY <1>1, SequenceDomain
<1>5. AreCalls(rest)
  <2>1. DOMAIN rest = 1..Len(rest)
    BY <1>3, SequenceDomain
  <2> HIDE DEF rest
  <2> SUFFICES ASSUME NEW k \in 1..Len(rest) PROVE rest[k] # None
    BY <2>1 DEF AreCalls
  <2>2. k \in 1..(Len(due) - 1) /\ k + 1 \in 1..Len(due)
    BY <1>3
  <2>3. rest[k] = due[k + 1] /\ k + 1 \in DOMAIN due
    BY <1>3, <1>4, <2>2
  <2> QED
    BY <1>1, <2>3 DEF AreCalls
<1>6. m.calls = <<>> /\ m.answers = due[1] /\ m.role = "tool" /\ due[1] # None
  BY <1>1, <1>3, <1>4 DEF Result, AreCalls
<1> HIDE DEF m, rest
<1>7. /\ n \in Nat /\ DOMAIN ms = 1..n /\ DOMAIN longer = 1..(n + 1)
      /\ longer[n + 1] = m /\ \A i \in 1..n : longer[i] = ms[i]
      /\ IsSequence(longer) /\ Len(longer) = n + 1
  BY <1>1, OneMore
<1> HIDE DEF longer, n
<1>8. /\ p \in 1..n /\ ~IsResult(ms[p]) /\ n + 1 - p \in DOMAIN ms[p].calls
      /\ \A j \in (p + 1)..n : IsResult(ms[j])
      /\ IsSequence(ms[p].calls) /\ Len(ms[p].calls) \in Nat /\ DOMAIN ms[p].calls = 1..Len(ms[p].calls)
  <2>1. p \in 1..n /\ (n + 1) - 1 = n
    BY <1>7
  <2>2. IsSequence(ms[p].calls)
    BY <1>1 DEF WellFormed
  <2>3. Len(ms[p].calls) \in Nat /\ DOMAIN ms[p].calls = 1..Len(ms[p].calls)
    BY <2>2, SequenceDomain
  <2>4. ~IsResult(ms[p]) /\ n + 1 - p \in DOMAIN ms[p].calls /\ \A j \in (p + 1)..((n + 1) - 1) : IsResult(ms[j])
    BY <1>2, <1>7, <2>1 DEF Serves
  <2> QED
    BY <2>1, <2>2, <2>3, <2>4
<1>9. ms[p].calls[n + 1 - p] = due[1]
  <2>1. 1 \in 1..Len(due) /\ n - p + 1 = n + 1 - p
    BY <1>3, <1>7, <1>8
  <2> QED
    BY <1>2, <2>1
<1>10. WellFormed(longer)
  <2>1. ASSUME NEW i \in 1..n
        PROVE  /\ IsSequence(longer[i].calls)
               /\ IsTurn(longer[i]) \/ (i = 1 /\ longer[i].answers = None /\ longer[i].calls = <<>>)
               /\ IsResult(longer[i]) => longer[i].calls = <<>>
    BY <1>1, <1>7 DEF WellFormed
  <2>2. IsSequence(longer[n + 1].calls) /\ IsTurn(longer[n + 1]) /\ longer[n + 1].calls = <<>>
    BY <1>6, <1>7, Nothing DEF IsTurn
  <2>3. DOMAIN longer = 1..n \cup {n + 1}
    BY <1>7
  <2> QED
    BY <2>1, <2>2, <2>3 DEF WellFormed
<1>11. AnsweredOrDue(longer, rest)
  <2> SUFFICES ASSUME NEW i \in DOMAIN longer, NEW k \in DOMAIN longer[i].calls
               PROVE  \/ i + k <= Len(longer) /\ longer[i + k].answers = longer[i].calls[k]
                      \/ i + k - Len(longer) \in 1..Len(rest) /\ rest[i + k - Len(longer)] = longer[i].calls[k]
    BY DEF AnsweredOrDue
  <2>1. i \in 1..n
    BY <1>6, <1>7, NothingDue
  <2>2. IsSequence(ms[i].calls) /\ longer[i] = ms[i]
    BY <1>1, <1>7, <2>1 DEF WellFormed
  <2>3. k \in Nat \ {0} /\ k \in DOMAIN ms[i].calls
    BY <2>2, SequenceDomain
  <2>4. \/ i + k <= n /\ ms[i + k].answers = ms[i].calls[k]
        \/ i + k - n \in 1..Len(due) /\ due[i + k - n] = ms[i].calls[k]
    BY <1>1, <1>7, <2>1, <2>3 DEF AnsweredOrDue, n
  <2>5. CASE i + k <= n
    BY SMTT(20), <1>3, <1>7, <2>1, <2>2, <2>3, <2>4, <2>5
  <2>6. CASE i + k = n + 1
    <3>1. i + k - n = 1
      BY <1>7, <2>1, <2>3, <2>6
    <3>2. due[1] = ms[i].calls[k]
      BY <1>7, <2>1, <2>3, <2>4, <2>6, <3>1
    <3> QED
      BY <1>6, <1>7, <2>2, <2>6, <3>2
  <2>7. CASE i + k > n + 1
    <3> DEFINE q == i + k - (n + 1)
    <3>1. q \in Nat /\ i + k - n = q + 1 /\ ~(i + k <= n) /\ q # 0
      BY <1>7, <2>1, <2>3, <2>7
    <3>2. q + 1 \in 1..Len(due) /\ due[q + 1] = ms[i].calls[k]
      BY <2>4, <3>1
    <3>3. q \in 1..Len(rest) /\ q \in 1..(Len(due) - 1)
      BY <1>3, <3>1, <3>2
    <3>4. rest[q] = due[q + 1]
      BY <1>3, <3>3
    <3> QED
      BY <1>7, <2>2, <3>2, <3>3, <3>4
  <2> QED
    BY <1>7, <2>1, <2>3, <2>5, <2>6, <2>7
<1>12. Serves(longer, p, n + 1) /\ longer[p].calls[n + 1 - p] = due[1]
  <2>1. longer[p] = ms[p] /\ \A j \in (p + 1)..n : longer[j] = ms[j]
    BY <1>7, <1>8
  <2>2. p < n + 1 /\ (n + 1) - 1 = n
    BY <1>7, <1>8
  <2>3. ~IsResult(longer[p]) /\ n + 1 - p \in DOMAIN longer[p].calls
    BY <1>8, <2>1
  <2>4. \A j \in (p + 1)..((n + 1) - 1) : IsResult(longer[j])
    BY <1>8, <2>1, <2>2
  <2>5. Serves(longer, p, n + 1)
    BY <1>7, <1>8, <2>2, <2>3, <2>4 DEF Serves
  <2> QED
    BY <1>9, <2>1, <2>5
<1>13. Sourced(longer)
  <2> SUFFICES ASSUME NEW i \in DOMAIN longer, IsResult(longer[i])
               PROVE  \E q \in 1..(i - 1) : Serves(longer, q, i) /\ longer[q].calls[i - q] = longer[i].answers
    BY DEF Sourced
  <2>1. CASE i \in 1..n
    <3>1. PICK q \in 1..(i - 1) : Serves(ms, q, i) /\ ms[q].calls[i - q] = ms[i].answers
      BY <1>1, <1>7, <2>1 DEF Sourced
    <3>2. \A j \in 1..i : longer[j] = ms[j]
      BY <1>7, <2>1
    <3>3. Serves(longer, q, i) /\ longer[q].calls[i - q] = longer[i].answers
      BY <1>7, <2>1, <3>1, <3>2 DEF Serves
    <3> QED
      BY <3>3
  <2>2. CASE i = n + 1
    BY <1>6, <1>7, <1>8, <1>12, <2>2
  <2> QED
    BY <1>7, <2>1, <2>2
<1>14. Owing(longer, rest)
  <2> SUFFICES ASSUME rest # <<>>
               PROVE  /\ Serves(longer, p, n + 2)
                      /\ (n + 1) + Len(rest) = p + Len(longer[p].calls)
                      /\ \A k \in 1..Len(rest) : rest[k] = longer[p].calls[(n + 1) - p + k]
    <3>1. p \in DOMAIN longer /\ Len(longer) = n + 1 /\ Len(longer) + 1 = n + 2
      BY <1>7, <1>8
    <3> QED
      BY <3>1 DEF Owing
  <2>1. Len(rest) # 0
    BY <1>3 DEF IsSequence
  <2>2. longer[p] = ms[p] /\ \A j \in (p + 1)..n : longer[j] = ms[j]
    BY <1>7, <1>8
  <2>3. n + 2 - p \in DOMAIN longer[p].calls
    <3>1. n + Len(due) = p + Len(ms[p].calls) /\ Len(due) >= 2
      BY <1>2, <1>3, <2>1
    <3>2. \A a, b, c, e \in Nat : a + b = c + e /\ b >= 2 /\ c <= a => a + 2 - c \in 1..e
      OBVIOUS
    <3>3. p \in Nat /\ p <= n
      BY <1>7, <1>8
    <3>4. n + 2 - p \in 1..Len(ms[p].calls)
      BY <1>7, <1>8, <1>3, <3>1, <3>2, <3>3
    <3> QED
      BY <1>8, <2>2, <3>4
  <2>4. \A j \in (p + 1)..(n + 2 - 1) : IsResult(longer[j])
    <3>1. IsResult(longer[n + 1])
      BY <1>6, <1>7 DEF IsResult
    <3>2. \A j \in (p + 1)..n : IsResult(longer[j])
      BY <1>8, <2>2
    <3>3. \A j \in (p + 1)..(n + 2 - 1) : j = n + 1 \/ j \in (p + 1)..n
      BY <1>7, <1>8
    <3> QED
      BY <3>1, <3>2, <3>3
  <2>5. Serves(longer, p, n + 2)
    <3>1. p < n + 2
      BY <1>7, <1>8
    <3>2. ~IsResult(longer[p])
      BY <1>8, <2>2
    <3> QED
      BY <1>7, <1>8, <2>3, <2>4, <3>1, <3>2 DEF Serves
  <2>6. (n + 1) + Len(rest) = p + Len(longer[p].calls)
    BY <1>2, <1>3, <1>7, <1>8, <2>2
  <2>7. ASSUME NEW k \in 1..Len(rest)
        PROVE  rest[k] = longer[p].calls[(n + 1) - p + k]
    <3>1. k \in 1..(Len(due) - 1) /\ k + 1 \in 1..Len(due) /\ n - p + (k + 1) = (n + 1) - p + k
      BY <1>3, <1>7, <1>8, <2>7
    <3>2. rest[k] = due[k + 1]
      BY <1>3, <3>1
    <3>3. due[k + 1] = ms[p].calls[n - p + (k + 1)]
      BY <1>2, <3>1
    <3> QED
      BY <2>2, <3>1, <3>2, <3>3
  <2> QED
    BY <2>5, <2>6, <2>7
<1> QED
  BY <1>3, <1>5, <1>7, <1>10, <1>11, <1>13, <1>14 DEF Coherent, longer, m, rest

LEMMA ListedIsSequence ==
  ASSUME NEW n \in Nat, NEW f, DOMAIN f = 1..n, f = [k \in 1..n |-> f[k]]
  PROVE  IsSequence(f)
<1> DEFINE S == {f[k] : k \in 1..n}
<1>1. f \in [1..n -> S]
  OBVIOUS
<1> HIDE DEF S
<1>2. f \in Seq(S)
  BY ONLY n \in Nat, <1>1
<1> QED
  BY <1>2 DEF IsSequence

\* The ids of a response's calls.
LEMMA CallIdsAreCalls ==
  ASSUME NoneIsNoCall, provider \in Providers, NEW tools \in Responses
  PROVE  IsSequence(CallIds(tools)) /\ AreCalls(CallIds(tools))
<1>1. PICK n \in 1..MaxCalls : tools \in [1..n -> Tools]
  BY DEF Responses
<1>2. n \in Nat
  BY <1>1
<1> DEFINE ids == CallIds(tools)
<1>3. /\ DOMAIN ids = 1..n /\ ids = [k \in 1..n |-> ids[k]]
      /\ \A k \in 1..n : \E t : ids[k] = <<t, loops, k>> \/ ids[k] = <<t>>
  <2>1. CASE provider \in {"openai", "anthropic"}
    <3>1. ids = [k \in 1..n |-> <<tools[k], loops, k>>]
      BY <1>1, <2>1 DEF CallIds, OpenAiCalls, AnthropicCalls
    <3> HIDE DEF ids
    <3> QED
      BY <3>1
  <2>2. CASE provider \in {"google", "vertex"}
    <3>1. ids = [k \in 1..n |-> <<tools[k]>>]
      BY <1>1, <2>2 DEF CallIds, GoogleCalls
    <3> HIDE DEF ids
    <3> QED
      BY <3>1
  <2> QED
    BY <2>1, <2>2 DEF Providers
<1> HIDE DEF ids
<1>4. \A t, l, k : <<t, l, k>> \in Seq({t, l, k}) /\ <<t>> \in Seq({t})
  OBVIOUS
<1>5. \A t, l, k : <<t, l, k>> # None /\ <<t>> # None
  <2>1. \A t, l, k : IsSequence(<<t, l, k>>) /\ IsSequence(<<t>>)
    BY <1>4 DEF IsSequence
  <2> QED
    BY <2>1 DEF NoneIsNoCall
<1>6. AreCalls(ids)
  BY <1>3, <1>5 DEF AreCalls
<1>7. IsSequence(ids)
  BY <1>2, <1>3, ListedIsSequence
<1> QED
  BY <1>6, <1>7 DEF ids

LEMMA NothingCoheres == Coherent(<<>>, <<>>)
  BY Nothing, NothingDue DEF Coherent, WellFormed, AnsweredOrDue, Sourced, Owing

LEMMA SystemCoheres == Coherent(<<System>>, <<>>)
<1> DEFINE ms == <<System>>
<1>1. IsSequence(ms) /\ Len(ms) = 1 /\ ms[1] = System /\ DOMAIN ms = {1}
  <2>1. ms \in Seq({System}) /\ DOMAIN ms = {1}
    OBVIOUS
  <2> QED
    BY <2>1, OneMessage
<1>2. System.calls = <<>> /\ System.answers = None
  BY DEF System, Said
<1> HIDE DEF ms
<1>3. WellFormed(ms)
  BY <1>1, <1>2, Nothing DEF WellFormed, IsResult
<1>4. AnsweredOrDue(ms, <<>>) /\ Sourced(ms)
  BY <1>1, <1>2, NothingDue DEF AnsweredOrDue, Sourced, IsResult
<1> QED
  BY <1>1, <1>3, <1>4, Nothing, NothingDue DEF Coherent, Owing, ms

LEMMA SpokenIsPlain == Plain(User) /\ Plain(Said("assistant"))
  BY DEF Plain, User, Said, IsTurn

\* Every run begins with a coherent list.
LEMMA OpeningCoheres ==
  ASSUME NoneIsNoCall, NEW p, NEW system \in BOOLEAN, NEW resumed \in BOOLEAN,
         NEW history \in {<<>>, <<User, Said("assistant")>>}
  PROVE  Coherent(Opening(p, system, history, resumed), <<>>)
<1>1. PICK head \in {<<>>, <<System>>}, past \in {<<>>, <<User, Said("assistant")>>} :
        Opening(p, system, history, resumed) = ((head \o past) \o <<User>>) \o Replay(resumed)
  BY DEF Opening
<1>2. Coherent(head, <<>>)
  BY NothingCoheres, SystemCoheres
<1> DEFINE one == head \o past
           two == one \o <<User>>
           three == two \o <<Calling(<<Pending>>)>>
           four == three \o <<Result(Pending)>>
<1>3. Coherent(one, <<>>)
  <2>1. CASE past = <<>>
    <3>1. one = head
      BY <1>2, <2>1 DEF Coherent, IsSequence
    <3> QED
      BY <1>2, <3>1
  <2>2. CASE past = <<User, Said("assistant")>>
    <3>1. one = (head \o <<User>>) \o <<Said("assistant")>>
      BY <1>2, <2>2, TwoAtOnce DEF Coherent
    <3>2. Coherent(head \o <<User>>, <<>>)
      BY <1>2, PlainCoheres, SpokenIsPlain
    <3>3. Coherent((head \o <<User>>) \o <<Said("assistant")>>, <<>>)
      BY <3>2, PlainCoheres, SpokenIsPlain
    <3> QED
      BY <3>1, <3>3
  <2> QED
    BY <2>1, <2>2
<1> HIDE DEF one
<1>4. Coherent(two, <<>>)
  BY <1>3, PlainCoheres, SpokenIsPlain
<1> HIDE DEF two
<1>5. IsSequence(<<Pending>>) /\ AreCalls(<<Pending>>) /\ <<Pending>> # <<>>
  <2>1. Pending # None
    <3>1. Pending \in Seq({"pending"})
      BY DEF Pending
    <3> QED
      BY <3>1 DEF NoneIsNoCall, IsSequence
  <2>2. DOMAIN <<Pending>> = {1} /\ <<Pending>>[1] = Pending /\ <<Pending>> # <<>>
    OBVIOUS
  <2> QED
    BY <2>1, <2>2, OneMessage DEF AreCalls
<1>6. Coherent(three, <<Pending>>)
  BY <1>4, <1>5, CallingCoheres
<1> HIDE DEF three
<1>7. Coherent(four, <<>>)
  <2>1. Head(<<Pending>>) = Pending /\ Tail(<<Pending>>) = <<>>
    <3>1. <<Pending>> \in Seq({Pending}) /\ Len(<<Pending>>) = 1
      OBVIOUS
    <3>2. Tail(<<Pending>>) \in Seq({Pending}) /\ Len(Tail(<<Pending>>)) = 0
      BY <3>1
    <3> QED
      BY <3>2
  <2>2. Coherent(three \o <<Result(Head(<<Pending>>))>>, Tail(<<Pending>>))
    BY <1>5, <1>6, ResultCoheres
  <2> QED
    BY <2>1, <2>2
<1>8. CASE resumed
  <2>1. Opening(p, system, history, resumed) = two \o <<Calling(<<Pending>>), Result(Pending)>>
    BY <1>1, <1>8 DEF Replay, two, one
  <2>2. two \o <<Calling(<<Pending>>), Result(Pending)>> = four
    BY <1>4, TwoAtOnce DEF Coherent, three, four
  <2> QED
    BY <1>7, <2>1, <2>2
<1>9. CASE ~resumed
  <2>1. Opening(p, system, history, resumed) = two \o <<>>
    BY <1>1, <1>9 DEF Replay, two, one
  <2>2. two \o <<>> = two
    BY <1>4 DEF Coherent, IsSequence
  <2> QED
    BY <1>4, <2>1, <2>2
<1> QED
  BY <1>8, <1>9

LEMMA InitExchanged == NoneIsNoCall /\ Init => Exchanged
<1> SUFFICES ASSUME NoneIsNoCall, Init PROVE Exchanged
  OBVIOUS
<1>1. PICK system \in BOOLEAN, resumed \in BOOLEAN, history \in {<<>>, <<User, Said("assistant")>>} :
        messages = Opening(pattern, system, history, resumed)
  BY DEF Init
<1>2. Coherent(messages, <<>>)
  BY <1>1, OpeningCoheres
<1> QED
  BY <1>2 DEF Init, Exchanged

\* A step that leaves the list and what is due alone.
LEMMA StillExchanged ==
  ASSUME Exchanged, UNCHANGED <<setup, messages, todo>>,
         pc' \notin {"tools", "ended"} => todo = <<>>
  PROVE  Exchanged'
  BY DEF Exchanged

LEMMA NextExchanged == NoneIsNoCall /\ Exchanged /\ [Next]_vars => Exchanged'
<1> SUFFICES ASSUME NoneIsNoCall, Exchanged, [Next]_vars PROVE Exchanged'
  OBVIOUS
<1>0. pc \notin {"tools", "ended"} => todo = <<>>
  BY DEF Exchanged
<1>1. CASE NextLoop
  BY <1>1, <1>0, StillExchanged DEF NextLoop
<1>2. CASE Summarised \/ RateLimited \/ TriesAgain
  BY <1>2, <1>0, StillExchanged DEF Summarised, RateLimited, TriesAgain, Backoff
<1>3. CASE LoopsExhausted \/ ChatFails \/ BudgetSpent \/ ToolSuspends \/ ToolsDone
  BY <1>3, StillExchanged DEF LoopsExhausted, ChatFails, BudgetSpent, ToolSuspends, ToolsDone, Ends
<1>4. CASE SimpleAnswer \/ SimpleFallback \/ ReactAnswer
  BY <1>4, StillExchanged DEF SimpleAnswer, SimpleFallback, ReactAnswer, Answers, Ends
<1>5. CASE SimpleNudge
  <2>1. messages' = messages \o <<User>> /\ UNCHANGED <<setup, todo>> /\ todo = <<>>
    BY <1>5, <1>0 DEF SimpleNudge, Says
  <2>2. Coherent(messages, <<>>)
    BY <2>1 DEF Exchanged
  <2>3. Coherent(messages', <<>>)
    BY <2>1, <2>2, PlainCoheres, SpokenIsPlain
  <2> QED
    BY <2>1, <2>3 DEF Exchanged
<1>6. CASE ReactNudge
  <2>1. messages' = messages \o <<Said("assistant"), User>> /\ UNCHANGED <<setup, todo>> /\ todo = <<>>
    BY <1>6, <1>0 DEF ReactNudge, Says
  <2>2. Coherent(messages, <<>>)
    BY <2>1 DEF Exchanged
  <2>3. Coherent(messages \o <<Said("assistant")>>, <<>>)
    BY <2>2, PlainCoheres, SpokenIsPlain
  <2>4. Coherent((messages \o <<Said("assistant")>>) \o <<User>>, <<>>)
    BY <2>3, PlainCoheres, SpokenIsPlain
  <2>5. messages' = (messages \o <<Said("assistant")>>) \o <<User>>
    BY <2>1, <2>2, TwoAtOnce DEF Coherent
  <2> QED
    BY <2>1, <2>4, <2>5 DEF Exchanged
<1>7. CASE ModelCalls
  <2>1. PICK tools \in Responses : messages' = messages \o <<Calling(CallIds(tools))>> /\ todo' = CallIds(tools)
    BY <1>7 DEF ModelCalls, Says
  <2>2. UNCHANGED setup /\ todo = <<>> /\ pc' = "tools"
    BY <1>7, <1>0 DEF ModelCalls
  <2>3. Coherent(messages, <<>>) /\ provider \in Providers
    BY <2>2 DEF Exchanged
  <2>4. IsSequence(CallIds(tools)) /\ AreCalls(CallIds(tools))
    BY <2>3, CallIdsAreCalls
  <2>5. Coherent(messages', todo')
    BY <2>1, <2>3, <2>4, CallingCoheres
  <2> QED
    BY <2>2, <2>5 DEF Exchanged
<1>8. CASE ToolDecided
  <2>1. messages' = messages \o <<Result(Head(todo))>> /\ todo' = Tail(todo) /\ UNCHANGED <<setup, pc>>
    BY <1>8 DEF ToolDecided, Says
  <2>2. todo # <<>> /\ pc = "tools" /\ Coherent(messages, todo)
    BY <1>8 DEF ToolDecided, Exchanged
  <2>3. Coherent(messages', todo')
    BY <2>1, <2>2, ResultCoheres
  <2> QED
    BY <2>1, <2>2, <2>3 DEF Exchanged
<1>9. CASE UNCHANGED vars
  BY <1>9, <1>0, StillExchanged DEF vars
<1> QED
  BY <1>1, <1>2, <1>3, <1>4, <1>5, <1>6, <1>7, <1>8, <1>9 DEF Next

-----------------------------------------------------------------------------
\* A list whose system messages come first, without them.
LEMMA TurnsOfLed ==
  ASSUME NEW ms, NEW h \in Nat, Len(ms) \in Nat, h <= Len(ms), DOMAIN ms = 1..Len(ms),
         \A i \in 1..Len(ms) : IsTurn(ms[i]) <=> i > h
  PROVE  DOMAIN Turns(ms) = 1..(Len(ms) - h) /\ \A k \in 1..(Len(ms) - h) : Turns(ms)[k] = ms[h + k]
<1> DEFINE system == {i \in DOMAIN ms : ~IsTurn(ms[i])}
           Place(k) == CHOOSE i \in DOMAIN ms \ system : i = k + Cardinality({j \in system : j < i})
<1>1. system = 1..h
  OBVIOUS
<1>2. Cardinality(1..h) = h
  BY FS_Interval
<1>3. Turns(ms) = [k \in 1..(Len(ms) - h) |-> ms[Place(k)]]
  BY <1>1, <1>2 DEF Turns
<1>4. ASSUME NEW k \in 1..(Len(ms) - h) PROVE Place(k) = h + k
  <2>1. \A i \in DOMAIN ms \ system : {j \in system : j < i} = 1..h
    BY <1>1
  <2>2. h + k \in DOMAIN ms \ system
    BY <1>1
  <2> HIDE DEF system
  <2>3. \A i \in DOMAIN ms \ system : Cardinality({j \in system : j < i}) = h
    BY <1>2, <2>1
  <2>4. \A i \in DOMAIN ms \ system : i = k + Cardinality({j \in system : j < i}) <=> i = k + h
    BY <2>3
  <2> QED
    BY <2>2, <2>4
<1> HIDE DEF Place, system
<1> QED
  BY <1>3, <1>4

\* What goes on the wire is some first messages that call nothing, then the
\* end of the list as it stands.
EndsLike(w, ms, d, e) ==
  /\ Len(w) \in Nat /\ DOMAIN w = 1..Len(w) /\ Len(w) + d = Len(ms)
  /\ \A i \in 1..Len(w) : IF i <= e THEN w[i].calls = <<>> /\ w[i].answers = None
                          ELSE w[i].calls = ms[i + d].calls /\ w[i].answers = ms[i + d].answers

LEMMA EndIsAnswered ==
  ASSUME NEW ms, NEW w, NEW d \in Nat, NEW e \in Nat,
         Coherent(ms, <<>>), EndsLike(w, ms, d, e)
  PROVE  CallsAnswered(w)
<1> SUFFICES ASSUME NEW i \in DOMAIN w, NEW k \in DOMAIN w[i].calls
             PROVE  i + k <= Len(w) /\ w[i + k].answers = w[i].calls[k]
  BY DEF CallsAnswered
<1>1. /\ DOMAIN ms = 1..Len(ms) /\ Len(ms) \in Nat
      /\ Len(w) \in Nat /\ DOMAIN w = 1..Len(w) /\ Len(w) + d = Len(ms)
  BY SequenceDomain DEF Coherent, EndsLike
<1>2. i > e /\ w[i].calls = ms[i + d].calls
  BY <1>1, NothingDue DEF EndsLike
<1>3. i + d \in DOMAIN ms
  BY <1>1
<1>4. IsSequence(ms[i + d].calls)
  BY <1>3 DEF Coherent, WellFormed
<1>5. k \in Nat \ {0} /\ k \in DOMAIN ms[i + d].calls
  BY <1>2, <1>4, SequenceDomain
<1>6. i + d + k <= Len(ms) /\ ms[i + d + k].answers = ms[i + d].calls[k]
  <2>1. AnsweredOrDue(ms, <<>>) /\ 1..Len(<<>>) = {}
    BY NothingDue DEF Coherent
  <2>2. (i + d) + k <= Len(ms) /\ ms[(i + d) + k].answers = ms[i + d].calls[k]
    BY <1>3, <1>5, <2>1 DEF AnsweredOrDue
  <2> QED
    BY <2>2
<1>7. i + k \in 1..Len(w) /\ i + k > e /\ (i + k) + d = i + d + k
  BY SMTT(20), <1>1, <1>2, <1>5, <1>6
<1>8. w[i + k].answers = ms[i + d + k].answers
  BY <1>7 DEF EndsLike
<1> QED
  BY <1>2, <1>6, <1>7, <1>8

\* Of a list that is all there, but for its prompt, every result follows the
\* turn that called for it.
LEMMA EndFollows ==
  ASSUME NEW ms, NEW w, NEW d \in Nat, Coherent(ms, <<>>), EndsLike(w, ms, d, 0),
         \A i \in 1..d : ms[i].calls = <<>>
  PROVE  ResultsFollow(w)
<1> SUFFICES ASSUME NEW i \in DOMAIN w, IsResult(w[i])
             PROVE  \E k \in DOMAIN Source(w, i) : Source(w, i)[k] = w[i].answers
  BY DEF ResultsFollow
<1>1. /\ DOMAIN ms = 1..Len(ms) /\ Len(ms) \in Nat
      /\ Len(w) \in Nat /\ DOMAIN w = 1..Len(w) /\ Len(w) + d = Len(ms)
      /\ \A j \in 1..Len(w) : w[j].calls = ms[j + d].calls /\ w[j].answers = ms[j + d].answers
  BY SequenceDomain DEF Coherent, EndsLike
<1>2. i + d \in DOMAIN ms /\ IsResult(ms[i + d])
  BY <1>1 DEF IsResult
<1>3. PICK p \in 1..((i + d) - 1) : Serves(ms, p, i + d) /\ ms[p].calls[(i + d) - p] = ms[i + d].answers
  <2>1. Sourced(ms)
    BY DEF Coherent
  <2> QED
    BY <1>2, <2>1 DEF Sourced
<1>0. /\ ~IsResult(ms[p]) /\ (i + d) - p \in DOMAIN ms[p].calls
      /\ \A j \in (p + 1)..((i + d) - 1) : IsResult(ms[j])
  BY <1>3 DEF Serves
<1>4. p > d
  <2>1. ms[p].calls # <<>>
    BY <1>0, NothingDue
  <2> QED
    BY <2>1
<1> DEFINE q == p - d
           turns == {j \in 1..(i - 1) : ~IsResult(w[j])}
<1>5. q \in 1..(i - 1) /\ q + d = p /\ i - q = (i + d) - p /\ i \in 1..Len(w) /\ q \in 1..Len(w)
  BY <1>1, <1>3, <1>4
<1> HIDE DEF q
<1>6. q \in turns /\ w[q].calls = ms[p].calls
  <2>1. w[q].calls = ms[q + d].calls /\ w[q].answers = ms[q + d].answers
    BY <1>1, <1>5
  <2> QED
    BY <1>0, <1>5, <2>1 DEF IsResult
<1>7. \A j \in turns : j <= q
  <2> SUFFICES ASSUME NEW j \in turns, j > q PROVE FALSE
    BY <1>5
  <2>1. j + d \in (p + 1)..((i + d) - 1) /\ j \in 1..Len(w)
    BY <1>1, <1>5
  <2>2. IsResult(ms[j + d])
    BY <1>0, <2>1
  <2> QED
    BY <1>1, <2>1, <2>2 DEF IsResult
<1>8. q = CHOOSE j \in turns : \A k \in turns : k <= j
  <2>1. \A j \in turns : (\A k \in turns : k <= j) => j = q
    BY <1>5, <1>6, <1>7
  <2> QED
    BY <1>6, <1>7, <2>1
<1>9. Source(w, i) = w[q].calls
  BY <1>6, <1>8 DEF Source
<1>10. i - q \in DOMAIN Source(w, i) /\ Source(w, i)[i - q] = w[i].answers
  BY <1>1, <1>3, <1>5, <1>6, <1>9 DEF Serves
<1> QED
  BY <1>10

\* How many of the messages sent come before what stands as it is, and how
\* many are left out less the summary.
Leading == Head1 + (IF cut = 0 THEN 0 ELSE 1)
Omitted == IF cut = 0 THEN 0 ELSE cut - 1

LEMMA SentEndsLike ==
  ASSUME Counted, Exchanged, pc = "chat"
  PROVE  /\ Leading \in Nat /\ Omitted \in Nat /\ Leading <= Len(Sent)
         /\ EndsLike(Sent, messages, Omitted, IF cut = 0 THEN 0 ELSE Leading)
         /\ \A i \in 1..Len(Sent) : IsTurn(Sent[i]) <=> i > Leading
<1> DEFINE L == Len(messages)
           H == Head1
           front == SubSeq(messages, 1, H)
<1>1. PICK S : messages \in Seq(S)
  BY DEF Counted, Prompted, IsSequence
<1>2. /\ L \in Nat \ {0} /\ H \in {0, 1} /\ window \in Nat /\ cut = Middle
      /\ H = 1 <=> ~IsTurn(messages[1])
  BY <1>1 DEF Counted, Prompted, CutIsMiddle, Sending, Head1, IsTurn
<1>3. \A i \in 2..L : IsTurn(messages[i])
  BY <1>1 DEF Exchanged, Coherent, WellFormed
<1> DEFINE T == S \cup {System}
<1>4. messages \in Seq(T) /\ System \in T
  BY <1>1
<1>5. System.calls = <<>> /\ System.answers = None /\ ~IsTurn(System)
  BY DEF System, Said, IsTurn
<1>6. H = 1 => messages[1].calls = <<>> /\ messages[1].answers = None
  <2>1. 1 \in DOMAIN messages
    BY <1>1, <1>2
  <2> QED
    BY <1>2, <2>1 DEF Exchanged, Coherent, WellFormed
<1> HIDE DEF T, H
<1>7. front \in Seq(T) /\ Len(front) = H /\ \A i \in 1..H : front[i] = messages[i]
  BY <1>2, <1>4
<1>8. CASE cut = 0
  <2>1. Summary = <<>> /\ Tail1 = SubSeq(messages, H + 1, L)
    BY <1>8 DEF Summary, Tail1, H
  <2>2. Tail1 \in Seq(T) /\ Len(Tail1) = L - H /\ \A i \in 1..(L - H) : Tail1[i] = messages[H + i]
    BY <2>1, <1>2, <1>4
  <2>3. Sent = front \o Tail1
    BY <2>1, <1>7 DEF Sent, H
  <2> HIDE DEF front
  <2>4. Sent \in Seq(T) /\ Len(Sent) = L
    BY <2>2, <2>3, <1>2, <1>7
  <2>5. ASSUME NEW i \in 1..L PROVE Sent[i] = messages[i]
    <3>1. CASE i <= H
      BY <2>2, <2>3, <1>2, <1>7, <3>1
    <3>2. CASE i > H
      <4>1. i - H \in 1..(L - H) /\ H + (i - H) = i
        BY <1>2, <3>2
      <4>2. Sent[i] = Tail1[i - H]
        BY <2>2, <2>3, <1>2, <1>7, <3>2
      <4> QED
        BY <2>2, <4>1, <4>2
    <3> QED
      BY <1>2, <3>1, <3>2
  <2>6. DOMAIN Sent = 1..L
    BY <2>4
  <2>7. Leading = H /\ Omitted = 0
    BY <1>2, <1>8 DEF Leading, Omitted, H
  <2>8. EndsLike(Sent, messages, 0, 0)
    BY <1>2, <2>4, <2>5, <2>6 DEF EndsLike
  <2>9. \A i \in 1..L : IsTurn(Sent[i]) <=> i > H
    BY <1>2, <1>3, <2>5
  <2> QED
    BY <1>2, <1>8, <2>4, <2>7, <2>8, <2>9
<1>9. CASE cut # 0
  <2>1. cut = L - window - H /\ window # 0 /\ L > window + H /\ cut > 0
    BY <1>2, <1>9 DEF Middle, Monus, H
  <2>2. Summary = <<System>> /\ Tail1 = SubSeq(messages, L - window + 1, L)
    BY <1>9 DEF Summary, Tail1
  <2>3. /\ Tail1 \in Seq(T) /\ Len(Tail1) = window
        /\ \A i \in 1..window : Tail1[i] = messages[L - window + i]
    <3> DEFINE at == L - window + 1
    <3>1. at \in 1..(Len(messages) + 1) /\ L \in 0..Len(messages) /\ at \in Nat /\ L - at + 1 = window
      BY <2>1, <1>2
    <3>2. \A i \in 1..window : at + i - 1 = L - window + i
      BY <1>2
    <3> HIDE DEF at
    <3>3. Tail1 = SubSeq(messages, at, L)
      BY <2>2 DEF at
    <3>4. Tail1 \in Seq(T)
      BY <3>1, <3>3, <1>4
    <3>5. Len(Tail1) = window /\ \A i \in 1..window : Tail1[i] = messages[at + i - 1]
      BY <3>1, <3>3, <1>2, <1>4
    <3> QED
      BY <3>2, <3>4, <3>5
  <2> DEFINE led == front \o <<System>>
  <2>4. Sent = led \o Tail1
    BY <2>2 DEF Sent, H
  <2>5. /\ led \in Seq(T) /\ Len(led) = H + 1 /\ led[H + 1] = System
        /\ \A i \in 1..H : led[i] = messages[i]
    BY <1>2, <1>4, <1>7
  <2> HIDE DEF led, front
  <2>6. Sent \in Seq(T) /\ Len(Sent) = H + 1 + window /\ DOMAIN Sent = 1..Len(Sent)
    BY <2>3, <2>4, <2>5, <1>2
  <2>7. \A i \in 1..(H + 1) : Sent[i] = led[i]
    BY <2>3, <2>4, <2>5, <1>2
  <2>8. ASSUME NEW i \in 1..Len(Sent), i > H + 1
        PROVE  Sent[i] = messages[i + (cut - 1)] /\ i + (cut - 1) \in 2..L
    <3>1. Sent[i] = Tail1[i - (H + 1)] /\ i - (H + 1) \in 1..window
      BY <2>3, <2>4, <2>5, <2>6, <2>8, <1>2
    <3>2. L - window + (i - (H + 1)) = i + (cut - 1)
      BY <2>1, <1>2
    <3>3. i + (cut - 1) \in 2..L
      BY <2>1, <2>6, <2>8, <1>2
    <3> QED
      BY <2>3, <3>1, <3>2, <3>3
  <2>9. Leading = H + 1 /\ Omitted = cut - 1 /\ cut - 1 \in Nat /\ H + 1 \in Nat
    BY <1>2, <1>9, <2>1 DEF Leading, Omitted, H
  <2>10. \A i \in 1..(H + 1) : ~IsTurn(Sent[i]) /\ Sent[i].calls = <<>> /\ Sent[i].answers = None
    <3>1. \A i \in 1..(H + 1) : Sent[i] = System \/ (H = 1 /\ Sent[i] = messages[1])
      BY <1>2, <2>5, <2>7
    <3> QED
      BY <1>2, <1>5, <1>6, <3>1
  <2>11. Len(Sent) + (cut - 1) = L
    BY <1>2, <2>1, <2>6
  <2>12. EndsLike(Sent, messages, cut - 1, H + 1)
    <3>1. \A i \in 1..Len(Sent) : i <= H + 1 \/ i > H + 1
      BY <1>2
    <3>2. Len(Sent) \in Nat
      BY <1>2, <2>6
    <3>3. \A i \in 1..Len(Sent) : i <= H + 1 => i \in 1..(H + 1)
      BY <1>2
    <3> QED
      BY <2>6, <2>8, <2>10, <2>11, <3>1, <3>2, <3>3 DEF EndsLike
  <2>13. \A i \in 1..Len(Sent) : IsTurn(Sent[i]) <=> i > H + 1
    <3>1. \A i \in 1..Len(Sent) : i > H + 1 => IsTurn(Sent[i])
      BY <1>3, <2>8
    <3>2. \A i \in 1..Len(Sent) : ~(i > H + 1) => i \in 1..(H + 1)
      BY <1>2
    <3> QED
      BY <2>10, <3>1, <3>2
  <2>14. H + 1 <= Len(Sent)
    BY <1>2, <2>6
  <2> QED
    BY <1>9, <2>9, <2>12, <2>13, <2>14
<1> QED
  BY <1>8, <1>9

\* An adapter changes who speaks and leaves the system's messages where they
\* are or takes them out of the turns; it keeps what is called and answered.
LEMMA WireEndsLike ==
  ASSUME Counted, Exchanged, pc = "chat"
  PROVE  \E d, e \in Nat :
           /\ EndsLike(Wire, messages, d, e)
           /\ cut = 0 => e = 0 /\ \A i \in 1..d : messages[i].calls = <<>>
<1> DEFINE e == IF cut = 0 THEN 0 ELSE Leading
<1>1. /\ Leading \in Nat /\ Omitted \in Nat /\ Leading <= Len(Sent)
      /\ EndsLike(Sent, messages, Omitted, e)
      /\ \A i \in 1..Len(Sent) : IsTurn(Sent[i]) <=> i > Leading
  BY SentEndsLike
<1>2. e \in Nat /\ e <= Leading
  BY <1>1
<1>3. Len(Sent) \in Nat /\ DOMAIN Sent = 1..Len(Sent) /\ Len(Sent) + Omitted = Len(messages)
  BY <1>1 DEF EndsLike
<1>4. \A role, m : Item(role, m).calls = m.calls /\ Item(role, m).answers = m.answers
  BY DEF Item
<1>5. CASE provider = "openai"
  <2>1. Wire = [i \in 1..Len(Sent) |-> Item(Sent[i].role, Sent[i])]
    BY <1>3, <1>5 DEF Wire, OpenAi
  <2>2. DOMAIN Wire = 1..Len(Sent) /\ \A i \in 1..Len(Sent) : Wire[i] = Item(Sent[i].role, Sent[i])
    BY <2>1
  <2>3. Len(Wire) = Len(Sent)
    BY <1>3, <2>1
  <2> HIDE DEF e
  <2>4. EndsLike(Wire, messages, Omitted, e)
    BY <1>1, <1>2, <1>3, <1>4, <2>2, <2>3 DEF EndsLike
  <2>5. cut = 0 => e = 0 /\ Omitted = 0
    BY DEF e, Omitted
  <2>6. cut = 0 => e = 0 /\ \A i \in 1..Omitted : messages[i].calls = <<>>
    BY <2>5
  <2> QED
    BY <1>1, <1>2, <2>4, <2>6
<1>6. CASE provider # "openai"
  <2> DEFINE turns == Turns(Sent)
             n == Len(Sent) - Leading
             d == Omitted + Leading
  <2>1. n \in Nat /\ d \in Nat /\ n + d = Len(messages)
    BY <1>1, <1>3
  <2>2. DOMAIN turns = 1..n /\ \A k \in 1..n : turns[k] = Sent[Leading + k]
    BY <1>1, <1>3, TurnsOfLed
  <2> HIDE DEF turns, n, d
  <2>3. DOMAIN Wire = 1..n /\ Len(Wire) = n /\ \A k \in 1..n : \E role : Wire[k] = Item(role, turns[k])
    <3>1. CASE provider = "anthropic"
      <4>1. Wire = [k \in 1..n |-> Item(AnthropicRole(turns[k]), turns[k])]
        BY <2>2, <3>1 DEF Wire, Anthropic, turns
      <4> QED
        BY <2>1, <4>1
    <3>2. CASE provider \in {"google", "vertex"}
      <4>1. Wire = [k \in 1..n |-> Item(GoogleRole(turns[k]), turns[k])]
        BY <2>2, <3>2 DEF Wire, Google, Vertex, turns
      <4> QED
        BY <2>1, <4>1
    <3> QED
      BY <1>6, <3>1, <3>2 DEF Exchanged, Providers
  <2>4. /\ DOMAIN Wire = 1..n /\ Len(Wire) = n
        /\ \A k \in 1..n : Wire[k].calls = turns[k].calls /\ Wire[k].answers = turns[k].answers
    BY <1>4, <2>3
  <2>5. ASSUME NEW k \in 1..n
        PROVE  turns[k].calls = messages[k + d].calls /\ turns[k].answers = messages[k + d].answers
    <3>1. Leading + k \in 1..Len(Sent) /\ ~(Leading + k <= e) /\ Leading + k + Omitted = k + d
      BY <1>1, <1>2, <1>3, <2>1 DEF n, d
    <3>2. Sent[Leading + k].calls = messages[Leading + k + Omitted].calls
          /\ Sent[Leading + k].answers = messages[Leading + k + Omitted].answers
      BY <1>1, <3>1 DEF EndsLike
    <3> QED
      BY <2>2, <3>1, <3>2
  <2>6. EndsLike(Wire, messages, d, 0)
    <3>1. \A k \in 1..n : ~(k <= 0)
      BY <2>1
    <3> QED
      BY <2>1, <2>4, <2>5, <3>1 DEF EndsLike
  <2>7. cut = 0 => \A i \in 1..d : messages[i].calls = <<>>
    <3> SUFFICES ASSUME cut = 0, NEW i \in 1..d PROVE messages[i].calls = <<>>
      OBVIOUS
    <3>1. d = Leading /\ Omitted = 0 /\ e = 0
      BY <1>1 DEF d, Omitted
    <3>2. i \in 1..Len(Sent) /\ ~(i > Leading) /\ ~(i <= 0)
      BY <1>1, <1>3, <3>1
    <3>3. Leading = Head1
      BY DEF Leading, Head1
    <3>4. i = 1 /\ messages[1].role = "system"
      BY <3>1, <3>3 DEF Head1
    <3>5. 1 \in DOMAIN messages
      BY <1>3, <2>1, <3>1, SequenceDomain DEF Exchanged, Coherent
    <3> QED
      BY <3>4, <3>5 DEF Exchanged, Coherent, WellFormed, IsTurn
  <2> QED
    BY <2>1, <2>6, <2>7
<1> QED
  BY <1>5, <1>6

\* Every call that is sent is followed by its results, one for each and in
\* order, and every result of a list sent uncut follows the turn that called
\* for it: ExchangeIsValid, for every tool, number of calls and iterations,
\* window and provider, after a resume too (resume_pending, the loops of
\* simple.py and react.py, apply_sliding_summary and the adapters).
THEOREM ExchangesAreValid ==
  ASSUME NoneIsNoCall
  PROVE  Spec => []ExchangeIsValid
<1>1. Counted /\ Exchanged => ExchangeIsValid
  <2> SUFFICES ASSUME Counted, Exchanged, pc = "chat"
               PROVE  CallsAnswered(Wire) /\ (cut = 0 => ResultsFollow(Wire))
    BY DEF ExchangeIsValid
  <2>1. Coherent(messages, <<>>)
    BY DEF Exchanged
  <2>2. PICK d \in Nat, e \in Nat :
          /\ EndsLike(Wire, messages, d, e)
          /\ cut = 0 => e = 0 /\ \A i \in 1..d : messages[i].calls = <<>>
    BY WireEndsLike
  <2>3. CallsAnswered(Wire)
    BY <2>1, <2>2, EndIsAnswered
  <2>4. cut = 0 => ResultsFollow(Wire)
    BY <2>1, <2>2, EndFollows
  <2> QED
    BY <2>3, <2>4
<1>2. Init => Exchanged
  BY InitExchanged
<1>3. Exchanged /\ [Next]_vars => Exchanged'
  BY NextExchanged
<1> QED
  BY <1>1, <1>2, <1>3, InitCounted, NextCounted, PTL DEF Spec
=============================================================================
