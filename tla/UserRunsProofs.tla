--------------------------- MODULE UserRunsProofs ---------------------------
(***************************************************************************)
(* Proofs about UserRuns, for every set of users, requests, tasks and      *)
(* configurations.                                                         *)
(***************************************************************************)
EXTENDS UserRuns, FiniteSetTheorems, WellFoundedInduction, TLAPS

USE UserRunsAssumption DEF config, request, memory, Identity, None

Underway == {"recall", "work", "harvest", "extract", "write", "closing"}

Shaped ==
  /\ pc \in [Requests -> Phases]
  /\ sender \in [Requests -> Users \cup {NoOne}]
  /\ bound \in [Requests -> Users \cup {NoOne}]
  /\ own \in [Requests -> Users \cup {NoOne}]
  /\ DOMAIN sent = Requests

\* A run goes by the copy its task took of what the middleware bound, and the
\* middleware resets only its own variables.
OwnCopies ==
  \A r \in Requests :
    /\ pc[r] = "idle" => sent[r] = None
    /\ pc[r] = "bound" => bound[r] = sender[r]
    /\ pc[r] \in Underway => own[r] = sender[r]
    /\ pc[r] \in Underway \cup {"bound"} =>
         IF Identity = Off THEN sender[r] = NoOne ELSE sender[r] \in Users

Separate == Shaped /\ OwnCopies /\ CallsAreOwn

LEMMA InitSeparate == Init => Separate
  BY DEF Init, Separate, Shaped, OwnCopies, CallsAreOwn, Phases, Underway

\* What a step that sends nothing must leave alone.
LEMMA StillOwn ==
  ASSUME Separate, UNCHANGED <<setup, sent>>, Shaped',
         \A r \in Requests : pc[r] # "idle" => sender'[r] = sender[r],
         OwnCopies'
  PROVE  Separate'
<1>1. \A r \in Requests : sent[r] # None => sender'[r] = sender[r]
  BY DEF Separate, OwnCopies
<1> QED
  BY <1>1 DEF Separate, CallsAreOwn

LEMMA ToolCallIsOwn ==
  ASSUME Separate, NEW q \in Requests, CallTool(q)
  PROVE  Separate'
<1> USE DEF Separate
<1>1. PICK name \in DOMAIN handles :
        sent' = [sent EXCEPT ![q] = [server |-> handles[name],
                  headers |-> RequestHeaders(handles[name], FALSE, own[q]), at |-> gen]]
  BY DEF CallTool, Credential
<1>2. pc[q] = "work" /\ UNCHANGED <<setup, pc, sender, own, bound>>
  BY DEF CallTool
<1>3. Shaped' /\ OwnCopies'
  BY <1>1, <1>2 DEF Shaped, OwnCopies, Underway
<1>4. own[q] = sender[q] /\ IF Identity = Off THEN sender[q] = NoOne ELSE sender[q] \in Users
  BY <1>2 DEF OwnCopies, Underway
<1>5. sent'[q].server = handles[name] /\ sent'[q].headers = RequestHeaders(handles[name], FALSE, sender[q])
  BY <1>1, <1>4 DEF Shaped
<1>6. RequestHeaders(handles[name], FALSE, sender[q]) =
        IF handles[name].forward /\ Identity # Off
          THEN [header |-> handles[name].header, credential |-> sender[q]] ELSE Off
  BY <1>4 DEF RequestHeaders
<1>7. \A r \in Requests : r # q => sent'[r] = sent[r]
  BY <1>1 DEF Shaped
<1> QED
  BY <1>2, <1>3, <1>5, <1>6, <1>7 DEF CallsAreOwn

LEMMA NextSeparate == Separate /\ [Next]_vars => Separate'
<1> SUFFICES ASSUME Separate, [Next]_vars PROVE Separate'
  OBVIOUS
<1> USE DEF Shaped, OwnCopies, Phases, Underway
<1>0. Shaped /\ OwnCopies
  BY DEF Separate
<1>1. ASSUME NEW q \in Requests,
             ServeCard(q) \/ Arrive(q) \/ Unidentified(q) \/ Rejected(q) \/ Spawn(q) \/ Leave(q)
      PROVE  Separate'
  <2>1. CASE ServeCard(q)
    BY <2>1, <1>0, StillOwn DEF ServeCard
  <2>2. CASE Arrive(q)
    BY <2>2, <1>0, StillOwn DEF Arrive
  <2>3. CASE Unidentified(q)
    BY <2>3, <1>0, StillOwn DEF Unidentified
  <2>4. CASE Rejected(q)
    BY <2>4, <1>0, StillOwn DEF Rejected
  <2>5. CASE Spawn(q)
    BY <2>5, <1>0, StillOwn DEF Spawn
  <2>6. CASE Leave(q)
    BY <2>6, <1>0, StillOwn DEF Leave
  <2> QED
    BY <1>1, <2>1, <2>2, <2>3, <2>4, <2>5, <2>6
<1>2. ASSUME NEW q \in Requests, Recall(q) \/ Finish(q) \/ Suspend(q) \/ Fail(q)
      PROVE  Separate'
  BY <1>2, <1>0, StillOwn DEF Recall, Finish, Suspend, Fail
<1>3. ASSUME NEW q \in Requests, HarvestStep(q)
      PROVE  Separate'
  <2>1. CASE Harvest(q) \/ NothingToHarvest(q) \/ Extract(q) \/ ExtractFails(q)
    BY <2>1, <1>0, StillOwn DEF Harvest, NothingToHarvest, Extract, ExtractFails
  <2>2. CASE WriteFails(q) \/ WriteFact(q) \/ Harvested(q)
    BY <2>2, <1>0, StillOwn DEF WriteFails, WriteFact, Harvested
  <2>3. CASE Close(q)
    BY <2>3, <1>0, StillOwn DEF Close
  <2> QED
    BY <1>3, <2>1, <2>2, <2>3 DEF HarvestStep
<1>4. ASSUME NEW t \in Tasks, Cancel(t) PROVE Separate'
  BY <1>4, <1>0, StillOwn DEF Cancel
<1>5. CASE Reload
  BY <1>5, <1>0, StillOwn DEF Reload, Rebuilt
<1>6. CASE Restart
  BY <1>6, <1>0, StillOwn DEF Restart, Rebuilt
<1>7. CASE UNCHANGED vars
  BY <1>7, <1>0, StillOwn DEF vars
<1> QED
  BY <1>1, <1>2, <1>3, <1>4, <1>5, <1>6, <1>7, ToolCallIsOwn DEF Next, RequestStep, RunStep

\* A forwarded call carries the identity of the user whose message started the
\* run, and no other call carries one: CallsAreOwn, for any number of users,
\* runs and servers (the context variables of identity.py).
THEOREM IdentitiesNeverMix == Spec => []CallsAreOwn
<1>1. Separate => CallsAreOwn
  BY DEF Separate
<1> QED
  BY <1>1, InitSeparate, NextSeparate, PTL DEF Spec

-----------------------------------------------------------------------------
\* A run that has answered, or at least come past its answer.
Late(r) == pc[r] \in {"harvest", "extract", "write", "closing", "closed", "dead"}

Placed ==
  /\ pc \in [Requests -> Phases]
  /\ task \in [Requests -> Tasks]
  /\ row \in [Tasks -> Requests \cup {None}]
  /\ answer \in [Requests -> Requests \cup {None}]
  /\ \E S : store \in Seq(S)

\* What a task's row and a harvest under way hold is an answer of that task.
AnswersHeld ==
  /\ \A t \in Tasks : row[t] # None => task[row[t]] = t /\ Late(row[t])
  /\ \A r \in Requests : pc[r] \in {"extract", "write"} =>
       answer[r] # None /\ task[answer[r]] = task[r] /\ Late(answer[r])

Taught == Placed /\ AnswersHeld /\ OnlyAnswersTeach

LEMMA InitTaught == Init => Taught
<1> SUFFICES ASSUME Init PROVE Taught
  OBVIOUS
<1>1. store \in Seq({})
  BY DEF Init
<1>2. task \in [Requests -> Tasks]
  BY DEF Init
<1> QED
  BY <1>1, <1>2 DEF Init, Taught, Placed, AnswersHeld, OnlyAnswersTeach, Phases

\* A step that writes no fact and takes nobody back.
LEMMA StillTaught ==
  ASSUME Taught, UNCHANGED <<task, store>>,
         \A r \in Requests : Late(r) => Late(r)', Placed', AnswersHeld'
  PROVE  Taught'
  BY DEF Taught, OnlyAnswersTeach, Late

LEMMA FactIsTaught ==
  ASSUME Taught, NEW q \in Requests, WriteFact(q)
  PROVE  Taught'
<1> USE DEF Taught
<1>1. pc[q] = "write" /\ store' = Append(store, Record(q)) /\ UNCHANGED <<pc, task, row, answer>>
  BY DEF WriteFact
<1>2. PICK S : store \in Seq(S)
  BY DEF Placed
<1> DEFINE T == S \cup {Record(q)}
<1>3. store \in Seq(T) /\ Record(q) \in T
  BY <1>2
<1>4. store' \in Seq(T) /\ DOMAIN store' = 1..(Len(store) + 1)
  BY <1>1, <1>3
<1>5. \A i \in DOMAIN store' : store'[i] = Record(q) \/ (i \in DOMAIN store /\ store'[i] = store[i])
  BY <1>1, <1>3, <1>4
<1>6. Record(q).asked = q /\ Record(q).answered = answer[q]
  BY DEF Record
<1>7. Placed' /\ AnswersHeld'
  BY <1>1, <1>4 DEF Placed, AnswersHeld, Late
<1>8. answer[q] \in Requests /\ task[answer[q]] = task[q] /\ Late(answer[q])
  BY <1>1 DEF Placed, AnswersHeld
<1> QED
  BY <1>1, <1>5, <1>6, <1>7, <1>8 DEF OnlyAnswersTeach, Late

LEMMA NextTaught == Taught /\ [Next]_vars => Taught'
<1> SUFFICES ASSUME Taught, [Next]_vars PROVE Taught'
  OBVIOUS
<1> USE DEF Placed, AnswersHeld, Late, Phases
<1>0. Placed /\ AnswersHeld
  BY DEF Taught
<1>1. ASSUME NEW q \in Requests, RequestStep(q) PROVE Taught'
  <2>1. CASE Spawn(q)
    BY <2>1, <1>0, StillTaught DEF Spawn
  <2>2. CASE Leave(q)
    BY <2>2, <1>0, StillTaught DEF Leave
  <2>3. CASE ServeCard(q) \/ Arrive(q) \/ Unidentified(q) \/ Rejected(q)
    BY <2>3, <1>0, StillTaught DEF ServeCard, Arrive, Unidentified, Rejected
  <2> QED
    BY <1>1, <2>1, <2>2, <2>3 DEF RequestStep
<1>2. ASSUME NEW q \in Requests, RunStep(q) PROVE Taught'
  <2>1. CASE Finish(q)
    BY <2>1, <1>0, StillTaught DEF Finish
  <2>2. CASE Suspend(q) \/ Fail(q)
    BY <2>2, <1>0, StillTaught DEF Suspend, Fail
  <2>3. CASE Recall(q)
    BY <2>3, <1>0, StillTaught DEF Recall
  <2>4. CASE CallTool(q)
    <3>1. UNCHANGED <<pc, task, row, answer, store>>
      BY <2>4 DEF CallTool
    <3> QED
      BY <3>1, <1>0, StillTaught
  <2> QED
    BY <1>2, <2>1, <2>2, <2>3, <2>4 DEF RunStep
<1>3. ASSUME NEW q \in Requests, HarvestStep(q) PROVE Taught'
  <2>1. CASE Harvest(q)
    BY <2>1, <1>0, StillTaught DEF Harvest
  <2>2. CASE Extract(q) \/ ExtractFails(q) \/ NothingToHarvest(q)
    BY <2>2, <1>0, StillTaught DEF Extract, ExtractFails, NothingToHarvest
  <2>3. CASE WriteFails(q) \/ Harvested(q) \/ Close(q)
    BY <2>3, <1>0, StillTaught DEF WriteFails, Harvested, Close
  <2> QED
    BY <1>3, <2>1, <2>2, <2>3, FactIsTaught DEF HarvestStep
<1>4. ASSUME NEW t \in Tasks, Cancel(t) PROVE Taught'
  BY <1>4, <1>0, StillTaught DEF Cancel
<1>5. CASE Reload
  BY <1>5, <1>0, StillTaught DEF Reload, Rebuilt
<1>6. CASE Restart
  BY <1>6, <1>0, StillTaught DEF Restart, Rebuilt
<1>7. CASE UNCHANGED vars
  BY <1>7, <1>0, StillTaught DEF vars
<1> QED
  BY <1>1, <1>2, <1>3, <1>4, <1>5, <1>6, <1>7 DEF Next

\* Every record of long-term memory was taken from an answer that a run of the
\* same task gave: OnlyAnswersTeach, whatever cancellations, reloads, restarts
\* and other runs do between the answer and the harvest.
THEOREM MemoryHoldsAnswers == Spec => []OnlyAnswersTeach
<1>1. Taught => OnlyAnswersTeach
  BY DEF Taught
<1> QED
  BY <1>1, InitTaught, NextTaught, PTL DEF Spec

-----------------------------------------------------------------------------
IsList(s) == \E S : s \in Seq(S)

\* The records a run wrote, and the place of each among them.
Mine(records, r) == {i \in DOMAIN records : records[i].asked = r}
Place(records, r, i) == Cardinality({j \in Mine(records, r) : j <= i})

\* What a run has written and what it has still to write are the facts it
\* took from its answer, in their order.
Booked(records, r, due, facts, home) ==
  LET done == Cardinality(Mine(records, r))
  IN  /\ IsList(due)
      /\ done + Len(due) = Len(facts)
      /\ \A k \in 1..Len(due) : due[k] = facts[done + k]
      /\ \A i \in Mine(records, r) : records[i].text = facts[Place(records, r, i)].text /\ records[i].home = home

BeforeWriting == {"idle", "bound", "recall", "work", "harvest", "extract"}

Framed ==
  /\ pc \in [Requests -> Phases]
  /\ DOMAIN since = Requests /\ DOMAIN client = Requests /\ DOMAIN lost = Requests
  /\ DOMAIN todo = Requests /\ DOMAIN learned = Requests
  /\ IsList(store)

Untaught == \A r \in Requests : pc[r] \in BeforeWriting =>
  todo[r] = <<>> /\ learned[r] = <<>> /\ Mine(store, r) = {}
AllBooked == \A r \in Requests : Booked(store, r, todo[r], learned[r], Home(since[r]))
WrittenOrLost == \A r \in Requests : pc[r] \in {"closing", "closed"} /\ ~lost[r] => todo[r] = <<>>
RepliedIsClosed == \A r \in Requests : client[r] = "replied" => pc[r] = "closed"

Kept == Framed /\ Untaught /\ AllBooked /\ WrittenOrLost /\ RepliedIsClosed

LEMMA EmptyList == IsList(<<>>) /\ Len(<<>>) = 0
<1>1. <<>> \in Seq({}) /\ Len(<<>>) = 0
  OBVIOUS
<1> QED
  BY <1>1 DEF IsList

LEMMA NothingBooked ==
  ASSUME NEW records, NEW r, NEW home, Mine(records, r) = {}
  PROVE  Booked(records, r, <<>>, <<>>, home)
  BY EmptyList, FS_EmptySet DEF Booked

LEMMA InitKept == Init => Kept
<1> SUFFICES ASSUME Init PROVE Kept
  OBVIOUS
<1>1. store = <<>> /\ DOMAIN store = {} /\ IsList(store)
  BY EmptyList DEF Init
<1>2. \A r \in Requests : Mine(store, r) = {}
  BY <1>1 DEF Mine
<1>3. \A r \in Requests : todo[r] = <<>> /\ learned[r] = <<>> /\ client[r] = "none"
  BY DEF Init
<1>4. Framed
  BY <1>1 DEF Init, Framed, Phases
<1> QED
  BY <1>2, <1>3, <1>4, NothingBooked DEF Kept, Untaught, AllBooked, WrittenOrLost, RepliedIsClosed

\* A function on 1..n is a list.
LEMMA ListFromFunction ==
  ASSUME NEW n \in Nat, NEW s, s = [k \in 1..n |-> s[k]]
  PROVE  IsList(s) /\ Len(s) = n /\ DOMAIN s = 1..n
<1> DEFINE T == {s[k] : k \in 1..n}
<1>1. s \in [1..n -> T]
  OBVIOUS
<1> HIDE DEF T
<1>2. s \in Seq(T) /\ Len(s) = n
  BY <1>1
<1> QED
  BY <1>2 DEF IsList

LEMMA WithoutIsList ==
  ASSUME NEW s, Len(s) \in Nat, DOMAIN s = 1..Len(s), NEW out, out \subseteq DOMAIN s
  PROVE  LET kept == Without(s, out)
         IN  IsList(kept) /\ Len(kept) \in Nat /\ DOMAIN kept = 1..Len(kept)
<1> DEFINE n == Len(s) - Cardinality(out)
           kept == Without(s, out)
<1>1. IsFiniteSet(1..Len(s)) /\ Cardinality(1..Len(s)) = Len(s)
  BY FS_Interval
<1>2. IsFiniteSet(out) /\ Cardinality(out) <= Len(s)
  BY <1>1, FS_Subset
<1>3. n \in Nat
  BY <1>2, FS_CardinalityType
<1>4. kept = [k \in 1..n |-> kept[k]]
  BY DEF Without
<1> HIDE DEF n, kept
<1>5. IsList(kept) /\ Len(kept) = n /\ DOMAIN kept = 1..n
  BY <1>3, <1>4, ListFromFunction
<1> QED
  BY <1>3, <1>5 DEF kept

\* The reply of the extractor, without the facts that have no text.
LEMMA ExtractedIsList ==
  ASSUME NEW reply \in Replies, NEW forced
  PROVE  IsList(Extracted(reply, forced)) /\ Len(Extracted(reply, forced)) \in Nat
<1> DEFINE out == {i \in DOMAIN reply : reply[i].text = {}}
           kept == Without(reply, out)
           facts == Extracted(reply, forced)
<1>1. Len(reply) \in Nat /\ DOMAIN reply = 1..Len(reply) /\ out \subseteq DOMAIN reply
  BY RepliesAssumption
<1>2. Len(kept) \in Nat /\ DOMAIN kept = 1..Len(kept)
  BY <1>1, WithoutIsList
<1>3. facts = [k \in DOMAIN kept |-> facts[k]]
  BY DEF Extracted
<1> HIDE DEF kept, facts
<1>4. IsList(facts) /\ Len(facts) = Len(kept)
  BY <1>2, <1>3, ListFromFunction
<1> QED
  BY <1>2, <1>4 DEF facts

\* A step that writes no record and extracts nothing.
LEMMA StillKept ==
  ASSUME Kept, UNCHANGED <<setup, todo, learned, store>>, Framed',
         \A r \in Requests :
           /\ pc'[r] \in BeforeWriting => pc[r] \in BeforeWriting
           /\ since'[r] = since[r] \/ pc[r] \in BeforeWriting
           /\ pc'[r] \in {"closing", "closed"} /\ ~lost'[r] =>
                todo[r] = <<>> \/ pc[r] \in BeforeWriting \/ (pc[r] \in {"closing", "closed"} /\ ~lost[r])
           /\ client'[r] = "replied" => pc'[r] = "closed"
  PROVE  Kept'
<1>1. Untaught'
  BY DEF Kept, Untaught
<1>2. ASSUME NEW r \in Requests
      PROVE  Booked(store, r, todo[r], learned[r], Home(since[r])')
  <2>1. CASE since'[r] = since[r]
    BY <2>1 DEF Kept, AllBooked, Home
  <2>2. CASE pc[r] \in BeforeWriting
    BY <2>2, NothingBooked DEF Kept, Untaught
  <2> QED
    BY <2>1, <2>2
<1>3. AllBooked'
  BY <1>2 DEF AllBooked
<1>4. WrittenOrLost'
  BY DEF Kept, WrittenOrLost, Untaught
<1>5. RepliedIsClosed'
  BY DEF RepliedIsClosed
<1> QED
  BY <1>1, <1>3, <1>4, <1>5 DEF Kept

\* The facts of a reply are all still to be written.
LEMMA ExtractKept ==
  ASSUME Kept, NEW q \in Requests, Extract(q)
  PROVE  Kept'
<1>1. PICK reply \in Replies :
        /\ learned' = [learned EXCEPT ![q] = Extracted(reply, setup.forced)]
        /\ todo' = [todo EXCEPT ![q] = Extracted(reply, setup.forced)]
  BY DEF Extract
<1>2. pc[q] = "extract" /\ pc' = [pc EXCEPT ![q] = "write"] /\ UNCHANGED <<setup, since, lost, store, client>>
  BY DEF Extract
<1> DEFINE facts == Extracted(reply, setup.forced)
<1>3. IsList(facts) /\ Len(facts) \in Nat
  BY ExtractedIsList
<1> HIDE DEF facts
<1>4. todo'[q] = facts /\ learned'[q] = facts /\ \A r \in Requests \ {q} : todo'[r] = todo[r] /\ learned'[r] = learned[r]
  BY <1>1 DEF Kept, Framed, facts
<1>5. pc'[q] = "write" /\ \A r \in Requests \ {q} : pc'[r] = pc[r]
  BY <1>2 DEF Kept, Framed
<1>6. Mine(store, q) = {}
  BY <1>2 DEF Kept, Untaught, BeforeWriting
<1>7. Framed'
  BY <1>1, <1>2 DEF Kept, Framed, Phases
<1>8. Untaught'
  BY <1>2, <1>4, <1>5 DEF Kept, Untaught, BeforeWriting
<1>9. Booked(store, q, facts, facts, Home(since[q]))
  <2>1. Cardinality(Mine(store, q)) = 0
    BY <1>6, FS_EmptySet
  <2>2. \A k \in 1..Len(facts) : 0 + k = k
    BY <1>3
  <2> QED
    BY <1>3, <1>6, <2>1, <2>2 DEF Booked
<1>10. AllBooked'
  <2>1. ASSUME NEW r \in Requests PROVE Booked(store, r, todo[r], learned[r], Home(since[r]))'
    <3>1. CASE r = q
      BY <1>2, <1>4, <1>9, <3>1 DEF Home
    <3>2. CASE r # q
      BY <1>2, <1>4, <3>2 DEF Kept, AllBooked, Home
    <3> QED
      BY <3>1, <3>2
  <2> QED
    BY <2>1 DEF AllBooked
<1>11. WrittenOrLost'
  BY <1>2, <1>4, <1>5 DEF Kept, WrittenOrLost
<1>12. RepliedIsClosed'
  BY <1>2, <1>5 DEF Kept, RepliedIsClosed
<1> QED
  BY <1>7, <1>8, <1>10, <1>11, <1>12 DEF Kept

LEMMA ListHead ==
  ASSUME NEW s, IsList(s), s # <<>>
  PROVE  /\ IsList(Tail(s)) /\ Len(s) \in Nat \ {0} /\ Len(Tail(s)) = Len(s) - 1
         /\ Head(s) = s[1] /\ \A k \in 1..(Len(s) - 1) : Tail(s)[k] = s[k + 1]
<1>1. PICK S : s \in Seq(S)
  BY DEF IsList
<1>2. Tail(s) \in Seq(S)
  BY <1>1
<1> QED
  BY <1>1, <1>2 DEF IsList

\* The records of a run are counted.
LEMMA FiniteMine ==
  ASSUME NEW records, IsList(records), NEW r
  PROVE  IsFiniteSet(Mine(records, r)) /\ Cardinality(Mine(records, r)) \in Nat
<1>1. Len(records) \in Nat /\ DOMAIN records = 1..Len(records)
  BY DEF IsList
<1>2. IsFiniteSet(1..Len(records)) /\ Mine(records, r) \subseteq 1..Len(records)
  BY <1>1, FS_Interval DEF Mine
<1> QED
  BY <1>2, FS_Subset, FS_CardinalityType

\* What one more record changes: nothing for other runs; for its own it is
\* the last.
OneMore(records, m, more, n) ==
  /\ IsList(more) /\ n \in Nat /\ more[n] = m
  /\ \A i \in DOMAIN records : more[i] = records[i] /\ i < n
  /\ \A r : m.asked # r => Mine(more, r) = Mine(records, r)
  /\ \A r : m.asked = r => Mine(more, r) = Mine(records, r) \cup {n}
  /\ \A r : /\ IsFiniteSet(Mine(records, r)) /\ Cardinality(Mine(records, r)) \in Nat
            /\ Cardinality(Mine(records, r) \cup {n}) = Cardinality(Mine(records, r)) + 1
  /\ \A r : \A i \in Mine(records, r) : Place(more, r, i) = Place(records, r, i)
  /\ \A r : m.asked = r => Place(more, r, n) = Cardinality(Mine(records, r)) + 1

LEMMA OneMoreRecord ==
  ASSUME NEW records, NEW m, IsList(records)
  PROVE  OneMore(records, m, Append(records, m), Len(records) + 1)
<1>1. PICK S : records \in Seq(S)
  BY DEF IsList
<1> DEFINE T == S \cup {m}
           more == Append(records, m)
           n == Len(records) + 1
<1>2. records \in Seq(T) /\ m \in T
  BY <1>1
<1>3. /\ more \in Seq(T) /\ n \in Nat /\ DOMAIN records = 1..Len(records) /\ DOMAIN more = 1..n
      /\ more[n] = m /\ Len(records) \in Nat
      /\ \A i \in 1..Len(records) : more[i] = records[i]
  BY <1>2
<1>4. \A i \in DOMAIN records : more[i] = records[i] /\ i < n /\ i \in Nat
  BY <1>3
<1>5. IsFiniteSet(1..Len(records))
  BY <1>3, FS_Interval
<1> HIDE DEF T, more
<1>6. \A r : m.asked # r => Mine(more, r) = Mine(records, r)
  BY <1>3 DEF Mine
<1>7. \A r : m.asked = r => Mine(more, r) = Mine(records, r) \cup {n}
  BY <1>3 DEF Mine
<1>8. ASSUME NEW r
      PROVE  /\ IsFiniteSet(Mine(records, r)) /\ Cardinality(Mine(records, r)) \in Nat
             /\ Cardinality(Mine(records, r) \cup {n}) = Cardinality(Mine(records, r)) + 1
  <2>1. Mine(records, r) \subseteq 1..Len(records) /\ n \notin Mine(records, r)
    BY <1>3 DEF Mine
  <2>2. IsFiniteSet(Mine(records, r))
    BY <1>5, <2>1, FS_Subset
  <2> QED
    BY <2>1, <2>2, FS_AddElement, FS_CardinalityType
<1>9. ASSUME NEW r, NEW i \in Mine(records, r) PROVE Place(more, r, i) = Place(records, r, i)
  <2>1. i \in DOMAIN records
    BY DEF Mine
  <2>2. i < n /\ i \in Nat
    BY <1>4, <2>1
  <2>3. ~(n <= i)
    BY <1>3, <2>2
  <2>4. {j \in Mine(more, r) : j <= i} = {j \in Mine(records, r) : j <= i}
    <3>1. CASE m.asked = r
      BY <1>7, <2>3, <3>1
    <3>2. CASE m.asked # r
      BY <1>6, <3>2
    <3> QED
      BY <3>1, <3>2
  <2> QED
    BY <2>4 DEF Place
<1>10. ASSUME NEW r, m.asked = r PROVE Place(more, r, n) = Cardinality(Mine(records, r)) + 1
  <2>1. \A j \in Mine(records, r) : j <= n
    BY <1>3 DEF Mine
  <2>2. {j \in Mine(more, r) : j <= n} = Mine(records, r) \cup {n}
    BY <1>3, <1>7, <1>10, <2>1
  <2> QED
    BY <1>8, <2>2 DEF Place
<1> QED
  BY <1>3, <1>4, <1>6, <1>7, <1>8, <1>9, <1>10 DEF IsList, OneMore, more

\* A fact that is written is the first of those to be written, and the next
\* of those that are.
LEMMA WriteFactKept ==
  ASSUME Kept, NEW q \in Requests, WriteFact(q)
  PROVE  Kept'
<1> DEFINE m == Record(q)
           n == Len(store) + 1
           done == Cardinality(Mine(store, q))
           home == Home(since[q])
<1>1. /\ pc[q] = "write" /\ todo[q] # <<>> /\ store' = Append(store, m)
      /\ todo' = [todo EXCEPT ![q] = Tail(@)]
      /\ UNCHANGED <<setup, since, pc, learned, lost, client>>
  BY DEF WriteFact
<1>2. m.asked = q /\ m.text = Head(todo[q]).text /\ m.home = home
  BY DEF Record
<1> HIDE DEF m
<1>3. IsList(store)
  BY DEF Kept, Framed
<1>4. /\ IsList(store') /\ n \in Nat /\ store'[n] = m
      /\ \A i \in DOMAIN store : store'[i] = store[i] /\ i < n
      /\ \A r : m.asked # r => Mine(store', r) = Mine(store, r)
      /\ \A r : m.asked = r => Mine(store', r) = Mine(store, r) \cup {n}
      /\ \A r : /\ IsFiniteSet(Mine(store, r)) /\ Cardinality(Mine(store, r)) \in Nat
                /\ Cardinality(Mine(store, r) \cup {n}) = Cardinality(Mine(store, r)) + 1
      /\ \A r : \A i \in Mine(store, r) : Place(store', r, i) = Place(store, r, i)
      /\ \A r : m.asked = r => Place(store', r, n) = Cardinality(Mine(store, r)) + 1
  <2>1. store' = Append(store, m)
    BY <1>1
  <2>2. OneMore(store, m, store', n)
    BY <1>3, <2>1, OneMoreRecord
  <2> QED
    BY <2>2 DEF OneMore
<1>5. todo'[q] = Tail(todo[q]) /\ \A r \in Requests \ {q} : todo'[r] = todo[r]
  BY <1>1 DEF Kept, Framed
<1>6. Framed'
  BY <1>1, <1>4 DEF Kept, Framed
<1>7. \A r \in Requests \ {q} : Mine(store', r) = Mine(store, r)
  BY <1>2, <1>4
<1>8. Untaught'
  BY <1>1, <1>5, <1>7 DEF Kept, Untaught, BeforeWriting
<1>9. Booked(store, q, todo[q], learned[q], home)
  BY DEF Kept, AllBooked
<1>10. /\ IsList(Tail(todo[q])) /\ Len(todo[q]) \in Nat \ {0} /\ Len(Tail(todo[q])) = Len(todo[q]) - 1
       /\ Head(todo[q]) = todo[q][1] /\ \A k \in 1..(Len(todo[q]) - 1) : Tail(todo[q])[k] = todo[q][k + 1]
  BY <1>1, <1>9, ListHead DEF Booked
<1>11. /\ Mine(store', q) = Mine(store, q) \cup {n} /\ Cardinality(Mine(store', q)) = done + 1 /\ done \in Nat
       /\ Place(store', q, n) = done + 1
  BY <1>2, <1>4
<1>12. Booked(store', q, Tail(todo[q]), learned[q], home)
  <2>1. (done + 1) + Len(Tail(todo[q])) = Len(learned[q])
    BY <1>9, <1>10, <1>11 DEF Booked
  <2>2. ASSUME NEW k \in 1..Len(Tail(todo[q])) PROVE Tail(todo[q])[k] = learned[q][(done + 1) + k]
    <3>1. k \in 1..(Len(todo[q]) - 1) /\ k + 1 \in 1..Len(todo[q]) /\ done + (k + 1) = (done + 1) + k
      BY <1>10, <1>11
    <3>2. todo[q][k + 1] = learned[q][done + (k + 1)]
      BY <1>9, <3>1 DEF Booked
    <3> QED
      BY <1>10, <3>1, <3>2
  <2>3. ASSUME NEW i \in Mine(store, q)
        PROVE  store'[i].text = learned[q][Place(store', q, i)].text /\ store'[i].home = home
    <3>1. store'[i] = store[i] /\ Place(store', q, i) = Place(store, q, i)
      <4>1. i \in DOMAIN store
        BY DEF Mine
      <4> QED
        BY <1>4, <4>1
    <3>2. store[i].text = learned[q][Place(store, q, i)].text /\ store[i].home = home
      BY <1>9 DEF Booked
    <3> QED
      BY <3>1, <3>2
  <2>4. store'[n].text = learned[q][Place(store', q, n)].text /\ store'[n].home = home
    <3>1. 1 \in 1..Len(todo[q])
      BY <1>10
    <3>2. todo[q][1] = learned[q][done + 1]
      BY <1>9, <3>1 DEF Booked
    <3> QED
      BY <1>2, <1>4, <1>10, <1>11, <3>2
  <2> HIDE DEF n, done, home
  <2> QED
    BY <1>10, <1>11, <2>1, <2>2, <2>3, <2>4 DEF Booked
<1>13. ASSUME NEW r \in Requests \ {q}
       PROVE  Booked(store', r, todo[r], learned[r], Home(since[r]))
  <2>1. Booked(store, r, todo[r], learned[r], Home(since[r]))
    BY DEF Kept, AllBooked
  <2>2. \A i \in Mine(store, r) : store'[i] = store[i] /\ Place(store', r, i) = Place(store, r, i)
    BY <1>4 DEF Mine
  <2> HIDE DEF n, done, home
  <2> QED
    BY <1>7, <2>1, <2>2 DEF Booked
<1>14. AllBooked'
  <2>1. ASSUME NEW r \in Requests PROVE Booked(store, r, todo[r], learned[r], Home(since[r]))'
    <3>1. Home(since[r])' = Home(since[r])
      BY <1>1 DEF Home
    <3>2. CASE r = q
      BY <1>1, <1>5, <1>12, <3>1, <3>2
    <3>3. CASE r # q
      BY <1>1, <1>5, <1>13, <3>1, <3>3
    <3> QED
      BY <3>2, <3>3
  <2> QED
    BY <2>1 DEF AllBooked
<1>15. WrittenOrLost'
  BY <1>1, <1>5 DEF Kept, WrittenOrLost
<1>16. RepliedIsClosed'
  BY <1>1 DEF Kept, RepliedIsClosed
<1> QED
  BY <1>6, <1>8, <1>14, <1>15, <1>16 DEF Kept

LEMMA NextKept == Kept /\ [Next]_vars => Kept'
<1> SUFFICES ASSUME Kept, [Next]_vars PROVE Kept'
  OBVIOUS
<1> USE DEF Framed, WrittenOrLost, RepliedIsClosed, BeforeWriting, Phases
<1>0. Framed /\ WrittenOrLost /\ RepliedIsClosed
  BY DEF Kept
<1>1. ASSUME NEW q \in Requests, RequestStep(q) PROVE Kept'
  <2>1. CASE ServeCard(q) \/ Unidentified(q)
    BY <2>1, <1>0, StillKept DEF ServeCard, Unidentified
  <2>2. CASE Arrive(q)
    BY <2>2, <1>0, StillKept DEF Arrive
  <2>3. CASE Rejected(q)
    BY <2>3, <1>0, StillKept DEF Rejected
  <2>4. CASE Spawn(q)
    BY <2>4, <1>0, StillKept DEF Spawn
  <2>5. CASE Leave(q)
    BY <2>5, <1>0, StillKept DEF Leave
  <2> QED
    BY <1>1, <2>1, <2>2, <2>3, <2>4, <2>5 DEF RequestStep
<1>2. ASSUME NEW q \in Requests, RunStep(q) PROVE Kept'
  <2>1. CASE Recall(q)
    BY <2>1, <1>0, StillKept DEF Recall
  <2>2. CASE CallTool(q)
    <3>1. UNCHANGED <<setup, pc, since, todo, learned, lost, store, client>>
      BY <2>2 DEF CallTool
    <3> QED
      BY <3>1, <1>0, StillKept
  <2>3. CASE Finish(q)
    BY <2>3, <1>0, StillKept DEF Finish
  <2>4. CASE Suspend(q)
    BY <2>4, <1>0, StillKept DEF Suspend
  <2>5. CASE Fail(q)
    BY <2>5, <1>0, StillKept DEF Fail
  <2> QED
    BY <1>2, <2>1, <2>2, <2>3, <2>4, <2>5 DEF RunStep
<1>3. ASSUME NEW q \in Requests, HarvestStep(q) PROVE Kept'
  <2>1. CASE Harvest(q)
    BY <2>1, <1>0, StillKept DEF Harvest
  <2>2. CASE NothingToHarvest(q)
    BY <2>2, <1>0, StillKept DEF NothingToHarvest
  <2>3. CASE ExtractFails(q)
    BY <2>3, <1>0, StillKept DEF ExtractFails
  <2>4. CASE WriteFails(q)
    BY <2>4, <1>0, StillKept DEF WriteFails
  <2>5. CASE Harvested(q)
    BY <2>5, <1>0, StillKept DEF Harvested
  <2>6. CASE Close(q)
    BY <2>6, <1>0, StillKept DEF Close
  <2> QED
    BY <1>3, <2>1, <2>2, <2>3, <2>4, <2>5, <2>6, ExtractKept, WriteFactKept DEF HarvestStep
<1>4. ASSUME NEW t \in Tasks, Cancel(t) PROVE Kept'
  BY <1>4, <1>0, StillKept DEF Cancel
<1>5. CASE Reload
  BY <1>5, <1>0, StillKept DEF Reload, Rebuilt
<1>6. CASE Restart
  BY <1>6, <1>0, StillKept DEF Restart, Rebuilt
<1>7. CASE UNCHANGED vars
  BY <1>7, <1>0, StillKept DEF vars
<1> QED
  BY <1>1, <1>2, <1>3, <1>4, <1>5, <1>6, <1>7 DEF Next

\* When the response has ended, every fact taken from it is in the store, once
\* and in order, unless a write failed: RepliedIsLearned, for any number of
\* runs that write at once, with reloads and restarts (run_message harvests
\* before it closes the emitter).
THEOREM ReplyMeansLearned == Spec => []RepliedIsLearned
<1>1. Kept => RepliedIsLearned
  <2> SUFFICES ASSUME Kept, NEW r \in Requests, client[r] = "replied", ~lost[r]
               PROVE  /\ Cardinality(Mine(store, r)) = Len(learned[r])
                      /\ \A i \in Mine(store, r) : /\ store[i].text = learned[r][Place(store, r, i)].text
                                                   /\ store[i].home = Home(since[r])
    BY DEF RepliedIsLearned, Mine, Place
  <2>1. todo[r] = <<>>
    BY DEF Kept, RepliedIsClosed, WrittenOrLost
  <2>2. Booked(store, r, <<>>, learned[r], Home(since[r]))
    BY <2>1 DEF Kept, AllBooked
  <2>3. Len(<<>>) = 0 /\ Cardinality(Mine(store, r)) \in Nat
    BY EmptyList, FiniteMine DEF Kept, Framed
  <2> QED
    BY <2>2, <2>3 DEF Booked
<1> QED
  BY <1>1, InitKept, NextKept, PTL DEF Spec

-----------------------------------------------------------------------------
\* A block compiled: its name is one server's, and its filters are in.
Merged(a, b) == MergeFilters(a.filters, b.filters) = a.filters
Made(a, b, p) ==
  /\ IsAgent(a) /\ a.juicefs = b /\ Merged(a, b)
  /\ p \in DOMAIN a.servers /\ Named(a.servers, b.name) = {p}

AtMostOne(S) == S = {} \/ \E p : S = {p}

LEMMA AtMostOneNamed ==
  ASSUME NEW a, IsAgent(a), NEW name, Cardinality(Named(a.servers, name)) <= 1
  PROVE  AtMostOne(Named(a.servers, name))
<1> DEFINE S == Named(a.servers, name)
           n == Len(a.servers)
<1>1. n \in Nat /\ DOMAIN a.servers = 1..n
  BY DEF IsAgent
<1>2. IsFiniteSet(1..n)
  BY <1>1, FS_Interval
<1>3. IsFiniteSet(S) /\ Cardinality(S) \in Nat
  BY <1>1, <1>2, FS_Subset, FS_CardinalityType DEF Named
<1> HIDE DEF S
<1>4. CASE Cardinality(S) = 0
  BY <1>3, <1>4, FS_EmptySet DEF AtMostOne, S
<1>5. CASE Cardinality(S) = 1
  BY <1>3, <1>5, FS_Singleton DEF AtMostOne, S
<1>6. Cardinality(S) = 0 \/ Cardinality(S) = 1
  <2>1. Cardinality(S) <= 1
    BY DEF S
  <2> QED
    BY <1>3, <2>1
<1> QED
  BY <1>4, <1>5, <1>6

\* Merging the same filters twice is merging them once.
LEMMA MergedOnce ==
  ASSUME NEW f, NEW g
  PROVE  MergeFilters(MergeFilters(f, g), g) = MergeFilters(f, g)
  BY DEF MergeFilters

LEMMA AgentWith ==
  ASSUME NEW a, IsAgent(a), NEW s, NEW f,
         Len(s) \in Nat, s = [i \in 1..Len(s) |-> s[i]], f = [include |-> f.include, exclude |-> f.exclude]
  PROVE  LET x == [juicefs |-> a.juicefs, servers |-> s, filters |-> f]
         IN  IsAgent(x) /\ x.juicefs = a.juicefs /\ x.servers = s /\ x.filters = f
  BY DEF IsAgent

\* One more server at the end.
Longer(servers, m, s, n) ==
  /\ Len(s) \in Nat /\ s = [i \in 1..Len(s) |-> s[i]] /\ DOMAIN s = 1..n /\ s[n] = m
  /\ n \in DOMAIN s
  /\ Named(servers, m.name) = {} => Named(s, m.name) = {n}

LEMMA OneMoreServer ==
  ASSUME NEW a, IsAgent(a), NEW m
  PROVE  Longer(a.servers, m, Append(a.servers, m), Len(a.servers) + 1)
<1> DEFINE T == {a.servers[i] : i \in 1..Len(a.servers)} \cup {m}
           s == Append(a.servers, m)
           n == Len(a.servers) + 1
<1>1. Len(a.servers) \in Nat /\ DOMAIN a.servers = 1..Len(a.servers)
  BY DEF IsAgent
<1>2. a.servers \in [1..Len(a.servers) -> T]
  BY DEF IsAgent
<1>3. a.servers \in Seq(T) /\ m \in T
  BY <1>1, <1>2
<1> HIDE DEF T
<1>4. s \in Seq(T) /\ Len(s) = n /\ s[n] = m /\ \A i \in 1..Len(a.servers) : s[i] = a.servers[i]
  BY <1>1, <1>3
<1> HIDE DEF s
<1>5. DOMAIN s = 1..n /\ s = [i \in 1..n |-> s[i]] /\ n \in Nat
  BY <1>1, <1>4
<1>6. Named(a.servers, m.name) = {} => Named(s, m.name) = {n}
  <2> SUFFICES ASSUME Named(a.servers, m.name) = {} PROVE Named(s, m.name) = {n}
    OBVIOUS
  <2>1. \A i \in 1..Len(a.servers) : a.servers[i].name # m.name
    BY <1>1 DEF Named
  <2>2. \A i \in 1..n : i = n \/ i \in 1..Len(a.servers)
    BY <1>1
  <2>3. n \in 1..n
    BY <1>1
  <2> HIDE DEF n
  <2>4. \A i \in 1..n : s[i].name = m.name <=> i = n
    BY <1>4, <2>1, <2>2
  <2> QED
    BY <1>5, <2>3, <2>4 DEF Named
<1> QED
  BY <1>1, <1>4, <1>5, <1>6 DEF s, Longer

LEMMA DesugarMakes ==
  ASSUME NEW a, IsAgent(a), a.juicefs # Off, AtMostOne(Named(a.servers, a.juicefs.name))
  PROVE  \E p : Made(Desugar(a), a.juicefs, p)
<1> DEFINE b == a.juicefs
           m == CompileJuicefs(b, Off)
           s == IF Named(a.servers, b.name) # {} THEN a.servers ELSE Append(a.servers, m)
           f == MergeFilters(a.filters, b.filters)
           x == [juicefs |-> b, servers |-> s, filters |-> f]
<1>1. Desugar(a) = x
  <2>1. Desugar(a) = [[a EXCEPT !.servers = s] EXCEPT !.filters = f]
    BY Zenon DEF Desugar
  <2> HIDE DEF s, f
  <2>2. a = [juicefs |-> a.juicefs, servers |-> a.servers, filters |-> a.filters]
    BY DEF IsAgent
  <2> QED
    BY <2>1, <2>2
<1>2. f = [include |-> f.include, exclude |-> f.exclude]
  BY DEF MergeFilters
<1>3. MergeFilters(f, b.filters) = f
  BY MergedOnce
<1>4. m.name = b.name
  BY DEF CompileJuicefs
<1> HIDE DEF m, f
<1>5. \E p : /\ Len(s) \in Nat /\ s = [i \in 1..Len(s) |-> s[i]]
             /\ p \in DOMAIN s /\ Named(s, b.name) = {p}
  <2>1. CASE Named(a.servers, b.name) # {}
    <3>1. PICK p : Named(a.servers, b.name) = {p}
      BY <2>1 DEF AtMostOne
    <3>2. p \in DOMAIN a.servers
      BY <3>1 DEF Named
    <3>3. s = a.servers
      BY <2>1
    <3> QED
      BY <3>1, <3>2, <3>3 DEF IsAgent
  <2>2. CASE Named(a.servers, b.name) = {}
    <3>1. s = Append(a.servers, m)
      BY <2>2
    <3> HIDE DEF s, b
    <3>2. Named(a.servers, m.name) = {}
      BY <2>2, <1>4
    <3>3. Longer(a.servers, m, s, Len(a.servers) + 1)
      BY <3>1, OneMoreServer
    <3> QED
      BY <1>4, <3>2, <3>3 DEF Longer
  <2> QED
    BY <2>1, <2>2
<1> HIDE DEF s
<1>6. PICK p : Len(s) \in Nat /\ s = [i \in 1..Len(s) |-> s[i]] /\ p \in DOMAIN s /\ Named(s, b.name) = {p}
  BY <1>5
<1>7. IsAgent(x) /\ x.juicefs = b /\ x.servers = s /\ x.filters = f
  BY <1>2, <1>6, AgentWith
<1> HIDE DEF x, b
<1>8. Made(x, b, p)
  BY <1>3, <1>6, <1>7 DEF Made, Merged
<1> QED
  BY <1>1, <1>8 DEF b

\* The agent's own pass has nothing left to do.
LEMMA DesugarTwice ==
  ASSUME NEW a, NEW b, NEW p, Made(a, b, p), b # Off
  PROVE  Desugar(a) = a
<1>1. Desugar(a) = [[a EXCEPT !.servers = a.servers] EXCEPT !.filters = a.filters]
  BY Zenon DEF Desugar, Made, Merged
<1>2. a = [juicefs |-> a.juicefs, servers |-> a.servers, filters |-> a.filters]
  BY DEF Made, IsAgent
<1> QED
  BY <1>1, <1>2

\* The place of the block has its server compiled anew.
Recompiled(a, b, p, x, compiled) ==
  /\ Made(x, b, p)
  /\ x.servers = [a.servers EXCEPT ![p] = compiled] /\ x.servers[p] = compiled

\* The server's pass puts its own server in the one place that is the block's.
LEMMA IdentityMakes ==
  ASSUME NEW a, NEW b, NEW p, NEW identity, Made(a, b, p), b # Off,
         NEW x, x = WithIdentity(a, identity)
  PROVE  Recompiled(a, b, p, x, CompileJuicefs(b, identity))
<1> DEFINE compiled == CompileJuicefs(b, identity)
           s == [a.servers EXCEPT ![p] = compiled]
           w == [juicefs |-> b, servers |-> s, filters |-> a.filters]
           n == Len(a.servers)
<1>1. compiled.name = b.name
  BY DEF CompileJuicefs
<1>2. First({p}) = p
  BY DEF First, Made, IsAgent
<1>3. WithIdentity(a, identity) = [[a EXCEPT !.servers = s] EXCEPT !.filters = a.filters]
  <2>1. Named(a.servers, compiled.name) = {p} /\ {p} # {} /\ a.juicefs = b /\ MergeFilters(a.filters, b.filters) = a.filters
    BY <1>1 DEF Made, Merged
  <2> QED
    BY <1>2, <2>1 DEF WithIdentity
<1> HIDE DEF compiled
<1>4. a = [juicefs |-> a.juicefs, servers |-> a.servers, filters |-> a.filters] /\ a.juicefs = b
  BY DEF Made, IsAgent
<1>5. /\ n \in Nat /\ a.servers = [i \in 1..n |-> a.servers[i]] /\ p \in 1..n
      /\ \A i \in 1..n : a.servers[i].name = b.name <=> i = p
  BY DEF Made, IsAgent, Named
<1>6. /\ DOMAIN s = 1..n /\ s = [i \in 1..n |-> s[i]] /\ s[p] = compiled
      /\ \A i \in 1..n : i # p => s[i] = a.servers[i]
  BY <1>5
<1>7. x = w
  <2> HIDE DEF s
  <2> QED
    BY <1>3, <1>4
<1> HIDE DEF s
<1>8. Len(s) = n
  BY <1>5, <1>6
<1>9. Named(s, b.name) = {p}
  BY <1>1, <1>5, <1>6 DEF Named
<1>10. IsAgent(w) /\ w.juicefs = b /\ w.servers = s /\ w.filters = a.filters
  <2>1. a.filters = [include |-> a.filters.include, exclude |-> a.filters.exclude] /\ IsAgent(a)
    BY DEF Made, IsAgent
  <2> QED
    BY <1>4, <1>5, <1>6, <1>8, <2>1, AgentWith
<1>11. Made(w, b, p)
  <2>1. Merged(a, b)
    BY DEF Made
  <2> HIDE DEF w
  <2> QED
    BY <1>5, <1>6, <1>9, <1>10, <2>1 DEF Made, Merged
<1> HIDE DEF w
<1>12. w.servers = [a.servers EXCEPT ![p] = compiled]
  BY <1>10 DEF s
<1>13. Recompiled(a, b, p, x, compiled)
  BY <1>6, <1>7, <1>10, <1>11, <1>12 DEF Recompiled
<1> QED
  BY <1>13 DEF compiled

\* And a second time it finds what it puts there.
LEMMA IdentityTwice ==
  ASSUME NEW a, NEW b, NEW p, NEW identity, Made(a, b, p), b # Off
  PROVE  WithIdentity(WithIdentity(a, identity), identity) = WithIdentity(a, identity)
<1> DEFINE x == WithIdentity(a, identity)
           y == WithIdentity(x, identity)
           compiled == CompileJuicefs(b, identity)
<1>1. Made(x, b, p) /\ x.servers = [a.servers EXCEPT ![p] = compiled] /\ x.servers[p] = compiled
  BY IdentityMakes DEF Recompiled
<1> HIDE DEF x, compiled
<1>2. Made(y, b, p) /\ y.servers = [x.servers EXCEPT ![p] = compiled]
  <2>1. Recompiled(x, b, p, y, compiled)
    BY <1>1, IdentityMakes DEF compiled
  <2> QED
    BY <2>1 DEF Recompiled
<1>3. y.servers = x.servers
  <2>1. x.servers = [i \in 1..Len(x.servers) |-> x.servers[i]]
    BY <1>1 DEF Made, IsAgent
  <2> QED
    BY <1>1, <1>2, <2>1
<1>4. y.filters = x.filters
  <2>1. y = [[x EXCEPT !.servers = y.servers] EXCEPT !.filters = x.filters]
    <3>1. x.juicefs = b /\ MergeFilters(x.filters, b.filters) = x.filters
      BY <1>1 DEF Made, Merged
    <3> DEFINE same == Named(x.servers, CompileJuicefs(b, identity).name)
    <3>2. \E s : y = [[x EXCEPT !.servers = s] EXCEPT !.filters = x.filters]
      BY <3>1 DEF WithIdentity
    <3>3. x = [juicefs |-> x.juicefs, servers |-> x.servers, filters |-> x.filters]
      BY <1>1 DEF Made, IsAgent
    <3> HIDE DEF y
    <3> QED
      BY <3>2, <3>3
  <2>2. x = [juicefs |-> x.juicefs, servers |-> x.servers, filters |-> x.filters]
    BY <1>1 DEF Made, IsAgent
  <2> HIDE DEF y
  <2> QED
    BY <2>1, <2>2
<1> HIDE DEF y
<1>5. x = [juicefs |-> x.juicefs, servers |-> x.servers, filters |-> x.filters] /\ x.juicefs = b
  BY <1>1 DEF Made, IsAgent
<1>6. y = [juicefs |-> y.juicefs, servers |-> y.servers, filters |-> y.filters] /\ y.juicefs = b
  BY <1>2 DEF Made, IsAgent
<1>7. y = x
  BY <1>3, <1>4, <1>5, <1>6
<1> QED
  BY <1>7 DEF x, y

-----------------------------------------------------------------------------
\* Of places in a list, if there are any, one is the last.
Less == {ss \in Nat \X Nat : ss[1] < ss[2]}
LEMMA LessIsWellFounded == IsWellFoundedOn(Less, Nat)
  BY NatLessThanWellFounded, Zenon DEF OpToRel, Less

LEMMA OneIsLast ==
  ASSUME NEW n \in Nat, NEW S, S \subseteq 1..n, S # {}
  PROVE  \E m \in S : \A j \in S : j <= m
<1> DEFINE T == {n - i : i \in S}
<1>1. T \subseteq Nat /\ \A i \in S : n - i \in T /\ i \in Nat
  OBVIOUS
<1>2. PICK i \in S : TRUE
  OBVIOUS
<1>3. T # {}
  BY <1>1, <1>2
<1>4. \A x \in T : \E m \in S : x = n - m
  OBVIOUS
<1> HIDE DEF T
<1>5. PICK x \in T : \A y \in T : ~(<<y, x>> \in Less)
  BY <1>1, <1>3, WFMin, LessIsWellFounded
<1>6. \A a, b \in Nat : ~(<<a, b>> \in Less) => b <= a
  BY DEF Less
<1>7. \A y \in T : x <= y
  BY <1>1, <1>5, <1>6
<1>8. PICK m \in S : x = n - m
  BY <1>4
<1>9. \A j \in S : j <= m
  BY <1>1, <1>7, <1>8
<1> QED
  BY <1>9

\* A handle is a server of the configuration it was discovered from.
LEMMA HandlesAreServers ==
  ASSUME NEW a, IsAgent(a), NEW up, up \subseteq DOMAIN a.servers, NEW name \in DOMAIN Handles(a, up)
  PROVE  \E i \in DOMAIN a.servers : Handles(a, up)[name] = a.servers[i]
<1> DEFINE listed == {i \in up : Passes(a.servers[i].name, a.filters)}
           same == {i \in listed : a.servers[i].name = name}
           last == CHOOSE i \in listed :
                     /\ a.servers[i].name = name
                     /\ \A j \in listed : a.servers[j].name = name => j <= i
<1>1. name \in {a.servers[i].name : i \in listed} /\ Handles(a, up)[name] = a.servers[last]
  BY DEF Handles
<1>2. Len(a.servers) \in Nat /\ DOMAIN a.servers = 1..Len(a.servers)
  BY DEF IsAgent
<1>3. listed \subseteq DOMAIN a.servers /\ same \subseteq 1..Len(a.servers) /\ same # {}
  BY <1>1, <1>2
<1>4. PICK m \in same : \A j \in same : j <= m
  BY <1>2, <1>3, OneIsLast
<1>5. \E i \in listed : /\ a.servers[i].name = name
                        /\ \A j \in listed : a.servers[j].name = name => j <= i
  BY <1>4
<1>6. last \in listed
  BY <1>5
<1> QED
  BY <1>1, <1>3, <1>6

-----------------------------------------------------------------------------
\* At most one server of a YAML has the name of its block, and Off is no
\* header.
OneServerEach ==
  \A s \in Setups : s.agent.juicefs # Off =>
    Cardinality(Named(s.agent.servers, s.agent.juicefs.name)) <= 1
OffIsNoHeader == \A h, c : [header |-> h, credential |-> c] # Off

Boot == AtBoot(setup.agent, Identity)

\* The agent is what one of the two passes made of the YAML, at first the
\* server's, and what was called then is one of its servers.
Configured ==
  /\ setup \in Setups /\ gen \in Nat /\ DOMAIN sent = Requests
  /\ agent = ByAdmin(setup.agent) \/ agent = Boot
  /\ gen = 0 => agent = Boot
  /\ gen = 0 => \A name \in DOMAIN handles : \E i \in DOMAIN Boot.servers : handles[name] = Boot.servers[i]
  /\ \A r \in Requests : sent[r] # None /\ sent[r].at = 0 =>
       \E i \in DOMAIN Boot.servers : sent[r].server = Boot.servers[i]

LEMMA BootIsAgent ==
  ASSUME OneServerEach, setup \in Setups
  PROVE  /\ IsAgent(Boot)
         /\ setup.agent.juicefs # Off =>
              \E p : /\ Made(Boot, setup.agent.juicefs, p)
                     /\ Boot.servers[p] = CompileJuicefs(setup.agent.juicefs, Identity)
<1>1. IsAgent(setup.agent)
  BY SetupsAssumption
<1>2. CASE setup.agent.juicefs = Off
  BY <1>1, <1>2 DEF Boot, AtBoot, WithIdentity, Desugar
<1>3. CASE setup.agent.juicefs # Off
  <2>1. AtMostOne(Named(setup.agent.servers, setup.agent.juicefs.name))
    BY <1>1, <1>3, AtMostOneNamed DEF OneServerEach
  <2>2. PICK p : Made(Desugar(setup.agent), setup.agent.juicefs, p)
    BY <1>1, <1>3, <2>1, DesugarMakes
  <2>3. Made(Boot, setup.agent.juicefs, p) /\ Boot.servers[p] = CompileJuicefs(setup.agent.juicefs, Identity)
    <3>1. Boot = WithIdentity(Desugar(setup.agent), Identity)
      BY DEF Boot, AtBoot
    <3>2. Recompiled(Desugar(setup.agent), setup.agent.juicefs, p, Boot,
                     CompileJuicefs(setup.agent.juicefs, Identity))
      BY <1>3, <2>2, <3>1, IdentityMakes
    <3> QED
      BY <3>2 DEF Recompiled
  <2> QED
    BY <2>3 DEF Made
<1> QED
  BY <1>2, <1>3

LEMMA InitConfigured == OneServerEach /\ Init => Configured
<1> SUFFICES ASSUME OneServerEach, Init PROVE Configured
  OBVIOUS
<1>1. setup \in Setups /\ agent = Boot /\ gen = 0 /\ sent = [r \in Requests |-> None]
  BY DEF Init, Boot
<1>2. PICK up \in SUBSET Listable(agent) : handles = Handles(agent, up)
  BY DEF Init
<1>3. IsAgent(Boot) /\ up \subseteq DOMAIN Boot.servers
  BY <1>1, <1>2, BootIsAgent DEF Listable
<1>4. \A name \in DOMAIN handles : \E i \in DOMAIN Boot.servers : handles[name] = Boot.servers[i]
  BY <1>1, <1>2, <1>3, HandlesAreServers
<1> QED
  BY <1>1, <1>4 DEF Configured

LEMMA NextConfigured == Configured /\ [Next]_vars => Configured'
<1> SUFFICES ASSUME Configured, [Next]_vars PROVE Configured'
  OBVIOUS
<1>1. CASE UNCHANGED <<config, sent>>
  BY <1>1 DEF Configured, Boot
<1>2. ASSUME NEW q \in Requests, CallTool(q) PROVE Configured'
  <2>1. UNCHANGED config
    BY <1>2 DEF CallTool
  <2>2. PICK name \in DOMAIN handles :
          sent' = [sent EXCEPT ![q] =
            [server |-> handles[name], headers |-> RequestHeaders(handles[name], FALSE, Credential(q)), at |-> gen]]
    BY <1>2 DEF CallTool
  <2>3. /\ sent'[q].server = handles[name] /\ sent'[q].at = gen /\ DOMAIN sent' = Requests
        /\ \A r \in Requests \ {q} : sent'[r] = sent[r]
    BY <2>2 DEF Configured
  <2> QED
    BY ZenonT(30), <2>1, <2>2, <2>3 DEF Configured, Boot
<1>3. ASSUME NEW a, Rebuilt(a), a = ByAdmin(setup.agent) \/ a = Boot, UNCHANGED sent PROVE Configured'
  <2>1. agent' = a /\ gen' = gen + 1 /\ UNCHANGED setup
    BY <1>3 DEF Rebuilt
  <2>2. gen' \in Nat /\ gen' # 0 /\ Boot' = Boot
    BY <2>1 DEF Configured, Boot
  <2> QED
    BY <1>3, <2>1, <2>2 DEF Configured
<1>4. CASE Reload
  BY <1>3, <1>4 DEF Reload
<1>5. CASE Restart
  BY <1>3, <1>5 DEF Restart, Boot
<1>6. ASSUME NEW q \in Requests, RequestStep(q) PROVE Configured'
  BY <1>1, <1>6 DEF RequestStep, ServeCard, Arrive, Unidentified, Rejected, Spawn, Leave
<1>7. ASSUME NEW q \in Requests, RunStep(q), ~CallTool(q) PROVE Configured'
  BY <1>1, <1>7 DEF RunStep, Recall, Finish, Suspend, Fail
<1>8. ASSUME NEW q \in Requests, HarvestStep(q) PROVE Configured'
  <2>1. UNCHANGED <<config, sent>>
    BY <1>8 DEF HarvestStep, Harvest, NothingToHarvest, Extract, ExtractFails, WriteFails, WriteFact, Harvested, Close
  <2> QED
    BY <1>1, <2>1
<1>9. ASSUME NEW t \in Tasks, Cancel(t) PROVE Configured'
  BY <1>1, <1>9 DEF Cancel
<1>10. CASE UNCHANGED vars
  BY <1>1, <1>10 DEF vars
<1> QED
  BY <1>2, <1>4, <1>5, <1>6, <1>7, <1>8, <1>9, <1>10 DEF Next

\* However the validation was come by, validating once more changes nothing.
LEMMA ValidatedOnce ==
  ASSUME OneServerEach, Configured
  PROVE  /\ Desugar(agent) = agent
         /\ gen = 0 => WithIdentity(agent, Identity) = agent
         /\ setup.agent.juicefs # Off => \E p : Made(agent, setup.agent.juicefs, p)
<1> DEFINE b == setup.agent.juicefs
<1>1. IsAgent(setup.agent)
  BY SetupsAssumption DEF Configured
<1>2. CASE b = Off
  BY <1>2 DEF Configured, Boot, AtBoot, ByAdmin, WithIdentity, Desugar
<1>3. CASE b # Off
  <2>1. AtMostOne(Named(setup.agent.servers, b.name))
    BY <1>1, <1>3, AtMostOneNamed DEF OneServerEach, Configured
  <2>2. PICK p : Made(Desugar(setup.agent), b, p)
    BY <1>1, <1>3, <2>1, DesugarMakes
  <2> HIDE DEF b
  <2>3. Made(Boot, b, p) /\ WithIdentity(Boot, Identity) = Boot
    <3>1. Boot = WithIdentity(Desugar(setup.agent), Identity)
      BY DEF Boot, AtBoot
    <3>2. Made(Boot, b, p)
      BY <1>3, <2>2, <3>1, IdentityMakes DEF Recompiled
    <3> QED
      BY <1>3, <2>2, <3>1, <3>2, IdentityTwice
  <2>4. Made(agent, b, p) /\ (gen = 0 => WithIdentity(agent, Identity) = agent)
    BY <2>2, <2>3 DEF Configured, ByAdmin
  <2>5. Desugar(agent) = agent
    BY <1>3, <2>4, DesugarTwice
  <2> QED
    BY <2>4, <2>5 DEF b
<1> QED
  BY <1>2, <1>3

\* A juicefs block is one server however often it is compiled, validating the
\* result once more changes nothing on either path, and the calls of an agent
\* loaded at boot carry the header the server is configured with:
\* CompiledAsConfigured, for every configuration that lists the block's name
\* at most once (_desugar_juicefs, _compile_juicefs_with_identity, discover).
THEOREM BlocksAreCompiled ==
  ASSUME OneServerEach, OffIsNoHeader
  PROVE  Spec => []CompiledAsConfigured
<1>1. Configured /\ Separate => CompiledAsConfigured
  <2> SUFFICES ASSUME Configured, Separate PROVE CompiledAsConfigured
    OBVIOUS
  <2> DEFINE block == setup.agent.juicefs
             Compiled(s) == s.name = block.name /\ s.forward
  <2>1. /\ Desugar(agent) = agent
        /\ gen = 0 => WithIdentity(agent, Identity) = agent
        /\ block # Off => \E p : Made(agent, block, p)
    BY ValidatedOnce
  <2>2. block # Off => Cardinality(Named(agent.servers, block.name)) = 1
    BY <2>1, FS_Singleton DEF Made
  <2>3. ASSUME Identity # Off, block # Off
        PROVE  /\ \A r \in Requests : sent[r] # None /\ sent[r].at = 0 /\ Compiled(sent[r].server) =>
                    sent[r].headers.header = Identity.header
               /\ gen = 0 /\ Identity.service => \E i \in Listable(agent) : agent.servers[i].name = block.name
    <3>1. PICK p : Made(Boot, block, p) /\ Boot.servers[p] = CompileJuicefs(block, Identity)
      BY <2>3, BootIsAgent DEF Configured
    <3>2. \A i \in DOMAIN Boot.servers : Boot.servers[i].name = block.name => i = p
      BY <3>1 DEF Made, Named
    <3>3. ASSUME NEW r \in Requests, sent[r] # None, sent[r].at = 0, Compiled(sent[r].server)
          PROVE  sent[r].headers.header = Identity.header
      <4>1. PICK i \in DOMAIN Boot.servers : sent[r].server = Boot.servers[i]
        BY <3>3 DEF Configured
      <4>2. sent[r].server = CompileJuicefs(block, Identity)
        BY <3>1, <3>2, <3>3, <4>1
      <4>3. sent[r].server.header = Identity.header
        BY <2>3, <4>2 DEF CompileJuicefs
      <4>4. sent[r].headers = [header |-> sent[r].server.header, credential |-> sender[r]]
        BY <2>3, <3>3 DEF Separate, CallsAreOwn
      <4> QED
        BY <4>3, <4>4
    <3>4. ASSUME gen = 0, Identity.service
          PROVE  \E i \in Listable(agent) : agent.servers[i].name = block.name
      <4>1. agent = Boot /\ p \in DOMAIN agent.servers /\ agent.servers[p].name = block.name
        BY <3>1, <3>4 DEF Configured, Made, Named
      <4>2. agent.servers[p].forward /\ agent.servers[p].service = Service
        BY <2>3, <3>1, <3>4, <4>1 DEF CompileJuicefs
      <4>3. RequestHeaders(agent.servers[p], TRUE, NoOne) # Off
        BY <4>2, ServiceAssumption DEF RequestHeaders, OffIsNoHeader
      <4>4. p \in Listable(agent)
        BY <4>1, <4>3 DEF Listable
      <4> QED
        BY <4>1, <4>4
    <3> QED
      BY <3>3, <3>4
  <2> QED
    BY <2>1, <2>2, <2>3 DEF CompiledAsConfigured
<1>2. Init => Configured
  BY InitConfigured
<1> QED
  BY <1>1, <1>2, NextConfigured, InitSeparate, NextSeparate, PTL DEF Spec

-----------------------------------------------------------------------------
\* The ranks of n records are 0 to n - 1, each the rank of one of them.
LEMMA RanksAreOrdered ==
  ASSUME NEW ms, NEW n \in Nat, DOMAIN ms = 1..n, NEW text, IsFiniteSet(text),
         NEW i \in 1..n, NEW j \in 1..n
  PROVE  /\ RankOf(ms, i, text) \in 0..(n - 1)
         /\ i = j \/ Outranks(ms, i, j, text) \/ Outranks(ms, j, i, text)
         /\ Outranks(ms, i, j, text) => RankOf(ms, i, text) < RankOf(ms, j, text)
<1> DEFINE Above(x) == {c \in 1..n : Outranks(ms, c, x, text)}
           score == [x \in 1..n |-> Score(ms[x].text, text)]
<1>0. \A x \in 1..n : Score(ms[x].text, text) \in Nat
  BY FS_Subset, FS_CardinalityType DEF Score
<1>1. /\ \A x \in 1..n : score[x] \in Nat
      /\ \A x, y \in 1..n : Outranks(ms, x, y, text) <=> score[x] > score[y] \/ (score[x] = score[y] /\ x < y)
  BY <1>0 DEF Outranks
<1> HIDE DEF score
<1>2. \A x, y, z \in 1..n : Outranks(ms, x, y, text) /\ Outranks(ms, y, z, text) => Outranks(ms, x, z, text)
  BY <1>1
<1>3. \A x \in 1..n : ~Outranks(ms, x, x, text)
  BY <1>1
<1>4. i = j \/ Outranks(ms, i, j, text) \/ Outranks(ms, j, i, text)
  BY <1>1
<1>5. \A x \in 1..n : RankOf(ms, x, text) = Cardinality(Above(x))
  BY DEF RankOf
<1>6. IsFiniteSet(1..n) /\ Cardinality(1..n) = n
  BY FS_Interval
<1>7. \A x \in 1..n : Above(x) \subseteq 1..n /\ x \notin Above(x)
  BY <1>3
<1>8. Outranks(ms, i, j, text) => Above(i) \subseteq Above(j) /\ i \in Above(j) /\ i \notin Above(i)
  BY <1>2, <1>3
<1> HIDE DEF Above
<1>9. ASSUME NEW x \in 1..n
      PROVE  IsFiniteSet(Above(x)) /\ Cardinality(Above(x)) \in Nat /\ Cardinality(Above(x)) < n
  <2>1. IsFiniteSet(Above(x)) /\ Cardinality(Above(x)) \in Nat /\ Cardinality(Above(x)) <= n
    BY <1>6, <1>7, FS_Subset, FS_CardinalityType
  <2>2. Cardinality(Above(x)) # n
    BY <1>6, <1>7, FS_Subset
  <2> QED
    BY <2>1, <2>2
<1>10. ASSUME Outranks(ms, i, j, text) PROVE Cardinality(Above(i)) < Cardinality(Above(j))
  <2>1. Cardinality(Above(i)) <= Cardinality(Above(j)) /\ Cardinality(Above(i)) # Cardinality(Above(j))
    BY <1>8, <1>9, <1>10, FS_Subset
  <2> QED
    BY <1>9, <2>1
<1> QED
  BY <1>4, <1>5, <1>9, <1>10

LEMMA SomeoneHasEachRank ==
  ASSUME NEW ms, NEW n \in Nat, DOMAIN ms = 1..n, NEW text, IsFiniteSet(text), NEW k \in 0..(n - 1)
  PROVE  \E i \in 1..n : RankOf(ms, i, text) = k
<1> SUFFICES ASSUME \A i \in 1..n : RankOf(ms, i, text) # k PROVE FALSE
  OBVIOUS
<1> DEFINE R == 0..(n - 1)
           T == R \ {k}
           f == [i \in 1..n |-> RankOf(ms, i, text)]
<1>1. \A i \in 1..n : RankOf(ms, i, text) \in T
  BY RanksAreOrdered
<1>2. IsFiniteSet(1..n) /\ Cardinality(1..n) = n
  BY FS_Interval
<1>3. IsFiniteSet(R) /\ Cardinality(R) = n
  <2> DEFINE m == n - 1
  <2>1. m \in Int /\ 0 \in Int /\ m - 0 + 1 = n /\ ~(0 > m)
    OBVIOUS
  <2> HIDE DEF m
  <2>2. IsFiniteSet(0..m) /\ Cardinality(0..m) = m - 0 + 1
    BY ONLY <2>1, FS_Interval
  <2> QED
    BY <2>1, <2>2 DEF m
<1>4. k \in R
  OBVIOUS
<1> HIDE DEF R
<1>5. IsFiniteSet(T) /\ Cardinality(T) = n - 1
  BY <1>3, <1>4, FS_RemoveElement
<1> HIDE DEF T
<1>6. f \in [1..n -> T] /\ \A i \in 1..n : f[i] = RankOf(ms, i, text)
  BY <1>1
<1> HIDE DEF f
<1>7. \E i, j \in 1..n : i # j /\ f[i] = f[j]
  <2>1. Cardinality(T) < Cardinality(1..n)
    BY <1>2, <1>5
  <2> QED
    BY <1>2, <1>5, <1>6, <2>1, FS_PigeonHole
<1>8. PICK i \in 1..n, j \in 1..n : i # j /\ RankOf(ms, i, text) = RankOf(ms, j, text)
  BY <1>6, <1>7
<1>9. RankOf(ms, i, text) < RankOf(ms, j, text) \/ RankOf(ms, j, text) < RankOf(ms, i, text)
  <2>1. Outranks(ms, i, j, text) \/ Outranks(ms, j, i, text)
    BY <1>8, RanksAreOrdered
  <2>2. Outranks(ms, i, j, text) => RankOf(ms, i, text) < RankOf(ms, j, text)
    BY RanksAreOrdered
  <2>3. Outranks(ms, j, i, text) => RankOf(ms, j, text) < RankOf(ms, i, text)
    BY RanksAreOrdered
  <2> QED
    BY <2>1, <2>2, <2>3
<1>10. RankOf(ms, i, text) \in Int
  BY RanksAreOrdered
<1> QED
  BY <1>8, <1>9, <1>10

\* What Ranked puts at place k is the record of rank k - 1.
LEMMA RankedByRank ==
  ASSUME NEW ms, NEW n \in Nat, DOMAIN ms = 1..n, NEW text, IsFiniteSet(text), NEW k \in 1..n
  PROVE  \E i \in 1..n : Ranked(ms, text)[k] = ms[i] /\ RankOf(ms, i, text) = k - 1
<1> DEFINE r == k - 1
           i == CHOOSE x \in 1..n : RankOf(ms, x, text) = r
<1>1. r \in 0..(n - 1)
  OBVIOUS
<1>2. Ranked(ms, text)[k] = ms[i]
  BY DEF Ranked
<1> HIDE DEF r
<1>3. \E x \in 1..n : RankOf(ms, x, text) = r
  BY <1>1, SomeoneHasEachRank
<1>4. i \in 1..n /\ RankOf(ms, i, text) = r
  BY <1>3
<1> HIDE DEF i
<1> QED
  BY <1>2, <1>4 DEF r

\* What reaches the prompt are the first of the records found, and these the
\* first of the ranked ones.
LEMMA FirstOfList ==
  ASSUME NEW s, IsList(s), NEW m \in 0..Len(s)
  PROVE  /\ IsList(SubSeq(s, 1, m)) /\ Len(SubSeq(s, 1, m)) = m /\ DOMAIN SubSeq(s, 1, m) = 1..m
         /\ \A k \in 1..m : SubSeq(s, 1, m)[k] = s[k]
<1>1. PICK S : s \in Seq(S)
  BY DEF IsList
<1>2. Len(s) \in Nat
  BY <1>1
<1>3. SubSeq(s, 1, m) \in Seq(S) /\ Len(SubSeq(s, 1, m)) = m
  BY <1>1, <1>2
<1>4. \A k \in 1..m : SubSeq(s, 1, m)[k] = s[k]
  BY <1>1, <1>2
<1> DEFINE first == SubSeq(s, 1, m)
<1> HIDE DEF first
<1>5. first \in Seq(S) /\ Len(first) = m
  BY <1>3 DEF first
<1>6. IsList(first) /\ DOMAIN first = 1..m
  BY <1>5 DEF IsList
<1> QED
  BY <1>4, <1>5, <1>6 DEF first

LEMMA InjectedIsPrefix ==
  ASSUME NEW s, IsList(s)
  PROVE  \E m \in 0..Len(s) : DOMAIN Injected(s) = 1..m /\ \A k \in 1..m : Injected(s)[k] = s[k]
<1> DEFINE fitting == {n \in DOMAIN s : \A k \in 1..n : Fits(s, k)}
           m == Cardinality(fitting)
           n == Len(s)
<1>1. n \in Nat /\ DOMAIN s = 1..n
  <2>1. PICK S : s \in Seq(S)
    BY DEF IsList
  <2> QED
    BY <2>1
<1>2. fitting \subseteq DOMAIN s /\ Injected(s) = SubSeq(s, 1, m)
  BY DEF Injected
<1> HIDE DEF fitting, n
<1>3. IsFiniteSet(1..n) /\ Cardinality(1..n) = n
  BY <1>1, FS_Interval
<1>4. IsFiniteSet(fitting) /\ m <= n
  BY <1>1, <1>2, <1>3, FS_Subset
<1>5. m \in 0..n
  BY <1>1, <1>4, FS_CardinalityType
<1> HIDE DEF m
<1> QED
  BY <1>2, <1>5, FirstOfList DEF n

LEMMA CandidatesAreList ==
  ASSUME NEW records, IsList(records), NEW scopes, NEW text
  PROVE  LET ms == Candidates(records, scopes, text) IN Len(ms) \in Nat /\ DOMAIN ms = 1..Len(ms)
<1>1. Len(records) \in Nat /\ DOMAIN records = 1..Len(records)
  BY DEF IsList
<1> QED
  BY <1>1, WithoutIsList DEF Candidates

\* A run is told the records of the lowest ranks.
ByRank(ms, told, text) ==
  \E m \in 0..Len(ms) : DOMAIN told = 1..m /\ \A k \in 1..m :
    \E i \in DOMAIN ms : told[k] = ms[i] /\ RankOf(ms, i, text) = k - 1

LEMMA ToldByRank ==
  ASSUME NEW records, IsList(records), NEW scopes, NEW text, IsFiniteSet(text)
  PROVE  ByRank(Candidates(records, scopes, text), Injected(Search(records, scopes, text)), text)
<1> DEFINE ms == Candidates(records, scopes, text)
           ranked == Ranked(ms, text)
           n == Len(ms)
           few == IF Len(ranked) < TopK THEN Len(ranked) ELSE TopK
           found == Search(records, scopes, text)
<1>1. n \in Nat /\ DOMAIN ms = 1..n
  BY CandidatesAreList
<1>2. ranked = [k \in 1..n |-> ranked[k]]
  BY <1>1 DEF Ranked
<1>3. found = SubSeq(ranked, 1, few)
  BY DEF Search
<1>4. ASSUME NEW k \in 1..n PROVE \E i \in 1..n : ranked[k] = ms[i] /\ RankOf(ms, i, text) = k - 1
  <2> HIDE DEF ms
  <2> QED
    BY <1>1, RankedByRank
<1> HIDE DEF ranked, ms, n, found
<1>5. IsList(ranked) /\ Len(ranked) = n
  BY <1>1, <1>2, ListFromFunction
<1>6. few \in 0..Len(ranked)
  BY <1>1, <1>5, TopKAssumption
<1> HIDE DEF few
<1>7. IsList(found) /\ Len(found) = few /\ \A k \in 1..few : found[k] = ranked[k]
  BY <1>3, <1>5, <1>6, FirstOfList
<1>8. PICK m \in 0..few : DOMAIN Injected(found) = 1..m /\ \A k \in 1..m : Injected(found)[k] = found[k]
  BY <1>7, InjectedIsPrefix
<1>9. m \in 0..n /\ \A k \in 1..m : k \in 1..few /\ k \in 1..n
  BY <1>1, <1>5, <1>6
<1>10. \A k \in 1..m : \E i \in 1..n : Injected(found)[k] = ms[i] /\ RankOf(ms, i, text) = k - 1
  BY <1>4, <1>7, <1>8, <1>9
<1> QED
  BY <1>1, <1>8, <1>9, <1>10 DEF ByRank, found, ms, n

Recallable ==
  /\ IsList(store)
  /\ DOMAIN shown = Requests
  /\ \A r \in Requests : IsFiniteSet(query[r])

LEMMA RecallTellsBest ==
  ASSUME Recallable, NEW r \in Requests, Recall(r), setup.recall,
         NEW ms, ms = Candidates(Records(since[r]), setup.scopes, query[r]),
         NEW i \in DOMAIN ms, NEW j \in DOMAIN ms,
         \E k \in DOMAIN shown'[r] : shown'[r][k] = ms[i],
         ~ \E k \in DOMAIN shown'[r] : shown'[r][k] = ms[j]
  PROVE  \E e \in DOMAIN ms : ms[e] = ms[i] /\ Outranks(ms, e, j, query[r])
<1> DEFINE records == Records(since[r])
           text == query[r]
           told == shown'[r]
           n == Len(ms)
<1>1. told = Injected(Search(records, setup.scopes, text))
  BY DEF Recall, Recallable
<1>2. IsList(records)
  <2>1. Len(store) \in Nat /\ DOMAIN store = 1..Len(store)
    BY DEF Recallable, IsList
  <2> QED
    BY <2>1, WithoutIsList DEF Records
<1>3. IsFiniteSet(text)
  BY DEF Recallable
<1> HIDE DEF records, text, told
<1>4. n \in Nat /\ DOMAIN ms = 1..n
  BY <1>2, CandidatesAreList DEF records, text
<1>5. ByRank(ms, told, text)
  <2>1. ms = Candidates(records, setup.scopes, text)
    BY DEF records, text
  <2> QED
    BY <1>1, <1>2, <1>3, <2>1, ToldByRank
<1>6. PICK m \in 0..n : DOMAIN told = 1..m /\ \A k \in 1..m :
        \E e \in DOMAIN ms : told[k] = ms[e] /\ RankOf(ms, e, text) = k - 1
  BY <1>5 DEF ByRank
<1> HIDE DEF n
<1>7. PICK k \in 1..m : told[k] = ms[i]
  BY <1>6 DEF told
<1>8. PICK e \in 1..n : told[k] = ms[e] /\ RankOf(ms, e, text) = k - 1
  BY <1>4, <1>6
<1>9. RankOf(ms, j, text) \in Nat
  BY <1>3, <1>4, RanksAreOrdered
<1>10. RankOf(ms, j, text) >= m
  <2> SUFFICES ASSUME RankOf(ms, j, text) < m PROVE FALSE
    BY <1>9
  <2> DEFINE p == RankOf(ms, j, text) + 1
  <2>1. p \in 1..m /\ p - 1 = RankOf(ms, j, text)
    BY <1>9
  <2> HIDE DEF p
  <2>2. PICK d \in 1..n : told[p] = ms[d] /\ RankOf(ms, d, text) = RankOf(ms, j, text)
    BY <1>4, <1>6, <2>1
  <2>3. d = j
    <3>1. d = j \/ Outranks(ms, d, j, text) \/ Outranks(ms, j, d, text)
      BY <1>3, <1>4, RanksAreOrdered
    <3>2. Outranks(ms, d, j, text) => RankOf(ms, d, text) < RankOf(ms, j, text)
      BY <1>3, <1>4, RanksAreOrdered
    <3>3. Outranks(ms, j, d, text) => RankOf(ms, j, text) < RankOf(ms, d, text)
      BY <1>3, <1>4, RanksAreOrdered
    <3> QED
      BY <1>9, <2>2, <3>1, <3>2, <3>3
  <2> QED
    BY <1>6, <2>1, <2>2, <2>3 DEF told
<1>11. RankOf(ms, e, text) < RankOf(ms, j, text)
  BY <1>8, <1>9, <1>10
<1>12. Outranks(ms, e, j, text)
  <2>1. e = j \/ Outranks(ms, e, j, text) \/ Outranks(ms, j, e, text)
    BY <1>3, <1>4, RanksAreOrdered
  <2>2. Outranks(ms, j, e, text) => RankOf(ms, j, text) < RankOf(ms, e, text)
    BY <1>3, <1>4, RanksAreOrdered
  <2>3. RankOf(ms, e, text) \in Nat
    BY <1>3, <1>4, RanksAreOrdered
  <2> QED
    BY <1>9, <1>11, <2>1, <2>2, <2>3
<1> QED
  BY <1>4, <1>7, <1>8, <1>12 DEF text

\* What a request asks and that each run has a place for what it is told.
Asked == DOMAIN shown = Requests /\ \A r \in Requests : IsFiniteSet(query[r])

LEMMA InitAsked == Init => Asked
  BY TextsAssumption DEF Init, Asked

LEMMA NextAsked == Asked /\ [Next]_vars => Asked'
<1> SUFFICES ASSUME Asked, [Next]_vars PROVE Asked'
  OBVIOUS
<1>1. ASSUME NEW r \in Requests, RequestStep(r) PROVE Asked'
  BY <1>1 DEF Asked, RequestStep, ServeCard, Arrive, Unidentified, Rejected, Spawn, Leave
<1>2. ASSUME NEW r \in Requests, RunStep(r) PROVE Asked'
  <2>1. CASE Recall(r)
    BY <2>1 DEF Asked, Recall
  <2>2. CASE CallTool(r)
    BY <2>2 DEF Asked, CallTool
  <2>3. CASE Finish(r) \/ Suspend(r) \/ Fail(r)
    BY <2>3 DEF Asked, Finish, Suspend, Fail
  <2> QED
    BY <1>2, <2>1, <2>2, <2>3 DEF RunStep
<1>3. ASSUME NEW r \in Requests, HarvestStep(r) PROVE Asked'
  BY <1>3 DEF Asked, HarvestStep, Harvest, NothingToHarvest, Extract, ExtractFails, WriteFails, WriteFact, Harvested, Close
<1>4. ASSUME NEW t \in Tasks, Cancel(t) PROVE Asked'
  BY <1>4 DEF Asked, Cancel
<1>5. CASE Reload \/ Restart
  BY <1>5 DEF Asked, Reload, Restart
<1>6. CASE UNCHANGED vars
  BY <1>6 DEF Asked, vars
<1> QED
  BY <1>1, <1>2, <1>3, <1>4, <1>5, <1>6 DEF Next

\* A run is told what ranks highest among what it could be told: RecallIsBest,
\* for every store, query, top_k and budget.
THEOREM RecallTellsTheBest == Spec => RecallIsBest
<1>1. Kept /\ Asked => Recallable
  BY DEF Kept, Framed, Asked, Recallable
<1>2. Kept /\ Asked /\ [Next]_vars =>
        [\A r \in Requests : Recall(r) /\ setup.recall =>
       LET ms == Candidates(Records(since[r]), setup.scopes, query[r])
           Told(i) == \E k \in DOMAIN shown'[r] : shown'[r][k] = ms[i]
       IN  \A i, j \in DOMAIN ms : Told(i) /\ ~Told(j) =>
             \E e \in DOMAIN ms : ms[e] = ms[i] /\ Outranks(ms, e, j, query[r])]_vars
  BY <1>1, RecallTellsBest
<1> QED
  BY <1>2, InitKept, NextKept, InitAsked, NextAsked, PTL DEF Spec, RecallIsBest
=============================================================================
