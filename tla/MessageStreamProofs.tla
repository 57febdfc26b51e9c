------------------------- MODULE MessageStreamProofs -------------------------
(***************************************************************************)
(* Proofs about MessageStream: what the client of a stream is told, for    *)
(* any number of progress events and any fault that run_message reports,   *)
(* and what message:send answers, for any fault at all.                    *)
(***************************************************************************)
EXTENDS MessageStream, SequenceTheorems, TLAPS

USE StreamAssumption DEF channel, reading

\* The faults after which the outcome is told: on message:stream the run fails
\* before the pattern or with a PatternError.
Reported == \A f \in Faults : f.route = "stream" => f.kind \in {"prelude", "pattern"}

Item == Events \cup {End}
Outcomes == {"WORKING", "COMPLETED", "INPUT_REQUIRED"}

Carried ==
  /\ queue \in Seq(Item) /\ delivered \in Seq(Item)
  /\ outcome \in Outcomes
  /\ reader \in {"reading", "finished", "gone"}
  /\ pc \in Steps

\* Where the run has not told its outcome, has told it, has closed the stream.
Open == {"start", "prelude", "pattern", "artifact", "write", "emit", "reject",
         "rejected", "raised", "record"}
Telling == {"harvest", "close", "report"}
Ended == {"returned", "done"}

\* What was emitted: no outcome while the stream is open, then one, and last.
Story(s) ==
  /\ \A i \in 1..Len(s) : s[i] # End
  /\ IF pc \in Open THEN \A i \in 1..Len(s) : ~Terminal(s[i])
     ELSE /\ Len(s) # 0 /\ Terminal(s[Len(s)])
          /\ \A i \in 1..(Len(s) - 1) : ~Terminal(s[i])
          /\ row \in {s[Len(s)].state, "CANCELED"}

\* The reader has got a part of it, the rest and the end are in the queue.
Told == \E s \in Seq(Item) :
  /\ Story(s)
  /\ IF reader = "finished" THEN delivered = s /\ pc \in Ended
     ELSE delivered \o queue = IF pc \in Ended THEN Append(s, End) ELSE s

\* The row is written before the event.
Recorded ==
  /\ pc = "emit" => row \in {outcome, "CANCELED"}
  /\ pc \in {"rejected", "record"} => row \in {"FAILED", "CANCELED"}

Streaming ==
  route = "stream" =>
    /\ pc \in Open \cup Telling \cup Ended
    /\ closed <=> pc \in Ended
    /\ Recorded
    /\ reader # "gone" => Told

Sound == Carried /\ Streaming

-----------------------------------------------------------------------------
LEMMA EventsAreItems ==
  /\ TaskEvent \in Item /\ Thought \in Item /\ Artifact \in Item /\ End \in Item
  /\ \A o \in Outcomes : Status(o, o = "COMPLETED") \in Item
  /\ Status("FAILED", TRUE) \in Item
<1>1. \A o \in Outcomes \cup {"FAILED"}, f \in BOOLEAN : Status(o, f) \in Item
  BY DEF Item, Events, Statuses, States, Settled, Outcomes
<1>2. \A o \in Outcomes : (o = "COMPLETED") \in BOOLEAN
  OBVIOUS
<1> QED
  BY <1>1, <1>2 DEF Item, Events

LEMMA Kinds ==
  /\ \A e \in {TaskEvent, Thought, Artifact} : e # End /\ ~Terminal(e)
  /\ \A s, f : Status(s, f) # End /\ Status(s, f).state = s
  /\ \A o \in Outcomes : Terminal(Status(o, o = "COMPLETED")) <=> o # "WORKING"
  /\ Terminal(Status("FAILED", TRUE))
<1>1. \A e \in {TaskEvent, Thought, Artifact} : e # End /\ ~Terminal(e)
  BY DEF TaskEvent, Thought, Artifact, End, Terminal
<1>2. \A s, f : Status(s, f).kind = "status" /\ Status(s, f).state = s
  BY DEF Status
<1>3. \A s, f : Status(s, f) # End
  BY <1>2 DEF End
<1>4. Terminal(Status("FAILED", TRUE))
  BY DEF Status, Terminal
<1>5. ASSUME NEW o \in Outcomes PROVE Terminal(Status(o, o = "COMPLETED")) <=> o # "WORKING"
  <2>1. CASE o = "WORKING"
    <3>1. Status(o, o = "COMPLETED") = Status("WORKING", FALSE)
      BY <2>1
    <3> QED
      BY <2>1, <3>1 DEF Status, Terminal
  <2>2. CASE o = "COMPLETED"
    <3>1. Status(o, o = "COMPLETED") = Status("COMPLETED", TRUE)
      BY <2>2
    <3> QED
      BY <2>2, <3>1 DEF Status, Terminal
  <2>3. CASE o = "INPUT_REQUIRED"
    BY <2>3 DEF Status, Terminal
  <2> QED
    BY <2>1, <2>2, <2>3 DEF Outcomes
<1> QED
  BY <1>1, <1>2, <1>3, <1>4, <1>5

LEMMA InitSound == Init => Sound
<1> SUFFICES ASSUME Init PROVE Sound
  OBVIOUS
<1>1. Carried
  BY DEF Init, Carried, Outcomes, Steps
<1>2. <<>> \in Seq(Item) /\ <<>> \o <<>> = <<>> /\ Len(<<>>) = 0
  OBVIOUS
<1>3. Story(<<>>)
  BY <1>2 DEF Init, Story, Open
<1>4. Told
  BY <1>2, <1>3 DEF Init, Told, Ended
<1>5. Recorded /\ pc \in Open /\ pc \notin Ended
  BY DEF Init, Recorded, Open, Ended
<1>6. closed <=> pc \in Ended
  BY <1>5, Zenon DEF Init
<1> QED
  BY <1>1, <1>4, <1>5, <1>6, Zenon DEF Sound, Streaming

-----------------------------------------------------------------------------
\* A step that emits nothing.
LEMMA SilentTold ==
  ASSUME Told, UNCHANGED <<queue, delivered, reader>>,
         \/ pc \in Open /\ pc' \in Open
         \/ pc \in Telling /\ pc' \in Telling /\ row' \in {row, "CANCELED"}
         \/ pc \in Ended /\ pc' \in Ended /\ row' \in {row, "CANCELED"}
  PROVE  Told'
<1>1. PICK s \in Seq(Item) :
        /\ Story(s)
        /\ IF reader = "finished" THEN delivered = s /\ pc \in Ended
           ELSE delivered \o queue = IF pc \in Ended THEN Append(s, End) ELSE s
  BY DEF Told
<1>2. (pc \in Open <=> pc' \in Open) /\ (pc \in Ended <=> pc' \in Ended)
  BY DEF Open, Telling, Ended
<1>3. pc \notin Open => row' \in {row, "CANCELED"}
  BY DEF Open, Telling, Ended
<1>4. Story(s)'
  BY <1>1, <1>2, <1>3 DEF Story
<1> QED
  BY <1>1, <1>2, <1>4 DEF Told

LEMMA Joined ==
  \A a, b, c \in Seq(Item) : (a \o b) \o c = a \o (b \o c)
<1> HIDE DEF Item
<1> QED
  BY ConcatAssociative

LEMMA Appended ==
  ASSUME NEW s \in Seq(Item), Carried, delivered \o queue = s, NEW e \in Item,
         queue' = Append(queue, e), delivered' = delivered
  PROVE  /\ delivered' \o queue' = Append(s, e) /\ Append(s, e) \in Seq(Item)
         /\ Len(s) \in Nat /\ Len(Append(s, e)) = Len(s) + 1
         /\ Append(s, e)[Len(s) + 1] = e
         /\ \A i \in 1..Len(s) : Append(s, e)[i] = s[i]
<1>1. queue \in Seq(Item) /\ delivered \in Seq(Item) /\ <<e>> \in Seq(Item)
  BY DEF Carried
<1> HIDE DEF Item
<1>2. Append(queue, e) = queue \o <<e>> /\ Append(s, e) = s \o <<e>>
  BY <1>1, AppendIsConcat
<1>3. (delivered \o queue) \o <<e>> = delivered \o (queue \o <<e>>)
  BY SMTT(20), <1>1, Joined
<1>4. /\ Append(s, e) \in Seq(Item) /\ Len(s) \in Nat /\ Len(Append(s, e)) = Len(s) + 1
      /\ Append(s, e)[Len(s) + 1] = e
      /\ \A i \in 1..Len(s) : Append(s, e)[i] = s[i]
  BY AppendProperties, LenProperties
<1>5. delivered' \o queue' = delivered \o (queue \o <<e>>)
  BY <1>2
<1> QED
  BY <1>2, <1>3, <1>4, <1>5

\* An event that tells no outcome, or the one that tells it.
LEMMA EmitTold ==
  ASSUME Carried, Told, reader = "reading", reader' = "reading", pc \in Open,
         NEW e \in Item, e # End, queue' = Append(queue, e), delivered' = delivered,
         \/ pc' \in Open /\ ~Terminal(e)
         \/ pc' \in Telling /\ Terminal(e) /\ row' \in {e.state, "CANCELED"}
  PROVE  Told'
<1>1. PICK s \in Seq(Item) : Story(s) /\ delivered \o queue = s
  BY DEF Told, Open, Ended
<1> DEFINE t == Append(s, e)
           n == Len(s)
<1>2. /\ delivered' \o queue' = t /\ t \in Seq(Item) /\ n \in Nat /\ Len(t) = n + 1
      /\ t[n + 1] = e /\ \A i \in 1..n : t[i] = s[i]
  BY <1>1, Appended
<1>3. pc' \notin Ended /\ (pc' \in Telling => pc' \notin Open)
  BY DEF Open, Telling, Ended
<1>4. \A i \in 1..n : t[i] # End /\ ~Terminal(t[i])
  BY <1>1, <1>2 DEF Story
<1> HIDE DEF t, n
<1>5. \A i \in 1..Len(t) : i \in 1..n \/ i = n + 1
  BY <1>2
<1>6. \A i \in 1..Len(t) : t[i] # End
  BY <1>2, <1>4, <1>5
<1>7. 1..(Len(t) - 1) = 1..n /\ Len(t) # 0
  BY <1>2
<1>8. CASE pc' \in Open /\ ~Terminal(e)
  <2>1. Story(t)'
    BY <1>2, <1>4, <1>5, <1>6, <1>8 DEF Story
  <2> QED
    BY <1>2, <1>3, <2>1 DEF Told
<1>9. CASE pc' \in Telling /\ Terminal(e) /\ row' \in {e.state, "CANCELED"}
  <2>1. t[Len(t)] = e
    BY <1>2
  <2>2. Story(t)'
    BY <1>3, <1>4, <1>6, <1>7, <1>9, <2>1 DEF Story
  <2> QED
    BY <1>2, <1>3, <2>2 DEF Told
<1> QED
  BY <1>8, <1>9

LEMMA CloseTold ==
  ASSUME Carried, Told, reader = "reading", reader' = "reading", pc \in Telling, pc' \in Ended,
         queue' = Append(queue, End), delivered' = delivered, row' = row
  PROVE  Told'
<1>1. PICK s \in Seq(Item) : Story(s) /\ delivered \o queue = s
  BY DEF Told, Telling, Ended
<1>2. delivered' \o queue' = Append(s, End)
  BY <1>1, Appended, EventsAreItems
<1>3. pc \notin Open /\ pc' \notin Open
  BY DEF Open, Telling, Ended
<1>4. Story(s)'
  BY <1>1, <1>3 DEF Story
<1> QED
  BY <1>1, <1>2, <1>4 DEF Told

\* Reading moves an event; the end is only read when everything before it was.
LEMMA ReadTold ==
  ASSUME Carried, Told, Read, pc \in Open \cup Telling \cup Ended
  PROVE  Told'
<1>1. PICK s \in Seq(Item) :
        Story(s) /\ delivered \o queue = IF pc \in Ended THEN Append(s, End) ELSE s
  BY DEF Told, Read
<1> DEFINE d == delivered  n == Len(delivered)  all == delivered \o queue
<1>2. queue \in Seq(Item) /\ d \in Seq(Item) /\ queue # <<>>
  BY DEF Carried, Read
<1>3. /\ Len(queue) \in Nat \ {0} /\ n \in Nat /\ Head(queue) = queue[1]
      /\ Head(queue) \in Item /\ Tail(queue) \in Seq(Item)
  BY <1>2
<1>4. Story(s)'
  BY <1>1 DEF Read, Story
<1>5. CASE Head(queue) # End
  <2>1. delivered' = Append(d, Head(queue)) /\ queue' = Tail(queue) /\ reader' = "reading" /\ pc' = pc
    BY <1>5 DEF Read
  <2>2. /\ delivered' = d \o <<Head(queue)>> /\ queue = <<Head(queue)>> \o Tail(queue)
        /\ <<Head(queue)>> \in Seq(Item)
    BY <1>2, <1>3, <2>1
  <2>3. delivered' \o queue' = all
    BY <1>2, <1>3, <2>1, <2>2, ConcatAssociative
  <2> QED
    BY <1>1, <1>4, <2>1, <2>3 DEF Told
<1>6. CASE Head(queue) = End
  <2>1. delivered' = d /\ reader' = "finished" /\ pc' = pc
    BY <1>6 DEF Read
  <2>2. all[n + 1] = End /\ Len(all) = n + Len(queue) /\ \A i \in 1..n : all[i] = d[i]
    BY <1>2, <1>3, <1>6
  <2>3. Len(s) \in Nat /\ \A i \in 1..Len(s) : s[i] # End
    BY <1>1 DEF Story
  <2>4. pc \in Ended
    <3>1. n + 1 \in 1..Len(all)
      BY <1>3, <2>2
    <3> QED
      BY <1>1, <2>2, <2>3, <3>1
  <2>5. /\ all = Append(s, End) /\ Len(Append(s, End)) = Len(s) + 1
        /\ \A i \in 1..Len(s) : Append(s, End)[i] = s[i]
    BY <1>1, <2>4
  <2>6. Len(s) = n
    <3>1. n + 1 \in 1..(Len(s) + 1)
      BY <1>3, <2>2, <2>5
    <3>2. n + 1 \notin 1..Len(s)
      BY <2>2, <2>3, <2>5
    <3> QED
      BY <1>3, <2>3, <3>1, <3>2
  <2>7. d = s
    <3>1. \A i \in 1..Len(d) : d[i] = s[i]
      BY <2>2, <2>5, <2>6
    <3> QED
      BY <1>2, <2>6, <3>1, SeqEqual
  <2> QED
    BY <1>4, <2>1, <2>4, <2>7 DEF Told
<1> QED
  BY <1>5, <1>6

-----------------------------------------------------------------------------
LEMMA Queueing ==
  /\ \A q \in Seq(Item), e \in Item : Append(q, e) \in Seq(Item)
  /\ \A q \in Seq(Item) : q # <<>> => Tail(q) \in Seq(Item) /\ Head(q) \in Item
  OBVIOUS

LEMMA NextCarried == Carried /\ [Next]_vars => Carried'
<1> SUFFICES ASSUME Carried, [Next]_vars PROVE Carried'
  OBVIOUS
<1>0. \A q \in Seq(Item), e \in Item : Append(q, e) \in Seq(Item)
  BY Queueing
<1>1. /\ TaskEvent \in Item /\ Thought \in Item /\ Artifact \in Item /\ End \in Item
      /\ Status("FAILED", TRUE) \in Item
  BY EventsAreItems
<1>2. outcome \in Outcomes => Status(outcome, outcome = "COMPLETED") \in Item
  BY EventsAreItems
<1> HIDE DEF Item
<1> USE DEF Carried, Goto, Steps, Emit
<1>3. CASE Announce \/ Think \/ EmitArtifact
  BY <1>0, <1>1, <1>3 DEF Announce, Think, EmitArtifact
<1>4. CASE EmitStatus
  <2>1. queue' \in Seq(Item)
    BY <1>0, <1>2, <1>4 DEF EmitStatus
  <2>2. pc' \in Steps /\ UNCHANGED <<outcome, reader, delivered>>
    BY <1>4 DEF EmitStatus
  <2> QED
    BY <2>1, <2>2
<1>5. CASE EmitRejection \/ Report
  BY <1>0, <1>1, <1>5 DEF EmitRejection, Report
<1>6. CASE CloseStream \/ CloseAgain
  BY <1>0, <1>1, <1>6 DEF CloseStream, CloseAgain, Close
<1>7. CASE Prelude \/ WriteStatus \/ PatternRaises \/ Harvest \/ Reject \/ Record \/ StreamReturns
  BY <1>7 DEF Prelude, WriteStatus, PatternRaises, Harvest, Reject, Record, StreamReturns
<1>8. ASSUME NEW o \in {"WORKING", "COMPLETED", "INPUT_REQUIRED"}, BeginStatus(o) PROVE Carried'
  BY <1>8 DEF BeginStatus, Outcomes
<1>9. CASE Reply \/ Disconnect \/ Cancel \/ UNCHANGED vars
  BY <1>9 DEF Reply, Disconnect, Cancel, vars
<1>10. CASE Read
  BY <1>0, <1>10, Queueing DEF Read
<1> QED
  BY <1>3, <1>4, <1>5, <1>6, <1>7, <1>8, <1>9, <1>10 DEF Next, Produce

-----------------------------------------------------------------------------
LEMMA Phases == /\ Open \cap Telling = {} /\ Open \cap Ended = {} /\ Telling \cap Ended = {}
  BY DEF Open, Telling, Ended

\* The reader of a stream that is not closed is still reading.
LEMMA StillReading ==
  ASSUME Sound, route = "stream", pc \notin Ended, reader # "gone"
  PROVE  reader = "reading" /\ Told
  BY DEF Sound, Streaming, Carried, Told

LEMMA SilentStreaming ==
  ASSUME Sound, route = "stream", UNCHANGED <<route, queue, delivered, reader, closed>>, Recorded',
         \/ pc \in Open /\ pc' \in Open
         \/ pc \in Telling /\ pc' \in Telling /\ row' \in {row, "CANCELED"}
         \/ pc \in Ended /\ pc' \in Ended /\ row' \in {row, "CANCELED"}
  PROVE  Streaming'
<1>1. pc' \in Open \cup Telling \cup Ended /\ (pc' \in Ended <=> pc \in Ended)
  BY Phases
<1>2. closed' <=> pc' \in Ended
  BY <1>1, Zenon DEF Sound, Streaming
<1>3. reader' # "gone" => Told'
  BY SilentTold DEF Sound, Streaming
<1> QED
  BY <1>1, <1>2, <1>3, Zenon DEF Streaming

LEMMA EmitStreaming ==
  ASSUME Sound, route = "stream", UNCHANGED <<route, delivered, reader>>, Recorded',
         NEW e \in Item, e # End, Emit(e), pc \in Open,
         \/ pc' \in Open /\ ~Terminal(e)
         \/ pc' \in Telling /\ Terminal(e) /\ row' \in {e.state, "CANCELED"}
  PROVE  Streaming'
<1>1. pc' \in Open \cup Telling \cup Ended /\ pc' \notin Ended /\ pc \notin Ended
  BY Phases
<1>2. closed' <=> pc' \in Ended
  BY <1>1, Zenon DEF Sound, Streaming, Emit
<1>3. reader' # "gone" => Told'
  BY <1>1, StillReading, EmitTold DEF Sound, Emit
<1> QED
  BY <1>1, <1>2, <1>3, Zenon DEF Streaming

LEMMA CloseStreaming ==
  ASSUME Sound, route = "stream", UNCHANGED <<route, row, delivered, reader>>, Recorded',
         Close, pc \in Telling, pc' \in Ended
  PROVE  Streaming'
<1>1. pc \notin Ended /\ pc' \in Open \cup Telling \cup Ended
  BY Phases
<1>2. ~closed
  BY <1>1, Zenon DEF Sound, Streaming
<1>3. closed' /\ queue' = Append(queue, End)
  BY <1>2 DEF Close
<1>4. reader' # "gone" => Told'
  BY <1>1, <1>3, StillReading, CloseTold DEF Sound
<1> QED
  BY <1>1, <1>3, <1>4, Zenon DEF Streaming

LEMMA NextStreaming ==
  ASSUME Reported, Sound, Next
  PROVE  Streaming'
<1> SUFFICES ASSUME route = "stream" PROVE Streaming'
  <2>1. route' = route
    BY DEF Next, Produce, Announce, Prelude, Think, BeginStatus, EmitArtifact, WriteStatus,
           EmitStatus, PatternRaises, Harvest, Reject, EmitRejection, CloseStream, Record, Report,
           CloseAgain, StreamReturns, Reply, Read, Disconnect, Cancel
  <2> QED
    BY <2>1 DEF Streaming
<1>0. Carried /\ Recorded /\ pc \in Open \cup Telling \cup Ended
  BY DEF Sound, Streaming
<1>f. ~Raised("other") /\ ~Raised("harvest")
  BY DEF Raised, Reported
<1> USE DEF Goto, Recorded
<1>1. CASE Announce \/ Think \/ EmitArtifact
  <2>1. PICK e \in {TaskEvent, Thought, Artifact} : Emit(e)
    BY <1>1 DEF Announce, Think, EmitArtifact
  <2>2. e \in Item /\ e # End /\ ~Terminal(e)
    BY EventsAreItems, Kinds
  <2>3. /\ UNCHANGED <<route, delivered, reader>> /\ pc \in Open /\ pc' \in Open /\ Recorded'
    BY <1>0, <1>1 DEF Announce, Think, EmitArtifact, Open
  <2> QED
    BY <2>1, <2>2, <2>3, EmitStreaming
<1>2. CASE EmitStatus
  <2> DEFINE e == Status(outcome, outcome = "COMPLETED")
  <2>1. /\ outcome \in Outcomes /\ e \in Item /\ e # End /\ e.state = outcome
        /\ Terminal(e) <=> outcome # "WORKING"
    BY <1>0, EventsAreItems, Kinds DEF Carried
  <2>2. /\ Emit(e) /\ UNCHANGED <<route, row, delivered, reader, outcome>>
        /\ pc = "emit" /\ pc' = IF outcome = "WORKING" THEN "pattern" ELSE "harvest"
    BY <1>2 DEF EmitStatus
  <2>3. pc \in Open /\ Recorded' /\ row' \in {outcome, "CANCELED"}
    BY <1>0, <2>2 DEF Open
  <2> HIDE DEF e
  <2>4. CASE outcome = "WORKING"
    <3>1. pc' \in Open /\ ~Terminal(e)
      BY <2>1, <2>2, <2>4 DEF Open
    <3> QED
      BY <2>1, <2>2, <2>3, <3>1, EmitStreaming
  <2>5. CASE outcome # "WORKING"
    <3>1. pc' \in Telling /\ Terminal(e)
      BY <2>1, <2>2, <2>5 DEF Telling
    <3> QED
      BY <2>1, <2>2, <2>3, <3>1, EmitStreaming
  <2> QED
    BY <2>4, <2>5
<1>3. CASE EmitRejection \/ Report
  <2> DEFINE e == Status("FAILED", TRUE)
  <2>1. e \in Item /\ e # End /\ e.state = "FAILED" /\ Terminal(e)
    BY EventsAreItems, Kinds
  <2>2. /\ Emit(e) /\ UNCHANGED <<route, row, delivered, reader>> /\ Recorded'
        /\ pc \in Open /\ pc' \in Telling /\ row' \in {"FAILED", "CANCELED"}
    BY <1>0, <1>3 DEF EmitRejection, Report, Open, Telling
  <2> HIDE DEF e
  <2> QED
    BY <2>1, <2>2, EmitStreaming
<1>4. CASE CloseStream \/ CloseAgain
  <2>1. pc # "unwind"
    BY <1>0 DEF Open, Telling, Ended
  <2>2. /\ Close /\ UNCHANGED <<route, row, delivered, reader>> /\ Recorded'
        /\ pc \in Telling /\ pc' \in Ended
    BY <1>4, <2>1 DEF CloseStream, CloseAgain, Telling, Ended
  <2> QED
    BY <2>2, CloseStreaming
<1>5. CASE Prelude \/ PatternRaises \/ WriteStatus \/ Reject \/ Record
  <2>1. /\ UNCHANGED <<route, queue, delivered, reader, closed>> /\ Recorded'
        /\ pc \in Open /\ pc' \in Open
    BY <1>0, <1>5, <1>f DEF Prelude, PatternRaises, WriteStatus, Reject, Record, Open
  <2> QED
    BY <2>1, SilentStreaming
<1>6. ASSUME NEW o \in {"WORKING", "COMPLETED", "INPUT_REQUIRED"}, BeginStatus(o) PROVE Streaming'
  <2>1. /\ UNCHANGED <<route, queue, delivered, reader, closed>> /\ Recorded'
        /\ pc \in Open /\ pc' \in Open
    BY <1>6 DEF BeginStatus, Open
  <2> QED
    BY <2>1, SilentStreaming
<1>7. CASE Harvest
  <2>1. /\ UNCHANGED <<route, queue, delivered, reader, closed>> /\ Recorded' /\ row' = row
        /\ pc \in Telling /\ pc' \in Telling
    BY <1>f, <1>7 DEF Harvest, Telling
  <2> QED
    BY <2>1, SilentStreaming
<1>8. CASE StreamReturns
  <2>1. /\ UNCHANGED <<route, queue, delivered, reader, closed>> /\ Recorded' /\ row' = row
        /\ pc \in Ended /\ pc' \in Ended
    BY <1>8 DEF StreamReturns, Ended
  <2> QED
    BY <2>1, SilentStreaming
<1>9. CASE Cancel
  <2>1. /\ UNCHANGED <<route, queue, delivered, reader, closed, pc>> /\ row' = "CANCELED"
    BY <1>9 DEF Cancel
  <2>2. Recorded'
    BY <2>1
  <2> QED
    BY <1>0, <2>1, <2>2, SilentStreaming
<1>10. CASE Disconnect
  <2>1. /\ UNCHANGED <<route, row, pc, outcome, closed>> /\ reader' = "gone"
    BY <1>10 DEF Disconnect
  <2>2. closed' <=> pc' \in Ended
    BY <2>1, Zenon DEF Sound, Streaming
  <2> QED
    BY <1>0, <2>1, <2>2, Zenon DEF Streaming
<1>11. CASE Read
  <2>1. UNCHANGED <<route, row, pc, outcome, closed>> /\ reader # "gone"
    BY <1>11 DEF Read
  <2>2. Told'
    BY <1>0, <1>11, <2>1, ReadTold DEF Sound, Streaming
  <2>3. closed' <=> pc' \in Ended
    BY <2>1, Zenon DEF Sound, Streaming
  <2> QED
    BY <1>0, <2>1, <2>2, <2>3, Zenon DEF Streaming
<1>12. CASE Reply
  BY <1>12 DEF Reply
<1> QED
  BY <1>1, <1>2, <1>3, <1>4, <1>5, <1>6, <1>7, <1>8, <1>9, <1>10, <1>11, <1>12
     DEF Next, Produce

LEMMA AlwaysSound ==
  ASSUME Reported
  PROVE  Spec => []Sound
<1>1. Sound /\ [Next]_vars => Sound'
  <2> SUFFICES ASSUME Sound, [Next]_vars PROVE Sound'
    OBVIOUS
  <2>1. Carried'
    BY NextCarried DEF Sound
  <2>2. CASE Next
    BY <2>1, <2>2, NextStreaming DEF Sound
  <2>3. CASE UNCHANGED vars
    BY <2>3, Zenon DEF vars, Sound, Carried, Streaming, Recorded, Told, Story
  <2> QED
    BY <2>2, <2>3
<1> QED
  BY <1>1, InitSound, PTL DEF Spec

\* A list that tells its outcome last, in the words of the properties.
LEMMA LastTells ==
  ASSUME NEW s \in Seq(Item), Story(s), pc \in Ended
  PROVE  /\ s # <<>> /\ Terminal(Last(s)) /\ row \in {Last(s).state, "CANCELED"}
         /\ \A e \in Range(Front(s)) : ~Terminal(e)
<1>1. /\ Len(s) # 0 /\ Terminal(s[Len(s)]) /\ row \in {s[Len(s)].state, "CANCELED"}
      /\ \A i \in 1..(Len(s) - 1) : ~Terminal(s[i])
  BY Phases DEF Story
<1>2. s # <<>> /\ Len(s) \in Nat \ {0}
  BY <1>1
<1>3. DOMAIN Front(s) = 1..(Len(s) - 1) /\ \A i \in 1..(Len(s) - 1) : Front(s)[i] = s[i]
  BY <1>2 DEF Front
<1>4. \A e \in Range(Front(s)) : ~Terminal(e)
  BY <1>1, <1>3 DEF Range
<1> QED
  BY <1>1, <1>2, <1>4 DEF Last

\* A client that reads message:stream to its end is told the outcome of the
\* run, last and once: OutcomeDelivered, for any number of progress events and
\* any fault that run_message reports.
THEOREM OutcomeIsTold ==
  ASSUME Reported
  PROVE  Spec => []OutcomeDelivered
<1>1. Sound => OutcomeDelivered
  BY LastTells DEF Sound, Streaming, Carried, Told, OutcomeDelivered
<1> QED
  BY <1>1, AlwaysSound, PTL

\* Once both are through, the row says what the client was told, unless the
\* task was cancelled: RowMatchesOutcome.
THEOREM RowIsTold ==
  ASSUME Reported
  PROVE  Spec => []RowMatchesOutcome
<1>1. Sound => RowMatchesOutcome
  BY LastTells DEF Sound, Streaming, Carried, Told, RowMatchesOutcome
<1> QED
  BY <1>1, AlwaysSound, PTL

-----------------------------------------------------------------------------
(* message:send, whatever is raised where.                                 *)

HasTask(s) == \E i \in 1..Len(s) : s[i] = TaskEvent

\* The end mark is behind everything, the row is settled before the run
\* returns, and the answer is given when the reader is through.
Draining ==
  /\ route \in Routes /\ (route = "stream" => reply = "none")
  /\ route = "send" =>
    /\ pc \notin {"record", "report"}
    /\ closed => pc \in {"returned", "raised", "done"}
    /\ \A i \in 1..Len(queue) : queue[i] = End => i = Len(queue) /\ closed
    /\ reader = "finished" => closed /\ queue = <<>> /\ HasTask(delivered)
    /\ pc # "start" => HasTask(delivered) \/ HasTask(queue)
    /\ pc = "emit" => row \in {outcome, "CANCELED"}
    /\ pc \in {"rejected", "harvest", "close", "returned"} => row \in Settled
    /\ reply \in States => pc = "done" /\ reply \in Settled /\ reader = "finished"

\* What an event at the end of the queue leaves as it was.
LEMMA Behind ==
  ASSUME Carried, NEW e \in Item, queue' = Append(queue, e)
  PROVE  /\ Len(queue) \in Nat /\ Len(queue') = Len(queue) + 1 /\ queue'[Len(queue) + 1] = e
         /\ \A i \in 1..Len(queue) : queue'[i] = queue[i]
         /\ HasTask(queue) => HasTask(queue')
         /\ e = TaskEvent => HasTask(queue')
<1> HIDE DEF Item
<1>1. queue \in Seq(Item)
  BY DEF Carried
<1>2. /\ Len(queue) \in Nat /\ Len(queue') = Len(queue) + 1 /\ queue'[Len(queue) + 1] = e
      /\ \A i \in 1..Len(queue) : queue'[i] = queue[i]
  BY <1>1
<1> QED
  BY <1>2 DEF HasTask

LEMMA EmitDraining ==
  ASSUME Carried, Draining, route = "send", NEW e \in Item, e # End, Emit(e), ~closed,
         UNCHANGED <<route, row, outcome, reader, delivered, reply>>,
         pc \notin {"start", "done"} \/ e = TaskEvent, pc # "done",
         pc' \notin {"start", "record", "report", "emit", "rejected"},
         pc' \in {"harvest", "close", "returned"} => row \in Settled
  PROVE  Draining'
<1>1. /\ Len(queue) \in Nat /\ Len(queue') = Len(queue) + 1 /\ queue'[Len(queue) + 1] = e
      /\ \A i \in 1..Len(queue) : queue'[i] = queue[i]
      /\ HasTask(queue) => HasTask(queue')
      /\ e = TaskEvent => HasTask(queue')
  BY Behind DEF Emit
<1>2. ~closed' /\ reader' # "finished" /\ reply' \notin States
  BY DEF Draining, Emit
<1>3. \A i \in 1..Len(queue') : queue'[i] # End
  <2> TAKE i \in 1..Len(queue')
  <2>1. i \in 1..Len(queue) \/ i = Len(queue) + 1
    BY <1>1
  <2> QED
    BY <1>1, <2>1 DEF Draining
<1>4. HasTask(delivered') \/ HasTask(queue')
  BY <1>1 DEF Draining
<1> QED
  BY <1>2, <1>3, <1>4 DEF Draining

LEMMA CloseDraining ==
  ASSUME Carried, Draining, route = "send", Close, UNCHANGED <<route, row, outcome, reader, delivered, reply>>,
         \/ pc = "close" /\ pc' = "returned"
         \/ pc = "unwind" /\ pc' = "raised"
  PROVE  Draining'
<1>1. ~closed /\ End \in Item
  BY EventsAreItems DEF Draining
<1>2. /\ Len(queue) \in Nat /\ Len(queue') = Len(queue) + 1 /\ queue'[Len(queue) + 1] = End
      /\ \A i \in 1..Len(queue) : queue'[i] = queue[i]
      /\ HasTask(queue) => HasTask(queue')
  BY <1>1, Behind DEF Close
<1>3. closed' /\ reader' # "finished" /\ reply' \notin States
  BY <1>1 DEF Draining, Close
<1>4. \A i \in 1..Len(queue') : queue'[i] = End => i = Len(queue')
  <2> SUFFICES ASSUME NEW i \in 1..Len(queue'), queue'[i] = End PROVE i = Len(queue')
    OBVIOUS
  <2>1. i \in 1..Len(queue) \/ i = Len(queue) + 1
    BY <1>2
  <2> QED
    BY <1>1, <1>2, <2>1 DEF Draining
<1>5. HasTask(delivered') \/ HasTask(queue')
  BY <1>2 DEF Draining
<1> QED
  BY <1>3, <1>4, <1>5 DEF Draining

LEMMA ReadDraining ==
  ASSUME Carried, Draining, route = "send", Read
  PROVE  Draining'
<1> HIDE DEF Item
<1>1. /\ queue \in Seq(Item) /\ delivered \in Seq(Item) /\ queue # <<>>
      /\ Head(queue) \in Item /\ queue' = Tail(queue)
  BY Queueing DEF Carried, Read
<1>2. /\ Len(queue) \in Nat \ {0} /\ Len(queue') = Len(queue) - 1 /\ Head(queue) = queue[1]
      /\ \A i \in 1..(Len(queue) - 1) : queue'[i] = queue[i + 1]
  BY <1>1
<1>3. UNCHANGED <<route, row, pc, outcome, closed, reply>> /\ reader = "reading"
  BY DEF Read
<1>4. \A i \in 1..Len(queue') : queue'[i] = End => i = Len(queue') /\ closed
  <2> SUFFICES ASSUME NEW i \in 1..Len(queue'), queue'[i] = End
               PROVE  i = Len(queue') /\ closed
    OBVIOUS
  <2>1. i + 1 \in 1..Len(queue) /\ queue[i + 1] = End
    BY <1>2
  <2>2. i + 1 = Len(queue) /\ closed
    BY <2>1 DEF Draining
  <2> QED
    BY <1>2, <2>2
<1>5. reply \notin States
  BY <1>3 DEF Draining
<1>6. CASE Head(queue) = End
  <2>1. 1 \in 1..Len(queue) /\ queue[1] = End
    BY <1>2, <1>6
  <2>2. Len(queue) = 1 /\ closed
    BY <2>1 DEF Draining
  <2>3. queue' = <<>>
    BY <1>1, <1>2, <2>2
  <2>4. ~HasTask(queue)
    BY <2>1, <2>2 DEF HasTask, TaskEvent, End
  <2>5. HasTask(delivered) /\ delivered' = delivered
    BY <1>6, <2>2, <2>4 DEF Draining, Read
  <2> QED
    BY <1>3, <1>4, <1>5, <2>2, <2>3, <2>5 DEF Draining
<1>7. CASE Head(queue) # End
  <2>1. delivered' = Append(delivered, Head(queue)) /\ reader' = "reading"
    BY <1>7 DEF Read
  <2>2. /\ Len(delivered) \in Nat /\ Len(delivered') = Len(delivered) + 1
        /\ delivered'[Len(delivered) + 1] = queue[1]
        /\ \A i \in 1..Len(delivered) : delivered'[i] = delivered[i]
    BY <1>1, <1>2, <2>1
  <2>3. HasTask(delivered) => HasTask(delivered')
    BY <2>2 DEF HasTask
  <2>4. HasTask(queue) => HasTask(delivered') \/ HasTask(queue')
    <3> SUFFICES ASSUME NEW i \in 1..Len(queue), queue[i] = TaskEvent
                 PROVE  HasTask(delivered') \/ HasTask(queue')
      BY DEF HasTask
    <3>1. CASE i = 1
      <4>1. Len(delivered) + 1 \in 1..Len(delivered')
        BY <2>2
      <4> QED
        BY <2>2, <3>1, <4>1 DEF HasTask
    <3>2. CASE i # 1
      <4>1. i - 1 \in 1..Len(queue') /\ queue'[i - 1] = queue[i]
        BY <1>2, <3>2
      <4> QED
        BY <4>1 DEF HasTask
    <3> QED
      BY <3>1, <3>2
  <2> QED
    BY <1>3, <1>4, <1>5, <2>1, <2>3, <2>4 DEF Draining
<1> QED
  BY <1>6, <1>7

LEMMA NextDraining ==
  ASSUME Carried, Draining, Next
  PROVE  Draining'
<1> SUFFICES ASSUME route = "send" PROVE Draining'
  <2>1. route' = route
    BY DEF Next, Produce, Announce, Prelude, Think, BeginStatus, EmitArtifact, WriteStatus,
           EmitStatus, PatternRaises, Harvest, Reject, EmitRejection, CloseStream, Record, Report,
           CloseAgain, StreamReturns, Reply, Read, Disconnect, Cancel
  <2>2. route # "send" => reply' = reply
    BY DEF Next, Produce, Announce, Prelude, Think, BeginStatus, EmitArtifact, WriteStatus,
           EmitStatus, PatternRaises, Harvest, Reject, EmitRejection, CloseStream, Record, Report,
           CloseAgain, StreamReturns, Reply, Read, Disconnect, Cancel
  <2> QED
    BY <2>1, <2>2 DEF Draining
<1>0. /\ closed => pc \in {"returned", "raised", "done"}
      /\ pc \notin {"record", "report"} /\ outcome \in Outcomes
  BY DEF Draining, Carried
<1> USE DEF Goto
<1>1. CASE Announce \/ Think \/ EmitArtifact
  <2>1. PICK e \in {TaskEvent, Thought, Artifact} : Emit(e) /\ (Announce => e = TaskEvent)
    BY <1>1 DEF Announce, Think, EmitArtifact
  <2>2. e \in Item /\ e # End
    BY EventsAreItems, Kinds
  <2>3. /\ UNCHANGED <<route, row, outcome, reader, delivered, reply>> /\ ~closed /\ pc # "done"
        /\ pc \notin {"start", "done"} \/ e = TaskEvent
        /\ pc' \notin {"start", "record", "report", "emit", "rejected", "harvest", "close", "returned"}
    BY <1>0, <1>1, <2>1 DEF Announce, Think, EmitArtifact
  <2> QED
    BY <2>1, <2>2, <2>3, EmitDraining
<1>2. CASE EmitStatus
  <2> DEFINE e == Status(outcome, outcome = "COMPLETED")
  <2>1. e \in Item /\ e # End
    BY <1>0, EventsAreItems, Kinds
  <2>2. /\ Emit(e) /\ UNCHANGED <<route, row, outcome, reader, delivered, reply>> /\ ~closed
        /\ pc = "emit" /\ pc' = IF outcome = "WORKING" THEN "pattern" ELSE "harvest"
    BY <1>0, <1>2 DEF EmitStatus
  <2>3. outcome # "WORKING" => row \in Settled
    BY <1>0, <2>2 DEF Draining, Settled, Outcomes
  <2> HIDE DEF e
  <2> QED
    BY <2>1, <2>2, <2>3, EmitDraining
<1>3. CASE EmitRejection
  <2> DEFINE e == Status("FAILED", TRUE)
  <2>1. e \in Item /\ e # End
    BY EventsAreItems, Kinds
  <2>2. /\ Emit(e) /\ UNCHANGED <<route, row, outcome, reader, delivered, reply>> /\ ~closed
        /\ pc = "rejected" /\ pc' = "close" /\ row \in Settled
    BY <1>0, <1>3 DEF EmitRejection, Draining
  <2> HIDE DEF e
  <2> QED
    BY <2>1, <2>2, EmitDraining
<1>4. CASE CloseStream
  <2>1. /\ Close /\ UNCHANGED <<route, row, outcome, reader, delivered, reply>>
        /\ \/ pc = "close" /\ pc' = "returned"
           \/ pc = "unwind" /\ pc' = "raised"
    BY <1>4 DEF CloseStream
  <2> QED
    BY <2>1, CloseDraining
<1>5. CASE Read
  BY <1>5, ReadDraining
<1>6. CASE Reply
  <2>1. /\ UNCHANGED <<route, row, outcome, queue, closed, reader, delivered>> /\ pc' = "done"
        /\ \/ pc = "returned" /\ reader = "finished" /\ reply' = row
           \/ reply' = "500"
    BY <1>6 DEF Reply
  <2>2. "500" \notin States
    BY DEF States, Settled
  <2>3. pc # "start"
    BY <1>6 DEF Reply
  <2> QED
    BY <2>1, <2>2, <2>3 DEF Draining
<1>7. CASE Prelude \/ PatternRaises \/ WriteStatus \/ Harvest \/ Reject
  <2>1. UNCHANGED <<route, outcome, queue, closed, reader, delivered, reply>>
    BY <1>7 DEF Prelude, PatternRaises, WriteStatus, Harvest, Reject
  <2>2. /\ pc \notin {"start", "returned", "raised", "done"}
        /\ pc' \notin {"start", "record", "report"}
        /\ pc' = "emit" => row' = outcome
        /\ pc' \in {"rejected", "harvest", "close", "returned"} => row' \in Settled
    BY <1>7 DEF Prelude, PatternRaises, WriteStatus, Harvest, Reject, Draining, Settled
  <2> QED
    BY <1>0, <2>1, <2>2 DEF Draining
<1>8. ASSUME NEW o \in {"WORKING", "COMPLETED", "INPUT_REQUIRED"}, BeginStatus(o) PROVE Draining'
  BY <1>0, <1>8 DEF BeginStatus, Draining
<1>9. CASE Cancel
  BY <1>9 DEF Cancel, Draining, Settled
<1>10. CASE Record \/ Report \/ CloseAgain \/ StreamReturns \/ Disconnect
  BY <1>0, <1>10 DEF Record, Report, CloseAgain, StreamReturns, Disconnect
<1> QED
  BY <1>1, <1>2, <1>3, <1>4, <1>5, <1>6, <1>7, <1>8, <1>9, <1>10 DEF Next, Produce

\* message:send never answers with a task that is still SUBMITTED or WORKING,
\* nor before every event was drained (routes.py: gather, then tasks.get):
\* ReplyIsSettled, for any number of progress events and every fault.
THEOREM RepliesAreSettled == Spec => []ReplyIsSettled
<1>1. Init => Draining
  <2> SUFFICES ASSUME Init PROVE Draining
    OBVIOUS
  <2>1. Len(queue) = 0 /\ 1..Len(queue) = {} /\ "none" \notin States
    BY DEF Init, States, Settled
  <2> QED
    BY <2>1 DEF Init, Draining
<1>2. Carried /\ Draining /\ [Next]_vars => Carried' /\ Draining'
  <2> SUFFICES ASSUME Carried, Draining, [Next]_vars PROVE Draining'
    BY NextCarried
  <2>1. CASE UNCHANGED vars
    BY <2>1, Zenon DEF vars, Draining, HasTask
  <2> QED
    BY <2>1, NextDraining
<1>3. Carried /\ Draining => ReplyIsSettled
  <2> SUFFICES ASSUME Draining, reply \in States, Carried
               PROVE  reply \in Settled /\ Contains(delivered, TaskEvent) /\ queue = <<>>
    BY DEF ReplyIsSettled
  <2>1. route = "send"
    BY DEF Draining, States, Settled
  <2> QED
    BY <2>1 DEF Draining, HasTask, Contains, States, Settled
<1>4. Init => Carried
  BY InitSound DEF Sound
<1> QED
  BY <1>1, <1>2, <1>3, <1>4, PTL DEF Spec
=============================================================================
