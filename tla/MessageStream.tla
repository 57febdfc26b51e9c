---------------------------- MODULE MessageStream ----------------------------
(***************************************************************************)
(* One message from its route to the end of its event stream: run_message  *)
(* (runtime.py) with the pattern reduced to what it writes and emits, the  *)
(* SseEmitter (a2a/sse.py) and the two routes that read it                 *)
(* (a2a/routes.py).  message:stream hands the events to the client,        *)
(* message:send drains them and answers with the row.                      *)
(*                                                                         *)
(* The producer, the reader and a cancellation interleave at every await;  *)
(* emit and close put on an unbounded queue and never wait.  Heartbeats    *)
(* are left out: a timed out get leaves the queue as it was.               *)
(***************************************************************************)
EXTENDS Naturals, Sequences, SequencesExt

CONSTANTS
  Routes,       \* the routes of this instance: "send", "stream"
  Faults,       \* exceptions that may be raised, each with the route it is
                \* raised on: [route, kind]
  MaxProgress   \* bound: thoughts and WORKING statuses of a run

ASSUME StreamAssumption ==
  /\ Routes \subseteq {"send", "stream"} /\ Routes # {}
  /\ Faults \subseteq [route : Routes, kind : {"prelude", "pattern", "other", "harvest"}]
  /\ MaxProgress \in Nat

VARIABLES
  route,
  row,        \* state of the task in the store
  pc,         \* the producer: run_message and the route's wrapper of it
  outcome,    \* the status the pattern is writing
  progress,   \* thoughts and WORKING statuses begun
  queue,      \* SseEmitter._queue
  closed,     \* SseEmitter._closed
  reader,     \* SseEmitter.stream(): "reading", "finished", or "gone"
  delivered,  \* history: events the reader got
  reply       \* message:send's answer: a state, "500", or "none"

channel == <<queue, closed>>
reading == <<reader, delivered, reply>>
vars == <<route, row, pc, outcome, progress, channel, reading>>

End == [kind |-> "end"]
TaskEvent == [kind |-> "task"]
Thought == [kind |-> "thought"]
Artifact == [kind |-> "artifact"]
Status(s, f) == [kind |-> "status", state |-> s, final |-> f]

Settled == {"COMPLETED", "FAILED", "CANCELED", "INPUT_REQUIRED"}
States == {"SUBMITTED", "WORKING"} \cup Settled
Statuses == {Status(s, f) : s \in States, f \in BOOLEAN}
Events == {TaskEvent, Thought, Artifact} \cup Statuses

Steps == {"start", "prelude", "pattern", "artifact", "write", "emit", "harvest",
          "reject", "rejected", "close", "unwind", "returned", "raised",
          "record", "report", "done"}

TypeOK ==
  /\ route \in Routes
  /\ row \in States
  /\ pc \in Steps
  /\ outcome \in {"WORKING", "COMPLETED", "INPUT_REQUIRED"}
  /\ progress \in 0..MaxProgress
  /\ queue \in Seq(Events \cup {End})
  /\ \A i, j \in DOMAIN queue : queue[i] = End /\ queue[j] = End => i = j
  /\ closed \in BOOLEAN
  /\ reader \in {"reading", "finished", "gone"}
  /\ delivered \in Seq(Events)
  /\ reply \in States \cup {"none", "500"}

Init ==
  /\ route \in Routes
  /\ row = "SUBMITTED"
  /\ pc = "start"
  /\ outcome = "WORKING"
  /\ progress = 0
  /\ queue = <<>>
  /\ closed = FALSE
  /\ reader = "reading"
  /\ delivered = <<>>
  /\ reply = "none"

Goto(from, to) == pc = from /\ pc' = to

Raised(kind) == [route |-> route, kind |-> kind] \in Faults

Emit(e) == queue' = Append(queue, e) /\ UNCHANGED closed

Close ==
  IF closed THEN UNCHANGED channel
            ELSE closed' = TRUE /\ queue' = Append(queue, End)

-----------------------------------------------------------------------------
(* run_message                                                             *)

Announce ==
  /\ Goto("start", "prelude")
  /\ Emit(TaskEvent)
  /\ UNCHANGED <<route, row, outcome, progress, reading>>

\* Memory, history and provider, before the try: a failure closes nothing.
Prelude ==
  /\ \/ Goto("prelude", "pattern")
     \/ Raised("prelude") /\ Goto("prelude", "raised")
  /\ UNCHANGED <<route, row, outcome, progress, channel, reading>>

Think ==
  /\ pc = "pattern" /\ progress < MaxProgress
  /\ progress' = progress + 1
  /\ Emit(Thought)
  /\ UNCHANGED <<route, row, pc, outcome, reading>>

\* emit_status: the artifact of an answer comes first ...
BeginStatus(s) ==
  /\ outcome' = s
  /\ Goto("pattern", IF s = "COMPLETED" THEN "artifact" ELSE "write")
  /\ IF s = "WORKING"
     THEN progress < MaxProgress /\ progress' = progress + 1
     ELSE UNCHANGED progress
  /\ UNCHANGED <<route, row, channel, reading>>

EmitArtifact ==
  /\ Goto("artifact", "write")
  /\ Emit(Artifact)
  /\ UNCHANGED <<route, row, outcome, progress, reading>>

\* ... then the row is written, and only then the event is emitted.
WriteStatus ==
  /\ Goto("write", "emit")
  /\ row' = outcome
  /\ UNCHANGED <<route, outcome, progress, channel, reading>>

\* Mutation: an answer is reported without final.
EmitStatusNotFinal ==
  /\ Goto("emit", IF outcome = "WORKING" THEN "pattern" ELSE "harvest")
  /\ Emit(Status(outcome, FALSE))
  /\ UNCHANGED <<route, row, outcome, progress, reading>>

EmitStatus ==
  /\ Goto("emit", IF outcome = "WORKING" THEN "pattern" ELSE "harvest")
  /\ Emit(Status(outcome, outcome = "COMPLETED"))
  /\ UNCHANGED <<route, row, outcome, progress, reading>>

\* The pattern raises PatternError, or anything else.
PatternRaises ==
  /\ \/ Raised("pattern") /\ Goto("pattern", "reject")
     \/ Raised("other") /\ Goto("pattern", "unwind")
  /\ UNCHANGED <<route, row, outcome, progress, channel, reading>>

\* _harvest_if_complete reads the task again outside its own try.
Harvest ==
  /\ \/ Goto("harvest", "close")
     \/ Raised("harvest") /\ Goto("harvest", "unwind")
  /\ UNCHANGED <<route, row, outcome, progress, channel, reading>>

\* Mutation: the handler reports without writing the row.
RejectUnrecorded ==
  /\ Goto("reject", "rejected")
  /\ UNCHANGED <<route, row, outcome, progress, channel, reading>>

\* except PatternError: write, emit, and on to the finally.
Reject ==
  /\ Goto("reject", "rejected")
  /\ row' = "FAILED"
  /\ UNCHANGED <<route, outcome, progress, channel, reading>>

EmitRejection ==
  /\ Goto("rejected", "close")
  /\ Emit(Status("FAILED", TRUE))
  /\ UNCHANGED <<route, row, outcome, progress, reading>>

\* finally: emitter.close()
CloseStream ==
  /\ Goto("close", "returned") \/ Goto("unwind", "raised")
  /\ Close
  /\ UNCHANGED <<route, row, outcome, progress, reading>>

-----------------------------------------------------------------------------
(* The routes                                                              *)

\* The streaming producer's own except: FAILED is recorded, then reported.
Record ==
  /\ route = "stream"
  /\ Goto("raised", "record")
  /\ row' = "FAILED"
  /\ UNCHANGED <<route, outcome, progress, channel, reading>>

Report ==
  /\ Goto("record", "report")
  /\ Emit(Status("FAILED", TRUE))
  /\ UNCHANGED <<route, row, outcome, progress, reading>>

\* Mutation: the wrapper leaves closing to run_message.
CloseAgainForgotten ==
  /\ Goto("report", "done")
  /\ UNCHANGED <<route, row, outcome, progress, channel, reading>>

CloseAgain ==
  /\ Goto("report", "done")
  /\ Close
  /\ UNCHANGED <<route, row, outcome, progress, reading>>

\* Mutation: the reply does not wait for the producer.
ReplyEarly ==
  /\ route = "send"
  /\ pc \notin {"done", "raised"} /\ reply = "none"
  /\ reply' = row
  /\ UNCHANGED <<route, row, pc, outcome, progress, channel, reader, delivered>>

\* message:send: gather waits for producer and reader, then the row is read
\* again; the exception of the producer is answered with 500 at once.
Reply ==
  /\ route = "send"
  /\ \/ Goto("returned", "done") /\ reader = "finished" /\ reply' = row
     \/ Goto("raised", "done") /\ reply' = "500"
  /\ UNCHANGED <<route, row, outcome, progress, channel, reader, delivered>>

StreamReturns ==
  /\ route = "stream"
  /\ Goto("returned", "done")
  /\ UNCHANGED <<route, row, outcome, progress, channel, reading>>

\* SseEmitter.stream(): the sentinel ends it, whatever is queued behind.
Read ==
  /\ reader = "reading" /\ queue # <<>>
  /\ queue' = Tail(queue)
  /\ IF Head(queue) = End
     THEN reader' = "finished" /\ UNCHANGED delivered
     ELSE delivered' = Append(delivered, Head(queue)) /\ UNCHANGED reader
  /\ UNCHANGED <<route, row, pc, outcome, progress, closed, reply>>

\* The client of message:stream goes away; the run does not notice.
Disconnect ==
  /\ route = "stream" /\ reader = "reading"
  /\ reader' = "gone"
  /\ UNCHANGED <<route, row, pc, outcome, progress, channel, delivered, reply>>

\* tasks/{id}:cancel from another request.
Cancel ==
  /\ row' = "CANCELED"
  /\ UNCHANGED <<route, pc, outcome, progress, channel, reading>>

Produce ==
  \/ Announce \/ Prelude \/ Think
  \/ \E s \in {"WORKING", "COMPLETED", "INPUT_REQUIRED"} : BeginStatus(s)
  \/ EmitArtifact \/ WriteStatus \/ EmitStatus \/ PatternRaises \/ Harvest
  \/ Reject \/ EmitRejection \/ CloseStream
  \/ Record \/ Report \/ CloseAgain \/ StreamReturns

Next == Produce \/ Reply \/ Read \/ Disconnect \/ Cancel

Spec == Init /\ [][Next]_vars

\* The event loop runs every ready coroutine, and the pattern ends
\* (ToolConfirmation's RunsEnd).  Clients need not stay, nor cancel.
FairSpec == Spec /\ WF_vars(Produce) /\ WF_vars(Read) /\ WF_vars(Reply)

-----------------------------------------------------------------------------
(* Properties                                                              *)

Terminal(e) == e.kind = "status" /\ (e.final \/ e.state = "INPUT_REQUIRED")

\* A stream that was read to its end told the client how the run ended: its
\* last event, and no other, is final or asks for input (run_message's except
\* and finally, the streaming producer's except, SseEmitter.close).
OutcomeDelivered ==
  route = "stream" /\ reader = "finished" =>
    /\ delivered # <<>> /\ Terminal(Last(delivered))
    /\ \A e \in Range(Front(delivered)) : ~Terminal(e)

\* When producer and reader are through, the row is what the client was told,
\* unless it was cancelled (emit_status and the two except branches write the
\* row before they emit).
RowMatchesOutcome ==
  route = "stream" /\ reader = "finished" /\ pc = "done" =>
    row \in {Last(delivered).state, "CANCELED"}

\* message:send answers with a settled task: only after the run wrote its last
\* status and every event was drained (gather, then tasks.get).
ReplyIsSettled ==
  reply \in States => reply \in Settled /\ Contains(delivered, TaskEvent) /\ queue = <<>>

\* The client of message:stream comes to the end of its events: the emitter is
\* closed however the run ends, by the run or by the route's producer.
StreamEnds == route = "stream" /\ reader = "reading" ~> reader # "reading"
=============================================================================
