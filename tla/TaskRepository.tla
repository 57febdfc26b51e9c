--------------------------- MODULE TaskRepository ---------------------------
(***************************************************************************)
(* The SQLAlchemy task store (persistence/repository.py, store.py) under   *)
(* the requests of the routes (a2a/routes.py) and the runs they start      *)
(* (runtime.py, patterns/base.py).  Every repository call opens a session: *)
(* a read, then a flush, then a commit, with an await before each, so the  *)
(* sessions of concurrent requests interleave.  Neither SQLite, where the  *)
(* SELECT takes no lock, nor PostgreSQL at its default isolation orders    *)
(* them.                                                                   *)
(*                                                                         *)
(* A request is the list of repository calls it still has to make; a       *)
(* message to a task extends the list once it knows what is pending.       *)
(* Agents share the database and may share contexts, never tasks.          *)
(***************************************************************************)
EXTENDS Integers, Sequences, FiniteSets

CONSTANTS
  Requests,   \* HTTP requests; a task is named by the request that made it
  Slugs,      \* agents of the server
  Contexts,   \* conversations
  None,       \* no request, no row, no message
  MaxLive     \* bound: requests under way at the same time

ASSUME RepositoryAssumption ==
  /\ None \notin Requests \cup Slugs \cup Contexts
  /\ MaxLive \in Nat \ {0}

VARIABLES
  rows,        \* tasks: one TaskRow per task, or None
  messages,    \* messages: the committed MessageRows
  clock,       \* what _utcnow returns next
  requests,    \* the coroutine of each request
  overlapped   \* history: pairs of writers that were live in one context at once

vars == <<rows, messages, clock, requests, overlapped>>

Created == [op |-> "create"]
Found == [op |-> "get"]
Recalled == [op |-> "recall"]
Appended(who) == [op |-> "append", who |-> who]
Artifact == [op |-> "artifact"]
\* update_status: message names the text of the status, or None.
Status(s, message, pending, clear) ==
  [op |-> "status", state |-> s, message |-> message, pending |-> pending, clear |-> clear]

States == {"SUBMITTED", "WORKING", "INPUT_REQUIRED", "COMPLETED", "FAILED", "CANCELED"}
Texts == (Requests \X {"reply", "question", "pending", "error"}) \cup {None}
Row == [slug : Slugs, context : Contexts, state : States,
        payload : [state : States, message : Texts],
        pending : Requests \cup {None}, artifacts : SUBSET Requests]
Message == [task : Requests, request : Requests, who : {"user", "reply", "question"},
            position : Nat, at : Nat]
Kinds == {"unsent", "message", "cancel", "get"}

TypeOK ==
  /\ \A t \in Requests : rows[t] = None \/ rows[t] \in Row
  /\ messages \subseteq Message
  /\ clock \in Nat
  /\ \A r \in Requests :
       /\ requests[r].kind \in Kinds
       /\ requests[r].task \in Requests
       /\ requests[r].step \in {"begin", "read", "flushed"}
       /\ requests[r].row = None \/ requests[r].row \in Row
  /\ overlapped \subseteq Requests \X Requests

Idle == [kind |-> "unsent", slug |-> None, context |-> None, task |-> None, calls |-> <<>>,
         step |-> "begin", row |-> None, position |-> 0, at |-> 0,
         started |-> FALSE, history |-> {}, view |-> {}]

Init ==
  /\ rows = [t \in Requests |-> None]
  /\ messages = {}
  /\ clock = 0
  /\ requests = [r \in Requests |-> [Idle EXCEPT !.task = r]]
  /\ overlapped = {}

-----------------------------------------------------------------------------
\* The run of a message starts when its opening calls have found the row.
Ready(r) == LET q == requests[r]
            IN  q.kind = "message" /\ q.calls = <<>> /\ q.row # None /\ ~q.started
Live == {r \in Requests : requests[r].calls # <<>> \/ Ready(r)}
Doing(r, op) == requests[r].calls # <<>> /\ Head(requests[r].calls).op = op

\* The record of a request that has finished its present call.
Returned(q) ==
  [q EXCEPT !.calls = Tail(@), !.step = "begin", !.row = None, !.position = 0, !.at = 0]

\* session.get and the check of the slug.
Visible(t, slug) == IF rows[t] # None /\ rows[t].slug = slug THEN rows[t] ELSE None

\* The highest position of the task's messages, and the one after it.
\* Mutation: ordered ascending, the first message is taken for the last.
NextAfterFirst(t) == IF \E m \in messages : m.task = t THEN 1 ELSE 0
NextPosition(t) ==
  LET taken == {m.position : m \in {x \in messages : x.task = t}}
  IN  IF taken = {} THEN 0 ELSE 1 + CHOOSE p \in taken : \A q \in taken : q <= p

\* list_messages_by_context: the agent's messages of a context ...
ContextMessages(slug, context) ==
  {m \in messages : rows[m.task].context = context /\ rows[m.task].slug = slug}
\* ... by creation, then position.
Before(m, n) == m.at < n.at \/ (m.at = n.at /\ m.position < n.position)

\* _conversation_history: everything but the last, which is the current turn.
\* Mutation: the current turn is kept.
WithLast(ms) == ms
WithoutLast(ms) == {m \in ms : \E n \in ms : Before(m, n)}

-----------------------------------------------------------------------------
\* The calls of a message: create or find the task, append the user's
\* message, then run_message recalls the context and resume_pending finds the
\* row.
\* Mutation: only the message that creates a task is stored.
OpeningStoresFirst(first) ==
  <<first>> \o (IF first = Created THEN <<Appended("user")>> ELSE <<>>) \o <<Recalled, Found>>
Opening(first) == <<first, Appended("user"), Recalled, Found>>

Arrival(r, kind, slug, context, task, calls) ==
  LET others == {q \in Live : kind # "get" /\ requests[q].kind # "get"
                                /\ requests[q].context = context}
  IN  /\ requests' = [requests EXCEPT ![r] =
           [Idle EXCEPT !.kind = kind, !.slug = slug, !.context = context,
                        !.task = task, !.calls = calls]]
      /\ overlapped' = overlapped \cup (others \X {r})
      /\ UNCHANGED <<rows, messages, clock>>

May(r) == requests[r].kind = "unsent" /\ Cardinality(Live) < MaxLive

\* message:send and message:stream without a taskId.
NewTask(r) ==
  /\ May(r)
  /\ \E slug \in Slugs, context \in Contexts :
       Arrival(r, "message", slug, context, r, Opening(Created))

\* The routes that name a task, of any agent: a message, a cancel or a get.
ToTask(r) ==
  /\ May(r)
  /\ \E slug \in Slugs, t \in Requests : rows[t] # None /\
       \/ Arrival(r, "message", slug, rows[t].context, t, Opening(Found))
       \/ Arrival(r, "cancel", slug, rows[t].context, t,
                  <<Found, Status("CANCELED", None, None, FALSE)>>)
       \/ Arrival(r, "get", slug, rows[t].context, t, <<Found>>)

-----------------------------------------------------------------------------
\* create_task: one INSERT.
Create(r) ==
  LET q == requests[r]
  IN  /\ Doing(r, "create")
      /\ rows' = [rows EXCEPT ![q.task] =
           [slug |-> q.slug, context |-> q.context, state |-> "SUBMITTED",
            payload |-> [state |-> "SUBMITTED", message |-> None],
            pending |-> None, artifacts |-> {}]]
      /\ requests' = [requests EXCEPT ![r] = Returned(@)]
      /\ UNCHANGED <<messages, clock, overlapped>>

\* The read of get, update_status and append_artifact.  An unknown task, or
\* one of another agent, ends the request with 404.
ReadRow(r) ==
  LET q == requests[r]  row == Visible(q.task, q.slug)
  IN  /\ \E op \in {"get", "status", "artifact"} : Doing(r, op)
      /\ q.step = "begin"
      /\ requests' = [requests EXCEPT ![r] =
           IF row = None THEN [@ EXCEPT !.calls = <<>>, !.row = None]
           ELSE [@ EXCEPT !.step = "read", !.row = row]]
      /\ UNCHANGED <<rows, messages, clock, overlapped>>

\* The rest of get: the messages, in a session of their own.
ReadMessages(r) ==
  LET q == requests[r]
  IN  /\ Doing(r, "get") /\ q.step = "read"
      /\ requests' = [requests EXCEPT ![r] =
           [Returned(q) EXCEPT !.row = q.row,
              !.view = IF q.kind = "get" THEN {m \in messages : m.task = q.task} ELSE {}]]
      /\ UNCHANGED <<rows, messages, clock, overlapped>>

\* A column is written only if its value is not the one that was read.
Column(now, read, new) == IF new = read THEN now ELSE new

\* update_status: the commit.
CommitStatus(r) ==
  LET q == requests[r]
      c == Head(q.calls)
      payload == [state |-> c.state, message |-> c.message]
      pending == IF c.clear THEN None ELSE IF c.pending # None THEN c.pending ELSE q.row.pending
  IN  /\ Doing(r, "status") /\ q.step = "read"
      /\ rows' = [rows EXCEPT
           ![q.task].state = Column(@, q.row.state, c.state),
           ![q.task].payload = Column(@, q.row.payload, payload),
           ![q.task].pending = Column(@, q.row.pending, pending)]
      /\ requests' = [requests EXCEPT ![r] = Returned(@)]
      /\ UNCHANGED <<messages, clock, overlapped>>

\* append_artifact: the whole list that was read, and the new one.
\* Mutation: the list is replaced by the new artifact.
CommitArtifactAlone(r) ==
  LET q == requests[r]
  IN  /\ Doing(r, "artifact") /\ q.step = "read"
      /\ rows' = [rows EXCEPT ![q.task].artifacts = {r}]
      /\ requests' = [requests EXCEPT ![r] = Returned(@)]
      /\ UNCHANGED <<messages, clock, overlapped>>
CommitArtifact(r) ==
  LET q == requests[r]
  IN  /\ Doing(r, "artifact") /\ q.step = "read"
      /\ rows' = [rows EXCEPT ![q.task].artifacts = q.row.artifacts \cup {r}]
      /\ requests' = [requests EXCEPT ![r] = Returned(@)]
      /\ UNCHANGED <<messages, clock, overlapped>>

\* append_message: the last position is read, ...
ReadLast(r) ==
  /\ Doing(r, "append") /\ requests[r].step = "begin"
  /\ requests' = [requests EXCEPT ![r].step = "read",
                                  ![r].position = NextPosition(requests[r].task)]
  /\ UNCHANGED <<rows, messages, clock, overlapped>>

\* ... the row is flushed, which stamps it, ...
Flush(r) ==
  /\ Doing(r, "append") /\ requests[r].step = "read"
  /\ requests' = [requests EXCEPT ![r].step = "flushed", ![r].at = clock]
  /\ clock' = clock + 1
  /\ UNCHANGED <<rows, messages, overlapped>>

\* ... and becomes visible to others with the commit.
CommitMessage(r) ==
  LET q == requests[r]
  IN  /\ Doing(r, "append") /\ q.step = "flushed"
      /\ messages' = messages \cup
           {[task |-> q.task, request |-> r, who |-> Head(q.calls).who,
             position |-> q.position, at |-> q.at]}
      /\ requests' = [requests EXCEPT ![r] = Returned(@)]
      /\ UNCHANGED <<rows, clock, overlapped>>

\* run_message: the history of the context, without the current turn.
Recall(r) ==
  LET q == requests[r]
  IN  /\ Doing(r, "recall")
      /\ requests' = [requests EXCEPT ![r] =
           [Returned(q) EXCEPT !.history = WithoutLast(ContextMessages(q.slug, q.context))]]
      /\ UNCHANGED <<rows, messages, clock, overlapped>>

-----------------------------------------------------------------------------
\* What a pattern writes.
Working == Status("WORKING", None, None, FALSE)
Completes(r) ==
  <<Artifact, Status("COMPLETED", <<r, "reply">>, None, FALSE), Appended("reply")>>
Asks(r) ==
  <<Status("INPUT_REQUIRED", <<r, "question">>, None, FALSE), Appended("question"),
    Status("INPUT_REQUIRED", <<r, "pending">>, r, FALSE)>>
Fails(r) == <<Status("FAILED", <<r, "error">>, None, FALSE)>>

\* The run has found its row: an answer to a pending question is refused or
\* resumes it, anything else starts a turn.
Run(r) ==
  LET q == requests[r]
      Goes(calls) == requests' = [requests EXCEPT
        ![r] = [@ EXCEPT !.calls = calls, !.started = TRUE, !.row = None, !.history = {}]]
  IN  /\ Ready(r)
      /\ \/ q.row.pending # None /\ Goes(<<Working>> \o Completes(r))
         \/ \E rest \in {Completes(r), Asks(r), Fails(r)} :
              Goes((IF q.row.pending = None THEN <<>>
                    ELSE <<Working, Status("WORKING", None, None, TRUE)>>) \o <<Working>> \o rest)
      /\ UNCHANGED <<rows, messages, clock, overlapped>>

Next == \E r \in Requests :
  \/ NewTask(r) \/ ToTask(r) \/ Run(r)
  \/ Create(r) \/ ReadRow(r) \/ ReadMessages(r) \/ CommitStatus(r) \/ CommitArtifact(r)
  \/ ReadLast(r) \/ Flush(r) \/ CommitMessage(r) \/ Recall(r)

Spec == Init /\ [][Next]_vars

-----------------------------------------------------------------------------
\* Two writers of the task were under way at the same time.
Contended(t) == \E o \in overlapped : requests[o[1]].task = t /\ requests[o[2]].task = t
Has(ms, r, who) == \E m \in ms : m.request = r /\ m.who = who
\* The text of a status names the request that wrote it.
Writer(row) == row.payload.message[1]

\* What a request wrote earlier stands earlier, in the task and in the
\* context, however many sessions interleave (append_message orders by a
\* position that it computes from a read).
OwnOrder ==
  \A m, n \in messages :
    m.request = n.request /\ m.who = "user" /\ n.who # "user"
      => m.position < n.position /\ Before(m, n)

\* GET /tasks/{id} reads the row and the messages in two sessions; whoever
\* wrote the status it shows, the message that caused it is in the history it
\* shows.
ViewIsCausal ==
  \A r \in Requests :
    LET q == requests[r]
    IN  q.kind = "get" /\ q.calls = <<>> /\ q.row # None /\ q.row.payload.message # None
          => Has(q.view, Writer(q.row), "user")

\* Unless requests of the task overlapped, the row keeps what its writers
\* wrote: the columns state and status_payload, written only if they changed
\* since they were read, tell the same state, and the artifact of every run
\* that replied is in the list, which append_artifact writes back whole.
SoleWriterIsKept ==
  \A t \in Requests : rows[t] # None /\ ~Contended(t) =>
    /\ rows[t].state = rows[t].payload.state
    /\ \A m \in messages :
         m.task = t /\ m.who = "reply" => m.request \in rows[t].artifacts

\* A run is shown messages of its own agent and conversation only, and, unless
\* requests of the conversation overlapped, every earlier one and not the one
\* it answers (the history drops the last entry, which is the current turn
\* only then).
HistoryIsPrior ==
  \A r \in Requests :
    LET q == requests[r]
        prior == {m \in messages : /\ m.request # r
                                   /\ rows[m.task].slug = q.slug
                                   /\ rows[m.task].context = q.context}
    IN  /\ q.history \subseteq prior \cup {m \in messages : m.request = r}
        /\ Ready(r) /\ (\A o \in overlapped : r \notin {o[1], o[2]}) => q.history = prior
=============================================================================
