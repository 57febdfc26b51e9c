------------------------- MODULE TaskRepositoryProofs -------------------------
(***************************************************************************)
(* Proofs about TaskRepository, for every number of requests, agents and   *)
(* conversations under way at once: a request's messages keep their order, *)
(* GET shows a causal view, the row of a task with one writer at a time    *)
(* keeps what was written, and a run alone in its conversation is shown    *)
(* what came before.                                                       *)
(***************************************************************************)
EXTENDS TaskRepository, TLAPS

USE RepositoryAssumption

Fields == {"kind", "slug", "context", "task", "calls", "step", "row", "position", "at",
           "started", "history", "view"}

\* A sequence, whatever its elements are.
IsSequence(s) == \E S : s \in Seq(S)

Numbered ==
  /\ clock \in Nat
  /\ \A m \in messages :
       m.request \in Requests /\ m.position \in Nat /\ m.at \in Nat /\ m.at < clock

\* Each task that has messages has a last one.
HasLast(ms) ==
  ms # {} => \E m \in ms : \A n \in ms : n.position <= m.position
Of(t) == {m \in messages : m.task = t}
EachHasLast == \A t \in Requests : HasLast(Of(t))

Shaped(q) ==
  /\ DOMAIN q = Fields
  /\ IsSequence(q.calls)
  /\ q.task \in Requests /\ q.position \in Nat /\ q.at \in Nat
Framed == DOMAIN requests = Requests /\ \A r \in Requests : Shaped(requests[r])

\* A message is of the task its request is for, and nobody has one before
\* being sent.
OfItsTask == \A m \in messages :
  requests[m.request].kind # "unsent" /\ m.task = requests[m.request].task

\* The user's message is stored before the run starts, what the run says after;
\* a run that has not started has said nothing.
Opens(call) == call.op = "append" => call.who = "user"
Replies(call) == call.op = "append" => call.who # "user"
TurnOf(q) ==
  /\ \A i \in 1..Len(q.calls) : IF q.started THEN Replies(q.calls[i]) ELSE Opens(q.calls[i])
  /\ q.kind = "unsent" => ~q.started /\ q.calls = <<>>
InTurn ==
  /\ \A r \in Requests : TurnOf(requests[r])
  /\ \A m \in messages : m.who # "user" => requests[m.request].started

\* What an append has read or been stamped with is above all it follows.
Above(q, m) ==
  /\ q.step \in {"read", "flushed"} => m.position < q.position
  /\ q.step = "flushed" => m.at < q.at
Answering(q) == q.calls # <<>> /\ Head(q.calls).op = "append" /\ q.started
AboveOwn ==
  \A r \in Requests :
    /\ requests[r].step = "flushed" => requests[r].at < clock
    /\ Answering(requests[r]) =>
         \A m \in messages : m.request = r /\ m.who = "user" => Above(requests[r], m)

Ordered == Numbered /\ EachHasLast /\ Framed /\ OfItsTask /\ InTurn /\ AboveOwn /\ OwnOrder

LEMMA InitOrdered == Init => Ordered
<1> SUFFICES ASSUME Init PROVE Ordered
  OBVIOUS
<1>2. IsSequence(<<>>)
  <2>1. <<>> \in Seq({})
    OBVIOUS
  <2> QED
    BY <2>1 DEF IsSequence
<1>3. requests = [r \in Requests |-> [Idle EXCEPT !.task = r]] /\ messages = {} /\ clock = 0
  BY DEF Init
<1>4. \A r \in Requests :
        /\ DOMAIN requests[r] = Fields /\ requests[r].calls = <<>> /\ requests[r].position = 0
        /\ requests[r].at = 0 /\ requests[r].task = r /\ requests[r].step = "begin" /\ ~requests[r].started
  BY <1>3 DEF Idle, Fields
<1>5. Numbered /\ EachHasLast /\ OfItsTask /\ OwnOrder
  BY <1>3 DEF Numbered, EachHasLast, HasLast, Of, OfItsTask, OwnOrder
<1>6. Framed
  BY <1>2, <1>3, <1>4 DEF Framed, Shaped
<1>7. InTurn /\ AboveOwn
  BY <1>3, <1>4 DEF InTurn, TurnOf, AboveOwn, Answering
<1> QED
  BY <1>5, <1>6, <1>7 DEF Ordered

-----------------------------------------------------------------------------
\* The next position of a task is above those of its messages.
LEMMA NextIsAbove ==
  ASSUME Numbered, NEW t \in Requests, EachHasLast
  PROVE  /\ NextPosition(t) \in Nat
         /\ \A m \in messages : m.task = t => m.position < NextPosition(t)
<1> DEFINE taken == {m.position : m \in Of(t)}
<1>1. taken \subseteq Nat
  BY DEF Numbered, Of
<1>2. NextPosition(t) = IF taken = {} THEN 0
                       ELSE 1 + CHOOSE p \in taken : \A q \in taken : q <= p
  BY DEF NextPosition, Of
<1>3. CASE taken = {}
  BY <1>2, <1>3 DEF Of
<1>4. CASE taken # {}
  <2>1. PICK m \in Of(t) : \A n \in Of(t) : n.position <= m.position
    BY <1>4 DEF EachHasLast, HasLast
  <2>2. m.position \in taken /\ \A q \in taken : q <= m.position
    BY <2>1
  <2> DEFINE top == CHOOSE p \in taken : \A q \in taken : q <= p
  <2>3. top \in taken /\ \A q \in taken : q <= top
    BY <2>2
  <2>4. NextPosition(t) = 1 + top
    BY <1>2, <1>4
  <2> HIDE DEF top
  <2>5. top \in Nat
    BY <1>1, <2>3
  <2>6. \A n \in messages : n.task = t => n.position \in Nat /\ n.position <= top
    BY <1>1, <2>3 DEF Of
  <2> QED
    BY <2>4, <2>5, <2>6
<1> QED
  BY <1>3, <1>4

-----------------------------------------------------------------------------
\* One request moves on from its record to q and adds no message.
MovesTo(r, q) ==
  /\ requests' = [requests EXCEPT ![r] = q] /\ UNCHANGED messages
  /\ clock' \in Nat /\ clock' >= clock
  /\ Shaped(q) /\ TurnOf(q) /\ q.kind # "unsent"
  /\ q.task = requests[r].task \/ requests[r].kind = "unsent"
  /\ requests[r].started => q.started
  /\ q.step = "flushed" => q.at < clock'
  /\ Answering(q) => \A m \in messages : m.request = r /\ m.who = "user" => Above(q, m)

LEMMA MovesToOrdered ==
  ASSUME Ordered, NEW r \in Requests, NEW q, MovesTo(r, q)
  PROVE  Ordered'
<1>0. Numbered /\ EachHasLast /\ Framed /\ OfItsTask /\ InTurn /\ AboveOwn /\ OwnOrder
  BY DEF Ordered
<1>1. /\ DOMAIN requests' = Requests /\ requests'[r] = q /\ messages' = messages
      /\ \A s \in Requests : s # r => requests'[s] = requests[s]
  BY <1>0 DEF MovesTo, Framed
<1>2. Numbered' /\ EachHasLast' /\ OwnOrder'
  BY <1>0, <1>1 DEF MovesTo, Numbered, EachHasLast, Of, OwnOrder, Before
<1>3. Framed'
  BY <1>0, <1>1 DEF MovesTo, Framed
<1>4. OfItsTask'
  BY <1>0, <1>1 DEF MovesTo, OfItsTask
<1>5. InTurn'
  <2>1. \A m \in messages' : m.request \in Requests
    BY <1>0, <1>1 DEF Numbered
  <2> QED
    BY <1>0, <1>1, <2>1 DEF MovesTo, InTurn
<1>6. AboveOwn'
  <2>1. \A s \in Requests : requests'[s].step = "flushed" => requests'[s].at < clock'
    <3>1. clock \in Nat /\ clock' \in Nat /\ clock' >= clock
      BY <1>0 DEF Numbered, MovesTo
    <3> SUFFICES ASSUME NEW s \in Requests, requests'[s].step = "flushed"
                 PROVE  requests'[s].at < clock'
      OBVIOUS
    <3>2. CASE s = r
      BY <3>2, <1>1 DEF MovesTo
    <3>3. CASE s # r
      <4>1. requests'[s] = requests[s] /\ requests[s].at \in Nat /\ requests[s].at < clock
        BY <3>3, <1>0, <1>1 DEF AboveOwn, Framed, Shaped
      <4> QED
        BY <4>1, <3>1
    <3> QED
      BY <3>2, <3>3
  <2>2. ASSUME NEW s \in Requests, Answering(requests'[s])
        PROVE  \A m \in messages : m.request = s /\ m.who = "user" => Above(requests'[s], m)
    BY <2>2, <1>0, <1>1 DEF MovesTo, AboveOwn
  <2> QED
    BY <2>1, <2>2, <1>1 DEF AboveOwn
<1> QED
  BY <1>2, <1>3, <1>4, <1>5, <1>6 DEF Ordered

\* A call of the list is done.
Back(old, q) ==
  /\ DOMAIN q = Fields /\ q.calls = Tail(old.calls) /\ q.step = "begin"
  /\ q.position = 0 /\ q.at = 0
  /\ q.task = old.task /\ q.kind = old.kind /\ q.started = old.started

LEMMA ReturnedIsBack == \A old : Shaped(old) => Back(old, Returned(old))
  BY DEF Shaped, Back, Returned, Fields

LEMMA BackIsSound ==
  ASSUME NEW old, Shaped(old), TurnOf(old), old.calls # <<>>, NEW q, Back(old, q)
  PROVE  Shaped(q) /\ TurnOf(q) /\ q.kind # "unsent"
<1>1. PICK S : old.calls \in Seq(S)
  BY DEF Shaped, IsSequence
<1> DEFINE c == old.calls  n == Len(c)
<1>2. n \in Nat /\ n # 0
  BY <1>1
<1>3. Tail(c) \in Seq(S) /\ Len(Tail(c)) = n - 1 /\ \A i \in 1..(n - 1) : Tail(c)[i] = c[i + 1]
  BY <1>1
<1>4. IsSequence(q.calls)
  BY <1>3 DEF Back, IsSequence
<1>5. Shaped(q)
  BY <1>4 DEF Back, Shaped
<1>6. q.kind # "unsent"
  BY DEF Back, TurnOf
<1>7. q.calls = Tail(c) /\ q.started = old.started
  BY DEF Back
<1>8. \A i \in 1..Len(q.calls) : IF q.started THEN Replies(q.calls[i]) ELSE Opens(q.calls[i])
  <2> HIDE DEF n
  <2> SUFFICES ASSUME NEW i \in 1..(n - 1)
               PROVE  IF old.started THEN Replies(c[i + 1]) ELSE Opens(c[i + 1])
    BY <1>3, <1>7
  <2>1. i + 1 \in 1..n
    BY <1>2
  <2> QED
    BY <2>1 DEF TurnOf, n
<1> QED
  BY <1>5, <1>6, <1>8 DEF TurnOf

LEMMA BackOrdered ==
  ASSUME Ordered, NEW r \in Requests, requests[r].calls # <<>>,
         NEW q, Back(requests[r], q),
         requests' = [requests EXCEPT ![r] = q], UNCHANGED <<messages, clock>>
  PROVE  Ordered'
<1>1. Shaped(q) /\ TurnOf(q) /\ q.kind # "unsent"
  BY BackIsSound DEF Ordered, Framed, InTurn
<1>2. clock \in Nat /\ clock' = clock
  BY DEF Ordered, Numbered
<1>3. clock' >= clock
  BY <1>2
<1>4. MovesTo(r, q)
  BY <1>1, <1>2, <1>3 DEF Back, MovesTo, Above
<1> QED
  BY <1>4, MovesToOrdered

\* What a message starts with is its own message, nothing of its run.
LEMMA ArrivalOrdered ==
  ASSUME Ordered, NEW r \in Requests, NEW kind, NEW slug, NEW context, NEW t \in Requests,
         kind # "unsent", NEW calls, IsSequence(calls),
         \A i \in 1..Len(calls) : Opens(calls[i]),
         requests[r].kind = "unsent", Arrival(r, kind, slug, context, t, calls)
  PROVE  Ordered'
<1> DEFINE q == [Idle EXCEPT !.kind = kind, !.slug = slug, !.context = context,
                             !.task = t, !.calls = calls]
<1>1. /\ DOMAIN q = Fields /\ q.kind = kind /\ q.task = t /\ q.calls = calls
      /\ q.step = "begin" /\ q.position = 0 /\ q.at = 0 /\ q.started = FALSE
  BY DEF Idle, Fields
<1>2. requests' = [requests EXCEPT ![r] = q] /\ UNCHANGED <<messages, clock>>
  BY DEF Arrival
<1>3. clock' \in Nat /\ clock' >= clock
  BY <1>2 DEF Ordered, Numbered
<1>4. ~requests[r].started
  BY DEF Ordered, InTurn, TurnOf
<1> HIDE DEF q
<1>5. MovesTo(r, q)
  BY <1>1, <1>2, <1>3, <1>4 DEF MovesTo, Shaped, TurnOf, Answering
<1> QED
  BY <1>5, MovesToOrdered

LEMMA OpeningsOpen ==
  ASSUME NEW first \in {Created, Found}
  PROVE  /\ IsSequence(Opening(first))
         /\ \A i \in 1..Len(Opening(first)) : Opens(Opening(first)[i])
<1> DEFINE S == {Created, Found, Recalled, Appended("user")}
<1>1. \A c \in S : Opens(c)
  BY DEF Opens, Created, Found, Recalled, Appended
<1>2. first \in S /\ Found \in S /\ Recalled \in S /\ Appended("user") \in S
  OBVIOUS
<1> HIDE DEF S
<1>3. Opening(first) \in Seq(S)
  BY <1>2 DEF Opening
<1>4. \A i \in 1..Len(Opening(first)) : Opening(first)[i] \in S
  BY <1>3
<1> QED
  BY <1>1, <1>3, <1>4 DEF IsSequence

LEMMA NewTaskOrdered ==
  ASSUME Ordered, NEW r \in Requests, NewTask(r)
  PROVE  Ordered'
  BY ArrivalOrdered, OpeningsOpen DEF NewTask, May

LEMMA ToTaskOrdered ==
  ASSUME Ordered, NEW r \in Requests, ToTask(r)
  PROVE  Ordered'
<1>1. PICK slug \in Slugs, t \in Requests :
        \/ Arrival(r, "message", slug, rows[t].context, t, Opening(Found))
        \/ Arrival(r, "cancel", slug, rows[t].context, t,
                   <<Found, Status("CANCELED", None, None, FALSE)>>)
        \/ Arrival(r, "get", slug, rows[t].context, t, <<Found>>)
  BY DEF ToTask
<1>2. requests[r].kind = "unsent"
  BY DEF ToTask, May
<1> DEFINE cancels == Status("CANCELED", None, None, FALSE)
           S == {Found, cancels}
<1>3. \A c \in S : Opens(c)
  BY DEF Opens, Found, Status
<1>4. Found \in S /\ cancels \in S
  OBVIOUS
<1> HIDE DEF S, cancels
<1>5. <<Found>> \in Seq(S) /\ <<Found, cancels>> \in Seq(S)
  BY <1>4
<1>6. ASSUME NEW c \in Seq(S) PROVE IsSequence(c) /\ \A i \in 1..Len(c) : Opens(c[i])
  <2>1. \A i \in 1..Len(c) : c[i] \in S
    OBVIOUS
  <2> QED
    BY <2>1, <1>3 DEF IsSequence
<1>7. CASE Arrival(r, "message", slug, rows[t].context, t, Opening(Found))
  BY <1>2, <1>7, ArrivalOrdered, OpeningsOpen
<1>8. CASE Arrival(r, "cancel", slug, rows[t].context, t, <<Found, cancels>>)
  BY <1>2, <1>5, <1>6, <1>8, ArrivalOrdered
<1>9. CASE Arrival(r, "get", slug, rows[t].context, t, <<Found>>)
  BY <1>2, <1>5, <1>6, <1>9, ArrivalOrdered
<1> QED
  BY <1>1, <1>7, <1>8, <1>9 DEF cancels

\* The calls that add no message.
LEMMA CallsOrdered ==
  ASSUME Ordered, NEW r \in Requests,
         Create(r) \/ ReadMessages(r) \/ CommitStatus(r) \/ CommitArtifact(r) \/ Recall(r)
  PROVE  Ordered'
<1> DEFINE old == requests[r]
<1>1. Shaped(old) /\ Back(old, Returned(old))
  BY ReturnedIsBack DEF Ordered, Framed
<1>2. CASE Create(r) \/ CommitStatus(r) \/ CommitArtifact(r)
  <2>1. requests' = [requests EXCEPT ![r] = Returned(old)] /\ old.calls # <<>>
    BY <1>2 DEF Create, CommitStatus, CommitArtifact, Doing
  <2>2. UNCHANGED <<messages, clock>>
    BY <1>2 DEF Create, CommitStatus, CommitArtifact
  <2> QED
    BY <1>1, <2>1, <2>2, BackOrdered
<1>3. CASE ReadMessages(r)
  <2> DEFINE q == [Returned(old) EXCEPT !.row = old.row,
                     !.view = IF old.kind = "get" THEN {m \in messages : m.task = old.task} ELSE {}]
  <2>1. requests' = [requests EXCEPT ![r] = q] /\ old.calls # <<>> /\ UNCHANGED <<messages, clock>>
    BY <1>3 DEF ReadMessages, Doing
  <2>2. Back(old, q)
    BY <1>1 DEF Back, Fields
  <2> HIDE DEF q
  <2> QED
    BY <2>1, <2>2, BackOrdered
<1>4. CASE Recall(r)
  <2> DEFINE q == [Returned(old) EXCEPT !.history = WithoutLast(ContextMessages(old.slug, old.context))]
  <2>1. requests' = [requests EXCEPT ![r] = q] /\ old.calls # <<>> /\ UNCHANGED <<messages, clock>>
    BY <1>4 DEF Recall, Doing
  <2>2. Back(old, q)
    BY <1>1 DEF Back, Fields
  <2> HIDE DEF q
  <2> QED
    BY <2>1, <2>2, BackOrdered
<1> QED
  BY <1>2, <1>3, <1>4

LEMMA ReadRowOrdered ==
  ASSUME Ordered, NEW r \in Requests, ReadRow(r)
  PROVE  Ordered'
<1> DEFINE old == requests[r]
           row == Visible(old.task, old.slug)
           unknown == [old EXCEPT !.calls = <<>>, !.row = None]
           found == [old EXCEPT !.step = "read", !.row = row]
<1>1. Shaped(old) /\ TurnOf(old)
  BY DEF Ordered, Framed, InTurn
<1>2. /\ requests' = [requests EXCEPT ![r] = IF row = None THEN unknown ELSE found]
      /\ UNCHANGED <<messages, clock>> /\ old.step = "begin"
      /\ old.calls # <<>> /\ Head(old.calls).op # "append"
  BY DEF ReadRow, Doing
<1>3. clock' \in Nat /\ clock' >= clock /\ old.kind # "unsent"
  BY <1>1, <1>2 DEF Ordered, Numbered, TurnOf
<1>4. CASE row = None
  <2>1. /\ DOMAIN unknown = Fields /\ unknown.calls = <<>> /\ unknown.step = "begin"
        /\ unknown.task = old.task /\ unknown.kind = old.kind /\ unknown.started = old.started
        /\ unknown.position = old.position /\ unknown.at = old.at
    BY <1>1, <1>2 DEF Shaped, Fields
  <2>2. requests' = [requests EXCEPT ![r] = unknown]
    BY <1>2, <1>4
  <2>3. IsSequence(<<>>)
    <3>1. <<>> \in Seq({})
      OBVIOUS
    <3> QED
      BY <3>1 DEF IsSequence
  <2> HIDE DEF unknown
  <2>4. Shaped(unknown) /\ TurnOf(unknown) /\ ~Answering(unknown)
    BY <1>1, <2>1, <2>3 DEF Shaped, TurnOf, Answering
  <2>5. MovesTo(r, unknown)
    BY <1>2, <1>3, <2>1, <2>2, <2>4 DEF MovesTo
  <2> QED
    BY <2>5, MovesToOrdered
<1>5. CASE row # None
  <2>1. /\ DOMAIN found = Fields /\ found.calls = old.calls /\ found.step = "read"
        /\ found.task = old.task /\ found.kind = old.kind /\ found.started = old.started
        /\ found.position = old.position /\ found.at = old.at
    BY <1>1 DEF Shaped, Fields
  <2>2. requests' = [requests EXCEPT ![r] = found]
    BY <1>2, <1>5
  <2> HIDE DEF found
  <2>3. Shaped(found) /\ TurnOf(found) /\ ~Answering(found)
    BY <1>1, <1>2, <2>1 DEF Shaped, TurnOf, Answering
  <2>4. MovesTo(r, found)
    BY <1>2, <1>3, <2>1, <2>2, <2>3 DEF MovesTo
  <2> QED
    BY <2>4, MovesToOrdered
<1> QED
  BY <1>4, <1>5

LEMMA ReadLastOrdered ==
  ASSUME Ordered, NEW r \in Requests, ReadLast(r)
  PROVE  Ordered'
<1> DEFINE old == requests[r]
           next == NextPosition(old.task)
           q == [old EXCEPT !.step = "read", !.position = next]
<1>1. Shaped(old) /\ TurnOf(old) /\ Numbered /\ EachHasLast /\ OfItsTask /\ DOMAIN requests = Requests
  BY DEF Ordered, Framed, InTurn
<1>2. /\ DOMAIN q = Fields /\ q.calls = old.calls /\ q.step = "read" /\ q.position = next
      /\ q.task = old.task /\ q.kind = old.kind /\ q.started = old.started /\ q.at = old.at
  BY <1>1 DEF Shaped, Fields
<1>3. requests' = [requests EXCEPT ![r] = q] /\ old.calls # <<>> /\ UNCHANGED <<messages, clock>>
  BY <1>1 DEF ReadLast, Doing, Shaped, Fields
<1>4. clock' \in Nat /\ clock' >= clock
  BY <1>1, <1>3 DEF Numbered
<1>5. next \in Nat /\ \A m \in messages : m.task = old.task => m.position < next
  BY <1>1, NextIsAbove DEF Shaped
<1> HIDE DEF q, next
<1>6. \A m \in messages : m.request = r => Above(q, m)
  BY <1>1, <1>2, <1>5 DEF OfItsTask, Above
<1>7. Shaped(q) /\ TurnOf(q) /\ q.kind # "unsent"
  BY <1>1, <1>2, <1>3, <1>5 DEF Shaped, TurnOf
<1>8. MovesTo(r, q)
  BY <1>2, <1>3, <1>4, <1>6, <1>7 DEF MovesTo
<1> QED
  BY <1>8, MovesToOrdered

LEMMA FlushOrdered ==
  ASSUME Ordered, NEW r \in Requests, Flush(r)
  PROVE  Ordered'
<1> DEFINE old == requests[r]
           q == [old EXCEPT !.step = "flushed", !.at = clock]
<1>1. Shaped(old) /\ TurnOf(old) /\ Numbered /\ AboveOwn /\ DOMAIN requests = Requests
  BY DEF Ordered, Framed, InTurn
<1>2. /\ DOMAIN q = Fields /\ q.calls = old.calls /\ q.step = "flushed" /\ q.at = clock
      /\ q.task = old.task /\ q.kind = old.kind /\ q.started = old.started
      /\ q.position = old.position
  BY <1>1 DEF Shaped, Fields
<1>3. /\ requests' = [requests EXCEPT ![r] = q] /\ old.calls # <<>> /\ old.step = "read"
      /\ UNCHANGED messages /\ clock' = clock + 1
  BY <1>1 DEF Flush, Doing, Shaped, Fields
<1>4. clock \in Nat /\ clock' \in Nat /\ clock' >= clock /\ clock < clock'
  BY <1>1, <1>3 DEF Numbered
<1> HIDE DEF q
<1>5. Answering(q) => Answering(old)
  BY <1>2 DEF Answering
<1>6. Answering(q) => \A m \in messages : m.request = r /\ m.who = "user" => Above(q, m)
  BY <1>1, <1>2, <1>3, <1>5 DEF AboveOwn, Above, Numbered
<1>7. Shaped(q) /\ TurnOf(q) /\ q.kind # "unsent"
  BY <1>1, <1>2, <1>3, <1>4 DEF Shaped, TurnOf
<1>8. MovesTo(r, q)
  BY <1>2, <1>3, <1>4, <1>6, <1>7 DEF MovesTo
<1> QED
  BY <1>8, MovesToOrdered

\* The one step that adds a message: it is above its request's earlier ones.
LEMMA CommitMessageOrdered ==
  ASSUME Ordered, NEW r \in Requests, CommitMessage(r)
  PROVE  Ordered'
<1> DEFINE old == requests[r]
           call == Head(old.calls)
           q == Returned(old)
           new == [task |-> old.task, request |-> r, who |-> call.who,
                   position |-> old.position, at |-> old.at]
<1>0. Numbered /\ EachHasLast /\ Framed /\ OfItsTask /\ InTurn /\ AboveOwn /\ OwnOrder
  BY DEF Ordered
<1>1. /\ messages' = messages \cup {new} /\ requests' = [requests EXCEPT ![r] = q]
      /\ old.calls # <<>> /\ call.op = "append" /\ old.step = "flushed" /\ clock' = clock
  BY DEF CommitMessage, Doing
<1>2. Shaped(old) /\ TurnOf(old) /\ Back(old, q)
  BY <1>0, ReturnedIsBack DEF Framed, InTurn
<1>3. Shaped(q) /\ TurnOf(q) /\ q.kind # "unsent"
  BY <1>1, <1>2, BackIsSound
<1>4. /\ DOMAIN requests' = Requests /\ requests'[r] = q
      /\ \A s \in Requests : s # r => requests'[s] = requests[s]
  BY <1>0, <1>1 DEF Framed
<1>5. /\ new.task = old.task /\ new.request = r /\ new.who = call.who
      /\ new.position = old.position /\ new.at = old.at
  OBVIOUS
<1>6. /\ old.task \in Requests /\ old.position \in Nat /\ old.at \in Nat /\ old.at < clock
      /\ \A m \in messages : m.request \in Requests
  BY <1>0, <1>1, <1>2 DEF Shaped, AboveOwn, Numbered
<1>7. IF old.started THEN call.who # "user" ELSE call.who = "user"
  <2>1. PICK S : old.calls \in Seq(S)
    BY <1>2 DEF Shaped, IsSequence
  <2>2. 1 \in 1..Len(old.calls) /\ call = old.calls[1]
    BY <2>1, <1>1
  <2> QED
    BY <2>2, <1>1, <1>2 DEF TurnOf, Opens, Replies
<1>8. q.started = old.started /\ q.task = old.task /\ q.kind = old.kind /\ q.step = "begin"
  BY <1>2 DEF Back
<1> HIDE DEF new, q, call
<1>9. Numbered'
  BY <1>0, <1>1, <1>5, <1>6 DEF Numbered
<1>10. EachHasLast'
  <2> SUFFICES ASSUME NEW t \in Requests PROVE HasLast(Of(t))'
    BY DEF EachHasLast
  <2>1. HasLast(Of(t))
    BY <1>0 DEF EachHasLast
  <2>2. CASE t # old.task
    <3>1. Of(t)' = Of(t)
      BY <2>2, <1>1, <1>5 DEF Of
    <3> QED
      BY <2>1, <3>1 DEF HasLast
  <2>3. CASE t = old.task
    <3>1. Of(t)' = Of(t) \cup {new}
      BY <2>3, <1>1, <1>5 DEF Of
    <3>2. \A m \in Of(t) \cup {new} : m.position \in Nat
      BY <1>0, <1>5, <1>6 DEF Numbered, Of
    <3>3. CASE \E m \in Of(t) : (\A n \in Of(t) : n.position <= m.position) /\ new.position <= m.position
      BY <3>1, <3>3 DEF HasLast
    <3>4. CASE ~\E m \in Of(t) : (\A n \in Of(t) : n.position <= m.position) /\ new.position <= m.position
      <4>1. \A n \in Of(t) : n.position <= new.position
        BY <2>1, <3>2, <3>4 DEF HasLast
      <4> QED
        BY <3>1, <3>2, <4>1 DEF HasLast
    <3> QED
      BY <3>3, <3>4
  <2> QED
    BY <2>2, <2>3
<1>11. Framed'
  BY <1>0, <1>3, <1>4 DEF Framed
<1>12. OfItsTask'
  BY <1>0, <1>1, <1>3, <1>4, <1>5, <1>6, <1>8 DEF OfItsTask
<1>13. InTurn'
  BY <1>0, <1>1, <1>3, <1>4, <1>5, <1>6, <1>7, <1>8 DEF InTurn
<1>14. AboveOwn'
  BY <1>0, <1>1, <1>4, <1>5, <1>8 DEF AboveOwn, Above
<1>15. OwnOrder'
  <2> SUFFICES ASSUME NEW m \in messages', NEW n \in messages',
                      m.request = n.request, m.who = "user", n.who # "user"
               PROVE  m.position < n.position /\ Before(m, n)
    BY DEF OwnOrder, Before
  <2>1. CASE m \in messages /\ n \in messages
    BY <2>1, <1>0 DEF OwnOrder
  <2>2. CASE m \in messages /\ n = new
    <3>1. Answering(old) /\ m.request = r
      BY <2>2, <1>1, <1>5, <1>7 DEF Answering, call
    <3>2. Above(old, m)
      BY <2>2, <3>1, <1>0 DEF AboveOwn
    <3> QED
      BY <2>2, <3>2, <1>1, <1>5 DEF Above, Before
  <2>3. CASE m = new /\ n \in messages
    BY <2>3, <1>0, <1>5, <1>7 DEF InTurn
  <2>4. CASE m = new /\ n = new
    BY <2>4
  <2> QED
    BY <2>1, <2>2, <2>3, <2>4, <1>1
<1> QED
  BY <1>9, <1>10, <1>11, <1>12, <1>13, <1>14, <1>15 DEF Ordered

-----------------------------------------------------------------------------
\* What a run writes begins with a status and names no user's message.
Written(calls) ==
  /\ IsSequence(calls) /\ calls # <<>> /\ Head(calls).op # "append"
  /\ \A i \in 1..Len(calls) : Replies(calls[i])

LEMMA RunIsWritten ==
  ASSUME NEW r, NEW before \in {<<>>, <<Working, Status("WORKING", None, None, TRUE)>>},
         NEW rest \in {Completes(r), Asks(r), Fails(r)}
  PROVE  Written(before \o <<Working>> \o rest)
<1> DEFINE cleared == Status("WORKING", None, None, TRUE)
           done == Status("COMPLETED", <<r, "reply">>, None, FALSE)
           asks == Status("INPUT_REQUIRED", <<r, "question">>, None, FALSE)
           keeps == Status("INPUT_REQUIRED", <<r, "pending">>, r, FALSE)
           fails == Status("FAILED", <<r, "error">>, None, FALSE)
           reply == Appended("reply")
           question == Appended("question")
           S == {Working, cleared, done, asks, keeps, fails, Artifact, reply, question}
<1>1. \A c \in S : Replies(c)
  BY DEF Replies, Working, Status, Artifact, Appended
<1>2. Working.op # "append"
  BY DEF Working, Status
<1>3. /\ Working \in S /\ cleared \in S /\ done \in S /\ asks \in S /\ keeps \in S /\ fails \in S
      /\ Artifact \in S /\ reply \in S /\ question \in S
  OBVIOUS
<1>4. rest \in {<<Artifact, done, reply>>, <<asks, question, keeps>>, <<fails>>}
  BY DEF Completes, Asks, Fails
<1>5. before \in {<<>>, <<Working, cleared>>}
  OBVIOUS
<1> HIDE DEF S, cleared, done, asks, keeps, fails, reply, question
<1>6. rest \in Seq(S)
  <2>1. <<Artifact, done, reply>> \in Seq(S) /\ <<asks, question, keeps>> \in Seq(S) /\ <<fails>> \in Seq(S)
    BY <1>3
  <2> QED
    BY <1>4, <2>1
<1>7. before \in Seq(S) /\ (before = <<>> \/ Head(before) = Working)
  <2>1. <<>> \in Seq(S) /\ <<Working, cleared>> \in Seq(S) /\ Head(<<Working, cleared>>) = Working
    BY <1>3
  <2> QED
    BY <1>5, <2>1
<1>8. <<Working>> \in Seq(S)
  BY <1>3
<1> DEFINE calls == before \o <<Working>> \o rest
<1>9. calls \in Seq(S) /\ calls # <<>> /\ Head(calls) = Working
  BY <1>6, <1>7, <1>8
<1> HIDE DEF calls
<1>10. \A i \in 1..Len(calls) : calls[i] \in S
  BY <1>9
<1>11. Written(calls)
  BY <1>1, <1>2, <1>9, <1>10 DEF Written, IsSequence
<1> QED
  BY <1>11 DEF calls

LEMMA RunOrdered ==
  ASSUME Ordered, NEW r \in Requests, Run(r)
  PROVE  Ordered'
<1> DEFINE old == requests[r]
           q(calls) == [old EXCEPT !.calls = calls, !.started = TRUE, !.row = None, !.history = {}]
<1>1. Shaped(old) /\ Numbered /\ DOMAIN requests = Requests
  BY DEF Ordered, Framed
<1>2. PICK calls : Written(calls) /\ requests' = [requests EXCEPT ![r] = q(calls)]
  <2>1. CASE old.row.pending # None /\ requests' = [requests EXCEPT ![r] = q(<<Working>> \o Completes(r))]
    <3>1. Written(<<>> \o <<Working>> \o Completes(r))
      BY RunIsWritten
    <3>2. <<>> \o <<Working>> = <<Working>>
      OBVIOUS
    <3> QED
      BY <2>1, <3>1, <3>2
  <2>2. ASSUME NEW rest \in {Completes(r), Asks(r), Fails(r)},
               requests' = [requests EXCEPT ![r] =
                 q((IF old.row.pending = None THEN <<>>
                    ELSE <<Working, Status("WORKING", None, None, TRUE)>>) \o <<Working>> \o rest)]
        PROVE  \E calls : Written(calls) /\ requests' = [requests EXCEPT ![r] = q(calls)]
    <3> DEFINE before == IF old.row.pending = None THEN <<>>
                         ELSE <<Working, Status("WORKING", None, None, TRUE)>>
    <3>1. before \in {<<>>, <<Working, Status("WORKING", None, None, TRUE)>>}
      OBVIOUS
    <3> HIDE DEF before
    <3>2. Written(before \o <<Working>> \o rest)
      BY <3>1, RunIsWritten
    <3> QED
      BY <2>2, <3>2 DEF before
  <2> QED
    BY <2>1, <2>2 DEF Run
<1>3. /\ DOMAIN q(calls) = Fields /\ q(calls).calls = calls /\ q(calls).started = TRUE
      /\ q(calls).task = old.task /\ q(calls).kind = old.kind /\ q(calls).step = old.step
      /\ q(calls).position = old.position /\ q(calls).at = old.at
  BY <1>1 DEF Shaped, Fields
<1>4. old.kind # "unsent" /\ UNCHANGED <<messages, clock>>
  BY DEF Run, Ready
<1>5. clock' \in Nat /\ clock' >= clock /\ (old.step = "flushed" => old.at < clock')
  BY <1>1, <1>4 DEF Numbered, Ordered, AboveOwn
<1> DEFINE new == q(calls)
<1>6. requests' = [requests EXCEPT ![r] = new]
  BY <1>2
<1>7. /\ DOMAIN new = Fields /\ new.calls = calls /\ new.started
      /\ new.task = old.task /\ new.kind = old.kind /\ new.step = old.step
      /\ new.position = old.position /\ new.at = old.at
  BY <1>3
<1> HIDE DEF new
<1>8. Shaped(new) /\ TurnOf(new) /\ ~Answering(new)
  BY <1>1, <1>2, <1>4, <1>7 DEF Shaped, TurnOf, Answering, Written
<1>9. MovesTo(r, new)
  BY <1>4, <1>5, <1>6, <1>7, <1>8 DEF MovesTo
<1> QED
  BY <1>9, MovesToOrdered

LEMMA StutterOrdered == Ordered /\ UNCHANGED vars => Ordered'
  BY DEF vars, Ordered, Numbered, EachHasLast, HasLast, Of, Framed, OfItsTask, InTurn,
         AboveOwn, OwnOrder, Before

LEMMA NextOrdered == Ordered /\ [Next]_vars => Ordered'
<1> SUFFICES ASSUME Ordered, Next PROVE Ordered'
  BY StutterOrdered
<1>1. PICK r \in Requests :
        \/ NewTask(r) \/ ToTask(r) \/ Run(r)
        \/ Create(r) \/ ReadRow(r) \/ ReadMessages(r) \/ CommitStatus(r) \/ CommitArtifact(r)
        \/ ReadLast(r) \/ Flush(r) \/ CommitMessage(r) \/ Recall(r)
  BY DEF Next
<1>2. CASE NewTask(r) \/ ToTask(r) \/ Run(r)
  BY <1>2, NewTaskOrdered, ToTaskOrdered, RunOrdered
<1>3. CASE Create(r) \/ ReadMessages(r) \/ CommitStatus(r) \/ CommitArtifact(r) \/ Recall(r)
  BY <1>3, CallsOrdered
<1>4. CASE ReadRow(r) \/ ReadLast(r) \/ Flush(r) \/ CommitMessage(r)
  BY <1>4, ReadRowOrdered, ReadLastOrdered, FlushOrdered, CommitMessageOrdered
<1> QED
  BY <1>1, <1>2, <1>3, <1>4

\* However the sessions of concurrent requests interleave, what a run says is
\* stored after the message it answers, by position and by time: OwnOrder
\* (append_message computes the position from a read of its own session).
THEOREM RepliesFollow == Spec => []OwnOrder
<1>1. Ordered => OwnOrder
  BY DEF Ordered
<1> QED
  BY <1>1, InitOrdered, NextOrdered, PTL DEF Spec

-----------------------------------------------------------------------------
\* None is not a row.
NoneIsNoRow == \A slug, context, state, payload, pending, artifacts :
  None # [slug |-> slug, context |-> context, state |-> state, payload |-> payload,
          pending |-> pending, artifacts |-> artifacts]
Columns == {"slug", "context", "state", "payload", "pending", "artifacts"}

\* The calls a request still has to make before its run, and of the other routes.
ToStore == <<Appended("user"), Recalled, Found>>
ToRecall == <<Recalled, Found>>
ToFind == <<Found>>
Cancels == Status("CANCELED", None, None, FALSE)
Openings == {Opening(Created), Opening(Found)}

LEMMA Lists ==
  /\ \A f : Head(Opening(f)) = f /\ Tail(Opening(f)) = ToStore /\ Opening(f) # <<>>
  /\ Head(ToStore) = Appended("user") /\ Tail(ToStore) = ToRecall /\ ToStore # <<>>
  /\ Head(ToRecall) = Recalled /\ Tail(ToRecall) = ToFind /\ ToRecall # <<>>
  /\ Head(ToFind) = Found /\ Tail(ToFind) = <<>> /\ ToFind # <<>>
  /\ Head(<<Found, Cancels>>) = Found /\ Tail(<<Found, Cancels>>) = <<Cancels>>
  /\ Head(<<Cancels>>) = Cancels /\ Tail(<<Cancels>>) = <<>>
  /\ <<Found, Cancels>> # <<>> /\ <<Cancels>> # <<>>
<1> DEFINE U == Appended("user") C == Cancels
<1> HIDE DEF U, C
<1>1. \A f : Opening(f) = <<f, U, Recalled, Found>>
  BY DEF Opening, U
<1>2. ToStore = <<U, Recalled, Found>> /\ Cancels = C
  BY DEF ToStore, U, C
<1>3. \A f : Head(<<f, U, Recalled, Found>>) = f /\ Tail(<<f, U, Recalled, Found>>) = <<U, Recalled, Found>>
  OBVIOUS
<1>4. Head(<<U, Recalled, Found>>) = U /\ Tail(<<U, Recalled, Found>>) = <<Recalled, Found>>
  OBVIOUS
<1>5. Head(<<Recalled, Found>>) = Recalled /\ Tail(<<Recalled, Found>>) = <<Found>>
  OBVIOUS
<1>6. Head(<<Found>>) = Found /\ Tail(<<Found>>) = <<>>
  OBVIOUS
<1>7. Head(<<Found, C>>) = Found /\ Tail(<<Found, C>>) = <<C>>
  OBVIOUS
<1>8. Head(<<C>>) = C /\ Tail(<<C>>) = <<>>
  OBVIOUS
<1>9. \A f : <<f, U, Recalled, Found>> # <<>>
  OBVIOUS
<1>10. <<U, Recalled, Found>> # <<>> /\ <<Recalled, Found>> # <<>> /\ <<Found>> # <<>> /\ <<Found, C>> # <<>> /\ <<C>> # <<>>
  OBVIOUS
<1> QED
  BY <1>1, <1>2, <1>3, <1>4, <1>5, <1>6, <1>7, <1>8, <1>9, <1>10 DEF ToRecall, ToFind, U

\* A call of a run: the texts it names are its own.
Said(r, call) ==
  /\ call.op \in {"status", "artifact", "append"}
  /\ call.op = "status" => call.message = None \/ call.message[1] = r

\* What a request can be at.
InStage(r, q) ==
  /\ q.kind \in Kinds
  /\ q.kind = "unsent" => q.task = r
  /\ q.kind = "get" => ~q.started /\ q.calls \in {ToFind, <<>>}
  /\ q.kind = "cancel" => ~q.started /\ q.calls \in {<<Found, Cancels>>, <<Cancels>>, <<>>}
  /\ q.kind = "message" /\ ~q.started =>
       q.calls \in Openings \cup {ToStore, ToRecall, ToFind, <<>>}
  /\ q.started => \A i \in 1..Len(q.calls) : Said(r, q.calls[i])

\* The calls of a request that has not started its run, by the one it is at.
LEMMA AtCall ==
  ASSUME NEW r, NEW q, InStage(r, q), Shaped(q), TurnOf(q), q.calls # <<>>
  PROVE  LET op == Head(q.calls).op
         IN  /\ q.kind # "unsent"
             /\ q.kind = "get" => q.calls = ToFind /\ op = "get"
             /\ q.kind = "cancel" => \/ q.calls = <<Found, Cancels>> /\ op = "get"
                                     \/ q.calls = <<Cancels>> /\ op = "status"
             /\ q.kind = "message" /\ ~q.started =>
                  \/ q.calls = Opening(Created) /\ op = "create"
                  \/ q.calls = Opening(Found) /\ op = "get"
                  \/ q.calls = ToStore /\ op = "append"
                  \/ q.calls = ToRecall /\ op = "recall"
                  \/ q.calls = ToFind /\ op = "get"
             /\ q.started => q.kind = "message" /\ Said(r, Head(q.calls))
<1>1. /\ Created.op = "create" /\ Found.op = "get" /\ Recalled.op = "recall"
      /\ Appended("user").op = "append" /\ Cancels.op = "status"
  BY DEF Created, Found, Recalled, Appended, Cancels, Status
<1>2. ASSUME q.started PROVE Said(r, Head(q.calls))
  <2>1. PICK S : q.calls \in Seq(S)
    BY DEF Shaped, IsSequence
  <2>2. 1 \in 1..Len(q.calls) /\ Head(q.calls) = q.calls[1]
    BY <2>1
  <2> QED
    BY <1>2, <2>2 DEF InStage
<1> QED
  BY <1>1, <1>2, Lists DEF InStage, TurnOf, Openings, Kinds

-----------------------------------------------------------------------------
\* What the steps of a request do to its record.
Others(r) ==
  DOMAIN requests' = Requests /\ \A s \in Requests : s # r => requests'[s] = requests[s]
Same(old, q) ==
  /\ q.kind = old.kind /\ q.slug = old.slug /\ q.context = old.context /\ q.task = old.task
\* The present call is done, ...
Done(old, q) ==
  /\ Same(old, q) /\ q.started = old.started /\ q.calls = Tail(old.calls) /\ q.step = "begin"
\* ... or goes on.
GoesOn(old, q) ==
  /\ Same(old, q) /\ q.started = old.started /\ q.history = old.history /\ q.view = old.view

LEMMA ToRecord ==
  ASSUME Framed, NEW r \in Requests, NEW q, requests' = [requests EXCEPT ![r] = q]
  PROVE  Others(r) /\ requests'[r] = q
  BY DEF Framed, Others

LEMMA ReturnedIsDone ==
  ASSUME Framed, NEW r \in Requests, NEW q, q = Returned(requests[r])
  PROVE  /\ Done(requests[r], q) /\ q.row = None /\ DOMAIN q = Fields
         /\ q.history = requests[r].history /\ q.view = requests[r].view
  BY DEF Framed, Shaped, Done, Returned, Fields, Same

LEMMA WriteMoves ==
  ASSUME Framed, NEW r \in Requests,
         Create(r) \/ CommitStatus(r) \/ CommitArtifact(r) \/ CommitMessage(r)
  PROVE  /\ Others(r) /\ Done(requests[r], requests'[r]) /\ requests'[r].row = None
         /\ requests'[r].history = requests[r].history /\ requests'[r].view = requests[r].view
<1> DEFINE q == Returned(requests[r])
<1>1. requests' = [requests EXCEPT ![r] = q]
  BY DEF Framed, Create, CommitStatus, CommitArtifact, CommitMessage
<1> HIDE DEF q
<1> QED
  BY ZenonT(30), <1>1, ToRecord, ReturnedIsDone DEF q

LEMMA ReadMessagesMoves ==
  ASSUME Framed, NEW r \in Requests, ReadMessages(r)
  PROVE  LET old == requests[r]  q == requests'[r]
         IN  /\ Others(r) /\ Done(old, q) /\ q.row = old.row /\ q.history = old.history
             /\ q.view = IF old.kind = "get" THEN {m \in messages : m.task = old.task} ELSE {}
<1> DEFINE old == requests[r]  back == Returned(old)
           seen == IF old.kind = "get" THEN {m \in messages : m.task = old.task} ELSE {}
           q == [back EXCEPT !.row = old.row, !.view = seen]
<1>1. requests' = [requests EXCEPT ![r] = q]
  BY DEF ReadMessages
<1>2. Done(old, back) /\ DOMAIN back = Fields /\ back.history = old.history
  BY ReturnedIsDone
<1> HIDE DEF back, seen
<1>3. Done(old, q) /\ q.row = old.row /\ q.view = seen /\ q.history = old.history
  BY <1>2 DEF Done, Same, Fields
<1> HIDE DEF q
<1>4. Others(r) /\ requests'[r] = q
  BY <1>1, ToRecord
<1> QED
  BY <1>3, <1>4 DEF seen

LEMMA RecallMoves ==
  ASSUME Framed, NEW r \in Requests, Recall(r)
  PROVE  LET old == requests[r]  q == requests'[r]
         IN  /\ Others(r) /\ Done(old, q) /\ q.row = None /\ q.view = old.view
             /\ q.history = WithoutLast(ContextMessages(old.slug, old.context))
<1> DEFINE old == requests[r]  back == Returned(old)
           prior == WithoutLast(ContextMessages(old.slug, old.context))
           q == [back EXCEPT !.history = prior]
<1>1. requests' = [requests EXCEPT ![r] = q]
  BY DEF Recall
<1>2. Done(old, back) /\ DOMAIN back = Fields /\ back.view = old.view /\ back.row = None
  BY ReturnedIsDone
<1> HIDE DEF back, prior
<1>3. Done(old, q) /\ q.row = None /\ q.history = prior /\ q.view = old.view
  BY <1>2 DEF Done, Same, Fields
<1> HIDE DEF q
<1>4. Others(r) /\ requests'[r] = q
  BY <1>1, ToRecord
<1> QED
  BY <1>3, <1>4 DEF prior

LEMMA ReadRowMoves ==
  ASSUME Framed, NEW r \in Requests, ReadRow(r)
  PROVE  LET old == requests[r]  q == requests'[r]  row == Visible(old.task, old.slug)
         IN  /\ Others(r) /\ GoesOn(old, q) /\ q.row = row
             /\ q.calls = IF row = None THEN <<>> ELSE old.calls
             /\ q.step = IF row = None THEN "begin" ELSE "read"
<1> DEFINE old == requests[r]  row == Visible(old.task, old.slug)
           q == IF row = None THEN [old EXCEPT !.calls = <<>>, !.row = None]
                ELSE [old EXCEPT !.step = "read", !.row = row]
<1>1. requests' = [requests EXCEPT ![r] = q] /\ old.step = "begin"
  BY DEF ReadRow, Framed, Shaped
<1>2. DOMAIN old = Fields
  BY DEF Framed, Shaped
<1> HIDE DEF row
<1>3. /\ GoesOn(old, q) /\ q.row = row
      /\ q.calls = IF row = None THEN <<>> ELSE old.calls
      /\ q.step = IF row = None THEN "begin" ELSE "read"
  BY <1>1, <1>2 DEF GoesOn, Same, Fields
<1> HIDE DEF q
<1>4. Others(r) /\ requests'[r] = q
  BY <1>1, ToRecord
<1> QED
  BY <1>3, <1>4 DEF row

LEMMA AppendMoves ==
  ASSUME Framed, NEW r \in Requests, ReadLast(r) \/ Flush(r)
  PROVE  LET old == requests[r]  q == requests'[r]
         IN  /\ Others(r) /\ GoesOn(old, q) /\ q.row = old.row /\ q.calls = old.calls
             /\ ReadLast(r) => old.step = "begin" /\ q.step = "read"
             /\ Flush(r) => old.step = "read" /\ q.step = "flushed" /\ q.at = clock
<1> DEFINE old == requests[r]
           next == NextPosition(old.task)
           q1 == [old EXCEPT !.step = "read", !.position = next]
           q2 == [old EXCEPT !.step = "flushed", !.at = clock]
<1>1. DOMAIN old = Fields
  BY DEF Framed, Shaped
<1>2. ReadLast(r) => requests' = [requests EXCEPT ![r] = q1] /\ old.step = "begin"
  BY <1>1 DEF ReadLast, Fields, Framed
<1>3. Flush(r) => requests' = [requests EXCEPT ![r] = q2] /\ old.step = "read"
  BY <1>1 DEF Flush, Fields, Framed
<1> HIDE DEF next
<1>4. GoesOn(old, q1) /\ q1.row = old.row /\ q1.calls = old.calls /\ q1.step = "read"
  BY <1>1 DEF GoesOn, Same, Fields
<1>5. /\ GoesOn(old, q2) /\ q2.row = old.row /\ q2.calls = old.calls
      /\ q2.step = "flushed" /\ q2.at = clock
  BY <1>1 DEF GoesOn, Same, Fields
<1> HIDE DEF q1, q2
<1>6. ASSUME ReadLast(r) PROVE Others(r) /\ requests'[r] = q1
  BY <1>2, <1>6, ToRecord
<1>7. ASSUME Flush(r) PROVE Others(r) /\ requests'[r] = q2
  BY <1>3, <1>7, ToRecord
<1> QED
  BY <1>2, <1>3, <1>4, <1>5, <1>6, <1>7

\* What a run writes is its own.
Speech(r, calls) == IsSequence(calls) /\ \A i \in 1..Len(calls) : Said(r, calls[i])
\* A reply comes after the artifact that carries it.
Replying(call) == call.op = "append" /\ call.who = "reply"
Listed(calls) ==
  \A i \in 1..Len(calls) :
    Replying(calls[i]) => \E j \in 1..Len(calls) : j < i /\ calls[j].op = "artifact"

LEMMA RunSays ==
  ASSUME NEW r, NEW before \in {<<>>, <<Working, Status("WORKING", None, None, TRUE)>>},
         NEW rest \in {Completes(r), Asks(r), Fails(r)}
  PROVE  LET calls == before \o <<Working>> \o rest IN Speech(r, calls) /\ Listed(calls)
<1> DEFINE cleared == Status("WORKING", None, None, TRUE)
           done == Status("COMPLETED", <<r, "reply">>, None, FALSE)
           asks == Status("INPUT_REQUIRED", <<r, "question">>, None, FALSE)
           keeps == Status("INPUT_REQUIRED", <<r, "pending">>, r, FALSE)
           fails == Status("FAILED", <<r, "error">>, None, FALSE)
           reply == Appended("reply")
           question == Appended("question")
           S == {Working, cleared, done, asks, keeps, fails, Artifact, reply, question}
<1>1. \A c \in S : Said(r, c)
  <2>1. Said(r, done) /\ Said(r, asks) /\ Said(r, keeps) /\ Said(r, fails)
    BY DEF Said, Status
  <2>2. Said(r, Working) /\ Said(r, cleared)
    BY DEF Said, Status, Working
  <2>3. Said(r, Artifact) /\ Said(r, reply) /\ Said(r, question)
    BY DEF Said, Artifact, Appended
  <2> HIDE DEF cleared, done, asks, keeps, fails, reply, question
  <2> QED
    BY <2>1, <2>2, <2>3
<1>2. Artifact.op = "artifact" /\ \A c \in S \ {reply} : ~Replying(c)
  BY DEF Replying, Working, Status, Artifact, Appended
<1>3. /\ Working \in S /\ cleared \in S /\ done \in S /\ asks \in S /\ keeps \in S /\ fails \in S
      /\ Artifact \in S /\ reply \in S /\ question \in S
  OBVIOUS
<1>4. /\ reply # Working /\ reply # cleared /\ reply # done /\ reply # asks /\ reply # keeps
      /\ reply # fails /\ reply # Artifact /\ reply # question
  BY DEF Working, Status, Artifact, Appended
<1>5. rest \in {<<Artifact, done, reply>>, <<asks, question, keeps>>, <<fails>>}
  BY DEF Completes, Asks, Fails
<1>6. before \in {<<>>, <<Working, cleared>>}
  OBVIOUS
<1> HIDE DEF S, cleared, done, asks, keeps, fails, reply, question
<1>7. /\ rest \in Seq(S) /\ rest # <<>>
      /\ \A i \in 1..Len(rest) : rest[i] = reply => i = 3 /\ rest[1] = Artifact
  <2>1. CASE rest = <<Artifact, done, reply>>
    BY <2>1, <1>3, <1>4
  <2>2. CASE rest = <<asks, question, keeps>>
    BY <2>2, <1>3, <1>4
  <2>3. CASE rest = <<fails>>
    BY <2>3, <1>3, <1>4
  <2> QED
    BY <1>5, <2>1, <2>2, <2>3
<1>8. before \in Seq(S) /\ \A i \in 1..Len(before) : before[i] # reply
  <2>1. CASE before = <<>>
    BY <2>1
  <2>2. CASE before = <<Working, cleared>>
    <3>1. <<Working, cleared>> \in Seq(S) /\ Len(<<Working, cleared>>) = 2
      BY <1>3
    <3>2. <<Working, cleared>>[1] # reply /\ <<Working, cleared>>[2] # reply
      BY <1>4
    <3>3. \A i \in 1..2 : i = 1 \/ i = 2
      OBVIOUS
    <3> QED
      BY <2>2, <3>1, <3>2, <3>3
  <2> QED
    BY <1>6, <2>1, <2>2
<1> DEFINE opens == before \o <<Working>>
           n == Len(opens)
           calls == opens \o rest
<1>9. opens \in Seq(S) /\ n \in Nat /\ \A i \in 1..n : opens[i] # reply
  BY <1>3, <1>4, <1>8
<1> HIDE DEF opens, n
<1>10. /\ calls \in Seq(S) /\ Len(calls) = n + Len(rest) /\ Len(rest) \in Nat \ {0}
       /\ \A i \in 1..n : calls[i] = opens[i]
       /\ \A i \in 1..Len(rest) : calls[n + i] = rest[i]
  BY <1>7, <1>9 DEF n
<1> HIDE DEF calls
<1>11. \A i \in 1..Len(calls) : calls[i] \in S
  BY <1>10
<1>12. ASSUME NEW i \in 1..Len(calls), Replying(calls[i])
       PROVE  \E j \in 1..Len(calls) : j < i /\ calls[j].op = "artifact"
  <2>1. calls[i] = reply
    BY <1>2, <1>11, <1>12
  <2>2. i > n
    BY <2>1, <1>9, <1>10
  <2>3. i - n \in 1..Len(rest) /\ i = n + (i - n)
    BY <2>2, <1>9, <1>10
  <2>4. rest[i - n] = reply
    BY <2>1, <2>3, <1>10
  <2>5. i - n = 3 /\ rest[1] = Artifact
    BY <2>3, <2>4, <1>7
  <2>6. n + 1 \in 1..Len(calls) /\ n + 1 < i /\ 1 \in 1..Len(rest)
    BY <2>3, <2>5, <1>9, <1>10
  <2>7. calls[n + 1] = Artifact
    BY <2>5, <2>6, <1>10
  <2> QED
    BY <2>6, <2>7, <1>2
<1>13. Speech(r, calls) /\ Listed(calls)
  BY <1>1, <1>10, <1>11, <1>12 DEF Speech, Listed, IsSequence
<1> QED
  BY <1>13 DEF calls, opens

LEMMA RunMoves ==
  ASSUME Framed, NEW r \in Requests, Run(r)
  PROVE  LET old == requests[r]  q == requests'[r]
         IN  /\ Others(r) /\ Same(old, q) /\ q.started /\ q.row = None
             /\ q.step = old.step /\ q.history = {} /\ q.view = old.view
             /\ Written(q.calls) /\ Speech(r, q.calls) /\ Listed(q.calls)
<1> DEFINE old == requests[r]
           Goes(calls) == [old EXCEPT !.calls = calls, !.started = TRUE, !.row = None, !.history = {}]
           cleared == <<Working, Status("WORKING", None, None, TRUE)>>
<1>1. PICK before \in {<<>>, cleared}, rest \in {Completes(r), Asks(r), Fails(r)} :
        requests' = [requests EXCEPT ![r] = Goes(before \o <<Working>> \o rest)]
  <2>1. CASE requests' = [requests EXCEPT ![r] = Goes(<<Working>> \o Completes(r))]
    <3>1. <<>> \o <<Working>> = <<Working>>
      OBVIOUS
    <3> QED
      BY <2>1, <3>1
  <2>2. CASE \E rest \in {Completes(r), Asks(r), Fails(r)} : requests' = [requests EXCEPT ![r] =
               Goes((IF old.row.pending = None THEN <<>> ELSE cleared) \o <<Working>> \o rest)]
    <3>1. (IF old.row.pending = None THEN <<>> ELSE cleared) \in {<<>>, cleared}
      OBVIOUS
    <3> HIDE DEF Goes, cleared
    <3> QED
      BY <2>2, <3>1
  <2> QED
    BY <2>1, <2>2 DEF Run
<1> DEFINE calls == before \o <<Working>> \o rest
           q == Goes(calls)
<1>2. Written(calls) /\ Speech(r, calls) /\ Listed(calls)
  BY RunIsWritten, RunSays
<1> HIDE DEF calls
<1>3. /\ Same(old, q) /\ q.started /\ q.row = None /\ q.step = old.step /\ q.history = {}
      /\ q.view = old.view /\ q.calls = calls
  BY DEF Framed, Shaped, Same, Fields
<1>4. requests' = [requests EXCEPT ![r] = q]
  BY <1>1 DEF calls
<1> HIDE DEF q
<1>5. Others(r) /\ requests'[r] = q
  BY <1>4, ToRecord
<1> QED
  BY <1>2, <1>3, <1>5

-----------------------------------------------------------------------------
\* A request is at a stage of its route; the row of its task exists, of its
\* context, as soon as it is past the INSERT that makes it.
IsRow(row) == \E slug, context, state, payload, pending, artifacts :
  row = [slug |-> slug, context |-> context, state |-> state, payload |-> payload,
         pending |-> pending, artifacts |-> artifacts]
Sent(r) == requests[r].kind # "unsent"
Creating(q) == q.kind = "message" /\ ~q.started /\ q.calls = Opening(Created)

Staged == \A r \in Requests : InStage(r, requests[r])
RowFrame == DOMAIN rows = Requests /\ \A t \in Requests : rows[t] = None \/ IsRow(rows[t])
Placed ==
  \A r \in Requests :
    /\ ~Sent(r) => rows[r] = None
    /\ Sent(r) => IF Creating(requests[r]) THEN requests[r].task = r /\ rows[r] = None
                  ELSE /\ rows[requests[r].task] # None
                       /\ rows[requests[r].task].context = requests[r].context
Founded == Ordered /\ Staged /\ RowFrame /\ Placed

LEMMA NotAnOpening ==
  ASSUME NEW f
  PROVE  ToStore # Opening(f) /\ ToRecall # Opening(f) /\ ToFind # Opening(f)
<1> DEFINE U == Appended("user")
<1>1. /\ ToStore = <<U, Recalled, Found>> /\ ToRecall = <<Recalled, Found>> /\ ToFind = <<Found>>
      /\ Opening(f) = <<f, U, Recalled, Found>>
  BY DEF ToStore, ToRecall, ToFind, Opening
<1> HIDE DEF U
<1>2. Len(<<U, Recalled, Found>>) = 3 /\ Len(<<Recalled, Found>>) = 2 /\ Len(<<Found>>) = 1
      /\ Len(<<f, U, Recalled, Found>>) = 4
  OBVIOUS
<1> QED
  BY <1>1, <1>2

\* Every step of a request but its arrival.
Goes(r) ==
  \/ Run(r) \/ Create(r) \/ ReadRow(r) \/ ReadMessages(r) \/ CommitStatus(r)
  \/ CommitArtifact(r) \/ ReadLast(r) \/ Flush(r) \/ CommitMessage(r) \/ Recall(r)

\* Which call each step makes.
LEMMA GoesAtCall ==
  ASSUME NEW r \in Requests
  PROVE  LET calls == requests[r].calls  op == Head(calls).op
         IN  /\ Create(r) => calls # <<>> /\ op = "create"
             /\ ReadRow(r) => calls # <<>> /\ op \in {"get", "status", "artifact"}
             /\ ReadMessages(r) => calls # <<>> /\ op = "get" /\ requests[r].step = "read"
             /\ CommitStatus(r) => calls # <<>> /\ op = "status" /\ requests[r].step = "read"
             /\ CommitArtifact(r) => calls # <<>> /\ op = "artifact" /\ requests[r].step = "read"
             /\ ReadLast(r) \/ Flush(r) \/ CommitMessage(r) => calls # <<>> /\ op = "append"
             /\ Recall(r) => calls # <<>> /\ op = "recall"
             /\ Run(r) => Ready(r)
  BY DEF Create, ReadRow, ReadMessages, CommitStatus, CommitArtifact, ReadLast, Flush,
         CommitMessage, Recall, Run, Doing

LEMMA GoesMoves ==
  ASSUME Framed, InTurn, Staged, NEW r \in Requests, Goes(r)
  PROVE  /\ Others(r) /\ Sent(r) /\ Same(requests[r], requests'[r])
         /\ InStage(r, requests'[r]) /\ ~Creating(requests'[r])
         /\ Creating(requests[r]) <=> Create(r)
<1> DEFINE old == requests[r]  q == requests'[r]
<1>0. InStage(r, old) /\ Shaped(old) /\ TurnOf(old)
  BY DEF Staged, Framed, InTurn
<1>1. Created.op = "create" /\ Opening(Created) # <<>> /\ Head(Opening(Created)) = Created
  BY Lists DEF Created
<1> DEFINE op == Head(old.calls).op
<1>2. Create(r) => Creating(old)
  <2> SUFFICES ASSUME Create(r) PROVE Creating(old)
    OBVIOUS
  <2>1. old.calls # <<>> /\ op = "create"
    BY GoesAtCall
  <2>2. ~Said(r, Head(old.calls))
    BY <2>1 DEF Said
  <2>3. old.kind \in Kinds
    BY <1>0 DEF InStage
  <2>4. /\ old.kind # "unsent" /\ old.kind # "get" /\ old.kind # "cancel" /\ ~old.started
        /\ old.kind = "message" /\ ~old.started => old.calls = Opening(Created)
    BY <1>0, <2>1, <2>2, AtCall
  <2> QED
    BY <2>3, <2>4 DEF Creating, Kinds
<1>3. ~Create(r) => ~Creating(old)
  BY <1>1, GoesAtCall DEF Goes, Creating, Ready
<1>4. ASSUME Done(old, q), old.calls # <<>> PROVE InStage(r, q) /\ ~Creating(q) /\ Same(old, q)
  <2>1. q.kind = old.kind /\ q.task = old.task /\ q.calls = Tail(old.calls) /\ q.started = old.started
    BY <1>4 DEF Done, Same
  <2>2. CASE old.started
    <3>1. PICK S : old.calls \in Seq(S)
      BY <1>0 DEF Shaped, IsSequence
    <3>2. \A i \in 1..Len(Tail(old.calls)) :
            i + 1 \in 1..Len(old.calls) /\ Tail(old.calls)[i] = old.calls[i + 1]
      BY <3>1, <1>4
    <3>3. old.kind = "message"
      BY <1>0, <1>4, <2>2, AtCall
    <3>4. \A i \in 1..Len(old.calls) : Said(r, old.calls[i])
      BY <1>0, <2>2 DEF InStage
    <3>5. \A i \in 1..Len(q.calls) : Said(r, q.calls[i])
      BY <2>1, <3>2, <3>4
    <3>6. InStage(r, q)
      BY <2>1, <2>2, <3>3, <3>5 DEF InStage, Kinds
    <3> QED
      BY <1>4, <2>1, <2>2, <3>6 DEF Done, Creating
  <2>3. CASE ~old.started
    <3>1. /\ old.kind = "get" => q.calls = <<>>
          /\ old.kind = "cancel" => q.calls \in {<<Cancels>>, <<>>}
          /\ old.kind = "message" => q.calls \in {ToStore, ToRecall, ToFind, <<>>}
          /\ old.kind # "unsent" /\ old.kind \in Kinds
      <4>1. /\ old.kind = "get" => old.calls = ToFind
            /\ old.kind = "cancel" => old.calls = <<Found, Cancels>> \/ old.calls = <<Cancels>>
            /\ old.kind = "message" =>
                 \/ old.calls = Opening(Created) \/ old.calls = Opening(Found)
                 \/ old.calls = ToStore \/ old.calls = ToRecall \/ old.calls = ToFind
            /\ old.kind # "unsent"
        BY <1>0, <1>4, <2>3, AtCall
      <4> QED
        BY ZenonT(30), <1>0, <2>1, <4>1, Lists DEF InStage
    <3>2. InStage(r, q)
      BY <2>1, <2>3, <3>1 DEF InStage
    <3> QED
      BY <1>4, <2>1, <3>1, <3>2, Lists, NotAnOpening DEF Done, Creating
  <2> QED
    BY <2>2, <2>3
<1>5. ASSUME GoesOn(old, q), q.calls = old.calls \/ q.calls = <<>>, ~Creating(old), old.kind # "unsent"
      PROVE  InStage(r, q) /\ ~Creating(q) /\ Same(old, q)
  <2>1. q.kind = old.kind /\ q.task = old.task /\ q.started = old.started /\ Same(old, q)
    BY <1>5 DEF GoesOn, Same
  <2>2. CASE q.calls = old.calls
    BY <1>0, <1>5, <2>1, <2>2 DEF InStage, Creating
  <2>3. CASE q.calls = <<>>
    <3>1. \A i \in 1..Len(<<>>) : Said(r, q.calls[i])
      OBVIOUS
    <3> QED
      BY <1>0, <1>5, <2>1, <2>3, <3>1, Lists DEF InStage, Creating
  <2> QED
    BY <1>5, <2>2, <2>3
<1>6. old.kind # "unsent"
  BY <1>0, GoesAtCall DEF Goes, TurnOf, Ready
<1>7. CASE Create(r) \/ CommitStatus(r) \/ CommitArtifact(r) \/ CommitMessage(r)
  BY <1>2, <1>3, <1>4, <1>6, <1>7, WriteMoves, GoesAtCall DEF Sent
<1>8. CASE ReadMessages(r)
  BY <1>2, <1>3, <1>4, <1>6, <1>8, ReadMessagesMoves, GoesAtCall DEF Sent
<1>9. CASE Recall(r)
  BY <1>2, <1>3, <1>4, <1>6, <1>9, RecallMoves, GoesAtCall DEF Sent
<1>10. CASE ReadRow(r)
  <2>1. ~Create(r)
    BY <1>10, GoesAtCall
  <2> QED
    BY <1>2, <1>3, <1>5, <1>6, <1>10, <2>1, ReadRowMoves DEF Sent
<1>11. CASE ReadLast(r) \/ Flush(r)
  <2>1. ~Create(r)
    BY <1>11, GoesAtCall
  <2> QED
    BY <1>2, <1>3, <1>5, <1>6, <1>11, <2>1, AppendMoves DEF Sent
<1>12. CASE Run(r)
  <2>1. /\ Others(r) /\ Same(old, q) /\ q.started /\ Speech(r, q.calls)
    BY <1>12, RunMoves
  <2>2. old.kind = "message"
    BY <1>12, GoesAtCall DEF Ready
  <2>3. InStage(r, q)
    BY <2>1, <2>2 DEF InStage, Same, Speech, Kinds
  <2> QED
    BY <1>2, <1>3, <1>6, <2>1, <2>3 DEF Sent, Creating
<1> QED
  BY <1>7, <1>8, <1>9, <1>10, <1>11, <1>12 DEF Goes

\* What the commits do to the row of the task; nothing else touches the rows.
OtherRows(t) ==
  DOMAIN rows' = Requests /\ \A s \in Requests : s # t => rows'[s] = rows[s]

LEMMA StatusWrites ==
  ASSUME RowFrame, NEW r \in Requests, CommitStatus(r), NEW t \in Requests,
         t = requests[r].task, rows[t] # None
  PROVE  LET q == requests[r]  c == Head(q.calls)
             payload == [state |-> c.state, message |-> c.message]
         IN  /\ OtherRows(t) /\ IsRow(rows'[t])
             /\ rows'[t].slug = rows[t].slug /\ rows'[t].context = rows[t].context
             /\ rows'[t].artifacts = rows[t].artifacts
             /\ rows'[t].state = Column(rows[t].state, q.row.state, c.state)
             /\ rows'[t].payload = Column(rows[t].payload, q.row.payload, payload)
<1> DEFINE q == requests[r]
           c == Head(q.calls)
           payload == [state |-> c.state, message |-> c.message]
           pending == IF c.clear THEN None ELSE IF c.pending # None THEN c.pending ELSE q.row.pending
           s1 == Column(rows[t].state, q.row.state, c.state)
           p1 == Column(rows[t].payload, q.row.payload, payload)
           g1 == Column(rows[t].pending, q.row.pending, pending)
<1>1. PICK slug, context, state, load, held, artifacts :
        rows[t] = [slug |-> slug, context |-> context, state |-> state, payload |-> load,
                   pending |-> held, artifacts |-> artifacts]
  BY DEF RowFrame, IsRow
<1>2. rows' = [rows EXCEPT ![t].state = s1, ![t].payload = p1, ![t].pending = g1]
  BY DEF CommitStatus, RowFrame
<1> HIDE DEF s1, p1, g1
<1>3. OtherRows(t) /\ rows'[t] = [rows[t] EXCEPT !.state = s1, !.payload = p1, !.pending = g1]
  BY <1>2 DEF RowFrame, OtherRows
<1> DEFINE Made(x, y, z) == [slug |-> slug, context |-> context, state |-> x, payload |-> y,
                             pending |-> z, artifacts |-> artifacts]
<1>4. rows'[t] = Made(s1, p1, g1)
  <2> DEFINE x1 == [rows[t] EXCEPT !.state = s1]
             x2 == [x1 EXCEPT !.payload = p1]
             x3 == [x2 EXCEPT !.pending = g1]
  <2>1. rows'[t] = x3
    BY <1>3
  <2>2. x1 = Made(s1, load, held)
    BY <1>1
  <2> HIDE DEF x1
  <2>3. x2 = Made(s1, p1, held)
    BY <2>2
  <2> HIDE DEF x2
  <2>4. x3 = Made(s1, p1, g1)
    BY <2>3
  <2> QED
    BY <2>1, <2>4
<1>5. IsRow(rows'[t])
  BY <1>4 DEF IsRow
<1> QED
  BY <1>1, <1>3, <1>4, <1>5 DEF s1, p1

LEMMA ArtifactWrites ==
  ASSUME RowFrame, NEW r \in Requests, CommitArtifact(r), NEW t \in Requests,
         t = requests[r].task, rows[t] # None
  PROVE  /\ OtherRows(t) /\ IsRow(rows'[t])
         /\ rows'[t].slug = rows[t].slug /\ rows'[t].context = rows[t].context
         /\ rows'[t].state = rows[t].state /\ rows'[t].payload = rows[t].payload
         /\ rows'[t].artifacts = requests[r].row.artifacts \cup {r}
<1> DEFINE new == requests[r].row.artifacts \cup {r}
<1>1. PICK slug, context, state, load, held, artifacts :
        rows[t] = [slug |-> slug, context |-> context, state |-> state, payload |-> load,
                   pending |-> held, artifacts |-> artifacts]
  BY DEF RowFrame, IsRow
<1>2. rows' = [rows EXCEPT ![t].artifacts = new]
  BY DEF CommitArtifact, RowFrame
<1> HIDE DEF new
<1>3. OtherRows(t) /\ rows'[t] = [rows[t] EXCEPT !.artifacts = new]
  BY <1>2 DEF RowFrame, OtherRows
<1>4. rows'[t] = [slug |-> slug, context |-> context, state |-> state, payload |-> load,
                  pending |-> held, artifacts |-> new]
  BY <1>1, <1>3
<1>5. IsRow(rows'[t])
  BY <1>4 DEF IsRow
<1> QED
  BY <1>1, <1>3, <1>4, <1>5 DEF new

LEMMA CreateWrites ==
  ASSUME RowFrame, NEW r \in Requests, Create(r), requests[r].task = r
  PROVE  /\ OtherRows(r) /\ IsRow(rows'[r])
         /\ rows'[r].slug = requests[r].slug /\ rows'[r].context = requests[r].context
         /\ rows'[r].state = "SUBMITTED" /\ rows'[r].artifacts = {}
         /\ rows'[r].payload = [state |-> "SUBMITTED", message |-> None]
<1> DEFINE q == requests[r]
           load == [state |-> "SUBMITTED", message |-> None]
           new == [slug |-> q.slug, context |-> q.context, state |-> "SUBMITTED",
                   payload |-> load, pending |-> None, artifacts |-> {}]
<1>1. rows' = [rows EXCEPT ![r] = new]
  BY DEF Create
<1> HIDE DEF load
<1>2. IsRow(new)
  BY DEF IsRow
<1>3. OtherRows(r) /\ rows'[r] = new
  BY <1>1 DEF RowFrame, OtherRows
<1> QED
  BY <1>2, <1>3 DEF load

\* A request has just been sent.
Arrives(r, q) ==
  /\ Others(r) /\ ~Sent(r) /\ q = requests'[r] /\ DOMAIN q = Fields
  /\ q.step = "begin" /\ q.row = None /\ ~q.started /\ q.history = {} /\ q.view = {}
  /\ q.kind \in {"message", "get", "cancel"} /\ InStage(r, q)
  /\ q.kind = "message" => q.calls \in Openings
  /\ IF Creating(q) THEN q.task = r
     ELSE q.task \in Requests /\ rows[q.task] # None /\ q.context = rows[q.task].context
  /\ UNCHANGED <<rows, messages, clock>>
  /\ overlapped' = overlapped \cup
       ({s \in Live : q.kind # "get" /\ requests[s].kind # "get" /\ requests[s].context = q.context}
         \X {r})

LEMMA ArrivalArrives ==
  ASSUME Framed, NEW r \in Requests, ~Sent(r), NEW slug, NEW context, NEW t \in Requests,
         NEW kind, NEW calls, Arrival(r, kind, slug, context, t, calls),
         \/ kind = "message" /\ calls = Opening(Created) /\ t = r
         \/ /\ rows[t] # None /\ context = rows[t].context
            /\ \/ kind = "message" /\ calls = Opening(Found)
               \/ kind = "get" /\ calls = ToFind
               \/ kind = "cancel" /\ calls = <<Found, Cancels>>
  PROVE  Arrives(r, requests'[r])
<1> DEFINE q == [Idle EXCEPT !.kind = kind, !.slug = slug, !.context = context,
                             !.task = t, !.calls = calls]
<1>1. /\ requests' = [requests EXCEPT ![r] = q] /\ UNCHANGED <<rows, messages, clock>>
      /\ overlapped' = overlapped \cup
           ({s \in Live : kind # "get" /\ requests[s].kind # "get" /\ requests[s].context = context}
             \X {r})
  BY DEF Arrival
<1>2. /\ DOMAIN q = Fields /\ q.kind = kind /\ q.slug = slug /\ q.context = context
      /\ q.task = t /\ q.calls = calls
      /\ q.step = "begin" /\ q.row = None /\ q.started = FALSE /\ q.history = {} /\ q.view = {}
  BY DEF Idle, Fields
<1> HIDE DEF q
<1>3. Others(r) /\ requests'[r] = q
  BY <1>1, ToRecord
<1>4. Opening(Found) # Opening(Created)
  <2>1. Found # Created
    BY DEF Found, Created
  <2> QED
    BY <2>1, Lists
<1>5. \/ kind = "message" /\ calls = Opening(Created) /\ t = r
      \/ /\ rows[t] # None /\ context = rows[t].context
         /\ \/ kind = "message" /\ calls = Opening(Found)
            \/ kind = "get" /\ calls = ToFind
            \/ kind = "cancel" /\ calls = <<Found, Cancels>>
  OBVIOUS
<1>6. InStage(r, q) /\ kind \in {"message", "get", "cancel"}
  BY <1>2, <1>5 DEF InStage, Kinds, Openings
<1>7. IF Creating(q) THEN t = r ELSE rows[t] # None /\ context = rows[t].context
  BY <1>2, <1>4, <1>5 DEF Creating
<1>8. kind = "message" => calls \in Openings
  BY <1>5 DEF Openings
<1> QED
  BY <1>1, <1>2, <1>3, <1>6, <1>7, <1>8 DEF Arrives

LEMMA ArrivalsArrive ==
  ASSUME Framed, NEW r \in Requests, NewTask(r) \/ ToTask(r)
  PROVE  Arrives(r, requests'[r])
<1>1. ~Sent(r)
  BY DEF NewTask, ToTask, May, Sent
<1>2. CASE NewTask(r)
  <2>1. PICK slug \in Slugs, context \in Contexts :
          Arrival(r, "message", slug, context, r, Opening(Created))
    BY <1>2 DEF NewTask
  <2> QED
    BY <1>1, <2>1, ArrivalArrives
<1>3. CASE ToTask(r)
  <2>1. PICK slug \in Slugs, t \in Requests : rows[t] # None /\
          \/ Arrival(r, "message", slug, rows[t].context, t, Opening(Found))
          \/ Arrival(r, "cancel", slug, rows[t].context, t, <<Found, Cancels>>)
          \/ Arrival(r, "get", slug, rows[t].context, t, ToFind)
    BY <1>3 DEF ToTask, Cancels, ToFind
  <2>2. CASE Arrival(r, "message", slug, rows[t].context, t, Opening(Found))
    BY <1>1, <2>1, <2>2, ArrivalArrives
  <2>3. CASE Arrival(r, "cancel", slug, rows[t].context, t, <<Found, Cancels>>)
    BY <1>1, <2>1, <2>3, ArrivalArrives
  <2>4. CASE Arrival(r, "get", slug, rows[t].context, t, ToFind)
    BY <1>1, <2>1, <2>4, ArrivalArrives
  <2> QED
    BY <2>1, <2>2, <2>3, <2>4
<1> QED
  BY <1>2, <1>3

\* No row vanishes, moves to another context or changes hands.
RowsKept == \A t \in Requests : rows[t] # None =>
  rows'[t] # None /\ rows'[t].context = rows[t].context /\ rows'[t].slug = rows[t].slug

LEMMA NoneIsOther == NoneIsNoRow <=> ~IsRow(None)
  BY DEF NoneIsNoRow, IsRow

LEMMA OneRow ==
  ASSUME RowFrame, NEW t \in Requests, OtherRows(t), IsRow(rows'[t]), ~IsRow(None),
         rows[t] # None => rows'[t].context = rows[t].context /\ rows'[t].slug = rows[t].slug
  PROVE  RowFrame' /\ RowsKept /\ rows'[t] # None
  BY DEF RowFrame, OtherRows, RowsKept

LEMMA GoesRows ==
  ASSUME NoneIsNoRow, Founded, NEW r \in Requests, Goes(r)
  PROVE  /\ RowFrame' /\ RowsKept
         /\ Create(r) => /\ requests[r].task = r /\ rows[r] = None /\ rows'[r] # None
                         /\ rows'[r].context = requests[r].context
                         /\ OtherRows(r)
         /\ ~Create(r) => \A t \in Requests : rows[t] = None => rows'[t] = None
<1> DEFINE old == requests[r]  t == old.task
<1>1. /\ Framed /\ InTurn /\ Staged /\ RowFrame /\ Placed /\ ~IsRow(None) /\ t \in Requests
      /\ InStage(r, old) /\ Shaped(old) /\ TurnOf(old)
  BY NoneIsOther DEF Founded, Ordered, Framed, Shaped, Staged, InTurn
<1>2. Sent(r) /\ (Creating(old) <=> Create(r))
  BY <1>1, GoesMoves
<1>3. CASE Create(r)
  <2>1. t = r /\ rows[r] = None
    BY <1>1, <1>2, <1>3 DEF Placed
  <2>2. OtherRows(r) /\ IsRow(rows'[r]) /\ rows'[r].context = old.context
    BY <1>1, <1>3, <2>1, CreateWrites
  <2>3. RowFrame' /\ RowsKept /\ rows'[r] # None
    BY <1>1, <2>1, <2>2, OneRow
  <2> QED
    BY <1>3, <2>1, <2>2, <2>3
<1>4. CASE CommitStatus(r) \/ CommitArtifact(r)
  <2>1. ~Create(r)
    BY <1>4, GoesAtCall
  <2>2. rows[t] # None
    BY <1>1, <1>2, <2>1 DEF Placed
  <2>3. OtherRows(t) /\ IsRow(rows'[t]) /\ rows'[t].slug = rows[t].slug /\ rows'[t].context = rows[t].context
    BY <1>1, <1>4, <2>2, StatusWrites, ArtifactWrites
  <2>4. RowFrame' /\ RowsKept
    BY <1>1, <2>3, OneRow
  <2> QED
    BY <2>1, <2>2, <2>3, <2>4 DEF OtherRows
<1>5. CASE ~(Create(r) \/ CommitStatus(r) \/ CommitArtifact(r))
  <2>1. rows' = rows
    BY <1>5 DEF Goes, Run, ReadRow, ReadMessages, ReadLast, Flush, CommitMessage, Recall
  <2> QED
    BY <1>1, <1>5, <2>1 DEF RowFrame, RowsKept
<1> QED
  BY <1>3, <1>4, <1>5

LEMMA NextGoes ==
  Next => \E r \in Requests : NewTask(r) \/ ToTask(r) \/ Goes(r)
  BY DEF Next, Goes

LEMMA InitFounded == Init => Founded
<1> SUFFICES ASSUME Init PROVE Founded
  OBVIOUS
<1>1. Ordered
  BY InitOrdered
<1>2. /\ DOMAIN requests = Requests /\ DOMAIN rows = Requests
      /\ \A r \in Requests : rows[r] = None /\ requests[r].task = r /\ requests[r].kind = "unsent"
                              /\ requests[r].started = FALSE
  BY DEF Init, Idle
<1>3. Staged /\ RowFrame /\ Placed
  BY <1>2 DEF Staged, InStage, Kinds, RowFrame, Placed, Sent
<1> QED
  BY <1>1, <1>3 DEF Founded

LEMMA NextFounded ==
  ASSUME NoneIsNoRow, Founded, [Next]_vars
  PROVE  Founded'
<1>1. /\ Framed /\ InTurn /\ Staged /\ RowFrame /\ Placed /\ DOMAIN requests = Requests
      /\ \A s \in Requests : requests[s].task \in Requests
  BY DEF Founded, Ordered, Framed, Shaped
<1>2. Ordered'
  BY NextOrdered DEF Founded
<1>3. CASE UNCHANGED vars
  BY <1>1, <1>2, <1>3 DEF vars, Founded, Staged, RowFrame, Placed, Sent
<1>4. ASSUME NEW r \in Requests, NewTask(r) \/ ToTask(r) PROVE Founded'
  <2> DEFINE q == requests'[r]
  <2>1. Arrives(r, q)
    BY <1>1, <1>4, ArrivalsArrive
  <2> HIDE DEF q
  <2>2. requests'[r] = q
    BY DEF q
  <2>3. Staged'
    BY <1>1, <2>1, <2>2 DEF Arrives, Others, Staged
  <2>4. RowFrame'
    BY <1>1, <2>1 DEF Arrives, RowFrame
  <2>5. Placed'
    BY <1>1, <2>1, <2>2 DEF Arrives, Others, Placed, Sent
  <2> QED
    BY <1>2, <2>3, <2>4, <2>5 DEF Founded
<1>5. ASSUME NEW r \in Requests, Goes(r) PROVE Founded'
  <2> DEFINE old == requests[r]  q == requests'[r]
  <2>1. /\ Others(r) /\ Sent(r) /\ Same(old, q) /\ InStage(r, q) /\ ~Creating(q)
        /\ Creating(old) <=> Create(r)
    BY <1>1, <1>5, GoesMoves
  <2>2. /\ RowFrame' /\ RowsKept
        /\ Create(r) => /\ old.task = r /\ rows[r] = None /\ rows'[r] # None
                        /\ rows'[r].context = old.context /\ OtherRows(r)
        /\ ~Create(r) => \A t \in Requests : rows[t] = None => rows'[t] = None
    BY <1>5, GoesRows
  <2> HIDE DEF q
  <2>3. Staged'
    BY <1>1, <2>1 DEF Others, Staged, q
  <2>4. Placed'
    <3> SUFFICES ASSUME NEW s \in Requests
                 PROVE  /\ ~Sent(s)' => rows'[s] = None
                        /\ Sent(s)' => IF Creating(requests'[s]) THEN requests'[s].task = s /\ rows'[s] = None
                                       ELSE /\ rows'[requests'[s].task] # None
                                            /\ rows'[requests'[s].task].context = requests'[s].context
      BY DEF Placed
    <3>1. CASE s = r
      <4>1. q.task = old.task /\ q.context = old.context /\ q.kind = old.kind /\ old.task \in Requests
        BY <1>1, <2>1 DEF Same
      <4>2. ~Create(r) => rows[old.task] # None /\ rows[old.task].context = old.context
        BY <1>1, <2>1 DEF Placed
      <4>3. rows'[old.task] # None /\ rows'[old.task].context = old.context
        BY <2>2, <4>1, <4>2 DEF RowsKept
      <4> QED
        BY <3>1, <2>1, <4>1, <4>3 DEF Sent, q
    <3>2. CASE s # r
      <4>1. requests'[s] = requests[s] /\ (Sent(s)' <=> Sent(s))
        BY <3>2, <2>1 DEF Others, Sent
      <4>2. rows[s] = None => rows'[s] = None
        BY <2>2, <3>2 DEF OtherRows
      <4> QED
        BY <1>1, <2>2, <4>1, <4>2 DEF Placed, RowsKept
    <3> QED
      BY <3>1, <3>2
  <2> QED
    BY <1>2, <2>2, <2>3, <2>4 DEF Founded
<1> QED
  BY <1>3, <1>4, <1>5, NextGoes

-----------------------------------------------------------------------------
\* The user's message that a request brought to the task is among ms.
UserSaid(ms, r, t) == \E m \in ms : m.request = r /\ m.who = "user" /\ m.task = t
\* So is that of whoever wrote the status of a row.
Told(ms, row, t) == row # None /\ row.payload.message # None => UserSaid(ms, Writer(row), t)

\* A message is past storing what the user said.
Opened(q) ==
  \/ q.started
  \/ /\ q.kind = "message"
     /\ \/ q.calls \in {ToRecall, ToFind}
        \/ q.calls = <<>> /\ q.row # None

CausalOf(ms, r, q) ==
  /\ Told(ms, q.row, q.task)
  /\ Opened(q) => UserSaid(ms, r, q.task)
  /\ q.kind = "get" /\ q.calls = <<>> => Told(q.view, q.row, q.task)
Causal ==
  /\ \A t \in Requests : Told(messages, rows[t], t)
  /\ \A r \in Requests : CausalOf(messages, r, requests[r])

LEMMA MoreIsSaid ==
  ASSUME NEW ms, NEW more, ms \subseteq more
  PROVE  /\ \A r, t : UserSaid(ms, r, t) => UserSaid(more, r, t)
         /\ \A row, t : Told(ms, row, t) => Told(more, row, t)
         /\ \A r, q : CausalOf(ms, r, q) => CausalOf(more, r, q)
<1>1. \A r, t : UserSaid(ms, r, t) => UserSaid(more, r, t)
  BY DEF UserSaid
<1>2. \A row, t : Told(ms, row, t) => Told(more, row, t)
  BY <1>1 DEF Told
<1> QED
  BY <1>1, <1>2 DEF CausalOf

LEMMA Committed ==
  ASSUME NEW r \in Requests, Goes(r)
  PROVE  /\ messages \subseteq messages'
         /\ ~CommitMessage(r) => messages' = messages
         /\ CommitMessage(r) => messages' = messages \cup
              {[task |-> requests[r].task, request |-> r, who |-> Head(requests[r].calls).who,
                position |-> requests[r].position, at |-> requests[r].at]}
  BY DEF Goes, Run, Create, ReadRow, ReadMessages, CommitStatus, CommitArtifact,
         ReadLast, Flush, CommitMessage, Recall

\* The row that a commit writes names a writer whose message is stored.
LEMMA RowsAreTold ==
  ASSUME NoneIsNoRow, Founded, Causal, NEW r \in Requests, Goes(r), NEW u \in Requests
  PROVE  Told(messages, rows'[u], u)
<1> DEFINE old == requests[r]  t == old.task  call == Head(old.calls)
<1>1. /\ Framed /\ InTurn /\ Staged /\ RowFrame /\ Placed /\ t \in Requests
      /\ InStage(r, old) /\ Shaped(old) /\ TurnOf(old)
      /\ CausalOf(messages, r, old) /\ \A v \in Requests : Told(messages, rows[v], v)
  BY DEF Founded, Ordered, Framed, Shaped, Staged, InTurn, Causal
<1>2. CASE Create(r)
  <2>1. t = r
    BY <1>2, GoesRows
  <2>2. OtherRows(r) /\ rows'[r].payload.message = None
    BY <1>1, <1>2, <2>1, CreateWrites
  <2> QED
    BY <1>1, <2>2 DEF OtherRows, Told
<1>3. CASE CommitStatus(r)
  <2>1. old.calls # <<>> /\ call.op = "status" /\ ~Create(r)
    BY <1>3, GoesAtCall
  <2>2. rows[t] # None
    BY <1>1, <2>1, GoesMoves DEF Placed
  <2>3. call.message # None => old.started /\ call.message[1] = r
    <3>1. CASE old.started
      <4>1. Said(r, call)
        BY <1>1, <2>1, <3>1, AtCall
      <4> QED
        BY <3>1, <4>1, <2>1 DEF Said
    <3>2. CASE ~old.started
      <4>1. old.calls = <<Cancels>>
        <5>1. /\ old.kind # "unsent" /\ old.kind # "get" /\ old.kind # "message"
              /\ old.kind = "cancel" => old.calls = <<Cancels>>
          BY <1>1, <2>1, <3>2, AtCall
        <5> QED
          BY <1>1, <5>1 DEF InStage, Kinds
      <4>2. call = Cancels /\ Cancels.message = None
        BY <4>1, Lists DEF Cancels, Status
      <4> QED
        BY <4>2
    <3> QED
      BY <3>1, <3>2
  <2>4. call.message # None => UserSaid(messages, call.message[1], t)
    BY <1>1, <2>3 DEF CausalOf, Opened
  <2> DEFINE payload == [state |-> call.state, message |-> call.message]
  <2>5. OtherRows(t) /\ (rows'[t].payload = rows[t].payload \/ rows'[t].payload = payload)
    BY <1>1, <1>3, <2>2, StatusWrites DEF Column
  <2>6. payload.message = call.message
    OBVIOUS
  <2> HIDE DEF payload, call
  <2> QED
    BY <1>1, <2>2, <2>4, <2>5, <2>6 DEF OtherRows, Told, Writer
<1>4. CASE CommitArtifact(r)
  <2>1. old.calls # <<>> /\ ~Create(r)
    BY <1>4, GoesAtCall
  <2>2. rows[t] # None
    BY <1>1, <2>1, GoesMoves DEF Placed
  <2>3. OtherRows(t) /\ rows'[t].payload = rows[t].payload
    BY <1>1, <1>4, <2>2, ArtifactWrites
  <2> QED
    BY <1>1, <2>2, <2>3 DEF OtherRows, Told, Writer
<1>5. CASE ~(Create(r) \/ CommitStatus(r) \/ CommitArtifact(r))
  <2>1. rows' = rows
    BY <1>5 DEF Goes, Run, ReadRow, ReadMessages, ReadLast, Flush, CommitMessage, Recall
  <2> QED
    BY <1>1, <2>1
<1> QED
  BY <1>2, <1>3, <1>4, <1>5

\* The record of the request that moved.
LEMMA RequestIsTold ==
  ASSUME NoneIsNoRow, Founded, Causal, NEW r \in Requests, Goes(r)
  PROVE  CausalOf(messages', r, requests'[r])
<1> DEFINE old == requests[r]  q == requests'[r]  t == old.task  op == Head(old.calls).op
<1>1. /\ Framed /\ InTurn /\ Staged /\ RowFrame /\ Placed /\ t \in Requests
      /\ InStage(r, old) /\ Shaped(old) /\ TurnOf(old)
      /\ CausalOf(messages, r, old) /\ \A v \in Requests : Told(messages, rows[v], v)
  BY DEF Founded, Ordered, Framed, Shaped, Staged, InTurn, Causal
<1>2. messages \subseteq messages' /\ CausalOf(messages', r, old)
  BY <1>1, Committed, MoreIsSaid
<1>3. \A ms : Told(ms, None, t)
  BY DEF Told
<1>4. ToRecall \notin Openings \cup {<<>>} /\ ToFind \notin Openings \cup {<<>>} /\ ToStore \notin {ToRecall, ToFind, <<>>}
      /\ <<>> \notin Openings /\ ToRecall # ToFind
  <2>1. ToStore # ToRecall /\ ToStore # ToFind /\ ToRecall # ToFind
    <3>1. /\ Head(ToStore) = Appended("user") /\ Head(ToRecall) = Recalled /\ Head(ToFind) = Found
          /\ Appended("user").op = "append" /\ Recalled.op = "recall" /\ Found.op = "get"
      BY Lists DEF Appended, Recalled, Found
    <3> QED
      BY <3>1
  <2> QED
    BY <2>1, Lists, NotAnOpening DEF Openings
\* A step that does the present call and does not find a row.
<1>5. ASSUME Done(old, q), q.row = None, old.calls # <<>>, op \notin {"get"},
             op = "append" => CommitMessage(r)
      PROVE  CausalOf(messages', r, q)
  <2>1. q.kind = old.kind /\ q.task = t /\ q.started = old.started /\ q.calls = Tail(old.calls)
    BY <1>5 DEF Done, Same
  <2>2. Opened(q) => UserSaid(messages', r, t)
    <3>1. CASE old.started
      BY <1>2, <3>1 DEF CausalOf, Opened
    <3>2. CASE ~old.started /\ old.kind = "message"
      <4>1. \/ old.calls = Opening(Created) \/ old.calls = ToRecall
            \/ old.calls = ToStore /\ op = "append"
        BY <1>1, <1>5, <3>2, AtCall
      <4>2. CASE old.calls = Opening(Created)
        <5>1. q.calls = ToStore
          BY <2>1, <4>2, Lists
        <5> QED
          BY <5>1, <2>1, <3>2, <1>4 DEF Opened
      <4>3. CASE old.calls = ToRecall
        <5>1. Opened(old)
          BY <3>2, <4>3 DEF Opened
        <5> QED
          BY <1>2, <5>1 DEF CausalOf
      <4>4. CASE old.calls = ToStore /\ op = "append"
        <5>1. Head(old.calls).who = "user"
          BY <4>4, Lists DEF Appended
        <5>2. [task |-> t, request |-> r, who |-> Head(old.calls).who,
               position |-> old.position, at |-> old.at] \in messages'
          BY <4>4, <1>5, Committed
        <5> QED
          BY <5>1, <5>2 DEF UserSaid
      <4> QED
        BY <4>1, <4>2, <4>3, <4>4
    <3>3. CASE ~old.started /\ old.kind # "message"
      BY <2>1, <3>3 DEF Opened
    <3> QED
      BY <3>1, <3>2, <3>3
  <2>3. \A ms : Told(ms, q.row, q.task)
    BY <1>3, <1>5, <2>1
  <2> QED
    BY <2>1, <2>2, <2>3 DEF CausalOf
<1>6. CASE Create(r) \/ CommitStatus(r) \/ CommitArtifact(r) \/ CommitMessage(r)
  BY <1>1, <1>5, <1>6, WriteMoves, GoesAtCall
<1>7. CASE Recall(r)
  BY <1>1, <1>5, <1>7, RecallMoves, GoesAtCall
<1>8. CASE ReadMessages(r)
  <2>1. /\ q.kind = old.kind /\ q.task = t /\ q.started = old.started /\ q.calls = Tail(old.calls)
        /\ q.row = old.row
        /\ q.view = IF old.kind = "get" THEN {m \in messages : m.task = t} ELSE {}
    BY <1>1, <1>8, ReadMessagesMoves DEF Done, Same
  <2>2. messages' = messages
    BY <1>8 DEF ReadMessages
  <2>3. Told(messages, q.row, t)
    BY <1>1, <2>1 DEF CausalOf
  <2>4. Told({m \in messages : m.task = t}, q.row, t)
    BY <2>3 DEF Told, UserSaid
  <2>5. Opened(q) => UserSaid(messages, r, t)
    <3>1. CASE old.started
      BY <1>1, <3>1 DEF CausalOf, Opened
    <3>2. CASE ~old.started /\ old.kind = "message"
      <4>1. old.calls = Opening(Found) \/ old.calls = ToFind
        BY <1>1, <1>8, <3>2, AtCall, GoesAtCall
      <4>2. CASE old.calls = Opening(Found)
        <5>1. q.calls = ToStore
          BY <2>1, <4>2, Lists
        <5> QED
          BY <5>1, <2>1, <3>2, <1>4 DEF Opened
      <4>3. CASE old.calls = ToFind
        <5>1. Opened(old)
          BY <3>2, <4>3 DEF Opened
        <5> QED
          BY <1>1, <5>1 DEF CausalOf
      <4> QED
        BY <4>1, <4>2, <4>3
    <3>3. CASE ~old.started /\ old.kind # "message"
      BY <2>1, <3>3 DEF Opened
    <3> QED
      BY <3>1, <3>2, <3>3
  <2> QED
    BY <2>1, <2>2, <2>3, <2>4, <2>5 DEF CausalOf
<1>9. CASE ReadRow(r)
  <2>1. /\ q.kind = old.kind /\ q.task = t /\ q.started = old.started /\ q.view = old.view
        /\ q.row = Visible(t, old.slug)
        /\ q.calls = IF q.row = None THEN <<>> ELSE old.calls
    BY <1>1, <1>9, ReadRowMoves DEF GoesOn, Same
  <2>2. messages' = messages /\ old.calls # <<>>
    BY <1>9, GoesAtCall DEF ReadRow
  <2>3. q.row = None \/ q.row = rows[t]
    BY <2>1 DEF Visible
  <2>4. Told(messages, q.row, t)
    BY <1>1, <1>3, <2>3
  <2>5. Opened(q) => Opened(old)
    <3>1. q.row = None => q.calls = <<>>
      BY <2>1
    <3>2. q.row # None => q.calls = old.calls
      BY <2>1
    <3>3. <<>> \notin {ToRecall, ToFind}
      BY <1>4
    <3> QED
      BY <2>1, <2>2, <3>1, <3>2, <3>3 DEF Opened
  <2>6. q.calls = <<>> => Told(q.view, q.row, t)
    BY <1>3, <2>1, <2>2
  <2> QED
    BY <1>1, <2>1, <2>2, <2>4, <2>5, <2>6 DEF CausalOf
<1>10. CASE ReadLast(r) \/ Flush(r)
  <2>1. /\ q.kind = old.kind /\ q.task = t /\ q.started = old.started /\ q.view = old.view
        /\ q.row = old.row /\ q.calls = old.calls
    BY <1>1, <1>10, AppendMoves DEF GoesOn, Same
  <2> QED
    BY <1>2, <2>1 DEF CausalOf, Opened
<1>11. CASE Run(r)
  <2>1. q.kind = old.kind /\ q.task = t /\ q.row = None /\ q.calls # <<>>
    BY <1>1, <1>11, RunMoves DEF Same, Written
  <2>2. Opened(old)
    BY <1>11 DEF Run, Ready, Opened
  <2> QED
    BY <1>2, <1>3, <2>1, <2>2 DEF CausalOf
<1> QED
  BY <1>6, <1>7, <1>8, <1>9, <1>10, <1>11 DEF Goes

LEMMA NextCausal ==
  ASSUME NoneIsNoRow, Founded, Causal, [Next]_vars
  PROVE  Causal'
<1>1. Framed /\ DOMAIN requests = Requests
  BY DEF Founded, Ordered, Framed
<1>2. CASE UNCHANGED vars
  BY <1>2 DEF vars, Causal
<1>3. ASSUME NEW r \in Requests, NewTask(r) \/ ToTask(r) PROVE Causal'
  <2> DEFINE q == requests'[r]
  <2>1. Arrives(r, q)
    BY <1>1, <1>3, ArrivalsArrive
  <2>2. /\ q.row = None /\ ~q.started /\ UNCHANGED <<rows, messages>>
        /\ q.kind = "message" => q.calls \in Openings
    BY <2>1 DEF Arrives
  <2>3. \A ms : Told(ms, q.row, q.task)
    BY <2>2 DEF Told
  <2>4. ~Opened(q)
    BY <2>2, Lists, NotAnOpening DEF Opened, Openings
  <2>5. CausalOf(messages, r, q)
    BY <2>3, <2>4 DEF CausalOf
  <2> QED
    BY <2>1, <2>2, <2>5 DEF Arrives, Others, Causal
<1>4. ASSUME NEW r \in Requests, Goes(r) PROVE Causal'
  <2>1. Others(r) /\ messages \subseteq messages'
    BY <1>1, <1>4, GoesMoves, Committed DEF Founded, Ordered
  <2>2. \A t \in Requests : Told(messages', rows'[t], t)
    BY <1>4, <2>1, RowsAreTold, MoreIsSaid
  <2>3. CausalOf(messages', r, requests'[r])
    BY <1>4, RequestIsTold
  <2>4. \A s \in Requests : s # r => CausalOf(messages', s, requests'[s])
    BY <2>1, MoreIsSaid DEF Others, Causal
  <2> QED
    BY <2>2, <2>3, <2>4 DEF Causal
<1> QED
  BY <1>2, <1>3, <1>4, NextGoes

\* Whatever the interleaving, whoever wrote the status that GET /tasks/{id}
\* shows, the message that caused it is in the history it shows: ViewIsCausal
\* (store.py reads the row, then the messages, in two sessions; a run writes
\* only after its message has been stored).
THEOREM ViewsAreCausal == NoneIsNoRow /\ Spec => []ViewIsCausal
<1>1. ASSUME NoneIsNoRow, Init PROVE Founded /\ Causal
  <2>1. Founded
    BY <1>1, InitFounded
  <2>2. /\ \A r \in Requests : /\ rows[r] = None /\ requests[r].kind = "unsent"
                               /\ requests[r].started = FALSE /\ requests[r].row = None
    BY <1>1 DEF Init, Idle
  <2>3. Causal
    BY <2>2 DEF Causal, CausalOf, Told, Opened
  <2> QED
    BY <2>1, <2>3
<1>2. ASSUME NoneIsNoRow, Founded /\ Causal, [Next]_vars PROVE (Founded /\ Causal)'
  BY <1>2, NextFounded, NextCausal
<1>3. Founded /\ Causal => ViewIsCausal
  BY DEF Causal, CausalOf, Told, UserSaid, ViewIsCausal, Has
<1> QED
  <2> SUFFICES ASSUME NoneIsNoRow PROVE Spec => []ViewIsCausal
    OBVIOUS
  <2>1. Init => Founded /\ Causal
    BY <1>1
  <2>2. (Founded /\ Causal) /\ [Next]_vars => (Founded /\ Causal)'
    BY <1>2
  <2> QED
    BY <1>3, <2>1, <2>2, PTL DEF Spec

-----------------------------------------------------------------------------
\* Writers of one context that are under way at once are noted as overlapping.
Under(r) == r \in Live /\ requests[r].kind # "get"
Noted ==
  /\ \A o \in overlapped : o[1] \in Requests /\ o[2] \in Requests /\ Sent(o[1]) /\ Sent(o[2])
  /\ \A r, s \in Requests :
       Under(r) /\ Under(s) /\ r # s /\ requests[r].context = requests[s].context
         => <<r, s>> \in overlapped \/ <<s, r>> \in overlapped
  /\ \A r \in Requests : requests[r].calls = <<>> => requests[r].step = "begin"

LEMMA GoesLive ==
  ASSUME Founded, NEW r \in Requests, Goes(r)
  PROVE  /\ r \in Live /\ Sent(r) /\ UNCHANGED overlapped
         /\ \A s \in Requests : Under(s)' => Under(s)
         /\ \A s \in Requests : Same(requests[s], requests'[s]) /\ (Sent(s)' <=> Sent(s))
<1> DEFINE old == requests[r]  q == requests'[r]
<1>1. Framed /\ InTurn /\ Staged
  BY DEF Founded, Ordered
<1>2. Others(r) /\ Same(old, q) /\ Sent(r)
  BY <1>1, GoesMoves
<1>3. r \in Live
  BY GoesAtCall DEF Goes, Live
<1>4. UNCHANGED overlapped
  BY DEF Goes, Run, Create, ReadRow, ReadMessages, CommitStatus, CommitArtifact,
         ReadLast, Flush, CommitMessage, Recall
<1>5. \A s \in Requests : Same(requests[s], requests'[s]) /\ (Sent(s)' <=> Sent(s))
  BY <1>2 DEF Others, Same, Sent
<1>6. ASSUME NEW s \in Requests, Under(s)' PROVE Under(s)
  <2>1. CASE s = r
    BY <1>2, <1>3, <1>6, <2>1 DEF Under, Same
  <2>2. CASE s # r
    <3>1. requests'[s] = requests[s]
      BY <1>2, <2>2 DEF Others
    <3> QED
      BY <1>6, <3>1 DEF Under, Live, Ready
  <2> QED
    BY <2>1, <2>2
<1> QED
  BY <1>2, <1>3, <1>4, <1>5, <1>6

LEMMA NextNoted ==
  ASSUME Founded, Noted, [Next]_vars
  PROVE  Noted'
<1>1. Framed /\ InTurn /\ Staged /\ DOMAIN requests = Requests
  BY DEF Founded, Ordered, Framed
<1>2. CASE UNCHANGED vars
  BY <1>2 DEF vars, Noted, Under, Sent, Live, Ready
<1>3. ASSUME NEW r \in Requests, NewTask(r) \/ ToTask(r) PROVE Noted'
  <2> DEFINE q == requests'[r]
  <2>1. Arrives(r, q)
    BY <1>1, <1>3, ArrivalsArrive
  <2>2. /\ \A s \in Requests : s # r => requests'[s] = requests[s]
        /\ ~Sent(r) /\ Sent(r)' /\ q.step = "begin"
        /\ overlapped' = overlapped \cup
             ({s \in Live : q.kind # "get" /\ requests[s].kind # "get" /\ requests[s].context = q.context}
               \X {r})
    BY <2>1 DEF Arrives, Others, Sent
  <2>3. \A s \in Requests : s # r => (s \in Live' <=> s \in Live) /\ (Sent(s)' <=> Sent(s))
    BY <2>2 DEF Live, Ready, Sent
  <2>4. Live \subseteq Requests /\ \A s \in Live : Sent(s)
    BY <1>1 DEF Live, Ready, Sent, InTurn, TurnOf
  <2> HIDE DEF q
  <2>5. requests'[r] = q
    BY DEF q
  <2>6. \A o \in overlapped' : o[1] \in Requests /\ o[2] \in Requests /\ Sent(o[1])' /\ Sent(o[2])'
    <3> SUFFICES ASSUME NEW o \in overlapped'
                 PROVE  o[1] \in Requests /\ o[2] \in Requests /\ Sent(o[1])' /\ Sent(o[2])'
      OBVIOUS
    <3>1. CASE o \in overlapped
      <4>1. o[1] \in Requests /\ o[2] \in Requests /\ Sent(o[1]) /\ Sent(o[2])
        BY <3>1 DEF Noted
      <4> QED
        BY <4>1, <2>2, <2>3
    <3>2. CASE o \notin overlapped
      <4>1. o[1] \in Live /\ o[2] = r
        BY <3>2, <2>2
      <4> QED
        BY <4>1, <2>2, <2>3, <2>4
    <3> QED
      BY <3>1, <3>2
  <2>7. ASSUME NEW s \in Requests, NEW u \in Requests, Under(s)', Under(u)', s # u,
               requests'[s].context = requests'[u].context
        PROVE  <<s, u>> \in overlapped' \/ <<u, s>> \in overlapped'
    <3>1. CASE s # r /\ u # r
      <4>1. Under(s) /\ Under(u) /\ requests[s].context = requests[u].context
        BY <2>7, <3>1, <2>2, <2>3 DEF Under
      <4> QED
        BY <2>7, <4>1, <2>2 DEF Noted
    <3>2. CASE s = r
      <4>1. u \in Live /\ q.kind # "get" /\ requests[u].kind # "get" /\ requests[u].context = q.context
        BY <2>7, <3>2, <2>2, <2>3, <2>5 DEF Under
      <4>2. <<u, r>> \in overlapped'
        BY <4>1, <2>2
      <4> QED
        BY <4>2, <3>2
    <3>3. CASE u = r
      <4>1. s \in Live /\ q.kind # "get" /\ requests[s].kind # "get" /\ requests[s].context = q.context
        BY <2>7, <3>3, <2>2, <2>3, <2>5 DEF Under
      <4>2. <<s, r>> \in overlapped'
        BY <4>1, <2>2
      <4> QED
        BY <4>2, <3>3
    <3> QED
      BY <3>1, <3>2, <3>3
  <2>8. \A s \in Requests : requests'[s].calls = <<>> => requests'[s].step = "begin"
    BY <2>2, <2>5 DEF Noted
  <2> QED
    BY <2>6, <2>7, <2>8 DEF Noted
<1>4. ASSUME NEW r \in Requests, Goes(r) PROVE Noted'
  <2> DEFINE q == requests'[r]
  <2>1. /\ UNCHANGED overlapped
        /\ \A s \in Requests : Under(s)' => Under(s)
        /\ \A s \in Requests : Same(requests[s], requests'[s]) /\ (Sent(s)' <=> Sent(s))
    BY <1>4, GoesLive
  <2>2. Others(r)
    BY <1>1, <1>4, GoesMoves
  <2>3. q.calls = <<>> => q.step = "begin"
    <3>1. CASE Create(r) \/ CommitStatus(r) \/ CommitArtifact(r) \/ CommitMessage(r)
      BY <1>1, <3>1, WriteMoves DEF Done
    <3>2. CASE ReadMessages(r) \/ Recall(r)
      BY <1>1, <3>2, ReadMessagesMoves, RecallMoves DEF Done
    <3>3. CASE ReadRow(r)
      BY <1>1, <3>3, ReadRowMoves, GoesAtCall
    <3>4. CASE ReadLast(r) \/ Flush(r)
      BY <1>1, <3>4, AppendMoves, GoesAtCall
    <3>5. CASE Run(r)
      BY <1>1, <3>5, RunMoves DEF Written
    <3> QED
      BY <1>4, <3>1, <3>2, <3>3, <3>4, <3>5 DEF Goes
  <2> HIDE DEF q
  <2>4. \A s \in Requests : requests'[s].calls = <<>> => requests'[s].step = "begin"
    BY <2>2, <2>3 DEF Noted, Others, q
  <2>5. \A o \in overlapped' : o[1] \in Requests /\ o[2] \in Requests /\ Sent(o[1])' /\ Sent(o[2])'
    BY <2>1 DEF Noted
  <2>6. \A s, u \in Requests :
          Under(s)' /\ Under(u)' /\ s # u /\ requests'[s].context = requests'[u].context
            => <<s, u>> \in overlapped' \/ <<u, s>> \in overlapped'
    BY <2>1 DEF Noted, Same
  <2> QED
    BY <2>4, <2>5, <2>6 DEF Noted
<1> QED
  BY <1>2, <1>3, <1>4, NextGoes

LEMMA InitNoted == Init => Noted
<1> SUFFICES ASSUME Init PROVE Noted
  OBVIOUS
<1>1. /\ overlapped = {}
      /\ \A r \in Requests : /\ requests[r].kind = "unsent" /\ requests[r].calls = <<>>
                             /\ requests[r].step = "begin"
  BY DEF Init, Idle
<1> QED
  BY <1>1 DEF Noted, Under, Live, Ready

\* Of two writers of a task under way at once, one was noted.
LEMMA WritersAreNoted ==
  ASSUME Founded, Noted, NEW r \in Requests, NEW s \in Requests, r # s,
         Under(r), Under(s), requests[r].task = requests[s].task
  PROVE  Contended(requests[r].task)
<1>1. InTurn /\ Placed
  BY DEF Founded, Ordered
<1>2. Sent(r) /\ Sent(s)
  BY <1>1 DEF Under, Live, Ready, Sent, InTurn, TurnOf
<1>3. requests[r].context = requests[s].context
  BY <1>1, <1>2 DEF Placed
<1>4. <<r, s>> \in overlapped \/ <<s, r>> \in overlapped
  BY <1>3 DEF Noted
<1> QED
  BY <1>4 DEF Contended

LEMMA ContendedStays ==
  ASSUME Founded, Noted, [Next]_vars, NEW t, Contended(t)
  PROVE  Contended(t)'
<1>1. PICK o \in overlapped : requests[o[1]].task = t /\ requests[o[2]].task = t
  BY DEF Contended
<1>2. /\ o[1] \in Requests /\ o[2] \in Requests /\ Sent(o[1]) /\ Sent(o[2])
      /\ Framed /\ DOMAIN requests = Requests
  BY DEF Noted, Founded, Ordered, Framed
<1>3. o \in overlapped' /\ requests'[o[1]].task = t /\ requests'[o[2]].task = t
  <2>1. CASE UNCHANGED vars
    BY <1>1, <2>1 DEF vars
  <2>2. ASSUME NEW r \in Requests, NewTask(r) \/ ToTask(r)
        PROVE  o \in overlapped' /\ requests'[o[1]].task = t /\ requests'[o[2]].task = t
    <3>1. Arrives(r, requests'[r])
      BY <1>2, <2>2, ArrivalsArrive
    <3> QED
      BY <1>1, <1>2, <3>1 DEF Arrives, Others
  <2>3. ASSUME NEW r \in Requests, Goes(r)
        PROVE  o \in overlapped' /\ requests'[o[1]].task = t /\ requests'[o[2]].task = t
    BY <1>1, <1>2, <2>3, GoesLive DEF Same
  <2> QED
    BY <2>1, <2>2, <2>3, NextGoes
<1> QED
  BY <1>3 DEF Contended

-----------------------------------------------------------------------------
\* What a writer has read of the row and not yet written back is the row; the
\* artifact of a reply is in it or still to be written.
Fresh(q, row) ==
  q.step = "read" /\ q.calls # <<>> /\ Head(q.calls).op # "append" => q.row = row
Registers(r, q, row) == q.started => Listed(q.calls) \/ r \in row.artifacts
SoleOf(t) ==
  /\ rows[t].state = rows[t].payload.state
  /\ \A m \in messages : m.task = t /\ m.who = "reply" => m.request \in rows[t].artifacts
  /\ \A r \in Requests : requests[r].task = t =>
       /\ Sent(r) /\ requests[r].kind # "get" => Fresh(requests[r], rows[t])
       /\ Registers(r, requests[r], rows[t])
Sole == \A t \in Requests : rows[t] # None /\ ~Contended(t) => SoleOf(t)

LEMMA ListedTail ==
  ASSUME NEW calls, IsSequence(calls), calls # <<>>, Listed(calls), Head(calls).op # "artifact"
  PROVE  Listed(Tail(calls)) /\ ~Replying(Head(calls))
<1>1. PICK S : calls \in Seq(S)
  BY DEF IsSequence
<1> DEFINE n == Len(calls)
<1>2. /\ n \in Nat \ {0} /\ Head(calls) = calls[1] /\ Len(Tail(calls)) = n - 1
      /\ \A i \in 1..(n - 1) : Tail(calls)[i] = calls[i + 1]
  BY <1>1
<1>3. ASSUME NEW i \in 1..(n - 1), Replying(calls[i + 1])
      PROVE  \E j \in 1..(n - 1) : j < i /\ calls[j + 1].op = "artifact"
  <2>1. i + 1 \in 1..n
    BY <1>2
  <2>2. PICK j \in 1..n : j < i + 1 /\ calls[j].op = "artifact"
    BY <1>3, <2>1 DEF Listed
  <2>3. j # 1
    BY <1>2, <2>2
  <2>4. j - 1 \in 1..(n - 1) /\ j - 1 < i /\ (j - 1) + 1 = j
    BY <1>2, <2>2, <2>3
  <2> QED
    BY <2>2, <2>4
<1>4. ~Replying(calls[1])
  <2>1. 1 \in 1..n /\ \A j \in 1..n : ~(j < 1)
    BY <1>2
  <2> QED
    BY <2>1 DEF Listed
<1> QED
  BY <1>2, <1>3, <1>4 DEF Listed

\* The first row of a task: nobody but its request knows of it.
LEMMA NewRowIsSole ==
  ASSUME NoneIsNoRow, Founded, NEW r \in Requests, Create(r)
  PROVE  SoleOf(r)'
<1>1. /\ Framed /\ InTurn /\ Staged /\ RowFrame /\ Placed /\ OfItsTask /\ Numbered
  BY DEF Founded, Ordered
<1>2. /\ Others(r) /\ Sent(r) /\ Creating(requests[r]) /\ requests[r].task = r /\ rows[r] = None
  BY <1>1, GoesMoves, GoesRows DEF Goes
<1>3. rows'[r].state = "SUBMITTED" /\ rows'[r].payload = [state |-> "SUBMITTED", message |-> None]
  BY <1>1, <1>2, CreateWrites
<1>4. ASSUME NEW s \in Requests, requests[s].task = r, Sent(s) PROVE s = r
  BY <1>1, <1>2, <1>4 DEF Placed
<1>5. \A m \in messages : m.task = r => m.who = "user"
  BY <1>1, <1>2, <1>4 DEF Numbered, OfItsTask, InTurn, Creating, Sent
<1>6. messages' = messages
  BY DEF Create
<1>7. /\ requests'[r].step = "begin" /\ requests'[r].started = requests[r].started
      /\ ~requests[r].started
  BY <1>1, <1>2, WriteMoves DEF Done, Creating
<1>8. ASSUME NEW s \in Requests, requests'[s].task = r
      PROVE  /\ Sent(s)' => Fresh(requests'[s], rows'[r])
             /\ Registers(s, requests'[s], rows'[r])
  <2>1. CASE s = r
    BY <1>7, <2>1 DEF Fresh, Registers
  <2>2. CASE s # r
    <3>1. requests'[s] = requests[s] /\ ~Sent(s) /\ ~Sent(s)'
      BY <1>2, <1>4, <1>8, <2>2 DEF Others, Sent
    <3>2. ~requests[s].started
      BY <1>1, <3>1 DEF InTurn, TurnOf, Sent
    <3> QED
      BY <3>1, <3>2 DEF Registers
  <2> QED
    BY <2>1, <2>2
<1> QED
  BY <1>3, <1>5, <1>6, <1>8 DEF SoleOf

\* A step of a writer of the task that has it for itself.
LEMMA WriterIsSole ==
  ASSUME NoneIsNoRow, Founded, Noted, NEW r \in Requests, Goes(r), ~Create(r),
         NEW t \in Requests, t = requests[r].task, rows[t] # None, SoleOf(t),
         ~Contended(t), requests[r].kind # "get"
  PROVE  SoleOf(t)'
<1> DEFINE old == requests[r]  q == requests'[r]  call == Head(old.calls)
<1>1. /\ Framed /\ InTurn /\ Staged /\ RowFrame /\ Placed
      /\ InStage(r, old) /\ Shaped(old) /\ TurnOf(old) /\ Noted
  BY DEF Founded, Ordered, Framed, Staged, InTurn
<1>2. /\ Others(r) /\ Sent(r) /\ Same(old, q) /\ r \in Live
      /\ Fresh(old, rows[t]) /\ Registers(r, old, rows[t])
  BY <1>1, GoesMoves, GoesLive DEF SoleOf
<1>3. Under(r)
  BY <1>2 DEF Under
\* The row after the step.
<1>4. /\ rows'[t].state = rows'[t].payload.state
      /\ rows'[t].artifacts = IF CommitArtifact(r) THEN rows[t].artifacts \cup {r} ELSE rows[t].artifacts
  <2>1. CASE CommitStatus(r)
    <3>1. old.row = rows[t]
      BY <1>2, <2>1, GoesAtCall DEF Fresh
    <3>2. ~CommitArtifact(r)
      BY <2>1, GoesAtCall
    <3> DEFINE payload == [state |-> call.state, message |-> call.message]
    <3>3. /\ rows'[t].artifacts = rows[t].artifacts
          /\ rows'[t].state = Column(rows[t].state, rows[t].state, call.state)
          /\ rows'[t].payload = Column(rows[t].payload, rows[t].payload, payload)
      BY <1>1, <2>1, <3>1, StatusWrites
    <3>4. rows'[t].state = call.state /\ rows'[t].payload = payload
      <4> HIDE DEF payload
      <4> QED
        BY <3>3 DEF Column
    <3> QED
      BY <3>2, <3>3, <3>4
  <2>2. CASE CommitArtifact(r)
    <3>1. old.row = rows[t]
      BY <1>2, <2>2, GoesAtCall DEF Fresh
    <3> QED
      BY <1>1, <2>2, <3>1, ArtifactWrites DEF SoleOf
  <2>3. CASE ~(CommitStatus(r) \/ CommitArtifact(r))
    <3>1. rows' = rows
      BY <2>3 DEF Goes, Run, ReadRow, ReadMessages, ReadLast, Flush, CommitMessage, Recall
    <3> QED
      BY <2>3, <3>1 DEF SoleOf
  <2> QED
    BY <2>1, <2>2, <2>3
\* The record of the writer.
<1>5. Fresh(q, rows'[t])
  <2>1. CASE ReadRow(r)
    <3>1. q.row = Visible(t, old.slug) /\ rows' = rows /\ (q.row = None => q.calls = <<>>)
      BY <1>1, <2>1, ReadRowMoves DEF ReadRow
    <3> QED
      BY <3>1 DEF Fresh, Visible
  <2>2. CASE ReadLast(r) \/ Flush(r)
    <3>1. q.calls = old.calls /\ call.op = "append"
      BY <1>1, <2>2, AppendMoves, GoesAtCall
    <3> QED
      BY <3>1 DEF Fresh
  <2>3. CASE Run(r)
    <3>1. q.step = old.step /\ old.calls = <<>>
      BY <1>1, <2>3, RunMoves, GoesAtCall DEF Ready
    <3> QED
      BY <1>1, <3>1 DEF Fresh, Noted
  <2>4. CASE CommitStatus(r) \/ CommitArtifact(r) \/ CommitMessage(r) \/ ReadMessages(r) \/ Recall(r)
    BY <1>1, <2>4, WriteMoves, ReadMessagesMoves, RecallMoves DEF Done, Fresh
  <2> QED
    BY <2>1, <2>2, <2>3, <2>4 DEF Goes
<1>6. Registers(r, q, rows'[t])
  <2>1. CASE Run(r)
    BY <1>1, <2>1, RunMoves DEF Registers
  <2>2. CASE ReadRow(r) \/ ReadLast(r) \/ Flush(r)
    <3>1. q.started = old.started /\ (q.calls = old.calls \/ q.calls = <<>>)
      BY <1>1, <2>2, ReadRowMoves, AppendMoves DEF GoesOn
    <3>2. Listed(<<>>)
      BY DEF Listed
    <3>3. rows[t].artifacts \subseteq rows'[t].artifacts
      BY <1>4
    <3> QED
      BY <1>2, <3>1, <3>2, <3>3 DEF Registers
  <2>3. CASE CommitArtifact(r)
    BY <1>4, <2>3 DEF Registers
  <2>4. CASE CommitStatus(r) \/ CommitMessage(r) \/ ReadMessages(r) \/ Recall(r)
    <3>1. /\ q.started = old.started /\ q.calls = Tail(old.calls) /\ old.calls # <<>>
          /\ call.op # "artifact" /\ ~CommitArtifact(r)
      BY <1>1, <2>4, WriteMoves, ReadMessagesMoves, RecallMoves, GoesAtCall DEF Done
    <3>2. Listed(old.calls) => Listed(q.calls)
      BY <1>1, <3>1, ListedTail DEF Shaped
    <3> QED
      BY <1>2, <1>4, <3>1, <3>2 DEF Registers
  <2> QED
    BY <2>1, <2>2, <2>3, <2>4 DEF Goes
\* The others: none of them holds a row of the task.
<1>7. ASSUME NEW s \in Requests, s # r, requests'[s].task = t
      PROVE  /\ Sent(s)' /\ requests'[s].kind # "get" => Fresh(requests'[s], rows'[t])
             /\ Registers(s, requests'[s], rows'[t])
  <2>1. requests'[s] = requests[s]
    BY <1>2, <1>7 DEF Others
  <2>2. Registers(s, requests[s], rows[t])
    BY <1>7, <2>1 DEF SoleOf
  <2>3. Registers(s, requests[s], rows'[t])
    BY <1>4, <2>2 DEF Registers
  <2>4. requests[s].kind # "get" => requests[s].calls = <<>>
    BY <1>3, <1>7, <2>1, WritersAreNoted DEF Under, Live
  <2>5. requests[s].kind # "get" => Fresh(requests[s], rows'[t])
    BY <2>4 DEF Fresh
  <2> QED
    BY <2>1, <2>3, <2>5
\* The messages of the task.
<1>8. \A m \in messages' : m.task = t /\ m.who = "reply" => m.request \in rows'[t].artifacts
  <2> SUFFICES ASSUME NEW m \in messages', m.task = t, m.who = "reply"
               PROVE  m.request \in rows'[t].artifacts
    OBVIOUS
  <2>1. CASE m \in messages
    BY <1>4, <2>1 DEF SoleOf
  <2>2. CASE m \notin messages
    <3>1. /\ CommitMessage(r) /\ m.request = r /\ m.who = call.who
      BY <2>2, Committed
    <3>2. old.calls # <<>> /\ call.op = "append"
      BY <3>1, GoesAtCall
    <3>3. Replying(call)
      BY <3>1, <3>2 DEF Replying
    <3>4. ~Listed(old.calls)
      BY <1>1, <3>2, <3>3, ListedTail DEF Shaped
    <3>5. old.started
      <4>1. PICK S : old.calls \in Seq(S)
        BY <1>1 DEF Shaped, IsSequence
      <4>2. 1 \in 1..Len(old.calls) /\ call = old.calls[1]
        BY <4>1, <3>2
      <4> QED
        BY <4>2, <3>1, <3>2, <1>1 DEF TurnOf, Opens
    <3>6. r \in rows[t].artifacts
      BY <1>2, <3>4, <3>5 DEF Registers
    <3> QED
      BY <1>4, <3>1, <3>6
  <2> QED
    BY <2>1, <2>2
<1> HIDE DEF q
<1>9. \A s \in Requests : requests'[s].task = t =>
        /\ Sent(s)' /\ requests'[s].kind # "get" => Fresh(requests'[s], rows'[t])
        /\ Registers(s, requests'[s], rows'[t])
  BY <1>5, <1>6, <1>7 DEF q
<1> QED
  BY <1>4, <1>8, <1>9 DEF SoleOf

\* A step of a reader, or on another task.
LEMMA BystanderIsSole ==
  ASSUME NoneIsNoRow, Founded, NEW r \in Requests, Goes(r),
         NEW t \in Requests, rows[t] # None, SoleOf(t),
         requests[r].task # t \/ requests[r].kind = "get"
  PROVE  SoleOf(t)'
<1> DEFINE old == requests[r]  q == requests'[r]
<1>1. /\ Framed /\ InTurn /\ Staged /\ RowFrame /\ Placed /\ old.task \in Requests
      /\ InStage(r, old) /\ Shaped(old) /\ TurnOf(old)
  BY DEF Founded, Ordered, Framed, Shaped, Staged, InTurn
<1>2. Others(r) /\ Same(old, q) /\ Sent(r) /\ InStage(r, q)
  BY <1>1, GoesMoves
<1>3. CASE old.kind = "get"
  <2>1. Head(old.calls).op = "get" /\ old.calls # <<>> /\ ~q.started
    <3>1. old.calls # <<>>
      BY <1>3, GoesAtCall DEF Goes, Ready
    <3> QED
      BY <1>1, <1>2, <1>3, <3>1, AtCall DEF InStage, Same
  <2>2. rows' = rows /\ messages' = messages
    BY <2>1, GoesAtCall DEF Goes, Run, ReadRow, ReadMessages, ReadLast, Flush, CommitMessage, Recall, Ready
  <2>3. \A s \in Requests : requests'[s].task = t =>
          /\ Sent(s)' /\ requests'[s].kind # "get" => Fresh(requests'[s], rows[t])
          /\ Registers(s, requests'[s], rows[t])
    <3> SUFFICES ASSUME NEW s \in Requests, requests'[s].task = t
                 PROVE  /\ Sent(s)' /\ requests'[s].kind # "get" => Fresh(requests'[s], rows[t])
                        /\ Registers(s, requests'[s], rows[t])
      OBVIOUS
    <3>1. CASE s = r
      BY <1>2, <1>3, <2>1, <3>1 DEF Same, Registers
    <3>2. CASE s # r
      BY <1>2, <3>2 DEF Others, SoleOf, Sent
    <3> QED
      BY <3>1, <3>2
  <2> QED
    BY <2>2, <2>3 DEF SoleOf
<1>4. CASE old.task # t
  <2>1. rows'[t] = rows[t]
    <3>1. CASE Create(r)
      BY <1>4, <3>1, GoesRows DEF OtherRows
    <3>2. CASE CommitStatus(r) \/ CommitArtifact(r)
      <4>1. ~Create(r)
        BY <3>2, GoesAtCall
      <4>2. rows[old.task] # None
        BY <1>1, <4>1, GoesMoves DEF Placed
      <4> QED
        BY ZenonT(30), <1>1, <1>4, <3>2, <4>2, StatusWrites, ArtifactWrites DEF OtherRows
    <3>3. CASE ~(Create(r) \/ CommitStatus(r) \/ CommitArtifact(r))
      BY <3>3 DEF Goes, Run, ReadRow, ReadMessages, ReadLast, Flush, CommitMessage, Recall
    <3> QED
      BY <3>1, <3>2, <3>3
  <2>2. \A m \in messages' : m.task = t => m \in messages
    <3> DEFINE new == [task |-> old.task, request |-> r, who |-> Head(old.calls).who,
                       position |-> old.position, at |-> old.at]
    <3>1. messages' = messages \/ messages' = messages \cup {new}
      BY Committed
    <3>2. new.task = old.task
      OBVIOUS
    <3> HIDE DEF new
    <3> QED
      BY <1>4, <3>1, <3>2
  <2>3. \A s \in Requests : requests'[s].task = t => requests'[s] = requests[s]
    BY <1>2, <1>4 DEF Others, Same
  <2> QED
    BY <2>1, <2>2, <2>3 DEF SoleOf, Sent
<1> QED
  BY <1>3, <1>4

LEMMA NextSole ==
  ASSUME NoneIsNoRow, Founded, Noted, Sole, [Next]_vars
  PROVE  Sole'
<1>1. Framed /\ InTurn /\ DOMAIN requests = Requests
  BY DEF Founded, Ordered, Framed
<1> SUFFICES ASSUME NEW t \in Requests, rows'[t] # None, ~Contended(t)'
             PROVE  SoleOf(t)'
  BY DEF Sole
<1>2. ~Contended(t)
  BY ContendedStays
<1>3. CASE UNCHANGED vars
  BY <1>2, <1>3 DEF vars, Sole, SoleOf, Sent
<1>4. ASSUME NEW r \in Requests, NewTask(r) \/ ToTask(r) PROVE SoleOf(t)'
  <2>1. Arrives(r, requests'[r])
    BY <1>1, <1>4, ArrivalsArrive
  <2>2. UNCHANGED <<rows, messages>> /\ SoleOf(t)
    BY <1>2, <2>1 DEF Arrives, Sole
  <2>3. requests'[r].step = "begin" /\ ~requests'[r].started
    BY <2>1 DEF Arrives
  <2>4. \A s \in Requests : requests'[s].task = t =>
          /\ Sent(s)' /\ requests'[s].kind # "get" => Fresh(requests'[s], rows[t])
          /\ Registers(s, requests'[s], rows[t])
    <3> SUFFICES ASSUME NEW s \in Requests, requests'[s].task = t
                 PROVE  /\ Sent(s)' /\ requests'[s].kind # "get" => Fresh(requests'[s], rows[t])
                        /\ Registers(s, requests'[s], rows[t])
      OBVIOUS
    <3>1. CASE s = r
      BY <2>3, <3>1 DEF Fresh, Registers
    <3>2. CASE s # r
      BY <2>1, <2>2, <3>2 DEF Arrives, Others, SoleOf, Sent
    <3> QED
      BY <3>1, <3>2
  <2> QED
    BY <2>2, <2>4 DEF SoleOf
<1>5. ASSUME NEW r \in Requests, Goes(r) PROVE SoleOf(t)'
  <2>1. CASE rows[t] = None
    <3>1. Create(r) /\ t = r
      BY <1>5, <2>1, GoesRows DEF OtherRows
    <3> QED
      BY <3>1, NewRowIsSole
  <2>2. CASE rows[t] # None
    <3>1. SoleOf(t)
      BY <1>2, <2>2 DEF Sole
    <3>2. CASE requests[r].task # t \/ requests[r].kind = "get"
      BY <1>5, <2>2, <3>1, <3>2, BystanderIsSole
    <3>3. CASE requests[r].task = t /\ requests[r].kind # "get"
      <4>1. ~Create(r)
        BY <1>5, <2>2, <3>3, GoesRows
      <4> QED
        BY <1>2, <1>5, <2>2, <3>1, <3>3, <4>1, WriterIsSole
    <3> QED
      BY <3>2, <3>3
  <2> QED
    BY <2>1, <2>2
<1> QED
  BY <1>3, <1>4, <1>5, NextGoes

\* As long as no two writers of a task were under way at once, its row keeps
\* what they wrote: its two columns tell the same state and the artifact of
\* every reply is in it: SoleWriterIsKept (update_status and append_artifact
\* write back what they read, and no lock is held between).
THEOREM SoleWritersAreKept == NoneIsNoRow /\ Spec => []SoleWriterIsKept
<1>1. ASSUME NoneIsNoRow, Init PROVE Founded /\ Noted /\ Sole
  <2>1. Sole
    BY <1>1 DEF Init, Sole
  <2> QED
    BY <1>1, <2>1, InitFounded, InitNoted
<1>2. ASSUME NoneIsNoRow, Founded /\ Noted /\ Sole, [Next]_vars PROVE (Founded /\ Noted /\ Sole)'
  BY <1>2, NextFounded, NextNoted, NextSole
<1>3. Founded /\ Noted /\ Sole => SoleWriterIsKept
  BY DEF Sole, SoleOf, SoleWriterIsKept
<1> QED
  <2> SUFFICES ASSUME NoneIsNoRow PROVE Spec => []SoleWriterIsKept
    OBVIOUS
  <2>1. Init => Founded /\ Noted /\ Sole
    BY <1>1
  <2>2. (Founded /\ Noted /\ Sole) /\ [Next]_vars => (Founded /\ Noted /\ Sole)'
    BY <1>2
  <2> QED
    BY <1>3, <2>1, <2>2, PTL DEF Spec

-----------------------------------------------------------------------------
\* What a request has stored, and what others have in its conversation.
At(q, calls) == q.kind = "message" /\ ~q.started /\ q.calls = calls
Mine(r) == {m \in messages : m.request = r}
Theirs(r) == {m \in messages : m.request # r /\ rows[m.task].context = requests[r].context}
Prior(r) == {m \in messages : /\ m.request # r
                              /\ rows[m.task].slug = requests[r].slug
                              /\ rows[m.task].context = requests[r].context}
AloneIn(r) == \A o \in overlapped : r \notin {o[1], o[2]}

\* Up to its run, a request that has the conversation for itself stores its own
\* message after all the others, so that the last one it drops is that one.
Unstored(q) == At(q, Opening(Created)) \/ At(q, Opening(Found)) \/ At(q, ToStore)
Identified(q) ==
  \/ At(q, Opening(Found)) /\ q.step = "read"
  \/ At(q, ToStore)
  \/ At(q, ToRecall)
Informed(q) ==
  \/ At(q, ToFind)
  \/ At(q, <<>>) /\ q.row # None
Stages(r) ==
  LET q == requests[r]
  IN  /\ Unstored(q) => Mine(r) = {}
      /\ Identified(q) => rows[q.task].slug = q.slug
LastIsMine(r) ==
  LET q == requests[r]
  IN  /\ At(q, ToStore) /\ q.step = "flushed" => \A m \in Theirs(r) : m.at < q.at
      /\ At(q, ToRecall) =>
           \E own \in Mine(r) : Mine(r) = {own} /\ \A m \in Theirs(r) : m.at < own.at
      /\ Informed(q) => q.history = Prior(r)
InTalk(ms, rs, slug, context) == {m \in ms : rs[m.task].context = context /\ rs[m.task].slug = slug}
OfRows == \A m \in messages : m.task \in Requests /\ rows[m.task] # None
Historied ==
  /\ OfRows
  /\ \A r \in Requests :
       /\ requests[r].history \subseteq InTalk(messages, rows, requests[r].slug, requests[r].context)
       /\ Stages(r)
       /\ AloneIn(r) => LastIsMine(r)

\* A message stays in its conversation.
LEMMA NextOfRows ==
  ASSUME NoneIsNoRow, Founded, OfRows, NEW r \in Requests, Goes(r)
  PROVE  /\ OfRows'
         /\ \A m \in messages : /\ rows'[m.task].context = rows[m.task].context
                                /\ rows'[m.task].slug = rows[m.task].slug
         /\ \A slug, context :
              InTalk(messages, rows, slug, context) \subseteq InTalk(messages', rows', slug, context)
<1>1. /\ Framed /\ InTurn /\ Staged /\ RowFrame /\ Placed
      /\ requests[r].task \in Requests
  BY DEF Founded, Ordered, Framed, Shaped
<1>2. RowsKept
  BY GoesRows
<1>3. \A m \in messages : /\ rows'[m.task].context = rows[m.task].context
                          /\ rows'[m.task].slug = rows[m.task].slug /\ rows'[m.task] # None
  BY <1>2 DEF RowsKept, OfRows
<1>4. OfRows'
  <2>1. CASE CommitMessage(r)
    <3>1. ~Create(r)
      BY <2>1, GoesAtCall
    <3>2. rows[requests[r].task] # None
      BY <1>1, <3>1, GoesMoves DEF Placed
    <3>3. rows'[requests[r].task] # None
      BY <1>1, <1>2, <3>2 DEF RowsKept
    <3>4. \A m \in messages' : m \in messages \/ m.task = requests[r].task
      BY <2>1, Committed
    <3> QED
      BY <1>1, <1>3, <3>3, <3>4 DEF OfRows
  <2>2. CASE ~CommitMessage(r)
    BY <1>3, <2>2, Committed DEF OfRows
  <2> QED
    BY <2>1, <2>2
<1>5. messages \subseteq messages'
  BY Committed
<1>6. \A slug, context :
              InTalk(messages, rows, slug, context) \subseteq InTalk(messages', rows', slug, context)
  BY <1>3, <1>5 DEF InTalk
<1> QED
  BY <1>3, <1>4, <1>6

\* A step adds no message of another request to a conversation that a request
\* has for itself.
LEMMA NothingComesBetween ==
  ASSUME NoneIsNoRow, Founded, Noted, OfRows, NEW s \in Requests, Goes(s), NEW r \in Requests,
         s = r \/ (Under(r) /\ AloneIn(r))
  PROVE  /\ ~(s = r /\ CommitMessage(r)) => Mine(r)' = Mine(r)
         /\ Theirs(r)' = Theirs(r) /\ Prior(r)' = Prior(r)
<1> DEFINE old == requests[s]
           new == [task |-> old.task, request |-> s, who |-> Head(old.calls).who,
                   position |-> old.position, at |-> old.at]
<1>1. /\ Framed /\ InTurn /\ Staged /\ RowFrame /\ Placed /\ old.task \in Requests
      /\ InStage(s, old) /\ Shaped(old) /\ TurnOf(old)
  BY DEF Founded, Ordered, Framed, Shaped, Staged, InTurn
<1>2. \A m \in messages : /\ rows'[m.task].context = rows[m.task].context
                          /\ rows'[m.task].slug = rows[m.task].slug
  BY NextOfRows
<1>3. requests'[r].context = requests[r].context /\ requests'[r].slug = requests[r].slug
  BY GoesLive DEF Same
<1>4. CASE ~CommitMessage(s)
  <2>1. messages' = messages
    BY <1>4, Committed
  <2> QED
    BY <1>2, <1>3, <2>1 DEF Mine, Theirs, Prior
<1>5. CASE CommitMessage(s)
  <2>1. messages' = messages \cup {new} /\ new.request = s /\ new.task = old.task
    BY <1>5, Committed
  <2> HIDE DEF new
  <2>2. CASE s = r
    BY <1>2, <1>3, <1>5, <2>1, <2>2 DEF Mine, Theirs, Prior
  <2>3. CASE s # r
    <3>1. /\ rows' = rows /\ ~Create(s)
          /\ old.calls # <<>> /\ Head(old.calls).op = "append"
      BY <1>5, GoesAtCall DEF CommitMessage
    <3>2. Under(s)
      <4>1. old.kind # "get"
        BY <1>1, <3>1, AtCall
      <4> QED
        BY <3>1, <4>1 DEF Under, Live
    <3>3. rows[old.task].context = old.context
      BY <1>1, <3>1, GoesMoves DEF Placed
    <3>4. old.context # requests[r].context
      <4>1. \A o \in overlapped : o # <<s, r>> /\ o # <<r, s>>
        BY <2>3 DEF AloneIn
      <4> QED
        BY <2>3, <3>2, <4>1 DEF Noted
    <3>5. rows'[new.task].context # requests'[r].context
      BY <1>3, <2>1, <3>1, <3>3, <3>4
    <3> QED
      BY <1>2, <1>3, <2>1, <2>3, <3>5 DEF Mine, Theirs, Prior
  <2> QED
    BY <2>2, <2>3
<1> QED
  BY <1>4, <1>5

\* Recall: what is left without the last message is what the others said.
LEMMA RecallIsPrior ==
  ASSUME Founded, OfRows, NEW r \in Requests, Stages(r), LastIsMine(r), At(requests[r], ToRecall)
  PROVE  WithoutLast(ContextMessages(requests[r].slug, requests[r].context)) = Prior(r)
<1> DEFINE q == requests[r]  all == ContextMessages(q.slug, q.context)
<1>1. Numbered /\ OfItsTask /\ Placed
  BY DEF Founded, Ordered
<1>2. PICK own \in Mine(r) : Mine(r) = {own} /\ \A m \in Theirs(r) : m.at < own.at
  BY DEF LastIsMine
<1>3. own \in messages /\ own.request = r /\ own.task = q.task
  BY <1>1, <1>2 DEF Mine, OfItsTask
<1>4. q.kind # "unsent" /\ ~Creating(q)
  <2>1. ToRecall # Opening(Created)
    BY NotAnOpening
  <2> QED
    BY <2>1 DEF At, Creating
<1>5. rows[own.task].slug = q.slug /\ rows[own.task].context = q.context
  BY <1>1, <1>3, <1>4 DEF Stages, Identified, Placed, Sent
<1>6. own \in all
  BY <1>3, <1>5 DEF ContextMessages
<1>7. \A m \in all : m = own \/ (m.request # r /\ m \in Theirs(r))
  BY <1>2 DEF ContextMessages, Theirs, Mine
<1>8. \A m \in all : m.at \in Nat /\ m.position \in Nat
  BY <1>1 DEF Numbered, ContextMessages
<1>9. ASSUME NEW m \in all, m # own PROVE Before(m, own)
  BY <1>2, <1>7, <1>9 DEF Before
<1>10. ASSUME NEW n \in all PROVE ~Before(own, n)
  <2>1. own.at \in Nat /\ own.position \in Nat /\ n.at \in Nat
    BY <1>6, <1>8
  <2>2. CASE n = own
    BY <2>1, <2>2 DEF Before
  <2>3. CASE n # own
    <3>1. n.at < own.at
      BY <1>2, <1>7, <2>3
    <3> QED
      BY <2>1, <3>1 DEF Before
  <2> QED
    BY <2>2, <2>3
<1>11. WithoutLast(all) = all \ {own}
  <2> HIDE DEF all
  <2> QED
    BY <1>6, <1>9, <1>10 DEF WithoutLast
<1>12. all \ {own} = Prior(r)
  BY <1>2, <1>3, <1>7 DEF ContextMessages, Prior
<1> QED
  BY <1>11, <1>12

LEMMA Distinct ==
  /\ Opening(Created) # Opening(Found)
  /\ \A f : Opening(f) \notin {ToStore, ToRecall, ToFind, <<>>}
  /\ ToStore \notin {ToRecall, ToFind, <<>>} /\ ToRecall \notin {ToFind, <<>>} /\ ToFind # <<>>
<1>1. /\ Created.op = "create" /\ Appended("user").op = "append" /\ Recalled.op = "recall"
      /\ Found.op = "get"
  BY DEF Created, Appended, Recalled, Found
<1>2. /\ Head(ToStore) = Appended("user") /\ Head(ToRecall) = Recalled /\ Head(ToFind) = Found
      /\ Head(Opening(Created)) = Created /\ Head(Opening(Found)) = Found
  BY Lists
<1> QED
  BY <1>1, <1>2, Lists, NotAnOpening

LEMMA ByStage ==
  ASSUME NEW q, q.kind = "message", ~q.started
  PROVE  /\ \A calls : At(q, calls) <=> q.calls = calls
         /\ q.calls = Opening(Created) => Unstored(q)
         /\ q.calls = Opening(Found) =>
              /\ Unstored(q) /\ (Identified(q) <=> q.step = "read")
              /\ ~At(q, ToStore) /\ ~At(q, ToRecall) /\ ~Informed(q)
         /\ q.calls = ToStore => Unstored(q) /\ Identified(q) /\ ~At(q, ToRecall) /\ ~Informed(q)
         /\ q.calls = ToRecall => ~Unstored(q) /\ Identified(q) /\ ~At(q, ToStore) /\ ~Informed(q)
         /\ q.calls = ToFind => Informed(q)
         /\ q.calls \in {ToFind, <<>>} =>
              ~Unstored(q) /\ ~Identified(q) /\ ~At(q, ToStore) /\ ~At(q, ToRecall)
         /\ q.calls = <<>> => (Informed(q) <=> q.row # None)
<1>1. \A calls : At(q, calls) <=> q.calls = calls
  BY DEF At
<1> QED
  BY <1>1, Distinct DEF Unstored, Identified, Informed

LEMMA NoStage ==
  ASSUME NEW q, q.kind # "message" \/ q.started
  PROVE  ~Unstored(q) /\ ~Identified(q) /\ ~Informed(q) /\ \A calls : ~At(q, calls)
  BY DEF Unstored, Identified, Informed, At

LEMMA PlacedAt ==
  ASSUME Founded, NEW r \in Requests, NEW calls, At(requests[r], calls), calls # Opening(Created)
  PROVE  /\ Sent(r) /\ requests[r].task \in Requests /\ rows[requests[r].task] # None
         /\ rows[requests[r].task].context = requests[r].context
  BY DEF Founded, Ordered, Framed, Shaped, Placed, At, Creating, Sent

\* A step of another request.
LEMMA OthersHistory ==
  ASSUME NoneIsNoRow, Founded, Noted, Historied, NEW s \in Requests, Goes(s),
         NEW r \in Requests, r # s
  PROVE  /\ Stages(r)' /\ (AloneIn(r)' => LastIsMine(r)')
         /\ requests'[r].history \subseteq
              InTalk(messages', rows', requests'[r].slug, requests'[r].context)
<1> DEFINE q == requests[r]
<1>1. requests'[r] = q /\ UNCHANGED overlapped
  BY GoesMoves, GoesLive DEF Others, Founded, Ordered
<1>2. q.history \subseteq InTalk(messages', rows', q.slug, q.context)
  BY NextOfRows DEF Historied
<1>3. Mine(r)' = Mine(r)
  <2> DEFINE new == [task |-> requests[s].task, request |-> s, who |-> Head(requests[s].calls).who,
                     position |-> requests[s].position, at |-> requests[s].at]
  <2>1. messages' = messages \/ messages' = messages \cup {new}
    BY Committed
  <2>2. new.request # r
    OBVIOUS
  <2> HIDE DEF new
  <2> QED
    BY <2>1, <2>2 DEF Mine
<1>4. ASSUME NEW calls, At(q, calls), calls # Opening(Created)
      PROVE  rows'[q.task].slug = rows[q.task].slug
  BY <1>4, PlacedAt, GoesRows DEF RowsKept
<1>5. Stages(r)'
  <2>1. Identified(q) => rows'[q.task].slug = rows[q.task].slug
    BY <1>4, Distinct DEF Identified
  <2> QED
    BY <1>1, <1>3, <2>1 DEF Historied, Stages
<1>6. ASSUME AloneIn(r)' PROVE LastIsMine(r)'
  <2>1. AloneIn(r) /\ LastIsMine(r)
    BY <1>1, <1>6 DEF AloneIn, Historied
  <2>2. At(q, ToStore) \/ At(q, ToRecall) \/ Informed(q) => Under(r)
    BY Lists DEF At, Informed, Under, Live, Ready
  <2>3. Under(r) => Theirs(r)' = Theirs(r) /\ Prior(r)' = Prior(r)
    BY <2>1, NothingComesBetween DEF Historied
  <2> QED
    BY <1>1, <1>3, <2>1, <2>2, <2>3 DEF LastIsMine
<1> QED
  BY <1>1, <1>2, <1>5, <1>6

\* A step of its own.
LEMMA OwnHistory ==
  ASSUME NoneIsNoRow, Founded, Noted, Historied, NEW r \in Requests, Goes(r)
  PROVE  /\ Stages(r)' /\ (AloneIn(r)' => LastIsMine(r)')
         /\ requests'[r].history \subseteq
              InTalk(messages', rows', requests'[r].slug, requests'[r].context)
<1> DEFINE old == requests[r]  q == requests'[r]
<1>1. /\ Framed /\ InTurn /\ Staged /\ RowFrame /\ Placed /\ Numbered /\ Noted
      /\ InStage(r, old) /\ Shaped(old) /\ TurnOf(old) /\ OfRows
      /\ Stages(r) /\ (AloneIn(r) => LastIsMine(r))
      /\ old.history \subseteq InTalk(messages, rows, old.slug, old.context)
  BY DEF Founded, Ordered, Framed, Staged, InTurn, Historied
<1>2. Others(r) /\ Same(old, q) /\ UNCHANGED overlapped
  BY <1>1, GoesMoves, GoesLive
<1>3. AloneIn(r)' => AloneIn(r)
  BY <1>2 DEF AloneIn
<1>4. /\ Theirs(r)' = Theirs(r) /\ Prior(r)' = Prior(r)
      /\ ~CommitMessage(r) => Mine(r)' = Mine(r)
  BY <1>1, NothingComesBetween
<1>5. q.history \subseteq InTalk(messages', rows', q.slug, q.context)
  <2>1. \A slug, context :
              InTalk(messages, rows, slug, context) \subseteq InTalk(messages', rows', slug, context)
    BY <1>1, NextOfRows
  <2>2. \/ q.history \subseteq old.history
        \/ q.history = WithoutLast(ContextMessages(old.slug, old.context))
    BY <1>1, WriteMoves, ReadMessagesMoves, RecallMoves, ReadRowMoves, AppendMoves, RunMoves
       DEF Goes, GoesOn
  <2>3. q.history \subseteq InTalk(messages, rows, old.slug, old.context)
    BY <1>1, <2>2 DEF WithoutLast, ContextMessages, InTalk
  <2>4. q.slug = old.slug /\ q.context = old.context
    BY <1>2 DEF Same
  <2> HIDE DEF q
  <2>5. q.history \subseteq InTalk(messages', rows', old.slug, old.context)
    BY <2>1, <2>3
  <2> QED
    BY <2>4, <2>5
<1>6. CASE q.kind # "message" \/ q.started
  BY <1>5, <1>6, NoStage DEF Stages, LastIsMine
<1>7. CASE q.kind = "message" /\ ~q.started
  <2>1. ~Run(r) /\ old.kind = "message"
    BY <1>1, <1>2, <1>7, RunMoves DEF Same
  <2>2. ~old.started
    BY <1>1, <1>7, <2>1, WriteMoves, ReadMessagesMoves, RecallMoves, ReadRowMoves, AppendMoves
       DEF Goes, Done, GoesOn
  <2>3. old.calls # <<>>
    BY <2>1, GoesAtCall DEF Goes
  <2> DEFINE op == Head(old.calls).op
  <2>4. \/ old.calls = Opening(Created) /\ op = "create"
        \/ old.calls = Opening(Found) /\ op = "get"
        \/ old.calls = ToStore /\ op = "append"
        \/ old.calls = ToRecall /\ op = "recall"
        \/ old.calls = ToFind /\ op = "get"
    BY <1>1, <2>1, <2>2, <2>3, AtCall
  <2>5. q.task = old.task /\ q.slug = old.slug /\ q.context = old.context
    BY <1>2 DEF Same
  <2>6. ASSUME old.calls # Opening(Created) PROVE rows'[old.task].slug = rows[old.task].slug
    <3>1. At(old, old.calls)
      BY <2>1, <2>2 DEF At
    <3> QED
      BY <2>6, <3>1, PlacedAt, GoesRows DEF RowsKept
  <2> HIDE DEF q
  <2>7. requests'[r] = q
    BY DEF q
\* What has to be shown at each stage.
  <2>8. ASSUME q.calls = <<>>, q.row = None PROVE Stages(r)' /\ LastIsMine(r)'
    BY <1>7, <2>7, <2>8, ByStage DEF Stages, LastIsMine
  <2>9. ASSUME q.calls = ToStore, q.step # "flushed", Mine(r)' = {}, rows'[q.task].slug = q.slug
        PROVE  Stages(r)' /\ LastIsMine(r)'
    BY <1>7, <2>7, <2>9, ByStage DEF Stages, LastIsMine
  <2>10. CASE old.calls = Opening(Created)
    <3>1. Create(r)
      BY <2>4, <2>10, <2>1, GoesAtCall, Distinct DEF Goes
    <3>2. q.calls = ToStore /\ q.step = "begin"
      BY <1>1, <2>7, <2>10, <3>1, WriteMoves, Lists DEF Done
    <3>3. Mine(r)' = {}
      BY <1>1, <1>4, <2>1, <2>2, <2>10, <3>1, GoesAtCall, ByStage DEF Stages
    <3>4. old.task = r
      BY <3>1, GoesRows
    <3>5. rows'[q.task].slug = q.slug
      BY <1>1, <2>5, <3>1, <3>4, CreateWrites
    <3> QED
      BY <1>5, <2>7, <2>9, <3>2, <3>3, <3>5
  <2>11. CASE old.calls = Opening(Found)
    <3>1. Mine(r) = {} /\ (old.step = "read" => rows[old.task].slug = old.slug)
      BY <1>1, <2>1, <2>2, <2>11, ByStage DEF Stages
    <3>2. ReadRow(r) \/ ReadMessages(r)
      BY <2>4, <2>11, <2>1, GoesAtCall, Distinct DEF Goes
    <3>3. Mine(r)' = {} /\ rows'[old.task].slug = rows[old.task].slug
      <4>1. ~CommitMessage(r)
        BY <3>2, GoesAtCall
      <4> QED
        BY <1>4, <2>6, <2>11, <3>1, <4>1, Distinct
    <3>4. CASE ReadMessages(r)
      <4>1. q.calls = ToStore /\ q.step = "begin" /\ old.step = "read"
        <5>1. q.calls = Tail(old.calls) /\ q.step = "begin"
          BY <1>1, <2>7, <3>4, ReadMessagesMoves DEF Done
        <5>2. old.step = "read"
          BY <3>4, GoesAtCall
        <5> QED
          BY <2>11, <5>1, <5>2, Lists
      <4> QED
        BY <1>5, <2>5, <2>7, <2>9, <3>1, <3>3, <4>1
    <3>5. CASE ReadRow(r)
      <4>1. /\ q.row = Visible(old.task, old.slug)
            /\ q.calls = IF q.row = None THEN <<>> ELSE old.calls
        BY <1>1, <2>7, <3>5, ReadRowMoves
      <4>2. CASE q.row = None
        BY <1>5, <2>7, <2>8, <4>1, <4>2
      <4>3. CASE q.row # None
        <5>1. rows[old.task].slug = old.slug /\ q.calls = Opening(Found)
          BY <2>11, <4>1, <4>3 DEF Visible
        <5>2. Stages(r)' /\ LastIsMine(r)'
          BY <2>5, <1>7, <2>7, <3>3, <5>1, ByStage DEF Stages, LastIsMine
        <5> QED
          BY <1>5, <2>7, <5>2
      <4> QED
        BY <4>2, <4>3
    <3> QED
      BY <3>2, <3>4, <3>5
  <2>12. CASE old.calls = ToStore
    <3>1. Mine(r) = {} /\ rows[old.task].slug = old.slug
      BY <1>1, <2>1, <2>2, <2>12, ByStage DEF Stages
    <3>2. ReadLast(r) \/ Flush(r) \/ CommitMessage(r)
      BY <2>4, <2>12, <2>1, GoesAtCall, Distinct DEF Goes
    <3>3. rows'[q.task].slug = q.slug
      BY <2>5, <2>6, <2>12, <3>1, Distinct
    <3>4. CASE ReadLast(r)
      <4>1. q.calls = ToStore /\ q.step = "read"
        BY <1>1, <2>7, <2>12, <3>4, AppendMoves
      <4>2. Mine(r)' = {}
        BY <3>1, <3>4 DEF ReadLast, Mine
      <4> QED
        BY <1>5, <2>7, <2>9, <3>3, <4>1, <4>2
    <3>5. CASE Flush(r)
      <4>1. q.calls = ToStore /\ q.at = clock /\ messages' = messages
        BY <1>1, <2>7, <2>12, <3>5, AppendMoves DEF Flush
      <4>2. Mine(r)' = {} /\ \A m \in Theirs(r)' : m.at < q.at
        BY <1>1, <1>4, <3>1, <4>1 DEF Mine, Theirs, Numbered
      <4>3. Stages(r)' /\ LastIsMine(r)'
        BY <1>7, <2>7, <3>3, <4>1, <4>2, ByStage DEF Stages, LastIsMine
      <4> QED
        BY <1>5, <2>7, <4>3
    <3>6. CASE CommitMessage(r)
      <4> DEFINE own == [task |-> old.task, request |-> r, who |-> Head(old.calls).who,
                         position |-> old.position, at |-> old.at]
      <4>1. messages' = messages \cup {own} /\ own.request = r /\ own.at = old.at
        BY <3>6, Committed
      <4> HIDE DEF own
      <4>2. Mine(r)' = {own}
        BY <3>1, <4>1 DEF Mine
      <4>3. old.step = "flushed" /\ q.calls = ToRecall
        BY <1>1, <2>7, <2>12, <3>6, WriteMoves, Lists DEF Done, CommitMessage
      <4>4. AloneIn(r) => \A m \in Theirs(r)' : m.at < own.at
        BY <1>1, <1>4, <2>1, <2>2, <2>12, <4>1, <4>3, ByStage DEF LastIsMine
      <4>5. Stages(r)' /\ (AloneIn(r)' => LastIsMine(r)')
        BY <1>7, <1>3, <2>7, <3>3, <4>2, <4>3, <4>4, ByStage DEF Stages, LastIsMine
      <4> QED
        BY <1>5, <2>7, <4>5
    <3> QED
      BY <3>2, <3>4, <3>5, <3>6
  <2>13. CASE old.calls = ToRecall
    <3>1. Recall(r)
      BY <2>4, <2>13, <2>1, GoesAtCall, Distinct DEF Goes
    <3>2. q.calls = ToFind /\ q.history = WithoutLast(ContextMessages(old.slug, old.context))
      BY <1>1, <2>7, <2>13, <3>1, RecallMoves, Lists DEF Done
    <3>3. AloneIn(r) => q.history = Prior(r)
      BY <1>1, <2>1, <2>2, <2>13, <3>2, RecallIsPrior, ByStage
    <3>4. Stages(r)' /\ (AloneIn(r)' => LastIsMine(r)')
      BY <1>7, <1>3, <1>4, <2>7, <3>2, <3>3, ByStage DEF Stages, LastIsMine
    <3> QED
      BY <1>5, <2>7, <3>4
  <2>14. CASE old.calls = ToFind
    <3>1. ReadRow(r) \/ ReadMessages(r)
      BY <2>4, <2>14, <2>1, GoesAtCall, Distinct DEF Goes
    <3>2. q.calls \in {ToFind, <<>>} /\ q.history = old.history
      BY <1>1, <2>7, <2>14, <3>1, ReadRowMoves, ReadMessagesMoves, Lists DEF Done, GoesOn
    <3>3. AloneIn(r) => q.history = Prior(r)
      BY <1>1, <2>1, <2>2, <2>14, <3>2, ByStage DEF LastIsMine
    <3>4. Stages(r)' /\ (AloneIn(r)' => LastIsMine(r)')
      BY <1>7, <1>3, <1>4, <2>7, <3>2, <3>3, ByStage DEF Stages, LastIsMine
    <3> QED
      BY <1>5, <2>7, <3>4
  <2> QED
    BY <2>4, <2>10, <2>11, <2>12, <2>13, <2>14
<1> QED
  BY <1>6, <1>7

\* A request that arrives has stored nothing.
LEMMA ArrivalHistory ==
  ASSUME Founded, Historied, NEW r \in Requests, NewTask(r) \/ ToTask(r)
  PROVE  Historied'
<1> DEFINE q == requests'[r]
<1>1. Framed /\ OfItsTask /\ Numbered
  BY DEF Founded, Ordered
<1>2. Arrives(r, q)
  BY <1>1, ArrivalsArrive
<1>3. /\ Others(r) /\ ~Sent(r) /\ UNCHANGED <<rows, messages>> /\ overlapped \subseteq overlapped'
      /\ q.history = {} /\ q.row = None /\ q.step = "begin" /\ ~q.started
      /\ q.kind = "message" => q.calls \in Openings
  BY <1>2 DEF Arrives
<1>4. Mine(r) = {}
  BY <1>1, <1>3 DEF Mine, OfItsTask, Sent
<1>5. \/ q.kind # "message"
      \/ q.calls \in Openings
  BY <1>3
<1>6. ~Identified(q) /\ ~At(q, ToStore) /\ ~At(q, ToRecall) /\ ~Informed(q)
  BY <1>3, <1>5, Distinct DEF Identified, Informed, At, Openings
<1>7. Stages(r)' /\ LastIsMine(r)' /\ q.history \subseteq InTalk(messages', rows', q.slug, q.context)
  BY <1>3, <1>4, <1>6 DEF Stages, LastIsMine, Mine
<1>8. ASSUME NEW s \in Requests, s # r
      PROVE  /\ Stages(s)' /\ (AloneIn(s)' => LastIsMine(s)')
             /\ requests'[s].history \subseteq InTalk(messages', rows', requests'[s].slug, requests'[s].context)
  <2>1. requests'[s] = requests[s] /\ rows' = rows /\ messages' = messages
    BY <1>3, <1>8 DEF Others
  <2>2. AloneIn(s)' => AloneIn(s)
    BY <1>3 DEF AloneIn
  <2>3. Mine(s)' = Mine(s) /\ Theirs(s)' = Theirs(s) /\ Prior(s)' = Prior(s)
    BY <2>1 DEF Mine, Theirs, Prior
  <2>4. Stages(s) /\ (AloneIn(s) => LastIsMine(s))
    BY DEF Historied
  <2>5. requests[s].history \subseteq InTalk(messages, rows, requests[s].slug, requests[s].context)
    BY DEF Historied
  <2>6. Stages(s)'
    BY <2>1, <2>3, <2>4 DEF Stages
  <2>7. AloneIn(s)' => LastIsMine(s)'
    BY <2>1, <2>2, <2>3, <2>4 DEF LastIsMine
  <2> QED
    BY <2>1, <2>5, <2>6, <2>7
<1>9. OfRows'
  BY <1>3 DEF Historied, OfRows
<1> HIDE DEF q
<1>10. \A s \in Requests :
         /\ requests'[s].history \subseteq InTalk(messages', rows', requests'[s].slug, requests'[s].context)
         /\ Stages(s)' /\ (AloneIn(s)' => LastIsMine(s)')
  BY <1>7, <1>8 DEF q
<1> QED
  BY <1>9, <1>10 DEF Historied

LEMMA NextHistoried ==
  ASSUME NoneIsNoRow, Founded, Noted, Historied, [Next]_vars
  PROVE  Historied'
<1>1. CASE UNCHANGED vars
  BY <1>1 DEF vars, Historied, OfRows, Stages, LastIsMine, AloneIn, Mine, Theirs, Prior
<1>2. ASSUME NEW r \in Requests, NewTask(r) \/ ToTask(r) PROVE Historied'
  BY <1>2, ArrivalHistory
<1>3. ASSUME NEW r \in Requests, Goes(r) PROVE Historied'
  <2>1. OfRows'
    BY <1>3, NextOfRows DEF Historied
  <2>2. \A s \in Requests :
          /\ Stages(s)' /\ (AloneIn(s)' => LastIsMine(s)')
          /\ requests'[s].history \subseteq InTalk(messages', rows', requests'[s].slug, requests'[s].context)
    BY <1>3, OwnHistory, OthersHistory
  <2> QED
    BY <2>1, <2>2 DEF Historied
<1> QED
  BY <1>1, <1>2, <1>3, NextGoes

\* A run is shown messages of its own agent and conversation only; and if no
\* other writer of the conversation was under way with it, all of them and not
\* the one it answers: HistoryIsPrior (_conversation_history drops whatever
\* comes last).
THEOREM HistoriesArePrior == NoneIsNoRow /\ Spec => []HistoryIsPrior
<1>1. ASSUME NoneIsNoRow, Init PROVE Founded /\ Noted /\ Historied
  <2>1. /\ messages = {}
        /\ \A r \in Requests : requests[r].kind = "unsent" /\ requests[r].history = {}
    BY <1>1 DEF Init, Idle
  <2>2. \A r \in Requests : Stages(r) /\ LastIsMine(r)
    BY <2>1, NoStage DEF Stages, LastIsMine
  <2>3. Historied
    BY <2>1, <2>2 DEF Historied, OfRows
  <2> QED
    BY <1>1, <2>3, InitFounded, InitNoted
<1>2. ASSUME NoneIsNoRow, Founded /\ Noted /\ Historied, [Next]_vars
      PROVE  (Founded /\ Noted /\ Historied)'
  BY <1>2, NextFounded, NextNoted, NextHistoried
<1>3. ASSUME Founded /\ Noted /\ Historied PROVE HistoryIsPrior
  <2> SUFFICES ASSUME NEW r \in Requests
               PROVE  /\ requests[r].history \subseteq Prior(r) \cup {m \in messages : m.request = r}
                      /\ Ready(r) /\ AloneIn(r) => requests[r].history = Prior(r)
    BY DEF HistoryIsPrior, Prior, AloneIn
  <2>1. requests[r].history \subseteq Prior(r) \cup {m \in messages : m.request = r}
    BY <1>3 DEF Historied, InTalk, Prior
  <2>2. Ready(r) => Informed(requests[r])
    BY DEF Ready, Informed, At
  <2> QED
    BY <1>3, <2>1, <2>2 DEF Historied, LastIsMine
<1> QED
  <2> SUFFICES ASSUME NoneIsNoRow PROVE Spec => []HistoryIsPrior
    OBVIOUS
  <2>1. Init => Founded /\ Noted /\ Historied
    BY <1>1
  <2>2. (Founded /\ Noted /\ Historied) /\ [Next]_vars => (Founded /\ Noted /\ Historied)'
    BY <1>2
  <2> QED
    BY <1>3, <2>1, <2>2, PTL DEF Spec
=============================================================================
