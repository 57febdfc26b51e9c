------------------------- MODULE ToolNameCodecProofs -------------------------
(***************************************************************************)
(* That an answer reaches the tool whose wire name it uses and that the    *)
(* turns of a run give a declared tool the same wire name: for every set of*)
(* names, whatever the sanitiser and the suffixes make of them, for these  *)
(* proofs use the order of registration, the test of the loop and the two  *)
(* assignments after it, never the wire names themselves.                  *)
(*                                                                         *)
(* That every wire name is legal is about the names themselves: how a      *)
(* number is printed, that the ends of two suffixed names tell them apart, *)
(* and hence how many suffixes a registration can need.                    *)
(***************************************************************************)
EXTENDS ToolNameCodec, FiniteSetTheorems, WellFoundedInduction, TLAPS

LEMMA NoNames == DOMAIN NoMap = {}
  BY DEF NoMap

-----------------------------------------------------------------------------
(* Types *)

ToolsTyped == Len(tools) \in Nat /\ \A i \in 1 .. Len(tools) : tools[i] \in Names

Typed == ToolsTyped /\ TypeOK

\* The names of a request start as sequences of names.
LEMMA InitTyped == Init => Typed
<1> SUFFICES ASSUME Init PROVE Typed
  OBVIOUS
<1>1. PICK n \in 0 .. MaxTools : tools \in [1 .. n -> Names]
  BY DEF Init
<1>2. n \in Nat
  BY CodecAssumption
<1>3. Len(tools) = n
  BY <1>1, <1>2
<1>4. ToolsTyped
  BY <1>1, <1>2, <1>3 DEF ToolsTyped
<1>5. TypeOK
  BY <1>2, <1>3, NoNames DEF Init, TypeOK
<1> QED
  BY <1>4, <1>5 DEF Typed

\* What a registration starts with.
LEMMA BeginTyped ==
    ASSUME NEW q \in Names, Begin(q), toWire' = toWire
    PROVE  job' # NoJob => /\ job'.name \in Names \ DOMAIN toWire'
                           /\ job'.suffix \in Nat
  BY DEF Begin

LEMMA CommitTyped == Typed /\ Commit => Typed'
<1> SUFFICES ASSUME Typed, Commit PROVE Typed'
  OBVIOUS
<1> USE DEF Typed, ToolsTyped, TypeOK
<1>1. DOMAIN toWire' = DOMAIN toWire \cup {job.name}
  BY DEF Commit, Put
<1>2. ASSUME NEW w \in DOMAIN fromWire' PROVE fromWire'[w] \in DOMAIN toWire'
  <2>1. w \in DOMAIN fromWire \cup {job.wire}
    BY DEF Commit, Put
  <2>2. CASE w = job.wire
    BY <1>1, <2>2 DEF Commit, Put
  <2>3. CASE w \in DOMAIN fromWire /\ w # job.wire
    BY <1>1, <2>3 DEF Commit, Put
  <2> QED
    BY <2>1, <2>2, <2>3
<1>3. job.name \in Names
  BY DEF Commit
<1> QED
  BY <1>1, <1>2, <1>3 DEF Commit

LEMMA NextTyped == Typed /\ [Next]_vars => Typed'
<1> SUFFICES ASSUME Typed, [Next]_vars PROVE Typed'
  OBVIOUS
<1>1. CASE Declare
  <2>1. tools[declared + 1] \in Names
    BY <1>1 DEF Declare, Typed, ToolsTyped, TypeOK
  <2> QED
    BY <1>1, <2>1, BeginTyped DEF Declare, Typed, ToolsTyped, TypeOK
<1>2. ASSUME NEW q \in Names, Mention(q) PROVE Typed'
  BY <1>2, BeginTyped DEF Mention, Typed, ToolsTyped, TypeOK
<1>3. CASE Probe
  BY <1>3 DEF Probe, Typed, ToolsTyped, TypeOK
<1>4. CASE Commit
  BY <1>4, CommitTyped
<1>5. CASE NextRequest
  BY <1>5, NoNames DEF NextRequest, Typed, ToolsTyped, TypeOK
<1>6. CASE UNCHANGED vars
  BY <1>6 DEF vars, Typed, ToolsTyped, TypeOK
<1> QED
  BY <1>1, <1>2, <1>3, <1>4, <1>5, <1>6 DEF Next, Register

\* Taken wire names belong to registered names, and nothing is registered twice.
THEOREM TypeCorrect == Spec => []TypeOK
<1>1. Typed => TypeOK
  BY DEF Typed
<1> QED
  BY InitTyped, NextTyped, <1>1, PTL DEF Spec

-----------------------------------------------------------------------------
(* The round trip *)

\* RoundTrip is not inductive alone: a name the codec passes through as it is would
\* come back right without being known, and lose its wire name to the next one that
\* finds it free.
Known ==
    \A q \in DOMAIN toWire : /\ toWire[q] \in DOMAIN fromWire
                             /\ fromWire[toWire[q]] = q

\* The wire name committed is free, so no name registered before loses its own.
LEMMA CommitKnown == Known /\ Commit => Known'
<1> SUFFICES ASSUME Known, Commit, NEW q \in DOMAIN toWire'
             PROVE  /\ toWire'[q] \in DOMAIN fromWire'
                    /\ fromWire'[toWire'[q]] = q
  BY DEF Known
<1>1. q \in DOMAIN toWire \cup {job.name}
  BY DEF Commit, Put
<1>2. DOMAIN fromWire' = DOMAIN fromWire \cup {job.wire}
  BY DEF Commit, Put
<1>3. fromWire'[job.wire] = job.name
  BY DEF Commit, Put
<1>4. CASE q = job.name
  <2>1. toWire'[q] = job.wire
    BY <1>4 DEF Commit, Put
  <2> QED
    BY <1>2, <1>3, <1>4, <2>1
<1>5. CASE q \in DOMAIN toWire /\ q # job.name
  <2>1. toWire'[q] = toWire[q]
    BY <1>5 DEF Commit, Put
  <2>2. toWire[q] \in DOMAIN fromWire /\ fromWire[toWire[q]] = q
    BY <1>5 DEF Known
  <2>3. toWire[q] # job.wire
    BY <1>5, <2>2 DEF Commit, Taken
  <2>4. fromWire'[toWire[q]] = fromWire[toWire[q]]
    BY <2>2, <2>3 DEF Commit, Put
  <2> QED
    BY <1>2, <2>1, <2>2, <2>4
<1> QED
  BY <1>1, <1>4, <1>5

LEMMA NextKnown == Known /\ [Next]_vars => Known'
<1> SUFFICES ASSUME Known, [Next]_vars PROVE Known'
  OBVIOUS
<1>1. CASE Declare
  BY <1>1 DEF Declare, Known
<1>2. ASSUME NEW q \in Names, Mention(q) PROVE Known'
  BY <1>2 DEF Mention, Known
<1>3. CASE Probe
  BY <1>3 DEF Probe, Known
<1>4. CASE Commit
  BY <1>4, CommitKnown
<1>5. CASE NextRequest
  BY <1>5, NoNames DEF NextRequest, Known
<1>6. CASE UNCHANGED vars
  BY <1>6 DEF vars, Known
<1> QED
  BY <1>1, <1>2, <1>3, <1>4, <1>5, <1>6 DEF Next, Register

\* An answer that uses a tool's wire name is decoded to that tool.
THEOREM AnswersReachTheirTool == Spec => []RoundTrip
<1>1. Init => Known
  BY NoNames DEF Init, Known
<1>2. Known => RoundTrip
  BY DEF Known, RoundTrip, FromWire
<1> QED
  BY <1>1, NextKnown, <1>2, PTL DEF Spec

\* Two tools of one request never share a wire name.
THEOREM WireNamesDiffer ==
    Spec => [](\A p, q \in DOMAIN toWire : toWire[p] = toWire[q] => p = q)
<1>1. RoundTrip => \A p, q \in DOMAIN toWire : toWire[p] = toWire[q] => p = q
  BY DEF RoundTrip
<1> QED
  BY AnswersReachTheirTool, <1>1, PTL

-----------------------------------------------------------------------------
(* The same names in every turn *)

FirstOf(ts, n) == {ts[i] : i \in 1 .. n}
All(ts) == FirstOf(ts, Len(ts))

\* The tools of the list ts before the first occurrence of q.
Before(ts, q) == {ts[j] : j \in {j \in 1 .. Len(ts) : \A i \in 1 .. j : ts[i] # q}}

\* The wire names _register tries for q, in this order.
Try(q, k) == IF k = 1 THEN Sanitized(q) ELSE Suffixed(Sanitized(q), k)

\* f gives each of its tools the first name it tries that no tool before it has:
\* two such f agree on a tool if they agree on the tools before it.
FirstFree(ts, f) ==
    \A q \in DOMAIN f \cap All(ts) :
        /\ Before(ts, q) \subseteq DOMAIN f
        /\ \A p \in Before(ts, q) : f[p] # f[q]
        /\ \E k \in Nat \ {0} :
              /\ f[q] = Try(q, k)
              /\ \A m \in 1 .. (k - 1) : \E p \in Before(ts, q) : f[p] = Try(q, m)

Mirrored == \A w \in DOMAIN fromWire : /\ fromWire[w] \in DOMAIN toWire
                                      /\ toWire[fromWire[w]] = w

\* Tools are registered in their order, before any other name.
InOrder ==
    LET known == IF job = NoJob THEN DOMAIN toWire ELSE DOMAIN toWire \cup {job.name}
    IN  /\ FirstOf(tools, declared) \subseteq known
        /\ declared < Len(tools) => known \subseteq FirstOf(tools, declared)

\* How far a registration has come: what it tried before is another name's.
Trying ==
    job # NoJob =>
        /\ job = [name |-> job.name, wire |-> job.wire, suffix |-> job.suffix]
        /\ job.suffix \in Nat /\ job.suffix >= 2
        /\ job.wire = Try(job.name, job.suffix - 1)
        /\ job.name \in All(tools) => DOMAIN toWire = Before(tools, job.name)
        /\ \A m \in 1 .. (job.suffix - 2) : Taken(Try(job.name, m), job.name)

\* The induction is over the registrations of the present turn: those made so far
\* agree with the last turn's.
Deterministic ==
    /\ Known /\ Mirrored /\ InOrder /\ Trying
    /\ DOMAIN earlier \subseteq All(tools)
    /\ FirstFree(tools, earlier) /\ FirstFree(tools, toWire)
    /\ WireNamesStable

\* NoJob is not a registration.
NoJobIsNone == \A q, w, k : NoJob # [name |-> q, wire |-> w, suffix |-> k]

LEMMA BeforeIsOther ==
    ASSUME Typed, NEW q
    PROVE  Before(tools, q) \subseteq All(tools) /\ q \notin Before(tools, q)
<1>1. Before(tools, q) \subseteq All(tools)
  BY DEF Before, All, FirstOf
<1>2. ASSUME NEW j \in 1 .. Len(tools), \A i \in 1 .. j : tools[i] # q PROVE tools[j] # q
  <2>1. j \in 1 .. j
    BY DEF Typed, ToolsTyped
  <2> QED
    BY <1>2, <2>1
<1> QED
  BY <1>1, <1>2 DEF Before

LEMMA FirstOfNext ==
    ASSUME Typed, declared < Len(tools)
    PROVE  /\ FirstOf(tools, declared + 1) = FirstOf(tools, declared) \cup {tools[declared + 1]}
           /\ tools[declared + 1] \notin FirstOf(tools, declared) =>
                Before(tools, tools[declared + 1]) = FirstOf(tools, declared)
<1>0. declared \in Nat /\ Len(tools) \in Nat /\ declared + 1 \in 1 .. Len(tools)
  BY DEF Typed, ToolsTyped, TypeOK
<1>1. 1 .. (declared + 1) = (1 .. declared) \cup {declared + 1}
  BY <1>0
<1>2. ASSUME tools[declared + 1] \notin FirstOf(tools, declared), NEW j \in 1 .. Len(tools)
      PROVE  (\A i \in 1 .. j : tools[i] # tools[declared + 1]) <=> j \in 1 .. declared
  <2>1. CASE j \in 1 .. declared
    BY <1>0, <1>2, <2>1 DEF FirstOf
  <2>2. CASE j \notin 1 .. declared
    <3>1. declared + 1 \in 1 .. j
      BY <1>0, <2>2
    <3> QED
      BY <2>2, <3>1
  <2> QED
    BY <2>1, <2>2
<1>3. 1 .. declared \subseteq 1 .. Len(tools)
  BY <1>0
<1> QED
  BY <1>1, <1>2, <1>3 DEF FirstOf, Before

\* A registration that begins: nothing was tried.
LEMMA BeginTries ==
    ASSUME Deterministic, NEW q, Begin(q), UNCHANGED <<tools, toWire, fromWire>>,
           q \notin DOMAIN toWire => (q \in All(tools) => DOMAIN toWire = Before(tools, q))
    PROVE  Trying'
<1>1. 1 .. (2 - 2) = {} /\ 2 \in Nat /\ 2 - 1 = 1
  OBVIOUS
<1>2. CASE q \in DOMAIN toWire
  BY <1>2 DEF Begin, Trying
<1>3. CASE q \notin DOMAIN toWire
  <2>1. job' = [name |-> q, wire |-> Sanitized(q), suffix |-> 2]
    BY <1>3 DEF Begin
  <2>2. job'.wire = Try(q, 1) /\ job'.name = q /\ job'.suffix = 2
    BY <2>1 DEF Try
  <2>3. q \in All(tools) => DOMAIN toWire' = Before(tools', q)
    BY <1>3
  <2>4. 1 .. (job'.suffix - 2) = {}
    BY <1>1, <2>2
  <2> QED
    BY <1>1, <2>1, <2>2, <2>3, <2>4 DEF Trying
<1> QED
  BY <1>2, <1>3

LEMMA DeclareDeterministic ==
    ASSUME NoJobIsNone
    PROVE  Typed /\ Deterministic /\ Declare => Deterministic'
<1> SUFFICES ASSUME Typed, Deterministic, Declare PROVE Deterministic'
  OBVIOUS
<1> DEFINE q == tools[declared + 1]
<1>1. /\ UNCHANGED <<tools, toWire, fromWire, earlier>> /\ job = NoJob
      /\ declared < Len(tools) /\ declared' = declared + 1 /\ Begin(q)
  BY DEF Declare
<1>2. DOMAIN toWire = FirstOf(tools, declared)
  BY <1>1 DEF Deterministic, InOrder
<1>3. /\ FirstOf(tools, declared + 1) = FirstOf(tools, declared) \cup {q}
      /\ q \notin FirstOf(tools, declared) => Before(tools, q) = FirstOf(tools, declared)
  BY <1>1, FirstOfNext
<1>4. Trying'
  <2> HIDE DEF q
  <2> QED
    BY <1>1, <1>2, <1>3, BeginTries
<1>5. FirstOf(tools, declared)' = FirstOf(tools, declared) \cup {q}
  BY <1>1, <1>3 DEF FirstOf
<1>6. (IF job' = NoJob THEN DOMAIN toWire' ELSE DOMAIN toWire' \cup {job'.name})
        = FirstOf(tools, declared) \cup {q}
  <2>1. CASE q \in DOMAIN toWire
    BY <1>1, <1>2, <2>1 DEF Begin
  <2>2. CASE q \notin DOMAIN toWire
    <3>1. job' = [name |-> q, wire |-> Sanitized(q), suffix |-> 2]
      BY <1>1, <2>2 DEF Begin
    <3>2. job'.name = q
      BY <3>1
    <3>3. job' # NoJob
      BY <3>1 DEF NoJobIsNone
    <3> QED
      BY <1>1, <1>2, <3>2, <3>3
  <2> QED
    BY <2>1, <2>2
<1>7. InOrder'
  <2> HIDE DEF q
  <2> QED
    BY <1>5, <1>6 DEF InOrder, FirstOf
<1>8. Known' /\ Mirrored' /\ FirstFree(tools, toWire)' /\ FirstFree(tools, earlier)' /\ WireNamesStable'
  BY <1>1 DEF Deterministic, Known, Mirrored, WireNamesStable
<1> QED
  BY <1>1, <1>4, <1>7, <1>8 DEF Deterministic

\* Once the tools are registered, whatever is mentioned is none of them.
LEMMA MentionDeterministic ==
    ASSUME NoJobIsNone, NEW q \in Names
    PROVE  Typed /\ Deterministic /\ Mention(q) => Deterministic'
<1> SUFFICES ASSUME Typed, Deterministic, Mention(q) PROVE Deterministic'
  OBVIOUS
<1>1. /\ UNCHANGED <<tools, declared, toWire, fromWire, earlier>> /\ job = NoJob
      /\ declared = Len(tools) /\ q \notin DOMAIN toWire /\ Begin(q)
  BY DEF Mention
<1>2. FirstOf(tools, declared) \subseteq DOMAIN toWire /\ FirstOf(tools, declared) = All(tools)
  BY <1>1 DEF Deterministic, InOrder, FirstOf, All
<1>3. Trying'
  BY <1>1, <1>2, BeginTries
<1>4. FirstOf(tools', declared') \subseteq DOMAIN toWire /\ ~(declared' < Len(tools'))
  BY <1>1, <1>2 DEF Typed, ToolsTyped
<1>5. InOrder'
  BY <1>1, <1>2, <1>4 DEF InOrder, FirstOf
<1>6. Known' /\ Mirrored' /\ FirstFree(tools, toWire)' /\ FirstFree(tools, earlier)' /\ WireNamesStable'
  BY <1>1 DEF Deterministic, Known, Mirrored, WireNamesStable
<1> QED
  BY <1>1, <1>3, <1>5, <1>6 DEF Deterministic

LEMMA ProbeDeterministic ==
    ASSUME NoJobIsNone
    PROVE  Typed /\ Deterministic /\ Probe => Deterministic'
<1> SUFFICES ASSUME Typed, Deterministic, Probe PROVE Deterministic'
  OBVIOUS
<1> DEFINE n == job.name
           k == job.suffix
           v == job.wire
           w == Suffixed(Sanitized(n), k)
<1>1. /\ UNCHANGED <<tools, declared, toWire, fromWire, earlier>> /\ job # NoJob
      /\ Taken(v, n) /\ job' = [job EXCEPT !.wire = w, !.suffix = k + 1]
  BY DEF Probe
<1>2. /\ k \in Nat /\ k >= 2 /\ v = Try(n, k - 1)
      /\ job = [name |-> n, wire |-> v, suffix |-> k]
      /\ n \in All(tools) => DOMAIN toWire = Before(tools, n)
      /\ \A m \in 1 .. (k - 2) : Taken(Try(n, m), n)
  BY <1>1 DEF Deterministic, Trying
<1>3. w = Try(n, k)
  BY <1>2 DEF Try
<1> HIDE DEF w, v, k, n
<1>4. job' = [name |-> n, wire |-> w, suffix |-> k + 1]
  BY <1>1, <1>2
<1>5. job'.name = n /\ job'.wire = w /\ job'.suffix = k + 1
  BY <1>4
<1>6. job' # NoJob
  BY <1>4 DEF NoJobIsNone
<1>7. ASSUME NEW m \in 1 .. ((k + 1) - 2) PROVE Taken(Try(n, m), n)
  <2>1. CASE m = k - 1
    BY <1>1, <1>2, <2>1
  <2>2. CASE m # k - 1
    <3>1. m \in 1 .. (k - 2)
      BY <1>2, <2>2
    <3> QED
      BY <1>2, <3>1
  <2> QED
    BY <2>1, <2>2
<1>8. Trying'
  <2>1. (k + 1) - 1 = k /\ k + 1 \in Nat /\ k + 1 >= 2
    BY <1>2
  <2>2. job'.wire = Try(job'.name, job'.suffix - 1)
    BY <1>3, <1>5, <2>1
  <2>3. \A m \in 1 .. (job'.suffix - 2) :
          Try(job'.name, m) \in DOMAIN fromWire' /\ fromWire'[Try(job'.name, m)] # job'.name
    BY <1>1, <1>5, <1>7 DEF Taken
  <2>4. job'.name \in All(tools') => DOMAIN toWire' = Before(tools', n)
    BY <1>1, <1>2, <1>5
  <2>5. job' = [name |-> job'.name, wire |-> job'.wire, suffix |-> job'.suffix]
    BY <1>4, <1>5
  <2> QED
    BY <1>5, <2>1, <2>2, <2>3, <2>4, <2>5 DEF Trying, Taken
<1>9. InOrder'
  BY <1>1, <1>5, <1>6 DEF n, Deterministic, InOrder, FirstOf
<1>10. Known' /\ Mirrored' /\ FirstFree(tools, toWire)' /\ FirstFree(tools, earlier)' /\ WireNamesStable'
  BY <1>1 DEF Deterministic, Known, Mirrored, WireNamesStable
<1> QED
  BY <1>1, <1>8, <1>9, <1>10 DEF Deterministic

\* The first free name is unique, given what the tools before it have.
LEMMA SameName ==
    ASSUME NEW q, NEW f, NEW g,
           \A p \in Before(tools, q) : f[p] = g[p],
           \A p \in Before(tools, q) : f[p] # f[q],
           \A p \in Before(tools, q) : g[p] # g[q],
           NEW k \in Nat \ {0}, f[q] = Try(q, k),
           \A m \in 1 .. (k - 1) : \E p \in Before(tools, q) : f[p] = Try(q, m),
           NEW l \in Nat \ {0}, g[q] = Try(q, l),
           \A m \in 1 .. (l - 1) : \E p \in Before(tools, q) : g[p] = Try(q, m)
    PROVE  f[q] = g[q]
<1>1. CASE k < l
  <2>1. k \in 1 .. (l - 1)
    BY <1>1
  <2>2. PICK p \in Before(tools, q) : g[p] = Try(q, k)
    BY <2>1
  <2> QED
    BY <2>2
<1>2. CASE l < k
  <2>1. l \in 1 .. (k - 1)
    BY <1>2
  <2>2. PICK p \in Before(tools, q) : f[p] = Try(q, l)
    BY <2>1
  <2> QED
    BY <2>2
<1>3. CASE k = l
  BY <1>3
<1> QED
  BY <1>1, <1>2, <1>3

LEMMA CommitDeterministic == Typed /\ Deterministic /\ Commit => Deterministic'
<1> SUFFICES ASSUME Typed, Deterministic, Commit PROVE Deterministic'
  OBVIOUS
<1> DEFINE q == job.name
           w == job.wire
           k == job.suffix - 1
<1>1. /\ UNCHANGED <<tools, declared, earlier>> /\ job # NoJob /\ job' = NoJob /\ ~Taken(w, q)
      /\ toWire' = Put(toWire, q, w) /\ fromWire' = Put(fromWire, w, q)
  BY DEF Commit
<1>2. /\ DOMAIN toWire' = DOMAIN toWire \cup {q} /\ toWire'[q] = w
      /\ \A p \in DOMAIN toWire : p # q => toWire'[p] = toWire[p]
      /\ DOMAIN fromWire' = DOMAIN fromWire \cup {w} /\ fromWire'[w] = q
      /\ \A x \in DOMAIN fromWire : x # w => fromWire'[x] = fromWire[x]
  BY <1>1 DEF Put
<1>3. q \notin DOMAIN toWire
  BY <1>1 DEF Typed, TypeOK
<1>4. /\ k \in Nat \ {0} /\ w = Try(q, k) /\ k - 1 = job.suffix - 2
      /\ q \in All(tools) => DOMAIN toWire = Before(tools, q)
      /\ \A m \in 1 .. (job.suffix - 2) : Taken(Try(q, m), q)
  BY <1>1 DEF Deterministic, Trying
<1>5. Known'
  BY CommitKnown DEF Deterministic
<1>6. Mirrored'
  <2> SUFFICES ASSUME NEW x \in DOMAIN fromWire'
               PROVE  fromWire'[x] \in DOMAIN toWire' /\ toWire'[fromWire'[x]] = x
    BY DEF Mirrored
  <2> HIDE DEF q, w, k
  <2>1. CASE x = w
    BY <1>2, <2>1
  <2>2. CASE x # w
    <3>1. x \in DOMAIN fromWire /\ fromWire'[x] = fromWire[x]
      BY <1>2, <2>2
    <3>2. fromWire[x] \in DOMAIN toWire /\ toWire[fromWire[x]] = x
      BY <3>1 DEF Deterministic, Mirrored
    <3> QED
      BY <1>2, <1>3, <3>1, <3>2
  <2> QED
    BY <2>1, <2>2
<1>7. InOrder' /\ Trying'
  BY <1>1, <1>2 DEF Deterministic, InOrder, Trying
<1>8. ASSUME q \in All(tools)
      PROVE  /\ DOMAIN toWire = Before(tools, q)
             /\ \A p \in Before(tools, q) : toWire'[p] = toWire[p] /\ toWire'[p] # w
             /\ \A m \in 1 .. (k - 1) : \E p \in Before(tools, q) : toWire'[p] = Try(q, m)
  <2> HIDE DEF q, w
  <2>1. DOMAIN toWire = Before(tools, q)
    BY <1>4, <1>8
  <2>2. ASSUME NEW p \in Before(tools, q) PROVE toWire'[p] = toWire[p] /\ toWire'[p] # w
    <3>1. p # q /\ toWire'[p] = toWire[p]
      BY <1>2, <1>3, <2>1
    <3>2. toWire[p] \in DOMAIN fromWire /\ fromWire[toWire[p]] = p
      BY <2>1 DEF Deterministic, Known
    <3> QED
      BY <1>1, <3>1, <3>2 DEF Taken
  <2>3. ASSUME NEW m \in 1 .. (k - 1) PROVE \E p \in Before(tools, q) : toWire'[p] = Try(q, m)
    <3>1. Try(q, m) \in DOMAIN fromWire
      BY <1>4 DEF Taken
    <3>2. fromWire[Try(q, m)] \in Before(tools, q) /\ toWire[fromWire[Try(q, m)]] = Try(q, m)
      BY <2>1, <3>1 DEF Deterministic, Mirrored
    <3> QED
      BY <2>2, <3>2
  <2> QED
    BY <2>1, <2>2, <2>3
<1> HIDE DEF q, w, k
<1>9. FirstFree(tools, toWire')
  <2> SUFFICES ASSUME NEW p \in DOMAIN toWire' \cap All(tools)
               PROVE  /\ Before(tools, p) \subseteq DOMAIN toWire'
                      /\ \A x \in Before(tools, p) : toWire'[x] # toWire'[p]
                      /\ \E j \in Nat \ {0} :
                            /\ toWire'[p] = Try(p, j)
                            /\ \A m \in 1 .. (j - 1) :
                                  \E x \in Before(tools, p) : toWire'[x] = Try(p, m)
    BY DEF FirstFree
  <2>1. CASE p = q
    BY <1>2, <1>4, <1>8, <2>1
  <2>2. CASE p # q
    <3>1. p \in DOMAIN toWire \cap All(tools) /\ toWire'[p] = toWire[p]
      BY <1>2, <2>2
    <3>2. /\ Before(tools, p) \subseteq DOMAIN toWire
          /\ \A x \in Before(tools, p) : toWire[x] # toWire[p]
          /\ \E j \in Nat \ {0} :
                /\ toWire[p] = Try(p, j)
                /\ \A m \in 1 .. (j - 1) : \E x \in Before(tools, p) : toWire[x] = Try(p, m)
      BY <3>1 DEF Deterministic, FirstFree
    <3>3. \A x \in Before(tools, p) : toWire'[x] = toWire[x]
      BY <1>2, <1>3, <3>2
    <3> QED
      BY <1>2, <3>1, <3>2, <3>3
  <2> QED
    BY <2>1, <2>2
<1>10. WireNamesStable'
  <2> SUFFICES ASSUME NEW p \in DOMAIN earlier \cap DOMAIN toWire'
               PROVE  earlier[p] = toWire'[p]
    BY <1>1 DEF WireNamesStable
  <2>1. CASE p # q
    BY <1>2, <2>1 DEF Deterministic, WireNamesStable
  <2>2. CASE p = q
    <3>1. q \in DOMAIN earlier \cap All(tools)
      BY <2>2 DEF Deterministic
    <3>2. /\ Before(tools, q) \subseteq DOMAIN earlier
          /\ \A x \in Before(tools, q) : earlier[x] # earlier[q]
          /\ \E j \in Nat \ {0} :
                /\ earlier[q] = Try(q, j)
                /\ \A m \in 1 .. (j - 1) : \E x \in Before(tools, q) : earlier[x] = Try(q, m)
      BY <3>1 DEF Deterministic, FirstFree
    <3>3. \A x \in Before(tools, q) : earlier[x] = toWire'[x] /\ toWire'[x] # toWire'[q]
      BY <1>2, <1>8, <3>1, <3>2 DEF Deterministic, WireNamesStable
    <3> QED
      BY <1>2, <1>4, <1>8, <2>2, <3>1, <3>2, <3>3, SameName
  <2> QED
    BY <2>1, <2>2
<1> QED
  BY <1>1, <1>5, <1>6, <1>7, <1>9, <1>10 DEF Deterministic

LEMMA NextRequestDeterministic == Typed /\ Deterministic /\ NextRequest => Deterministic'
<1> SUFFICES ASSUME Typed, Deterministic, NextRequest PROVE Deterministic'
  OBVIOUS
<1>1. /\ job = NoJob /\ declared = Len(tools) /\ declared' = 0 /\ UNCHANGED <<tools, job>>
      /\ DOMAIN toWire' = {} /\ DOMAIN fromWire' = {}
      /\ earlier' = [q \in DOMAIN toWire \cap All(tools) |-> toWire[q]]
  BY NoNames DEF NextRequest, All, FirstOf
<1>2. Known' /\ Mirrored' /\ Trying' /\ FirstFree(tools, toWire') /\ WireNamesStable'
  BY <1>1 DEF Known, Mirrored, Trying, FirstFree, WireNamesStable
<1>3. InOrder'
  <2>1. FirstOf(tools, 0) = {}
    BY DEF FirstOf
  <2> QED
    BY <1>1, <2>1 DEF InOrder
<1>4. FirstFree(tools, earlier')
  <2> SUFFICES ASSUME NEW p \in DOMAIN toWire \cap All(tools)
               PROVE  /\ Before(tools, p) \subseteq DOMAIN earlier'
                      /\ \A x \in Before(tools, p) : earlier'[x] # earlier'[p]
                      /\ \E j \in Nat \ {0} :
                            /\ earlier'[p] = Try(p, j)
                            /\ \A m \in 1 .. (j - 1) :
                                  \E x \in Before(tools, p) : earlier'[x] = Try(p, m)
    BY <1>1 DEF FirstFree
  <2>1. /\ Before(tools, p) \subseteq DOMAIN toWire
        /\ \A x \in Before(tools, p) : toWire[x] # toWire[p]
        /\ \E j \in Nat \ {0} :
              /\ toWire[p] = Try(p, j)
              /\ \A m \in 1 .. (j - 1) : \E x \in Before(tools, p) : toWire[x] = Try(p, m)
    BY DEF Deterministic, FirstFree
  <2>2. Before(tools, p) \subseteq All(tools)
    BY BeforeIsOther
  <2>3. \A x \in Before(tools, p) \cup {p} : earlier'[x] = toWire[x]
    BY <1>1, <2>1, <2>2
  <2> QED
    BY <1>1, <2>1, <2>2, <2>3
<1>5. DOMAIN earlier' \subseteq All(tools)
  BY <1>1
<1> QED
  BY <1>1, <1>2, <1>3, <1>4, <1>5 DEF Deterministic

LEMMA InitDeterministic == Init => Deterministic
<1> SUFFICES ASSUME Init PROVE Deterministic
  OBVIOUS
<1>1. DOMAIN toWire = {} /\ DOMAIN fromWire = {} /\ DOMAIN earlier = {} /\ job = NoJob
  BY NoNames DEF Init
<1>2. FirstOf(tools, declared) = {}
  BY DEF Init, FirstOf
<1> QED
  BY <1>1, <1>2 DEF Deterministic, Known, Mirrored, InOrder, Trying, FirstFree, WireNamesStable

LEMMA NextDeterministic ==
    ASSUME NoJobIsNone
    PROVE  Typed /\ Deterministic /\ [Next]_vars => Deterministic'
<1> SUFFICES ASSUME Typed, Deterministic, [Next]_vars PROVE Deterministic'
  OBVIOUS
<1>1. CASE UNCHANGED vars
  BY <1>1 DEF vars, Deterministic, Known, Mirrored, InOrder, Trying, Taken, WireNamesStable
<1> QED
  BY <1>1, DeclareDeterministic, MentionDeterministic, ProbeDeterministic,
     CommitDeterministic, NextRequestDeterministic DEF Next, Register

\* The turns of a run give a declared tool the same wire name, whatever names
\* the messages in between mention (ToolNameCodec.__init__ registers the tools
\* before to_wire meets the history): for any sanitiser and any suffixes.
THEOREM NamesStayTheSame ==
    ASSUME NoJobIsNone
    PROVE  Spec => []WireNamesStable
<1>1. Deterministic => WireNamesStable
  BY DEF Deterministic
<1> QED
  BY <1>1, InitDeterministic, NextDeterministic, InitTyped, NextTyped, PTL DEF Spec

-----------------------------------------------------------------------------
(* What a printed number is *)

\* Induction over the numbers, in terms of sets.
Less == {ss \in Nat \X Nat : ss[1] < ss[2]}
LEMMA LessIsWellFounded == IsWellFoundedOn(Less, Nat)
  BY NatLessThanWellFounded, Zenon DEF OpToRel, Less

LEMMA AllNumbers ==
    ASSUME NEW S, \A n \in Nat : (\A m \in 0 .. (n - 1) : m \in S) => n \in S
    PROVE  \A n \in Nat : n \in S
<1> SUFFICES ASSUME NEW n \in Nat, n \notin S PROVE FALSE
  OBVIOUS
<1> DEFINE T == Nat \ S
<1>1. T \subseteq Nat /\ T # {}
  OBVIOUS
<1> HIDE DEF T
<1>2. PICK x \in T : \A y \in T : ~(<<y, x>> \in Less)
  BY <1>1, WFMin, LessIsWellFounded
<1>3. x \in Nat /\ x \notin S
  BY DEF T
<1>4. \A m \in 0 .. (x - 1) : m \in Nat /\ m < x
  BY <1>3
<1>5. \A m \in 0 .. (x - 1) : m \in S
  BY <1>2, <1>3, <1>4 DEF Less, T
<1> QED
  BY <1>3, <1>5

Rest(n) == n \div Radix
Unit(n) == n % Radix

LEMMA RadixCases == Radix \in {2, 3, 4, 5, 6, 7, 8, 9, 10}
  BY CodecAssumption

LEMMA Division ==
    /\ \A n \in Nat : Unit(n) \in 0 .. (Radix - 1) /\ Rest(n) \in Nat
    /\ \A n \in Nat : n >= Radix => Rest(n) \in 1 .. (n - 1)
    /\ \A m, n \in Nat : m <= n => Rest(m) <= Rest(n)
    /\ \A m, n \in Nat : Rest(m) = Rest(n) /\ Unit(m) = Unit(n) => m = n
<1>1. CASE Radix = 2
  BY <1>1 DEF Rest, Unit
<1>2. CASE Radix = 3
  BY <1>2 DEF Rest, Unit
<1>3. CASE Radix = 4
  BY <1>3 DEF Rest, Unit
<1>4. CASE Radix = 5
  BY <1>4 DEF Rest, Unit
<1>5. CASE Radix = 6
  BY <1>5 DEF Rest, Unit
<1>6. CASE Radix = 7
  BY <1>6 DEF Rest, Unit
<1>7. CASE Radix = 8
  BY <1>7 DEF Rest, Unit
<1>8. CASE Radix = 9
  BY <1>8 DEF Rest, Unit
<1>9. CASE Radix = 10
  BY <1>9 DEF Rest, Unit
<1> QED
  BY RadixCases, <1>1, <1>2, <1>3, <1>4, <1>5, <1>6, <1>7, <1>8, <1>9

\* What f, which prints smaller numbers, makes of n.
Step(f, n) == IF n < Radix THEN <<Digit[n + 1]>> ELSE f[Rest(n)] \o <<Digit[Unit(n) + 1]>>
Prints(f, n) == f = [k \in 0 .. n |-> f[k]] /\ \A k \in 0 .. n : f[k] = Step(f, k)

LEMMA StepAgrees ==
    ASSUME NEW f, NEW g, NEW n \in Nat, n >= Radix => f[Rest(n)] = g[Rest(n)]
    PROVE  Step(f, n) = Step(g, n)
  BY CodecAssumption DEF Step

LEMMA PrintsAgree ==
    ASSUME NEW f, NEW g, NEW a \in Nat, NEW b \in Nat, Prints(f, a), Prints(g, b)
    PROVE  \A k \in Nat : k <= a /\ k <= b => f[k] = g[k]
<1> DEFINE S == {k \in Nat : k <= a /\ k <= b => f[k] = g[k]}
<1>1. ASSUME NEW n \in Nat, \A m \in 0 .. (n - 1) : m \in S, n <= a, n <= b
      PROVE  f[n] = g[n]
  <2>1. n >= Radix => Rest(n) \in 0 .. (n - 1) /\ Rest(n) \in S /\ Rest(n) <= n
    <3> DEFINE r == Rest(n)
    <3>1. n >= Radix => r \in 1 .. (n - 1)
      BY Division
    <3> HIDE DEF r, S
    <3>2. n >= Radix => r \in 0 .. (n - 1) /\ r <= n
      BY <3>1
    <3>3. n >= Radix => r \in S
      BY <1>1, <3>2
    <3> QED
      BY <3>2, <3>3 DEF r
  <2>2. n >= Radix => f[Rest(n)] = g[Rest(n)]
    <3>1. n >= Radix => Rest(n) <= a /\ Rest(n) <= b
      BY <1>1, <2>1
    <3> QED
      BY <2>1, <3>1
  <2>3. f[n] = Step(f, n) /\ g[n] = Step(g, n)
    <3>1. n \in 0 .. a /\ n \in 0 .. b
      BY <1>1
    <3>2. (\A k \in 0 .. a : f[k] = Step(f, k)) /\ \A k \in 0 .. b : g[k] = Step(g, k)
      BY Zenon DEF Prints
    <3> QED
      BY <3>1, <3>2
  <2> QED
    BY <2>2, <2>3, StepAgrees
<1>2. \A n \in Nat : (\A m \in 0 .. (n - 1) : m \in S) => n \in S
  BY <1>1
<1>3. \A n \in Nat : n \in S
  <2> HIDE DEF S
  <2> QED
    BY <1>2, AllNumbers
<1> QED
  BY <1>3

LEMMA SomethingPrints == \A n \in Nat : \E f : Prints(f, n)
<1> DEFINE S == {n \in Nat : \E f : Prints(f, n)}
<1>1. ASSUME NEW n \in Nat, \A m \in 0 .. (n - 1) : m \in S
      PROVE  \E f : Prints(f, n)
  <2>1. \E f : n > 0 => Prints(f, n - 1)
    <3>1. CASE n = 0
      BY <3>1
    <3>2. CASE n > 0
      <4> DEFINE p == n - 1
      <4>1. p \in 0 .. (n - 1)
        BY <3>2
      <4>2. p \in S
        BY <1>1, <4>1
      <4> QED
        BY <4>2
    <3> QED
      BY <3>1, <3>2
  <2>2. PICK f : n > 0 => Prints(f, n - 1)
    BY <2>1
  <2> DEFINE g == [k \in 0 .. n |-> IF k < n THEN f[k] ELSE Step(f, n)]
  <2>3. \A k \in 0 .. n : g[k] = IF k < n THEN f[k] ELSE Step(f, n)
    OBVIOUS
  <2>4. g = [k \in 0 .. n |-> g[k]]
    OBVIOUS
  <2> HIDE DEF g
  <2>5. ASSUME NEW k \in 0 .. n PROVE g[k] = Step(g, k)
    <3>1. k >= Radix => g[Rest(k)] = f[Rest(k)]
      <4>1. k >= Radix => Rest(k) \in 0 .. n /\ Rest(k) < n
        <5>1. k >= Radix => Rest(k) \in 1 .. (k - 1)
          BY Division
        <5> QED
          BY <5>1
      <4> QED
        BY <2>3, <4>1
    <3>2. Step(g, k) = Step(f, k)
      BY <3>1, StepAgrees
    <3>3. CASE k < n
      <4>1. Prints(f, n - 1) /\ k \in 0 .. (n - 1)
        BY <2>2, <3>3
      <4> QED
        BY <2>3, <3>2, <3>3, <4>1 DEF Prints
    <3>4. CASE k = n
      BY <2>3, <3>2, <3>4
    <3> QED
      BY <3>3, <3>4
  <2> QED
    BY <2>4, <2>5 DEF Prints
<1>2. \A n \in Nat : (\A m \in 0 .. (n - 1) : m \in S) => n \in S
  BY <1>1
<1>3. \A n \in Nat : n \in S
  <2> HIDE DEF S
  <2> QED
    BY <1>2, AllNumbers
<1> QED
  BY <1>3

\* The recursion has a solution, so Printed is one.
LEMMA PrintedIs == \A n \in Nat : Printed[n] = Step(Printed, n)
<1> DEFINE Printer(n) == CHOOSE f : Prints(f, n)
           F == [n \in Nat |-> Printer(n)[n]]
<1>1. \A n \in Nat : Prints(Printer(n), n)
  BY SomethingPrints
<1> HIDE DEF Printer
<1>2. ASSUME NEW n \in Nat PROVE F[n] = Step(F, n)
  <2>1. F[n] = Printer(n)[n]
    OBVIOUS
  <2>2. Printer(n)[n] = Step(Printer(n), n)
    <3>1. n \in 0 .. n
      OBVIOUS
    <3> QED
      BY <1>1, <3>1 DEF Prints
  <2>3. n >= Radix => F[Rest(n)] = Printer(n)[Rest(n)]
    <3>1. n >= Radix => Rest(n) \in Nat /\ Rest(n) <= n
      BY Division
    <3>2. n >= Radix => F[Rest(n)] = Printer(Rest(n))[Rest(n)]
      BY <3>1
    <3>3. n >= Radix => Printer(Rest(n))[Rest(n)] = Printer(n)[Rest(n)]
      <4> SUFFICES ASSUME n >= Radix PROVE Printer(Rest(n))[Rest(n)] = Printer(n)[Rest(n)]
        OBVIOUS
      <4> DEFINE r == Rest(n)
      <4>1. r \in Nat /\ r <= n /\ r <= r
        BY <3>1
      <4> HIDE DEF r, F
      <4>2. Prints(Printer(r), r) /\ Prints(Printer(n), n)
        BY <1>1, <4>1
      <4>3. Printer(r)[r] = Printer(n)[r]
        BY <4>1, <4>2, PrintsAgree
      <4> QED
        BY <4>3 DEF r
    <3> QED
      BY <3>2, <3>3
  <2> HIDE DEF F
  <2> QED
    BY <2>1, <2>2, <2>3, StepAgrees
<1>3. F = [n \in Nat |-> Step(F, n)]
  <2>1. F = [n \in Nat |-> F[n]]
    OBVIOUS
  <2> HIDE DEF F
  <2> QED
    BY <1>2, <2>1
<1> HIDE DEF F
<1>4. F = [n \in Nat |-> IF n < Radix THEN <<Digit[n + 1]>>
                         ELSE F[n \div Radix] \o <<Digit[(n % Radix) + 1]>>]
  BY <1>3 DEF Step, Rest, Unit
<1>5. Printed = [n \in Nat |-> IF n < Radix THEN <<Digit[n + 1]>>
                               ELSE Printed[n \div Radix] \o <<Digit[(n % Radix) + 1]>>]
  BY <1>4 DEF Printed
<1> QED
  BY <1>5 DEF Step, Rest, Unit

Digits == {Digit[i] : i \in 1 .. Radix}

LEMMA DigitsDiffer ==
    /\ \A i, j \in 1 .. Radix : Digit[i] = Digit[j] => i = j
    /\ "_" \notin Digits /\ Digits \subseteq LegalChars
<1>1. \A i, j \in 1 .. 10 : Digit[i] = Digit[j] => i = j
  BY DEF Digit
<1>2. ASSUME NEW i \in 1 .. 10 PROVE Digit[i] # "_"
  <2>1. i \in {1, 2, 3, 4, 5, 6, 7, 8, 9, 10}
    OBVIOUS
  <2>2. Digit[i] \in {"0", "1", "2", "3", "4", "5", "6", "7", "8", "9"}
    BY <2>1 DEF Digit
  <2> QED
    BY <2>2
<1>3. \A i \in 1 .. Radix : i \in 1 .. 10
  BY CodecAssumption
<1> QED
  BY <1>1, <1>2, <1>3, AlphabetAssumption DEF Digits

LEMMA OneMore ==
    ASSUME NEW T, NEW s \in Seq(T), NEW d \in T
    PROVE  /\ s \o <<d>> \in Seq(T) /\ Len(s) \in Nat /\ Len(s \o <<d>>) = Len(s) + 1
           /\ (s \o <<d>>)[Len(s) + 1] = d
           /\ \A i \in 1 .. Len(s) : (s \o <<d>>)[i] = s[i]
  OBVIOUS

LEMMA SameButOne ==
    ASSUME NEW T, NEW s \in Seq(T), NEW t \in Seq(T), NEW d \in T, NEW e \in T, s \o <<d>> = t \o <<e>>
    PROVE  s = t /\ d = e
<1>1. Len(s) = Len(t) /\ d = e
  BY OneMore
<1>2. \A i \in 1 .. Len(s) : s[i] = t[i]
  BY <1>1, OneMore
<1> QED
  BY <1>1, <1>2

LEMMA UnitIsDigit ==
    ASSUME NEW n \in Nat
    PROVE  Unit(n) \in Int /\ Unit(n) + 1 \in 1 .. Radix
<1> DEFINE u == Unit(n)
<1>1. u \in 0 .. (Radix - 1)
  BY Division
<1> HIDE DEF u
<1>2. u \in Int /\ u + 1 \in 1 .. Radix
  BY <1>1, CodecAssumption
<1> QED
  BY <1>2 DEF u

\* A number is printed with one digit, or as the number without its last digit
\* and that digit.
LEMMA PrintedBy ==
    ASSUME NEW n \in Nat
    PROVE  /\ n < Radix => Printed[n] = <<Digit[n + 1]>> /\ Digit[n + 1] \in Digits
           /\ n >= Radix => /\ Printed[n] = Printed[Rest(n)] \o <<Digit[Unit(n) + 1]>>
                            /\ Rest(n) \in 1 .. (n - 1)
                            /\ Digit[Unit(n) + 1] \in Digits
<1>1. Printed[n] = Step(Printed, n)
  BY PrintedIs
<1>2. n < Radix => n + 1 \in 1 .. Radix
  BY CodecAssumption
<1>3. Unit(n) + 1 \in 1 .. Radix
  BY UnitIsDigit
<1>4. n >= Radix => Rest(n) \in 1 .. (n - 1)
  BY Division
<1>5. Printed[n] = IF n < Radix THEN <<Digit[n + 1]>> ELSE Printed[Rest(n)] \o <<Digit[Unit(n) + 1]>>
  BY <1>1 DEF Step
<1>6. (n < Radix => Printed[n] = <<Digit[n + 1]>>)
      /\ (n >= Radix => Printed[n] = Printed[Rest(n)] \o <<Digit[Unit(n) + 1]>>)
  BY <1>5, CodecAssumption
<1> QED
  BY <1>2, <1>3, <1>4, <1>6 DEF Digits

LEMMA PrintedInDigits == \A n \in Nat : Printed[n] \in Seq(Digits) /\ Len(Printed[n]) \in Nat \ {0}
<1> DEFINE S == {n \in Nat : Printed[n] \in Seq(Digits) /\ Len(Printed[n]) \in Nat \ {0}}
<1>1. ASSUME NEW n \in Nat, \A m \in 0 .. (n - 1) : m \in S
      PROVE  n \in S
  <2>1. CASE n < Radix
    <3> DEFINE d == Digit[n + 1]
    <3>1. Printed[n] = <<d>> /\ d \in Digits
      BY <2>1, PrintedBy
    <3> HIDE DEF d
    <3>2. <<d>> \in Seq(Digits) /\ Len(<<d>>) = 1
      BY <3>1
    <3>3. Printed[n] \in Seq(Digits) /\ Len(Printed[n]) = 1
      BY <3>1, <3>2
    <3>4. Len(Printed[n]) \in Nat \ {0}
      BY <3>3
    <3> QED
      BY <3>3, <3>4
  <2>2. CASE n >= Radix
    <3> DEFINE r == Rest(n)
               d == Digit[Unit(n) + 1]
    <3>1. Printed[n] = Printed[r] \o <<d>> /\ d \in Digits /\ r \in 1 .. (n - 1)
      BY <2>2, PrintedBy
    <3> HIDE DEF r, d
    <3>2. Printed[r] \in Seq(Digits)
      BY <1>1, <3>1
    <3>3. Printed[n] \in Seq(Digits) /\ Len(Printed[n]) = Len(Printed[r]) + 1 /\ Len(Printed[r]) \in Nat
      BY <3>1, <3>2, OneMore
    <3>4. Len(Printed[n]) \in Nat \ {0}
      BY <3>3
    <3> QED
      BY <3>3, <3>4
  <2> QED
    BY <2>1, <2>2, CodecAssumption
<1>2. \A n \in Nat : n \in S
  <2> HIDE DEF S
  <2> QED
    BY <1>1, AllNumbers
<1> QED
  BY <1>2

\* A larger number is not shorter, and no two numbers are printed alike.
LEMMA LargerIsLonger == \A m, n \in Nat : m <= n => Len(Printed[m]) <= Len(Printed[n])
<1> DEFINE S == {n \in Nat : \A m \in Nat : m <= n => Len(Printed[m]) <= Len(Printed[n])}
<1>1. ASSUME NEW n \in Nat, \A k \in 0 .. (n - 1) : k \in S, NEW m \in Nat, m <= n
      PROVE  Len(Printed[m]) <= Len(Printed[n])
  <2>1. Len(Printed[m]) \in Nat \ {0} /\ Len(Printed[n]) \in Nat \ {0}
    BY PrintedInDigits
  <2>2. CASE m < Radix
    <3>1. Printed[m] = <<Digit[m + 1]>>
      BY <2>2, PrintedBy
    <3>2. Len(Printed[m]) = 1
      BY <3>1
    <3> QED
      BY <2>1, <3>2
  <2>3. CASE m >= Radix
    <3> DEFINE r == Rest(m)
               q == Rest(n)
               d == Digit[Unit(m) + 1]
               e == Digit[Unit(n) + 1]
    <3>1. n >= Radix
      BY <1>1, <2>3, CodecAssumption
    <3>2. Printed[m] = Printed[r] \o <<d>> /\ d \in Digits /\ r \in 1 .. (m - 1)
      BY <2>3, PrintedBy
    <3>3. Printed[n] = Printed[q] \o <<e>> /\ e \in Digits /\ q \in 1 .. (n - 1)
      BY <3>1, PrintedBy
    <3>4. r <= q
      BY <1>1, Division
    <3> HIDE DEF r, q, d, e
    <3>5. r \in Nat /\ q \in Nat /\ Len(Printed[r]) <= Len(Printed[q])
      <4>1. q \in 0 .. (n - 1) /\ r \in Nat
        BY <3>2, <3>3
      <4>2. q \in S
        BY <1>1, <4>1
      <4> QED
        BY <3>4, <4>1, <4>2
    <3>6. Len(Printed[m]) = Len(Printed[r]) + 1 /\ Len(Printed[r]) \in Nat
      BY <3>2, <3>5, PrintedInDigits, OneMore
    <3>7. Len(Printed[n]) = Len(Printed[q]) + 1 /\ Len(Printed[q]) \in Nat
      BY <3>3, <3>5, PrintedInDigits, OneMore
    <3> QED
      BY <3>5, <3>6, <3>7
  <2> QED
    BY <2>2, <2>3, CodecAssumption
<1>2. \A n \in Nat : (\A k \in 0 .. (n - 1) : k \in S) => n \in S
  BY <1>1
<1>3. \A n \in Nat : n \in S
  <2> HIDE DEF S
  <2> QED
    BY <1>2, AllNumbers
<1> QED
  BY <1>3

LEMMA PrintedDiffer == \A m, n \in Nat : Printed[m] = Printed[n] => m = n
<1> DEFINE S == {n \in Nat : \A m \in Nat : Printed[m] = Printed[n] => m = n}
<1>1. ASSUME NEW n \in Nat, \A k \in 0 .. (n - 1) : k \in S, NEW m \in Nat, Printed[m] = Printed[n]
      PROVE  m = n
  <2>1. ASSUME NEW k \in Nat, k < Radix
        PROVE  Len(Printed[k]) = 1 /\ Printed[k][1] = Digit[k + 1] /\ k + 1 \in 1 .. Radix
    <3>1. Printed[k] = <<Digit[k + 1]>>
      BY <2>1, PrintedBy
    <3>2. k + 1 \in 1 .. Radix
      BY <2>1, CodecAssumption
    <3> QED
      BY <3>1, <3>2
  <2>2. ASSUME NEW k \in Nat, k >= Radix PROVE Len(Printed[k]) > 1
    <3> DEFINE r == Rest(k)
               d == Digit[Unit(k) + 1]
    <3>1. Printed[k] = Printed[r] \o <<d>> /\ d \in Digits /\ r \in 1 .. (k - 1)
      BY <2>2, PrintedBy
    <3> HIDE DEF r, d
    <3>2. Printed[r] \in Seq(Digits) /\ Len(Printed[r]) \in Nat \ {0}
      BY <3>1, PrintedInDigits
    <3>3. Len(Printed[k]) = Len(Printed[r]) + 1
      BY <3>1, <3>2, OneMore
    <3> QED
      BY <3>2, <3>3
  <2>3. CASE m < Radix /\ n < Radix
    <3>1. Digit[m + 1] = Digit[n + 1] /\ m + 1 \in 1 .. Radix /\ n + 1 \in 1 .. Radix
      BY <1>1, <2>1, <2>3
    <3> DEFINE a == m + 1
               b == n + 1
    <3>2. Digit[a] = Digit[b] /\ a \in 1 .. Radix /\ b \in 1 .. Radix
      BY <3>1
    <3> HIDE DEF a, b
    <3>3. a = b
      BY <3>2, DigitsDiffer
    <3> QED
      BY <3>3 DEF a, b
  <2>4. CASE m >= Radix /\ n >= Radix
    <3> DEFINE r == Rest(m)
               q == Rest(n)
               d == Digit[Unit(m) + 1]
               e == Digit[Unit(n) + 1]
    <3>1. Printed[m] = Printed[r] \o <<d>> /\ d \in Digits /\ r \in 1 .. (m - 1)
      BY <2>4, PrintedBy
    <3>2. Printed[n] = Printed[q] \o <<e>> /\ e \in Digits /\ q \in 1 .. (n - 1)
      BY <2>4, PrintedBy
    <3> HIDE DEF r, q, d, e
    <3>3. Printed[r] \in Seq(Digits) /\ Printed[q] \in Seq(Digits)
      BY <3>1, <3>2, PrintedInDigits
    <3>4. Printed[r] = Printed[q] /\ d = e
      <4>1. Printed[r] \o <<d>> = Printed[q] \o <<e>>
        BY <1>1, <3>1, <3>2
      <4> DEFINE s == Printed[r]
                 t == Printed[q]
      <4>2. s \in Seq(Digits) /\ t \in Seq(Digits) /\ s \o <<d>> = t \o <<e>> /\ d \in Digits /\ e \in Digits
        BY <3>1, <3>2, <3>3, <4>1
      <4> HIDE DEF s, t
      <4>3. s = t /\ d = e
        BY ONLY <4>2, SameButOne
      <4> QED
        BY <4>3 DEF s, t
    <3>5. r = q
      <4>1. q \in 0 .. (n - 1) /\ r \in Nat
        BY <3>1, <3>2
      <4>2. q \in S
        BY <1>1, <4>1
      <4> QED
        BY <3>4, <4>1, <4>2
    <3>6. Unit(m) = Unit(n)
      <4> DEFINE a == Unit(m) + 1
                 b == Unit(n) + 1
      <4>1. a \in 1 .. Radix /\ b \in 1 .. Radix
        BY UnitIsDigit
      <4>2. Digit[a] = Digit[b]
        BY <3>4 DEF d, e
      <4> HIDE DEF a, b
      <4>3. a = b
        BY <4>1, <4>2, DigitsDiffer
      <4>4. Unit(m) \in Int /\ Unit(n) \in Int /\ Unit(m) + 1 = Unit(n) + 1
        BY <4>3, UnitIsDigit DEF a, b
      <4> QED
        BY <4>4
    <3>7. Rest(m) = Rest(n)
      BY <3>5 DEF r, q
    <3> QED
      BY <3>6, <3>7, Division
  <2>5. ASSUME NEW a \in Nat, NEW b \in Nat, Printed[a] = Printed[b], a < Radix, b >= Radix
        PROVE  FALSE
    <3>1. Len(Printed[a]) = 1
      BY <2>1, <2>5
    <3>2. Len(Printed[b]) > 1 /\ Len(Printed[b]) \in Nat
      BY <2>2, <2>5, PrintedInDigits
    <3> QED
      BY <2>5, <3>1, <3>2
  <2>6. (m < Radix \/ m >= Radix) /\ (n < Radix \/ n >= Radix)
    BY CodecAssumption
  <2> QED
    BY <1>1, <2>3, <2>4, <2>5, <2>6
<1>2. \A n \in Nat : (\A k \in 0 .. (n - 1) : k \in S) => n \in S
  BY <1>1
<1>3. \A n \in Nat : n \in S
  <2> HIDE DEF S
  <2> QED
    BY <1>2, AllNumbers
<1> QED
  BY <1>3

-----------------------------------------------------------------------------
(* Wire names are legal *)

LEMMA CutIs ==
    ASSUME NEW T, NEW s \in Seq(T), NEW n \in Nat
    PROVE  /\ Cut(s, n) \in Seq(T) /\ Len(Cut(s, n)) \in Nat
           /\ Len(Cut(s, n)) = IF n < Len(s) THEN n ELSE Len(s)
<1> DEFINE m == IF n < Len(s) THEN n ELSE Len(s)
           c == SubSeq(s, 1, m)
<1>1. Len(s) \in Nat /\ m \in 0 .. Len(s)
  OBVIOUS
<1>2. Cut(s, n) = c
  BY DEF Cut
<1> HIDE DEF m
<1>3. c \in Seq(T) /\ Len(c) = m
  BY <1>1
<1> HIDE DEF c
<1> QED
  BY <1>1, <1>2, <1>3 DEF m

LEMMA FunctionIsSequence ==
    ASSUME NEW T, NEW n \in Nat, NEW s \in [1 .. n -> T]
    PROVE  s \in Seq(T) /\ Len(s) = n
  OBVIOUS

\* A wire name that provider APIs accept.
IsLegal(w) == w \in Seq(LegalChars) /\ Len(w) \in 1 .. MaxLen

LEMMA SanitizedIsLegal ==
    ASSUME NEW q \in Names
    PROVE  IsLegal(Sanitized(q))
<1> DEFINE n == Len(q)
           s == [i \in 1 .. n |-> IF q[i] \in LegalChars THEN q[i] ELSE "_"]
<1>1. n \in Nat \ {0}
  BY CodecAssumption
<1>2. Sanitized(q) = Cut(s, MaxLen)
  BY DEF Sanitized
<1> HIDE DEF n
<1>3. s \in [1 .. n -> LegalChars]
  <2>1. "_" \in LegalChars
    BY AlphabetAssumption
  <2>2. \A i \in 1 .. n : (IF q[i] \in LegalChars THEN q[i] ELSE "_") \in LegalChars
    BY <2>1
  <2> QED
    BY <2>2
<1> HIDE DEF s
<1>4. s \in Seq(LegalChars) /\ Len(s) = n
  BY ONLY <1>1, <1>3, FunctionIsSequence
<1>5. MaxLen \in Nat \ {0}
  BY CodecAssumption
<1>6. Cut(s, MaxLen) \in Seq(LegalChars) /\ Len(Cut(s, MaxLen)) = IF MaxLen < n THEN MaxLen ELSE n
  BY <1>4, <1>5, CutIs
<1> QED
  BY <1>1, <1>2, <1>5, <1>6 DEF IsLegal

\* The end of a suffixed name is "_" and the printed number.
EndsIn(w, t) ==
    /\ Len(t) < Len(w)
    /\ w[Len(w) - Len(t)] = "_"
    /\ \A i \in 1 .. Len(t) : w[Len(w) - Len(t) + i] = t[i]

LEMMA Headed ==
    ASSUME NEW T, NEW t \in Seq(T), NEW u \in T
    PROVE  LET v == <<u>> \o t
           IN  /\ v \in Seq(T) /\ Len(v) = Len(t) + 1 /\ Len(t) \in Nat
               /\ v[1] = u /\ \A i \in 1 .. Len(t) : v[i + 1] = t[i]
  OBVIOUS

LEMMA Joined ==
    ASSUME NEW T, NEW s \in Seq(T), NEW t \in Seq(T), NEW u \in T,
           NEW n \in Nat, Len(s) + Len(t) + 1 <= n
    PROVE  LET w == s \o (<<u>> \o t)
           IN  /\ w \in Seq(T) /\ Len(w) \in 1 .. n /\ Len(t) < Len(w)
               /\ w[Len(w) - Len(t)] = u
               /\ \A i \in 1 .. Len(t) : w[Len(w) - Len(t) + i] = t[i]
<1> DEFINE v == <<u>> \o t
           w == s \o v
<1>1. /\ v \in Seq(T) /\ Len(v) = Len(t) + 1 /\ Len(t) \in Nat
      /\ v[1] = u /\ \A i \in 1 .. Len(t) : v[i + 1] = t[i]
  BY Headed
<1> HIDE DEF v
<1>0. v \in Seq(T)
  BY <1>1
<1>2. Len(s) \in Nat /\ w \in Seq(T) /\ Len(w) = Len(s) + Len(v)
  BY ONLY <1>0, s \in Seq(T)
<1>3. \A j \in 1 .. Len(v) : w[Len(s) + j] = v[j]
  BY ONLY <1>0, s \in Seq(T)
<1> HIDE DEF w
<1>4. Len(w) \in 1 .. n /\ Len(t) < Len(w) /\ Len(w) - Len(t) = Len(s) + 1
  BY <1>1, <1>2
<1>5. w[Len(s) + 1] = u
  <2>1. 1 \in 1 .. Len(v)
    BY <1>1
  <2> QED
    BY <1>1, <1>3, <2>1
<1>6. ASSUME NEW i \in 1 .. Len(t) PROVE w[Len(s) + 1 + i] = t[i]
  <2> DEFINE j == i + 1
  <2>1. j \in 1 .. Len(v) /\ Len(s) + j = Len(s) + 1 + i
    BY <1>1, <1>2
  <2>2. v[j] = t[i]
    BY <1>1
  <2> HIDE DEF j
  <2>3. w[Len(s) + j] = t[i]
    BY <1>3, <2>1, <2>2
  <2> QED
    BY <2>1, <2>3
<1> QED
  BY <1>2, <1>4, <1>5, <1>6 DEF w, v

LEMMA SuffixedIsLegal ==
    ASSUME NEW q \in Names, NEW k \in Nat, 1 + Len(Printed[k]) <= MaxLen
    PROVE  LET w == Suffixed(Sanitized(q), k) IN IsLegal(w) /\ EndsIn(w, Printed[k])
<1> DEFINE t == Printed[k]
           base == Sanitized(q)
           u == "_"
           room == MaxLen - Len(<<u>> \o t)
           s == Cut(base, room)
           w == s \o (<<u>> \o t)
<1>1. t \in Seq(LegalChars) /\ Len(t) \in Nat \ {0}
  <2>1. t \in Seq(Digits) /\ Len(t) \in Nat \ {0}
    BY PrintedInDigits
  <2>2. Digits \subseteq LegalChars
    BY DigitsDiffer
  <2> HIDE DEF t
  <2> QED
    BY <2>1, <2>2
<1>2. base \in Seq(LegalChars) /\ u \in LegalChars
  BY SanitizedIsLegal, AlphabetAssumption DEF IsLegal
<1>3. Suffixed(base, k) = w /\ 1 + Len(t) <= MaxLen
  BY DEF Suffixed
<1>4. MaxLen \in Nat
  BY CodecAssumption
<1> HIDE DEF t, base, u
<1>5. Len(<<u>> \o t) = Len(t) + 1
  BY ONLY <1>1, <1>2, Headed
<1>6. room \in Nat /\ room + Len(t) + 1 = MaxLen
  BY <1>1, <1>3, <1>4, <1>5
<1> HIDE DEF room
<1>7. s \in Seq(LegalChars) /\ Len(s) \in Nat /\ Len(s) <= room
  <2>1. s \in Seq(LegalChars) /\ Len(s) \in Nat /\ Len(s) = IF room < Len(base) THEN room ELSE Len(base)
    BY ONLY <1>2, <1>6, CutIs
  <2>2. Len(base) \in Nat
    BY <1>2
  <2> HIDE DEF s
  <2> QED
    BY <1>6, <2>1, <2>2
<1> HIDE DEF s
<1>8. Len(s) + Len(t) + 1 <= MaxLen
  BY <1>1, <1>4, <1>6, <1>7
<1>9. /\ w \in Seq(LegalChars) /\ Len(w) \in 1 .. MaxLen /\ Len(t) < Len(w)
      /\ w[Len(w) - Len(t)] = u
      /\ \A i \in 1 .. Len(t) : w[Len(w) - Len(t) + i] = t[i]
  <2>1. t \in Seq(LegalChars) /\ s \in Seq(LegalChars)
    BY <1>1, <1>7
  <2> QED
    BY ONLY <1>2, <1>4, <1>8, <2>1, Joined
<1> HIDE DEF w
<1>10. IsLegal(w) /\ EndsIn(w, t)
  BY <1>9 DEF IsLegal, EndsIn, u
<1> QED
  BY <1>3, <1>10 DEF base, t

\* The end of a suffixed name tells which number it has.
LEMMA EndsTell ==
    ASSUME NEW w, Len(w) \in Nat, NEW s \in Seq(Digits), NEW t \in Seq(Digits), EndsIn(w, s), EndsIn(w, t)
    PROVE  s = t
<1>1. Len(s) \in Nat /\ Len(t) \in Nat
  OBVIOUS
<1>2. ASSUME NEW a \in Seq(Digits), NEW b \in Seq(Digits), EndsIn(w, a), EndsIn(w, b), Len(a) < Len(b)
      PROVE  FALSE
  <2> DEFINE i == Len(b) - Len(a)
  <2>1. Len(a) \in Nat /\ Len(b) \in Nat
    OBVIOUS
  <2>2. i \in 1 .. Len(b) /\ Len(w) - Len(b) + i = Len(w) - Len(a)
    BY <1>2, <2>1
  <2> HIDE DEF i
  <2>3. w[Len(w) - Len(a)] = b[i]
    BY <1>2, <2>2 DEF EndsIn
  <2>4. w[Len(w) - Len(a)] = "_"
    BY <1>2 DEF EndsIn
  <2>5. b[i] \in Digits
    BY <2>1, <2>2
  <2> QED
    BY <2>3, <2>4, <2>5, DigitsDiffer
<1>3. Len(s) = Len(t)
  BY <1>1, <1>2
<1>4. \A i \in 1 .. Len(s) : s[i] = t[i]
  BY <1>3 DEF EndsIn
<1> QED
  BY <1>1, <1>3, <1>4

\* The suffixes a name may have to try: as many as there are names.
Enough == Cardinality(Names) + 1

LEMMA EnoughFits ==
    /\ Cardinality(Names) \in Nat /\ Enough \in Nat
    /\ \A k \in Nat : k <= Enough => 1 + Len(Printed[k]) <= MaxLen
<1>1. Cardinality(Names) \in Nat
  BY NamesAssumption, FS_CardinalityType
<1>2. Enough \in Nat
  BY <1>1 DEF Enough
<1>3. 1 + Len(Printed[Enough]) <= MaxLen
  BY NamesAssumption DEF Enough
<1> HIDE DEF Enough
<1>4. ASSUME NEW k \in Nat, k <= Enough PROVE 1 + Len(Printed[k]) <= MaxLen
  <2>1. Len(Printed[k]) <= Len(Printed[Enough])
    BY <1>2, <1>4, LargerIsLonger
  <2>2. Len(Printed[k]) \in Nat /\ Len(Printed[Enough]) \in Nat /\ MaxLen \in Nat
    BY <1>2, PrintedInDigits, CodecAssumption
  <2> QED
    BY <1>3, <2>1, <2>2
<1> QED
  BY <1>1, <1>2, <1>4

LEMMA TriesDiffer ==
    ASSUME NEW q \in Names, NEW k \in 2 .. Enough, NEW m \in 2 .. Enough, Try(q, k) = Try(q, m)
    PROVE  k = m
<1>1. k \in Nat /\ m \in Nat /\ k # 1 /\ m # 1 /\ k <= Enough /\ m <= Enough
  BY EnoughFits
<1>2. 1 + Len(Printed[k]) <= MaxLen /\ 1 + Len(Printed[m]) <= MaxLen
  BY <1>1, EnoughFits
<1> DEFINE w == Suffixed(Sanitized(q), k)
           v == Suffixed(Sanitized(q), m)
<1>3. w = v
  BY <1>1 DEF Try
<1>4. IsLegal(w) /\ EndsIn(w, Printed[k]) /\ EndsIn(v, Printed[m])
  BY <1>1, <1>2, SuffixedIsLegal
<1> HIDE DEF w, v
<1>5. Len(w) \in Nat
  BY <1>4 DEF IsLegal
<1>6. Printed[k] = Printed[m]
  BY <1>1, <1>3, <1>4, <1>5, PrintedInDigits, EndsTell
<1> QED
  BY <1>1, <1>6, PrintedDiffer

LEMMA TryIsLegal ==
    ASSUME NEW q \in Names, NEW k \in 1 .. Enough
    PROVE  IsLegal(Try(q, k))
<1>1. k \in Nat /\ k <= Enough
  BY EnoughFits
<1>2. CASE k = 1
  BY <1>2, SanitizedIsLegal DEF Try
<1>3. CASE k # 1
  BY <1>1, <1>3, EnoughFits, SuffixedIsLegal DEF Try
<1> QED
  BY <1>2, <1>3

-----------------------------------------------------------------------------
\* A registration under way tries no more suffixes than there are names: all
\* that it tried before, each another one, were taken by other names.
LEMMA FewTries ==
    ASSUME Typed, Deterministic, job # NoJob
    PROVE  job.suffix - 1 \in 1 .. Enough
<1> DEFINE n == job.name
           s == job.suffix
           N == Cardinality(Names)
           T == Names \ {n}
           f == [m \in 2 .. Enough |-> fromWire[Try(n, m)]]
<1>1. s \in Nat /\ s >= 2 /\ \A m \in 1 .. (s - 2) : Taken(Try(n, m), n)
  BY DEF Deterministic, Trying
<1>2. n \in Names /\ DOMAIN toWire \subseteq Names
  BY DEF Typed, TypeOK
<1>3. N \in Nat /\ Enough \in Nat /\ Enough = N + 1
  BY EnoughFits DEF Enough
<1> SUFFICES ASSUME s - 2 >= Enough PROVE FALSE
  BY <1>1, <1>3
<1> HIDE DEF n, s
<1>4. ASSUME NEW m \in 2 .. Enough
      PROVE  Try(n, m) \in DOMAIN fromWire /\ fromWire[Try(n, m)] \in T /\ toWire[fromWire[Try(n, m)]] = Try(n, m)
  <2>1. m \in 1 .. (s - 2)
    BY <1>1, <1>3
  <2>2. Taken(Try(n, m), n)
    BY <1>1, <2>1
  <2> DEFINE w == Try(n, m)
  <2>3. w \in DOMAIN fromWire /\ fromWire[w] # n
    BY <2>2 DEF Taken
  <2> HIDE DEF w
  <2>4. fromWire[w] \in DOMAIN toWire /\ toWire[fromWire[w]] = w
    <3>1. Mirrored
      BY Zenon DEF Deterministic
    <3> QED
      BY <2>3, <3>1, Zenon DEF Mirrored
  <2> QED
    BY <1>2, <2>3, <2>4 DEF w
<1>5. f \in [2 .. Enough -> T] /\ \A m \in 2 .. Enough : f[m] = fromWire[Try(n, m)]
  BY <1>4
<1>6. IsFiniteSet(T) /\ Cardinality(T) = N - 1
  BY <1>2, NamesAssumption, FS_RemoveElement
<1> HIDE DEF f, T, N
<1>7. IsFiniteSet(2 .. Enough) /\ Cardinality(2 .. Enough) = N
  <2> DEFINE e == Enough
  <2>1. e \in Int /\ 2 \in Int /\ (IF 2 > e THEN 0 ELSE e - 2 + 1) = N
    BY <1>3, <1>2, NamesAssumption
  <2> HIDE DEF e
  <2>2. IsFiniteSet(2 .. e) /\ Cardinality(2 .. e) = IF 2 > e THEN 0 ELSE e - 2 + 1
    BY ONLY <2>1, FS_Interval
  <2> QED
    BY <2>1, <2>2 DEF e
<1>8. \E k, m \in 2 .. Enough : k # m /\ f[k] = f[m]
  <2> DEFINE K == 2 .. Enough
  <2>1. f \in [K -> T] /\ IsFiniteSet(K) /\ Cardinality(T) < Cardinality(K)
    BY <1>3, <1>5, <1>6, <1>7
  <2> HIDE DEF K
  <2> QED
    BY <1>6, <2>1, FS_PigeonHole DEF K
<1>9. PICK k \in 2 .. Enough, m \in 2 .. Enough : k # m /\ f[k] = f[m]
  BY <1>8
<1>10. Try(n, k) = Try(n, m)
  BY <1>4, <1>5, <1>9
<1> QED
  BY <1>2, <1>9, <1>10, TriesDiffer

\* Every wire name is one of the names its registration may try.
FewTried == \A q \in DOMAIN toWire : \E k \in 1 .. Enough : toWire[q] = Try(q, k)

LEMMA NextFewTried == Typed /\ Deterministic /\ FewTried /\ [Next]_vars => FewTried'
<1> SUFFICES ASSUME Typed, Deterministic, FewTried, [Next]_vars PROVE FewTried'
  OBVIOUS
<1>1. CASE Commit
  <2> DEFINE n == job.name
             w == job.wire
             k == job.suffix - 1
  <2>1. job # NoJob /\ toWire' = Put(toWire, n, w)
    BY <1>1 DEF Commit
  <2>2. k \in 1 .. Enough
    BY <2>1, FewTries
  <2>3. w = Try(n, k)
    BY <2>1 DEF Deterministic, Trying
  <2> HIDE DEF n, w, k
  <2>4. ASSUME NEW q \in DOMAIN toWire' PROVE toWire'[q] = IF q = n THEN w ELSE toWire[q]
    BY <2>1, <2>4 DEF Put
  <2>5. \A q \in DOMAIN toWire' : q # n => q \in DOMAIN toWire
    BY <2>1 DEF Put
  <2> QED
    BY <2>2, <2>3, <2>4, <2>5 DEF FewTried
<1>2. CASE NextRequest
  <2>1. DOMAIN toWire' = {}
    BY <1>2, NoNames DEF NextRequest
  <2> QED
    BY <2>1 DEF FewTried
<1>3. CASE Declare \/ Probe \/ UNCHANGED vars
  BY <1>3 DEF Declare, Probe, vars, FewTried
<1>4. ASSUME NEW q \in Names, Mention(q) PROVE FewTried'
  BY <1>4 DEF Mention, FewTried
<1> QED
  BY <1>1, <1>2, <1>3, <1>4 DEF Next, Register

\* A registration meets a free name after at most as many suffixes as there are
\* names (the while loop of ToolNameCodec._register).
THEOREM RegistrationIsShort ==
    ASSUME NoJobIsNone
    PROVE  Spec => [](job # NoJob => job.suffix <= Cardinality(Names) + 2)
<1>1. Typed /\ Deterministic => (job # NoJob => job.suffix <= Cardinality(Names) + 2)
  <2> SUFFICES ASSUME Typed, Deterministic, job # NoJob
               PROVE  job.suffix <= Cardinality(Names) + 2
    OBVIOUS
  <2>1. job.suffix - 1 \in 1 .. Enough /\ job.suffix \in Nat
    BY FewTries DEF Deterministic, Trying
  <2>2. Cardinality(Names) \in Nat /\ Enough = Cardinality(Names) + 1
    BY EnoughFits DEF Enough
  <2> QED
    BY <2>1, <2>2
<1> QED
  BY <1>1, InitDeterministic, NextDeterministic, InitTyped, NextTyped, PTL DEF Spec

\* Every wire name is one a provider accepts: WireIsLegal, for any names and any
\* limit that leaves room for the suffixes so many names can need.
THEOREM ProvidersAcceptNames ==
    ASSUME NoJobIsNone
    PROVE  Spec => []WireIsLegal
<1>1. Init => FewTried
  BY NoNames DEF Init, FewTried
<1>2. Typed /\ FewTried => WireIsLegal
  <2> SUFFICES ASSUME Typed, FewTried, NEW q \in DOMAIN toWire
               PROVE  /\ Len(toWire[q]) \in 1 .. MaxLen
                      /\ \A i \in 1 .. Len(toWire[q]) : toWire[q][i] \in LegalChars
    BY DEF WireIsLegal
  <2>1. PICK k \in 1 .. Enough : toWire[q] = Try(q, k)
    BY DEF FewTried
  <2>2. q \in Names
    BY DEF Typed, TypeOK
  <2>3. IsLegal(toWire[q])
    BY <2>1, <2>2, TryIsLegal
  <2> QED
    BY <2>3 DEF IsLegal
<1> QED
  BY <1>1, <1>2, NextFewTried, InitDeterministic, NextDeterministic, InitTyped, NextTyped, PTL DEF Spec
=============================================================================
