---------------------------- MODULE ToolNameCodec ----------------------------
(***************************************************************************)
(* The tool names of a chat request on the wire                            *)
(* (providers/base.py: sanitize_tool_name, ToolNameCodec; used by every    *)
(* provider adapter).                                                      *)
(*                                                                         *)
(* MCP tools have dotted, qualified names; a provider accepts only letters,*)
(* digits, "_" and "-", and at most MaxLen of them (64 in the code).  Each *)
(* request builds a fresh codec: the adapter registers the request's tools *)
(* in order, then every name its message history mentions, on the fly, and *)
(* decodes the names of the answer with the same codec.  A name whose wire *)
(* form another name already took is tried again with the suffix _2, _3,   *)
(* ..., cut so that base and suffix fit together.                          *)
(*                                                                         *)
(* A name is a sequence of one-character strings, for the hazards are in   *)
(* how names are cut and joined.                                           *)
(***************************************************************************)
EXTENDS Integers, Sequences, FiniteSets

CONSTANTS Names,      \* qualified names a request may hold: a set of sequences
          LegalChars, \* the characters a provider accepts
          MaxLen,     \* _TOOL_NAME_MAX_LEN
          Radix,      \* of the printed suffix: 10 in the code
          MaxTools,   \* bound: tools a request declares
          NoJob       \* no registration is under way

ASSUME CodecAssumption ==
    /\ MaxLen \in Nat \ {0}
    /\ Radix \in 2 .. 10
    /\ MaxTools \in Nat
    /\ \A q \in Names : q \in Seq(STRING) /\ q # <<>>

VARIABLES tools,     \* request.tools, the same for every turn of a run
          declared,  \* how many of them this request's codec has registered
          toWire,    \* codec._to_wire
          fromWire,  \* codec._from_wire
          job,       \* the _register call under way: [name, wire, suffix]
          earlier    \* history variable: the last request's names of the tools

vars == <<tools, declared, toWire, fromWire, job, earlier>>

NoMap == [q \in {} |-> q]

\* d[x] = v
Put(d, x, v) == [y \in DOMAIN d \cup {x} |-> IF y = x THEN v ELSE d[y]]

-----------------------------------------------------------------------------
(* The names *)

Cut(s, n) == SubSeq(s, 1, IF n < Len(s) THEN n ELSE Len(s))

\* Every illegal character becomes "_", then the name is cut.
Sanitized(q) ==
    Cut([i \in 1 .. Len(q) |-> IF q[i] \in LegalChars THEN q[i] ELSE "_"], MaxLen)

Digit == <<"0", "1", "2", "3", "4", "5", "6", "7", "8", "9">>
ASSUME AlphabetAssumption == "_" \in LegalChars /\ \A i \in 1 .. Radix : Digit[i] \in LegalChars

Printed[n \in Nat] ==
    IF n < Radix THEN <<Digit[n + 1]>>
                 ELSE Printed[n \div Radix] \o <<Digit[(n % Radix) + 1]>>

\* There are fewer names than numbers that fit beside "_": in the code 64
\* characters hold every number below 10^63.
ASSUME NamesAssumption == IsFiniteSet(Names) /\ 1 + Len(Printed[Cardinality(Names) + 1]) <= MaxLen

\* Mutation: the suffix is appended to the uncut base.
SuffixedUncut(base, k) == base \o <<"_">> \o Printed[k]

\* What replaces a taken name: the base, cut to make room, and the suffix.
Suffixed(base, k) ==
    LET tail == <<"_">> \o Printed[k]
    IN  Cut(base, MaxLen - Len(tail)) \o tail

\* Mutation: a name takes its sanitised form whoever has it.
TakenNever(w, q) == FALSE

Taken(w, q) == w \in DOMAIN fromWire /\ fromWire[w] # q

\* A name the codec does not know is taken as it is.
FromWire(w) == IF w \in DOMAIN fromWire THEN fromWire[w] ELSE w

-----------------------------------------------------------------------------
(* A request *)

Init ==
    /\ tools \in UNION {[1 .. n -> Names] : n \in 0 .. MaxTools}
    /\ declared = 0
    /\ toWire = NoMap
    /\ fromWire = NoMap
    /\ job = NoJob
    /\ earlier = NoMap

\* A known name keeps what it has; any other starts with its sanitised form.
Begin(q) ==
    job' = IF q \in DOMAIN toWire
           THEN NoJob
           ELSE [name |-> q, wire |-> Sanitized(q), suffix |-> 2]

\* The constructor registers the request's tools, before anything else is named.
Declare ==
    /\ job = NoJob
    /\ declared < Len(tools)
    /\ Begin(tools[declared + 1])
    /\ declared' = declared + 1
    /\ UNCHANGED <<tools, toWire, fromWire, earlier>>

\* Mutation: the history is serialised while tools are still being registered.
MentionEarly(q) ==
    /\ job = NoJob
    /\ q \notin DOMAIN toWire
    /\ Begin(q)
    /\ UNCHANGED <<tools, declared, toWire, fromWire, earlier>>

\* A message of the history names a tool call or a tool result.
Mention(q) ==
    /\ job = NoJob
    /\ declared = Len(tools)
    /\ q \notin DOMAIN toWire
    /\ Begin(q)
    /\ UNCHANGED <<tools, declared, toWire, fromWire, earlier>>

\* Mutation: the loop tries the same suffix again.
ProbeSame ==
    /\ job # NoJob
    /\ Taken(job.wire, job.name)
    /\ job' = [job EXCEPT !.wire = Suffixed(Sanitized(job.name), job.suffix)]
    /\ UNCHANGED <<tools, declared, toWire, fromWire, earlier>>

\* The wire name is another tool's: try the next suffix.
Probe ==
    /\ job # NoJob
    /\ Taken(job.wire, job.name)
    /\ job' = [job EXCEPT !.wire = Suffixed(Sanitized(job.name), job.suffix),
                          !.suffix = @ + 1]
    /\ UNCHANGED <<tools, declared, toWire, fromWire, earlier>>

Commit ==
    /\ job # NoJob
    /\ ~Taken(job.wire, job.name)
    /\ toWire' = Put(toWire, job.name, job.wire)
    /\ fromWire' = Put(fromWire, job.wire, job.name)
    /\ job' = NoJob
    /\ UNCHANGED <<tools, declared, earlier>>

\* The request is answered; the run's next request has the same tools, a longer
\* history and a codec of its own.
NextRequest ==
    /\ job = NoJob
    /\ declared = Len(tools)
    /\ earlier' = [q \in (DOMAIN toWire) \cap {tools[i] : i \in 1 .. Len(tools)}
                      |-> toWire[q]]
    /\ declared' = 0
    /\ toWire' = NoMap
    /\ fromWire' = NoMap
    /\ UNCHANGED <<tools, job>>

Register == Declare \/ (\E q \in Names : Mention(q)) \/ Probe \/ Commit

Next == Register \/ NextRequest

Spec == Init /\ [][Next]_vars

\* _register is an ordinary loop: nothing but its own condition holds it up.
FairSpec == Spec /\ WF_vars(Probe) /\ WF_vars(Commit)

-----------------------------------------------------------------------------
(* What a codec promises *)

\* What the variables hold.  Every wire name that is taken is taken by a name that
\* is registered, and only unregistered names are ever being registered.
TypeOK ==
    /\ declared \in 0 .. Len(tools)
    /\ DOMAIN toWire \subseteq Names
    /\ \A w \in DOMAIN fromWire : fromWire[w] \in DOMAIN toWire
    /\ job # NoJob => /\ job.name \in Names \ DOMAIN toWire
                      /\ job.suffix \in Nat

\* An answer that uses the wire name of a tool reaches that tool: no later
\* registration of the same request, from the tool list or from the history, takes
\* a wire name away from the name that has it, so the tool the model was shown is
\* the tool the agent dispatches, and asks consent for.
RoundTrip == \A q \in DOMAIN toWire : FromWire(toWire[q]) = q

\* A provider accepts every name that goes out: the suffix of a collision is put
\* on a base that was cut to leave room for it.
WireIsLegal ==
    \A q \in DOMAIN toWire :
        /\ Len(toWire[q]) \in 1 .. MaxLen
        /\ \A i \in 1 .. Len(toWire[q]) : toWire[q][i] \in LegalChars

\* The turns of a run show the model the same wire name for the same declared
\* tool, whatever the history in between mentions: history names come after the
\* tools and cannot push a declared tool to another suffix.
WireNamesStable ==
    \A q \in (DOMAIN earlier) \cap (DOMAIN toWire) : earlier[q] = toWire[q]

\* Every registration finds a free wire name, also when suffixed names collide
\* with names that look suffixed and when the cut makes different bases equal.
RegistrationEnds == (job # NoJob) ~> (job = NoJob)

=============================================================================
