--------------------------- MODULE MCMessageStream ---------------------------
(* Routes and faults for MessageStream. *)
EXTENDS MessageStream

BothRoutes == {"send", "stream"}

On(r, kinds) == [route : {r}, kind : kinds]

\* Every exception on message:send; on message:stream those after which the
\* client is told the outcome.
ReportedFaults ==
  On("send", {"prelude", "pattern", "other", "harvest"})
    \cup On("stream", {"prelude", "pattern"})

=============================================================================
