----------------------------- MODULE MCAgentLoop -----------------------------
\* One run of simple or react on a small instance.
EXTENDS AgentLoop

\* Texts that are empty, too short to compare, equal, one the start of the
\* other, and different after the same start.
MCTexts == {<<>>, <<"a">>, <<"a", "b">>, <<"a", "b", "c">>, <<"a", "c">>}
==============================================================================
