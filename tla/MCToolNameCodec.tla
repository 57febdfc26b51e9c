--------------------------- MODULE MCToolNameCodec ---------------------------
(***************************************************************************)
(* A pool of tool names that get in each other's way: three that sanitise  *)
(* to "a_", one that looks like its first suffixed form ("a__2"), one that *)
(* looks like the second, cut one ("a_10" when digits are ternary), and    *)
(* one that is itself cut to "a__2".                                       *)
(***************************************************************************)
EXTENDS ToolNameCodec

Pool == {<<"a", ".">>, <<"a", ":">>, <<"a", "_">>,
         <<"a", "_", "_", "2">>, <<"a", "_", "1", "0">>,
         <<"a", ".", ".", "2", "b">>}

Accepted == {"a", "b", "_", "0", "1", "2"}
=============================================================================
