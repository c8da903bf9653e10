---------------------------- MODULE MC_RemoteAgent ----------------------------
(***************************************************************************)
(* Short streams for TLC.                                                  *)
(***************************************************************************)
EXTENDS RemoteAgent

\* An event without parts, an answer with a call, and one that begins with a thought.
FewBodies == {<<>>, <<"text", "call">>, <<"thought", "text">>}

=============================================================================
