------------------------------- MODULE MC_Runner -------------------------------
(***************************************************************************)
(* An instance of the runner for TLC: two calls on one session,            *)
(* and a tree of four agents in which control cannot be handed back from   *)
(* one of the middle ones.                                                 *)
(***************************************************************************)
EXTENDS Runner

CONSTANTS n, v

KeyOf(scope) == [scope |-> scope, name |-> n]

OneApp == {<<0>>}
OneUser == {<<10>>}
OneSid == {<<20>>}

\* root -> gate -> leaf, and root -> peer; nothing passes up through gate.
ChainParent == [a \in Agents |->
    CASE a = "root" -> NoAgent
      [] a = "gate" -> "root"
      [] a = "leaf" -> "gate"
      [] a = "peer" -> "root"]

AllTags == Tag

NoStates == {}

OneWrite == {<<KeyOf("temp"), v>>}

\* No event; one; a chunk and then the finished event with the delta; the delta
\* first and another event after it.
AllShapes == {<<>>, <<"plain">>, <<"chunk", "carry">>, <<"carry", "plain">>}

=============================================================================
