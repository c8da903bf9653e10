----------------------------- MODULE MC_AgentTree -----------------------------
(***************************************************************************)
(* Small trees of agents for TLC.                                          *)
(***************************************************************************)
EXTENDS AgentTree

Quiet == [events |-> <<>>, endsContext |-> FALSE]
Says(to, signals, endsContext) ==
    [events |-> <<[transfer |-> to, signals |-> signals]>>,
     endsContext |-> endsContext]

PlainMove == Says(NoAgent, {}, FALSE)

\* A custom agent that says nothing, says something, hands over to clerk or to an
\* agent that is not in the tree, or ends its context.
FlowMoves == {Quiet, Says(NoAgent, {}, TRUE)}
             \cup {Says(to, {}, FALSE) : to \in {NoAgent, "clerk", "stranger"}}
EscalateMoves == {PlainMove, Says(NoAgent, {"escalates"}, FALSE)}

-----------------------------------------------------------------------------
\* Under home, a desk that hands over to billing and support, flows that know each
\* other and desk; a sequence, outer, of inner and last, where inner is flow and step;
\* and a fan of a loop, a flow and a pair side by side.  flow may hand over to clerk, a
\* flow, and courier, a custom agent.
HomeKind == [g \in Agents |->
    CASE g \in {"home", "outer", "inner", "pair"} -> "sequential"
      [] g = "fan" -> "parallel"
      [] g = "again" -> "loop"
      [] g \in {"courier", "step", "fix", "one", "two"} -> "custom"
      [] OTHER -> "llm"]
HomeSubs == [g \in Agents |->
    CASE g = "home" -> <<"desk", "outer", "fan">>
      [] g = "desk" -> <<"billing", "support">>
      [] g = "outer" -> <<"inner", "last">>
      [] g = "inner" -> <<"flow", "step">>
      [] g = "flow" -> <<"clerk", "courier">>
      [] g = "fan" -> <<"again", "chat", "pair">>
      [] g = "again" -> <<"fix">>
      [] g = "pair" -> <<"one", "two">>
      [] OTHER -> <<>>]
HomeParent == [g \in Agents |->
    CASE g \in {"billing", "support"} -> "desk"
      [] g \in {"clerk", "courier"} -> "flow"
      [] OTHER -> NoAgent]
HomeMoves == [g \in Agents |->
    CASE g \in {"courier", "step"} -> FlowMoves
      [] g = "fix" -> EscalateMoves
      [] OTHER -> {PlainMove}]

=============================================================================
