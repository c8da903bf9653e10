------------------------------ MODULE MC_Program ------------------------------
(***************************************************************************)
(* Two requests, one session, and a few configurations for TLC.            *)
(***************************************************************************)
EXTENDS Program, TLC

TheFlows == [c \in Calls |-> "root"]
TheSteps == [c \in Calls |-> 2]

Symmetry == Permutations(Requests)

\* The tools of the agent made in code; "math" is in both toolsets, "expert" is its own.
TheCodeTools == [f \in Flows |-> IF f = "root" THEN {"expert"} ELSE {}]
TheCodeToolsets == [f \in Flows |-> IF f = "root" THEN <<"first", "second">> ELSE <<>>]
TheOffers == [ts \in {"first", "second"} |->
    IF ts = "first" THEN {{"math"}} ELSE {{"math", "expert"}}]

\* The tool "expert" of the flow is declared by the name of another one, and "math" of the
\* second toolset not at all.
TheDeclarations == [t \in Tools |->
    IF t = Tool("expert", Own) THEN "math" ELSE IF t = Tool("math", "second") THEN "" ELSE t.name]

TheReplies == {<<>>, <<"chunk", "finished">>}

Post(to, session) == [path |-> to, post |-> TRUE, valid |-> TRUE, app |-> "any",
                        sid |-> session, flusher |-> TRUE]
PlainArrivals == {Post("run", "s")}
TheArrivals == {Post("run", "s"), Post("run_sse", "s"),
                [Post("run", "s") EXCEPT !.post = FALSE],
                [Post("run_sse", "s") EXCEPT !.valid = FALSE],
                [Post("run_sse", "s") EXCEPT !.flusher = FALSE]}

TheChildEvents == {<<"text", "quiet">>, <<"error", "text">>}

Node(type, name, tools, subs, max) ==
    [type |-> type, name |-> name, tools |-> tools, subs |-> subs, max |-> max,
     noParent |-> FALSE, noPeers |-> FALSE]
Closed(node) == [node EXCEPT !.noParent = TRUE, !.noPeers = TRUE]
Leaf(type, name) == Node(type, name, {}, <<>>, 0)

TheConfigs == {
    \* an agent with a tool, over a loop around a loop that may not be left
    <<Node(LLM, "a", {"math"}, <<2>>, 0), Node("loop", "b", {}, <<3, 4>>, 0),
      Closed(Node("loop", "c", {}, <<5>>, 2)), Leaf(LLM, "d"), Leaf(LLM, "e")>>,
    \* the same name in two branches
    <<Node("parallel", "a", {}, <<2, 4>>, 0), Node("sequential", "b", {}, <<3>>, 0),
      Leaf(LLM, "c"), Node("sequential", "d", {}, <<5>>, 0), Leaf(LLM, "c")>>,
    \* no name, below and at the root; an unknown tool, an unknown type
    <<Node("sequential", "a", {}, <<2>>, 0), Leaf(LLM, NoName)>>,
    <<Node("loop", NoName, {}, <<2>>, 0), Leaf(LLM, "b")>>,
    <<Node("sequential", "a", {"none"}, <<2>>, 0), Leaf(LLM, "b")>>,
    <<Node(LLM, "a", {}, <<2>>, 0), Leaf("custom", "b")>>,
    \* a workflow agent without a name
    <<Node(LLM, "a", {}, <<2>>, 0), Node("loop", NoName, {"math"}, <<>>, -1)>>}

=============================================================================
