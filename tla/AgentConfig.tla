----------------------------- MODULE AgentConfig -----------------------------
(***************************************************************************)
(* agentconfig.Build (agent/agentconfig/config.go): a tree of agents from  *)
(* a declarative configuration.  Two walks validate it, a recursive one    *)
(* creates the agents bottom-up, and a last one sets the parents.          *)
(*                                                                         *)
(* The nodes of a configuration are numbered in preorder; an agent is      *)
(* known by the number of the node it was made from.                       *)
(***************************************************************************)
EXTENDS Naturals, Integers, Sequences, FiniteSets

CONSTANTS
    NodeNames,   \* the names configurations use
    NoName,      \* the empty one
    Registry,    \* the names of the registered tools
    Configs,     \* bound: the configurations Build is called with
    NoNode       \* a nil agent

LLM == "llm_agent"
Workflows == {"sequential", "parallel", "loop"}

\* AgentConfig without its sub-agents, which are nodes of their own.
ConfigNode == [type: STRING, name: NodeNames \cup {NoName}, tools: SUBSET STRING, subs: Seq(Nat),
         max: Int, noParent: BOOLEAN, noPeers: BOOLEAN]

\* A tree in preorder: sub-agents come behind the agent they are of, and every node but
\* the first is a sub-agent once.
IsTree(c) ==
    /\ c # <<>>
    /\ \A n \in DOMAIN c : \A i \in DOMAIN c[n].subs : c[n].subs[i] \in (n + 1)..Len(c)
    /\ \A m \in DOMAIN c \ {1} : \E n \in DOMAIN c : \E i \in DOMAIN c[n].subs : c[n].subs[i] = m
    /\ \A n, k \in DOMAIN c : \A i \in DOMAIN c[n].subs, j \in DOMAIN c[k].subs :
          c[n].subs[i] = c[k].subs[j] => n = k /\ i = j

ASSUME ConfigAssumption ==
    /\ NoNode \notin Nat
    /\ \A c \in Configs : c \in Seq(ConfigNode) /\ IsTree(c)

\* The iterations of a loop whose configuration names none.
DefaultIterations == 10

VARIABLES
    cfg,     \* the configuration
    phase,   \* what Build is at, how it ended, or "none" without a call
    path,    \* the calls of buildNode: the nodes from the root to the current one
    agents   \* the agents created so far, by node

configVars == <<cfg, phase, path, agents>>

Nodes == DOMAIN cfg
SubNodes(n) == {cfg[n].subs[i] : i \in DOMAIN cfg[n].subs}
Current == path[Len(path)]

ConfigInit ==
    /\ cfg \in Configs
    /\ phase = "name"
    /\ path = <<>>
    /\ agents = <<>>

-----------------------------------------------------------------------------
(***************************************************************************)
(* The walks that validate                                                 *)
(***************************************************************************)

\* validateNoDuplicateNames
DuplicateNames == \E m, k \in Nodes : m # k /\ cfg[m].name = cfg[k].name

\* validateToolRefs
UnknownTools == \E n \in Nodes : ~(cfg[n].tools \subseteq Registry)

Check(from, bad, to) ==
    /\ phase = from
    /\ phase' = IF bad THEN "error" ELSE to
    /\ UNCHANGED <<cfg, path, agents>>

CheckName == Check("name", cfg[1].name = NoName, "duplicates")
CheckDuplicates == Check("duplicates", DuplicateNames, "tools")
CheckTools == Check("tools", UnknownTools, "enter")

-----------------------------------------------------------------------------
(***************************************************************************)
(* buildNode                                                               *)
(***************************************************************************)

Unbuilt(n) == {i \in DOMAIN cfg[n].subs : cfg[n].subs[i] \notin DOMAIN agents}

NextSub(n) == cfg[n].subs[CHOOSE i \in Unbuilt(n) : \A j \in Unbuilt(n) : i <= j]

\* The call of buildNode for a node, and the switch on its type.
Enter(n) ==
    /\ path' = Append(path, n)
    /\ phase' = IF cfg[n].type \in Workflows \cup {LLM} THEN "build" ELSE "error"
    /\ UNCHANGED <<cfg, agents>>

EnterRoot == phase = "enter" /\ Enter(1)

EnterSub ==
    /\ phase = "build"
    /\ Unbuilt(Current) # {}
    /\ Enter(NextSub(Current))

\* buildLoopAgent: a limit of zero is the default.
Iterations(node) == IF node.max = 0 THEN DefaultIterations ELSE node.max

\* The agent of a node.  The tools of a workflow agent are checked and dropped.
NewAgent(n) ==
    [name |-> cfg[n].name, kind |-> cfg[n].type, subs |-> cfg[n].subs,
     parent |-> NoNode,
     tools |-> IF cfg[n].type = LLM THEN cfg[n].tools ELSE {},
     max |-> IF cfg[n].type = "loop" THEN Iterations(cfg[n]) ELSE 0,
     noParent |-> cfg[n].noParent,
     noPeers |-> cfg[n].noPeers]

\* agent.New refuses the empty name; only an llm_agent is created by it.
Creatable(n) == cfg[n].type = LLM => cfg[n].name # NoName

\* buildLLMAgent, buildSequentialAgent, ..., after their sub-agents; an llm_agent
\* becomes the parent of its sub-agents at once.
Create ==
    /\ phase = "build"
    /\ Unbuilt(Current) = {}
    /\ IF Creatable(Current)
       THEN /\ agents' = [n \in DOMAIN agents \cup {Current} |->
                  IF n = Current THEN NewAgent(n)
                  ELSE IF cfg[Current].type = LLM /\ n \in SubNodes(Current)
                       THEN [agents[n] EXCEPT !.parent = Current]
                  ELSE agents[n]]
            /\ path' = SubSeq(path, 1, Len(path) - 1)
            /\ phase' = IF path' = <<>> THEN "wire" ELSE "build"
       ELSE phase' = "error" /\ UNCHANGED <<path, agents>>
    /\ UNCHANGED cfg

-----------------------------------------------------------------------------
(***************************************************************************)
(* The tree                                                                *)
(***************************************************************************)

\* Mutant: only the sub-agents of the root learn their parent.
WiredAtRoot(n) == IF n \in SubNodes(1) THEN 1 ELSE agents[n].parent

\* wireParents: the parent each agent has in the end.
Wired(n) ==
    IF n = 1 THEN agents[n].parent ELSE CHOOSE m \in Nodes : n \in SubNodes(m)

WireParents ==
    /\ phase = "wire"
    /\ agents' = [n \in DOMAIN agents |-> [agents[n] EXCEPT !.parent = Wired(n)]]
    /\ phase' = "built"
    /\ UNCHANGED <<cfg, path>>

\* Where the transfers of an agent of a built tree may go (ComputeTransferTargets).
MayTransfer(n) ==
    LET p == agents[n].parent
    IN SubNodes(n)
       \cup (IF p = NoNode \/ agents[n].noParent THEN {} ELSE {p})
       \cup (IF p = NoNode \/ agents[n].noPeers THEN {} ELSE SubNodes(p) \ {n})

ConfigNext ==
    \/ CheckName \/ CheckDuplicates \/ CheckTools
    \/ EnterRoot \/ EnterSub \/ Create
    \/ WireParents

-----------------------------------------------------------------------------
(***************************************************************************)
(* Properties                                                              *)
(***************************************************************************)

AgentType ==
    [name: NodeNames \cup {NoName}, kind: Workflows \cup {LLM}, subs: Seq(Nat),
     parent: Nat \cup {NoNode}, tools: SUBSET Registry, max: Int,
     noParent: BOOLEAN, noPeers: BOOLEAN]

Phases == {"none", "name", "duplicates", "tools", "enter", "build", "wire", "built", "error"}

\* The phase and the path fit together; agents are created after their sub-agents.
ConfigTypeOK ==
    /\ cfg \in Configs \/ phase = "none"
    /\ phase \in Phases
    /\ path \in Seq(Nodes)
    /\ DOMAIN agents \subseteq Nodes
    /\ \A n \in DOMAIN agents : agents[n] \in AgentType /\ SubNodes(n) \subseteq DOMAIN agents

\* Build answers with a tree for exactly the configurations that deserve one: names that
\* are unique and not empty where agents are found by them, tools that exist, types that
\* are known (config.go:66-76, 128-142).
BuildsTheWellFormed ==
    LET named == cfg[1].name # NoName
                 /\ \A n \in Nodes : cfg[n].type = LLM => cfg[n].name # NoName
        unique == Cardinality({cfg[n].name : n \in Nodes}) = Cardinality(Nodes)
        typed == \A n \in Nodes : cfg[n].type \in Workflows \cup {LLM}
        known == \A n \in Nodes : cfg[n].tools \subseteq Registry
    IN /\ phase = "built" => named /\ unique /\ typed /\ known
       /\ phase = "error" => ~(named /\ unique /\ typed /\ known)

\* In a built tree every agent can be reached from the root by going down and leads back
\* to it by going up, through workflow agents too; and a transfer out of an agent that
\* forbids those to its parent and its peers goes to its own sub-agents, whatever the
\* kind of the agent (config.go:172-188, 277-288).
TreeIsClosed ==
    phase = "built" =>
        /\ DOMAIN agents = Nodes
        /\ \A n \in Nodes : \A m \in SubNodes(n) : agents[m].parent = n
        /\ agents[1].parent = NoNode
        /\ \A n \in Nodes :
              cfg[n].noParent /\ cfg[n].noPeers => MayTransfer(n) = SubNodes(n)

\* A loop without a limit is built only from a configuration that names a negative one
\* (config.go:260-263).
LoopsAreLimited ==
    \A n \in DOMAIN agents :
        agents[n].kind = "loop" /\ cfg[n].max >= 0 => agents[n].max > 0

\* Only a configuration that deserves one gets a tree, and the tree is one in which transfer
\* and routing find their way; loops are limited unless a negative limit says otherwise
\* (config.go:66-288).
AgentsAreWellBuilt ==
    ConfigTypeOK /\ BuildsTheWellFormed /\ TreeIsClosed /\ LoopsAreLimited

\* "runs sub-agents in a loop up to max_iterations times" (config.go:8): every loop has a
\* limit.  Only a limit of zero is replaced, and a loop with a negative one runs for as long
\* as nobody ends it (config.go:260-265): this does not hold.
EveryLoopIsLimited ==
    \A n \in DOMAIN agents : agents[n].kind = "loop" => agents[n].max > 0

=============================================================================
