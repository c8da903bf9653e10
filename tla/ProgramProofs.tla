---------------------------- MODULE ProgramProofs ----------------------------
(***************************************************************************)
(* Proofs about Program and the modules it is made of: the configuration   *)
(* that is built, the tools that concurrent calls resolve, the sandbox of  *)
(* an agent tool, and what the server answers and keeps.                   *)
(*                                                                         *)
(* Each part has an invariant of its own.  ConfigInv says what each walk   *)
(* over the configuration leaves to the next; ToolsInv follows the map of  *)
(* the one call that resolved a flow; HandlersInv, SandboxInv and          *)
(* KeepingInv say what a handler knows at each statement, who writes to    *)
(* which service, and what is in the histories of each request.            *)
(***************************************************************************)
EXTENDS Program, WellFoundedInduction, FiniteSetTheorems, SequenceTheorems, TLAPS

(***************************************************************************)
(* The configuration: what a walk has found when the next one begins.      *)
(***************************************************************************)

Kinds == Workflows \cup {LLM}

\* The agent n is what its node says, and is created after its sub-agents.
MadeOf(n) ==
    /\ agents[n] \in AgentType
    /\ agents[n].kind = cfg[n].type
    /\ agents[n].noParent = cfg[n].noParent /\ agents[n].noPeers = cfg[n].noPeers
    /\ cfg[n].type = "loop" => agents[n].max = Iterations(cfg[n])
    /\ Creatable(n)
    /\ SubNodes(n) \subseteq DOMAIN agents

Deserving ==
    /\ cfg[1].name # NoName /\ ~DuplicateNames /\ ~UnknownTools
    /\ \A n \in Nodes : cfg[n].type \in Kinds /\ Creatable(n)

ConfigInv ==
    /\ phase \in Phases
    /\ phase = "none" => cfg = <<>> /\ agents = <<>>
    /\ phase # "none" => cfg \in Configs
    /\ path \in Seq(Nodes) /\ DOMAIN agents \subseteq Nodes
    /\ \A n \in DOMAIN agents : MadeOf(n)
    /\ phase \in {"duplicates", "tools", "enter", "build", "wire", "built"} => cfg[1].name # NoName
    /\ phase \in {"tools", "enter", "build", "wire", "built"} => ~DuplicateNames
    /\ phase \in {"enter", "build", "wire", "built"} => ~UnknownTools
    /\ phase \in {"name", "duplicates", "tools", "enter"} => path = <<>>
    /\ phase = "build" =>
          path # <<>> /\ path[1] = 1 /\ \A i \in DOMAIN path : cfg[path[i]].type \in Kinds
    /\ phase \in {"wire", "built"} => 1 \in DOMAIN agents
    /\ 1 \in DOMAIN agents => agents[1].parent = NoNode
    /\ phase = "built" => \A n \in Nodes : \A m \in SubNodes(n) : agents[m].parent = n
    /\ phase = "error" => ~Deserving

\* A set of numbers that is not empty has a least one.
LEMMA LeastOf ==
    ASSUME NEW S, S \subseteq Nat, S # {} PROVE \E i \in S : \A j \in S : i <= j
<1> DEFINE less == {ss \in Nat \X Nat : ss[1] < ss[2]}
<1>1. IsWellFoundedOn(less, Nat)
    BY NatLessThanWellFounded, Zenon DEF OpToRel
<1>2. PICK i \in S : \A j \in S : <<j, i>> \notin less
    <2> HIDE DEF less
    <2> QED
        BY <1>1, WFMin, Zenon
<1>3. \A j \in S : i <= j
    <2> SUFFICES ASSUME NEW j \in S PROVE i <= j
        OBVIOUS
    <2>1. i \in Nat /\ j \in Nat /\ <<j, i>> \notin less
        BY <1>2
    <2>2. ~(j < i)
        BY <2>1
    <2> QED
        BY <2>1, <2>2
<1> QED
    BY <1>3

\* What is known of a configuration: its nodes are a tree.
LEMMA TreeOfNodes ==
    ASSUME cfg \in Configs
    PROVE  /\ Len(cfg) \in Nat /\ Nodes = 1..Len(cfg) /\ 1 \in Nodes
           /\ \A n \in Nodes : /\ cfg[n] \in ConfigNode /\ SubNodes(n) \subseteq Nodes
                               /\ \A m \in SubNodes(n) : n < m
           /\ \A m \in Nodes \ {1} : \E n \in Nodes : m \in SubNodes(n)
           /\ \A n, k \in Nodes : \A m \in SubNodes(n) : m \in SubNodes(k) => n = k
<1>1. cfg \in Seq(ConfigNode) /\ IsTree(cfg)
    BY ConfigAssumption
<1>2. Len(cfg) \in Nat /\ Nodes = 1..Len(cfg) /\ 1 \in Nodes
    BY <1>1 DEF Nodes, IsTree
<1>3. ASSUME NEW n \in Nodes
      PROVE  cfg[n] \in ConfigNode /\ SubNodes(n) \subseteq Nodes /\ \A m \in SubNodes(n) : n < m
    <2>1. cfg[n] \in ConfigNode
        BY <1>1 DEF Nodes
    <2>2. ASSUME NEW m \in SubNodes(n) PROVE m \in (n + 1)..Len(cfg)
        BY <1>1 DEF IsTree, Nodes, SubNodes
    <2> QED
        BY <1>2, <2>1, <2>2
<1>4. \A m \in Nodes \ {1} : \E n \in Nodes : m \in SubNodes(n)
    BY <1>1 DEF IsTree, Nodes, SubNodes
<1>5. \A n, k \in Nodes : \A m \in SubNodes(n) : m \in SubNodes(k) => n = k
    BY <1>1 DEF IsTree, Nodes, SubNodes
<1> QED
    BY <1>2, <1>3, <1>4, <1>5

LEMMA ConfigStarts == ProgramInit => ConfigInv
<1>1. CASE InCode
    BY <1>1 DEF InCode, ConfigInv, Phases, Nodes
<1>2. CASE FromConfig
    BY <1>2 DEF FromConfig, ConfigInit, ConfigInv, Phases, Nodes
<1> QED
    BY <1>1, <1>2 DEF ProgramInit

LEMMA CheckSteps ==
    ASSUME ConfigInv, CheckName \/ CheckDuplicates \/ CheckTools PROVE ConfigInv'
<1>1. ASSUME UNCHANGED <<cfg, path, agents>>
      PROVE  /\ Nodes' = Nodes /\ \A n : MadeOf(n) => MadeOf(n)'
             /\ DuplicateNames' = DuplicateNames /\ UnknownTools' = UnknownTools
             /\ Deserving' = Deserving
    BY <1>1 DEF Nodes, MadeOf, SubNodes, Iterations, Creatable, DuplicateNames, UnknownTools, Deserving
<1>2. UNCHANGED <<cfg, path, agents>>
    BY DEF CheckName, CheckDuplicates, CheckTools, Check
<1>3. CASE CheckName
    BY <1>1, <1>2, <1>3 DEF CheckName, Check, ConfigInv, Phases, Deserving
<1>4. CASE CheckDuplicates
    BY <1>1, <1>2, <1>4 DEF CheckDuplicates, Check, ConfigInv, Phases, Deserving
<1>5. CASE CheckTools
    BY <1>1, <1>2, <1>5 DEF CheckTools, Check, ConfigInv, Phases, Deserving
<1> QED
    BY <1>3, <1>4, <1>5

\* The walk that builds goes down: to a node that is there.
LEMMA EnterSteps ==
    ASSUME ConfigInv, EnterRoot \/ EnterSub PROVE ConfigInv'
<1>1. PICK n \in Nodes : /\ Enter(n) /\ cfg \in Configs
                         /\ phase \in {"enter", "build"}
                         /\ phase = "enter" => n = 1
    <2>1. CASE EnterRoot
        <3>1. cfg \in Configs /\ Enter(1) /\ phase = "enter"
            BY <2>1 DEF EnterRoot, ConfigInv
        <3> QED
            BY <3>1, TreeOfNodes
    <2>2. CASE EnterSub
        <3> DEFINE c == Current
        <3>1. cfg \in Configs /\ phase = "build" /\ path \in Seq(Nodes) /\ path # <<>>
            BY <2>2 DEF EnterSub, ConfigInv
        <3>2. c \in Nodes
            BY <3>1 DEF Current
        <3> HIDE DEF c
        <3>3. Unbuilt(c) # {} /\ Enter(NextSub(c))
            BY <2>2 DEF EnterSub, c
        <3>4. Unbuilt(c) \subseteq DOMAIN cfg[c].subs /\ DOMAIN cfg[c].subs \subseteq Nat
            BY <3>1, <3>2, TreeOfNodes DEF Unbuilt, ConfigNode
        <3>5. PICK i \in Unbuilt(c) : \A j \in Unbuilt(c) : i <= j
            BY <3>3, <3>4, LeastOf
        <3>6. (CHOOSE k \in Unbuilt(c) : \A j \in Unbuilt(c) : k <= j) \in Unbuilt(c)
            BY <3>5
        <3>7. NextSub(c) \in SubNodes(c)
            BY <3>4, <3>6 DEF NextSub, SubNodes
        <3> QED
            BY <3>1, <3>2, <3>3, <3>7, TreeOfNodes
    <2> QED
        BY <2>1, <2>2
<1>2. /\ path' = Append(path, n) /\ UNCHANGED <<cfg, agents>>
      /\ phase' = IF cfg[n].type \in Kinds THEN "build" ELSE "error"
    BY <1>1 DEF Enter, Kinds
<1>3. /\ Nodes' = Nodes /\ \A m : MadeOf(m) => MadeOf(m)'
      /\ DuplicateNames' = DuplicateNames /\ UnknownTools' = UnknownTools
      /\ Deserving' = Deserving
    BY <1>2 DEF Nodes, MadeOf, SubNodes, Iterations, Creatable, DuplicateNames, UnknownTools, Deserving
<1>4. path \in Seq(Nodes) /\ path' \in Seq(Nodes) /\ path' # <<>>
    BY <1>1, <1>2 DEF ConfigInv
<1>5. CASE cfg[n].type \in Kinds
    <2>1. phase' = "build"
        BY <1>2, <1>5
    <2>2. path'[1] = 1
        BY <1>1, <1>2, <1>4 DEF ConfigInv
    <2>3. \A i \in DOMAIN path' : cfg[path'[i]].type \in Kinds
        BY <1>1, <1>2, <1>4, <1>5 DEF ConfigInv
    <2> QED
        BY <1>1, <1>2, <1>3, <1>4, <2>1, <2>2, <2>3 DEF ConfigInv, Phases
<1>6. CASE cfg[n].type \notin Kinds
    <2>1. phase' = "error" /\ ~Deserving
        BY <1>2, <1>6 DEF Deserving
    <2> QED
        BY <1>1, <1>2, <1>3, <1>4, <2>1 DEF ConfigInv, Phases
<1> QED
    BY <1>5, <1>6

\* A node is left when its agent is there; the root is the last one.
LEMMA CreateSteps ==
    ASSUME ConfigInv, Create PROVE ConfigInv'
<1> DEFINE c == Current
<1>1. cfg \in Configs /\ phase = "build" /\ path \in Seq(Nodes) /\ path # <<>> /\ cfg' = cfg
    BY DEF Create, ConfigInv
<1>2. c \in Nodes /\ cfg[c].type \in Kinds /\ cfg[c] \in ConfigNode
    BY <1>1, TreeOfNodes DEF Current, ConfigInv
<1>3. /\ Nodes' = Nodes /\ DuplicateNames' = DuplicateNames /\ UnknownTools' = UnknownTools
      /\ \A n : SubNodes(n)' = SubNodes(n) /\ Creatable(n)' = Creatable(n)
      /\ Deserving' = Deserving
    BY <1>1 DEF Nodes, SubNodes, Creatable, DuplicateNames, UnknownTools, Deserving
<1>4. cfg[1].name # NoName /\ ~DuplicateNames /\ ~UnknownTools
    BY <1>1 DEF ConfigInv
<1>5. CASE Creatable(c)
    <2> DEFINE adopts(n) == cfg[c].type = LLM /\ n \in SubNodes(c)
    <2>1. /\ agents' = [n \in DOMAIN agents \cup {c} |->
                  IF n = c THEN NewAgent(n)
                  ELSE IF adopts(n) THEN [agents[n] EXCEPT !.parent = c] ELSE agents[n]]
          /\ path' = SubSeq(path, 1, Len(path) - 1)
          /\ phase' = IF path' = <<>> THEN "wire" ELSE "build"
          /\ Unbuilt(c) = {}
        BY <1>5 DEF Create
    <2>2. SubNodes(c) \subseteq DOMAIN agents
        BY <2>1 DEF Unbuilt, SubNodes
    <2>3. NewAgent(c) \in AgentType /\ NewAgent(c).parent = NoNode
        <3>1. cfg[c].tools \subseteq Registry
            BY <1>2, <1>4 DEF UnknownTools
        <3> QED
            BY <1>2, <3>1, ConfigAssumption
               DEF NewAgent, AgentType, ConfigNode, Kinds, Iterations, DefaultIterations
    <2>4. DOMAIN agents' = DOMAIN agents \cup {c} /\ DOMAIN agents' \subseteq Nodes
        BY <1>2, <2>1 DEF ConfigInv
    <2>5. ASSUME NEW n \in DOMAIN agents' PROVE MadeOf(n)'
        <3>1. CASE n = c
            <4>1. agents'[n] = NewAgent(c)
                BY <2>1, <2>4, <3>1
            <4>2. SubNodes(n) \subseteq DOMAIN agents'
                BY <2>2, <2>4, <3>1
            <4>3. /\ NewAgent(c).kind = cfg[c].type
                  /\ NewAgent(c).noParent = cfg[c].noParent /\ NewAgent(c).noPeers = cfg[c].noPeers
                  /\ cfg[c].type = "loop" => NewAgent(c).max = Iterations(cfg[c])
                BY DEF NewAgent
            <4> QED
                BY <1>1, <1>3, <1>5, <2>3, <3>1, <4>1, <4>2, <4>3 DEF MadeOf
        <3>2. CASE n # c
            <4>1. n \in DOMAIN agents /\ MadeOf(n)
                BY <2>4, <3>2 DEF ConfigInv
            <4>2. agents'[n] = IF adopts(n) THEN [agents[n] EXCEPT !.parent = c] ELSE agents[n]
                BY <2>1, <2>4, <3>2
            <4>3. c \in Nat
                BY <1>1, <1>2, TreeOfNodes
            <4> HIDE DEF c, adopts
            <4>4. /\ agents'[n] \in AgentType
                  /\ agents'[n].kind = agents[n].kind /\ agents'[n].max = agents[n].max
                  /\ agents'[n].noParent = agents[n].noParent /\ agents'[n].noPeers = agents[n].noPeers
                BY <4>1, <4>2, <4>3 DEF MadeOf, AgentType
            <4> QED
                BY <1>1, <1>3, <2>4, <4>1, <4>4 DEF MadeOf
        <3> QED
            BY <3>1, <3>2
    <2>6. 1 \in DOMAIN agents' => agents'[1].parent = NoNode
        <3>1. ~adopts(1)
            BY <1>1, <1>2, TreeOfNodes
        <3> QED
            BY <2>1, <2>3, <2>4, <3>1 DEF ConfigInv
    <2>7. path' \in Seq(Nodes) /\ (path' # <<>> => path'[1] = 1)
          /\ \A i \in DOMAIN path' : i \in DOMAIN path /\ path'[i] = path[i]
        BY <1>1, <2>1 DEF ConfigInv
    <2>8. path' = <<>> => c = 1
        <3>1. Len(path) \in Nat /\ Len(path) >= 1
            BY <1>1
        <3>2. Len(path) > 1 => path' # <<>>
            <4>1. ASSUME Len(path) > 1 PROVE Len(SubSeq(path, 1, Len(path) - 1)) = Len(path) - 1
                BY <1>1, <3>1, <4>1
            <4>2. PICK p : p = SubSeq(path, 1, Len(path) - 1)
                OBVIOUS
            <4>3. Len(path) > 1 => p # <<>>
                <5>1. p = <<>> => Len(p) = 0
                    OBVIOUS
                <5>2. Len(path) > 1 => Len(p) = Len(path) - 1
                    BY <4>1, <4>2, Zenon
                <5> QED
                    BY <3>1, <5>1, <5>2
            <4> QED
                BY <2>1, <4>2, <4>3, Zenon
        <3>3. path[1] = 1 /\ Current = path[Len(path)]
            BY <1>1 DEF ConfigInv, Current
        <3> HIDE DEF c
        <3>4. c = Current
            BY DEF c
        <3> QED
            BY <3>1, <3>2, <3>3, <3>4
    <2>9. \A i \in DOMAIN path' : cfg[path'[i]].type \in Kinds
        BY <1>1, <2>7 DEF ConfigInv
    <2> HIDE DEF c, adopts
    <2> QED
        BY <1>1, <1>3, <1>4, <2>1, <2>4, <2>5, <2>6, <2>7, <2>8, <2>9 DEF ConfigInv, Phases
<1>6. CASE ~Creatable(c)
    <2>1. phase' = "error" /\ UNCHANGED <<path, agents>>
        BY <1>6 DEF Create
    <2>2. ~Deserving
        BY <1>2, <1>6 DEF Deserving
    <2>3. \A n : MadeOf(n) => MadeOf(n)'
        BY <1>1, <2>1 DEF MadeOf, SubNodes, Iterations, Creatable
    <2> QED
        BY <1>1, <1>3, <2>1, <2>2, <2>3 DEF ConfigInv, Phases
<1> QED
    BY <1>5, <1>6

\* All agents are there when the root is: their sub-agents were there before them.
LEMMA AllAreMade ==
    ASSUME ConfigInv, cfg \in Configs, 1 \in DOMAIN agents PROVE DOMAIN agents = Nodes
<1> DEFINE missing == Nodes \ DOMAIN agents
<1>1. ASSUME missing # {} PROVE FALSE
    <2>1. missing \subseteq Nat
        BY TreeOfNodes
    <2>2. PICK m \in missing : \A k \in missing : m <= k
        <3> HIDE DEF missing
        <3> QED
            BY <1>1, <2>1, LeastOf
    <2>3. PICK n \in Nodes : m \in SubNodes(n)
        BY <2>2, TreeOfNodes
    <2>4. n < m /\ n \in Nat /\ m \in Nat
        BY <2>3, TreeOfNodes
    <2>5. n \in DOMAIN agents
        BY <2>2, <2>4
    <2> QED
        BY <2>2, <2>3, <2>5 DEF ConfigInv, MadeOf
<1> QED
    BY <1>1 DEF ConfigInv

LEMMA WireSteps ==
    ASSUME ConfigInv, WireParents PROVE ConfigInv'
<1>1. /\ phase = "wire" /\ phase' = "built" /\ cfg' = cfg /\ path' = path /\ cfg \in Configs
      /\ agents' = [n \in DOMAIN agents |-> [agents[n] EXCEPT !.parent = Wired(n)]]
      /\ 1 \in DOMAIN agents
    BY DEF WireParents, ConfigInv
<1>2. DOMAIN agents = Nodes /\ DOMAIN agents' = Nodes
    BY <1>1, AllAreMade
<1>3. /\ Nodes' = Nodes /\ DuplicateNames' = DuplicateNames /\ UnknownTools' = UnknownTools
      /\ \A n : SubNodes(n)' = SubNodes(n) /\ Creatable(n)' = Creatable(n)
    BY <1>1 DEF Nodes, SubNodes, Creatable, DuplicateNames, UnknownTools
<1>4. ASSUME NEW n \in Nodes, NEW m \in SubNodes(n) PROVE Wired(m) = n /\ m \in Nodes
    <2>1. m \in Nodes /\ m # 1
        BY <1>1, TreeOfNodes
    <2>2. \A k \in Nodes : m \in SubNodes(k) <=> k = n
        BY <1>1, TreeOfNodes
    <2> QED
        BY <2>1, <2>2 DEF Wired
<1>5. Wired(1) = NoNode
    BY <1>1 DEF Wired, ConfigInv
<1>6. ASSUME NEW n \in Nodes PROVE Wired(n) \in Nat \cup {NoNode}
    <2>1. CASE n = 1
        BY <1>5, <2>1
    <2>2. CASE n # 1
        BY <1>1, <1>4, <2>2, TreeOfNodes
    <2> QED
        BY <2>1, <2>2
<1>7. ASSUME NEW n \in Nodes PROVE MadeOf(n)' /\ agents'[n].parent = Wired(n)
    <2>1. MadeOf(n) /\ agents'[n] = [agents[n] EXCEPT !.parent = Wired(n)]
        BY <1>1, <1>2 DEF ConfigInv
    <2>2. /\ agents'[n] \in AgentType /\ agents'[n].parent = Wired(n)
          /\ agents'[n].kind = agents[n].kind /\ agents'[n].max = agents[n].max
          /\ agents'[n].noParent = agents[n].noParent /\ agents'[n].noPeers = agents[n].noPeers
        BY <1>6, <2>1 DEF MadeOf, AgentType
    <2> QED
        BY <1>1, <1>2, <1>3, <2>1, <2>2 DEF MadeOf
<1>8. /\ 1 \in Nodes /\ agents'[1].parent = NoNode
      /\ \A n \in Nodes : \A m \in SubNodes(n) : agents'[m].parent = n
    BY <1>1, <1>4, <1>5, <1>7, TreeOfNodes
<1> QED
    BY <1>1, <1>2, <1>3, <1>7, <1>8 DEF ConfigInv, Phases

LEMMA ConfigStep ==
    ASSUME ConfigInv, [ProgramNext]_programVars PROVE ConfigInv'
<1>1. CASE UNCHANGED configVars
    BY <1>1 DEF configVars, ConfigInv, MadeOf, SubNodes, Nodes, Iterations, Creatable, DuplicateNames,
               UnknownTools, Deserving
<1>2. CASE ConfigNext
    BY <1>2, CheckSteps, EnterSteps, CreateSteps, WireSteps DEF ConfigNext
<1> QED
    BY <1>1, <1>2 DEF ProgramNext, Build, Start, Serve, Idle, programVars

LEMMA ConfigAlways == ProgramSpec => []ConfigInv
BY ConfigStarts, ConfigStep, PTL DEF ProgramSpec

\* Names are unique exactly if there are as many of them as nodes.
LEMMA NamesAreCounted ==
    ASSUME cfg \in Configs
    PROVE  Cardinality({cfg[n].name : n \in Nodes}) = Cardinality(Nodes) <=> ~DuplicateNames
<1> DEFINE names == {cfg[n].name : n \in Nodes}
           nameOf == [n \in Nodes |-> cfg[n].name]
<1>1. IsFiniteSet(Nodes)
    BY TreeOfNodes, FS_Interval
<1>2. nameOf \in Surjection(Nodes, names)
    BY DEF Surjection
<1>3. nameOf \in Injection(Nodes, names) <=> ~DuplicateNames
    BY DEF Injection, IsInjective, DuplicateNames
<1> HIDE DEF names, nameOf
<1>4. Cardinality(names) = Cardinality(Nodes) <=> nameOf \in Injection(Nodes, names)
    BY <1>1, <1>2, FS_Surjection
<1> QED
    BY <1>3, <1>4 DEF names

\* AgentsAreWellBuilt for every set of configurations: Build ends with a tree exactly for one
\* with unique names, known tools and types and names where agents are found by them, and in
\* that tree every agent is below the root and knows its parent (config.go:66-288).
THEOREM AgentsAreAlwaysWellBuilt == ProgramSpec => []AgentsAreWellBuilt
<1>1. ASSUME ConfigInv PROVE AgentsAreWellBuilt
    <2>1. ConfigTypeOK
        BY <1>1 DEF ConfigInv, ConfigTypeOK, MadeOf
    <2>2. BuildsTheWellFormed
        <3>1. CASE phase \in {"built", "error"}
            <4>1. cfg \in Configs
                BY <1>1, <3>1 DEF ConfigInv
            <4>2. Cardinality({cfg[n].name : n \in Nodes}) = Cardinality(Nodes) <=> ~DuplicateNames
                BY <4>1, NamesAreCounted
            <4>3. CASE phase = "built"
                <5>1. DOMAIN agents = Nodes
                    BY <1>1, <4>1, <4>3, AllAreMade DEF ConfigInv
                <5>2. \A n \in Nodes : /\ cfg[n].type \in Kinds
                                       /\ cfg[n].type = LLM => cfg[n].name # NoName
                    BY <1>1, <5>1 DEF ConfigInv, MadeOf, AgentType, Creatable, Kinds
                <5> QED
                    BY <1>1, <4>2, <4>3, <5>2 DEF BuildsTheWellFormed, ConfigInv, Kinds, UnknownTools
            <4>4. CASE phase = "error"
                BY <1>1, <4>2, <4>4
                   DEF BuildsTheWellFormed, ConfigInv, Deserving, Kinds, UnknownTools, Creatable
            <4> QED
                BY <3>1, <4>3, <4>4
        <3>2. CASE phase \notin {"built", "error"}
            BY <3>2 DEF BuildsTheWellFormed
        <3> QED
            BY <3>1, <3>2
    <2>3. TreeIsClosed
        <3> SUFFICES ASSUME phase = "built"
                     PROVE  /\ DOMAIN agents = Nodes
                            /\ \A n \in Nodes : \A m \in SubNodes(n) : agents[m].parent = n
                            /\ agents[1].parent = NoNode
                            /\ \A n \in Nodes :
                                  cfg[n].noParent /\ cfg[n].noPeers => MayTransfer(n) = SubNodes(n)
            BY DEF TreeIsClosed
        <3>1. DOMAIN agents = Nodes
            BY <1>1, AllAreMade DEF ConfigInv
        <3>2. ASSUME NEW n \in Nodes, cfg[n].noParent, cfg[n].noPeers
              PROVE  MayTransfer(n) = SubNodes(n)
            BY <1>1, <3>1, <3>2 DEF ConfigInv, MadeOf, MayTransfer
        <3> QED
            BY <1>1, <3>1, <3>2 DEF ConfigInv
    <2>4. LoopsAreLimited
        <3> SUFFICES ASSUME NEW n \in DOMAIN agents, agents[n].kind = "loop", cfg[n].max >= 0
                     PROVE  agents[n].max > 0
            BY DEF LoopsAreLimited
        <3>1. /\ MadeOf(n) /\ cfg \in Configs /\ n \in Nodes
            BY <1>1 DEF ConfigInv, Nodes
        <3>2. cfg[n].max \in Int
            BY <3>1, TreeOfNodes DEF ConfigNode
        <3> QED
            BY <3>1, <3>2 DEF MadeOf, Iterations, DefaultIterations
    <2> QED
        BY <2>1, <2>2, <2>3, <2>4 DEF AgentsAreWellBuilt
<1> QED
    BY <1>1, ConfigAlways, PTL

(***************************************************************************)
(* The tools of a flow: what its fields hold while calls resolve them.     *)
(***************************************************************************)

OwnMap(f) == [n \in ToolNames |-> IF n \in ownTools[f] THEN Own ELSE NoOwner]

Without(tools) == tools \ {TransferTool}

\* A call of f that makes a map fills it with all the toolsets before it sets the list, and
\* finds its field set; before that nobody is past the resolution.
FieldsInv(f) ==
    /\ TransferTool \notin list[f]
    /\ resolved[f] # NoMap => FlowOf[resolved[f]] = f
    /\ resolved[f] = NoMap =>
          /\ list[f] = {}
          /\ \A c \in Calls : FlowOf[c] = f => at[c] \in {"off", "make"} /\ answers[c] = <<>>
    /\ \A c \in Calls : FlowOf[c] = f =>
          /\ TransferTool \notin read[c]
          /\ at[c] = "make" => resolved[f] # c
          /\ at[c] = "list" => Len(answers[c]) = Len(toolsets[f])
          /\ resolved[f] = c =>
                /\ at[c] # "off"
                /\ at[c] \in {"own", "sets", "list"} \/ Len(answers[c]) = Len(toolsets[f])
          /\ at[c] = "model" => active[f] = targets[f] /\ (TransferTool \in declared[c] => targets[f])

\* Without toolsets all maps are alike: empty, or with the flow's own tools.
PlainInv(f) ==
    /\ list[f] \in {{}, ListOf(OwnMap(f))}
    /\ \A c \in Calls : FlowOf[c] = f =>
          /\ maps[c] \in {EmptyMap, OwnMap(f)}
          /\ read[c] \in {{}, ListOf(OwnMap(f))}
          /\ at[c] = "model" => Without(declared[c]) \in {{}, CollectDeclarations(ListOf(OwnMap(f)))}

\* The map of c, the only call that ever resolved f, and what the others see of it.
LoneInv(f, c) ==
    /\ resolved[f] # NoMap => resolved[f] = c
    /\ resolved[f] = c =>
          /\ IF at[c] = "own" THEN maps[c] = EmptyMap /\ answers[c] = <<>> ELSE maps[c] = Told(f, c)
          /\ at[c] = "list" => read[c] = ListOf(maps[c])
          /\ list[f] = IF at[c] \in {"own", "sets", "list"} THEN {} ELSE ListOf(maps[c])
          /\ at[c] = "model" => Without(declared[c]) = CollectDeclarations(list[f])
    /\ \A d \in Calls : FlowOf[d] = f /\ at[d] = "model" =>
          Without(declared[d]) \in {{}, CollectDeclarations(list[f])}

FlowInv(f) ==
    /\ FieldsInv(f)
    /\ toolsets[f] = <<>> => PlainInv(f)
    /\ toolsets[f] # <<>> => \A c \in Calls : Resolvers(f) = {c} => LoneInv(f, c)

ToolsInv == ToolsTypeOK /\ \A f \in Flows : FlowInv(f)

\* What the toolsets of a flow said a call, as a function of their answers.
FirstOf(said, n) == {i \in DOMAIN said : n \in said[i] /\ \A j \in 1..(i - 1) : n \notin said[j]}

ToldBy(own, sets, said) ==
    [n \in ToolNames |->
        IF n \in own THEN Own
        ELSE IF FirstOf(said, n) = {} THEN NoOwner
        ELSE sets[CHOOSE i \in FirstOf(said, n) : TRUE]]

LEMMA ToldAsFunction ==
    ASSUME NEW f, NEW c
    PROVE  /\ Told(f, c) = ToldBy(ownTools[f], toolsets[f], answers[c])
           /\ Told(f, c)' = ToldBy(ownTools'[f], toolsets'[f], answers'[c])
BY DEF Told, ToldBy, FirstOf

\* The first toolset with a name is unique, and there is one if any has it.
LEMMA FirstOfTold ==
    ASSUME NEW said \in Seq(SUBSET ToolNames), NEW n
    PROVE  /\ FirstOf(said, n) = {} <=> \A j \in DOMAIN said : n \notin said[j]
           /\ \A i, k \in FirstOf(said, n) : i = k
<1>1. DOMAIN said \subseteq Nat /\ \A i \in DOMAIN said : \A j \in 1..(i - 1) : j \in DOMAIN said
    OBVIOUS
<1>2. ASSUME NEW i \in FirstOf(said, n), NEW k \in FirstOf(said, n) PROVE i = k
    <2>1. i \in Nat /\ k \in Nat /\ i >= 1 /\ k >= 1
        BY DEF FirstOf
    <2>2. ~(i < k)
        <3> SUFFICES ASSUME i < k PROVE FALSE
            OBVIOUS
        <3>1. i \in 1..(k - 1)
            BY <2>1
        <3> QED
            BY <3>1 DEF FirstOf
    <2>3. ~(k < i)
        <3> SUFFICES ASSUME k < i PROVE FALSE
            OBVIOUS
        <3>1. k \in 1..(i - 1)
            BY <2>1
        <3> QED
            BY <3>1 DEF FirstOf
    <2> QED
        BY <2>1, <2>2, <2>3
<1>3. ASSUME NEW j \in DOMAIN said, n \in said[j] PROVE FirstOf(said, n) # {}
    <2> DEFINE having == {k \in DOMAIN said : n \in said[k]}
    <2>1. having \subseteq Nat /\ having # {}
        BY <1>1, <1>3
    <2>2. PICK k \in having : \A i \in having : k <= i
        <3> HIDE DEF having
        <3> QED
            BY <2>1, LeastOf
    <2>3. ASSUME NEW i \in 1..(k - 1) PROVE n \notin said[i]
        BY <1>1, <2>1, <2>2
    <2> QED
        BY <2>2, <2>3 DEF FirstOf
<1> QED
    BY <1>2, <1>3 DEF FirstOf

\* Merging one answer more tells what one answer more tells.
LEMMA ToldMerged ==
    ASSUME NEW own \in SUBSET ToolNames, NEW sets \in Seq(DOMAIN Offers),
           NEW said \in Seq(SUBSET ToolNames), NEW names \in SUBSET ToolNames,
           Len(said) < Len(sets)
    PROVE  ToldBy(own, sets, Append(said, names))
              = Merged(ToldBy(own, sets, said), sets[Len(said) + 1], names)
<1> DEFINE next == Len(said) + 1
           more == Append(said, names)
<1>1. /\ more \in Seq(SUBSET ToolNames) /\ next \in DOMAIN more /\ more[next] = names
      /\ DOMAIN more = DOMAIN said \cup {next} /\ next \notin DOMAIN said /\ next \in Nat
      /\ \A j \in DOMAIN said : more[j] = said[j] /\ j < next /\ j \in Nat
      /\ 1..(next - 1) = DOMAIN said
    OBVIOUS
<1>2. \A i \in DOMAIN sets : sets[i] # NoOwner /\ sets[i] # Own
    BY ToolsAssumption
<1>3. DOMAIN said \subseteq DOMAIN sets /\ next \in DOMAIN sets
    OBVIOUS
<1> HIDE DEF more, next
<1>4. ASSUME NEW n \in ToolNames
      PROVE  ToldBy(own, sets, more)[n] = Merged(ToldBy(own, sets, said), sets[next], names)[n]
    <2>1. FirstOf(said, n) \subseteq FirstOf(more, n)
        <3> SUFFICES ASSUME NEW i \in FirstOf(said, n) PROVE i \in FirstOf(more, n)
            OBVIOUS
        <3>1. i \in DOMAIN said /\ \A j \in 1..(i - 1) : j \in DOMAIN said
            BY DEF FirstOf
        <3> QED
            BY <1>1, <3>1 DEF FirstOf
    <2>2. FirstOf(said, n) = {} => (next \in FirstOf(more, n) <=> n \in names)
        BY <1>1, FirstOfTold DEF FirstOf
    <2>3. CASE FirstOf(said, n) # {}
        <3>0. PICK k : k \in FirstOf(said, n)
            BY <2>3
        <3>1. FirstOf(more, n) = FirstOf(said, n)
            <4>1. \A i \in FirstOf(more, n) : i = k
                BY <1>1, <2>1, <3>0, FirstOfTold
            <4> QED
                BY <2>1, <3>0, <4>1
        <3>2. (CHOOSE i \in FirstOf(said, n) : TRUE) \in DOMAIN said
            BY <2>3 DEF FirstOf
        <3>3. ToldBy(own, sets, more)[n] = ToldBy(own, sets, said)[n]
            <4>1. ASSUME NEW s
                  PROVE  ToldBy(own, sets, s)[n] =
                            IF n \in own THEN Own
                            ELSE IF FirstOf(s, n) = {} THEN NoOwner
                            ELSE sets[CHOOSE i \in FirstOf(s, n) : TRUE]
                BY <1>4 DEF ToldBy
            <4> QED
                BY <3>1, <4>1, Zenon
        <3>4. ToldBy(own, sets, said)[n] # NoOwner
            BY <1>2, <1>3, <2>3, <3>2 DEF ToldBy, Own, NoOwner
        <3> QED
            BY <3>3, <3>4 DEF Merged
    <2>4. CASE FirstOf(said, n) = {} /\ n \in names
        <3>1. FirstOf(more, n) = {next}
            BY <1>1, <2>2, <2>4, FirstOfTold
        <3>2. (CHOOSE i \in FirstOf(more, n) : TRUE) = next
            BY <3>1
        <3> QED
            BY <2>4, <3>1, <3>2 DEF ToldBy, Merged, Own, NoOwner
    <2>5. CASE FirstOf(said, n) = {} /\ n \notin names
        <3>1. FirstOf(more, n) = {}
            <4>1. \A j \in DOMAIN more : n \notin more[j]
                BY <1>1, <2>5, FirstOfTold
            <4> QED
                BY <1>1, <4>1, FirstOfTold
        <3> QED
            BY <2>5, <3>1 DEF ToldBy, Merged
    <2> QED
        BY <2>3, <2>4, <2>5
<1>5. ToldBy(own, sets, more) = Merged(ToldBy(own, sets, said), sets[next], names)
    BY <1>4 DEF ToldBy, Merged
<1> QED
    BY <1>5 DEF more, next

\* Before any answer there are the flow's own tools.
LEMMA ToldNothing ==
    ASSUME NEW own, NEW sets
    PROVE  ToldBy(own, sets, <<>>) = [n \in ToolNames |-> IF n \in own THEN Own ELSE NoOwner]
<1>1. \A n : FirstOf(<<>>, n) = {}
    BY DEF FirstOf
<1> QED
    BY <1>1 DEF ToldBy

LEMMA ListsAreTools ==
    ASSUME NEW map \in [ToolNames -> Owners \cup {NoOwner}]
    PROVE  /\ ListOf(map) \in SUBSET Tools /\ TransferTool \notin ListOf(map)
           /\ \A t \in ListOf(map) : t.name \in ToolNames /\ t = Tool(t.name, map[t.name]) /\ map[t.name] # NoOwner
<1>1. \A n \in ToolNames : map[n] # NoOwner => map[n] \in Owners
    OBVIOUS
<1>2. TransferTool.owner \notin Owners
    BY ToolsAssumption DEF Owners, Own, TransferTool, Tool
<1>3. ASSUME NEW t \in ListOf(map)
      PROVE  /\ t.name \in ToolNames /\ t = Tool(t.name, map[t.name]) /\ map[t.name] # NoOwner
             /\ t \in Tools /\ t # TransferTool
    <2>1. PICK n \in ToolNames : map[n] # NoOwner /\ t = Tool(n, map[n])
        BY DEF ListOf
    <2>2. t.name = n /\ t.owner = map[n] /\ t \in [name: ToolNames, owner: Owners]
        BY <1>1, <2>1 DEF Tool
    <2>3. t # TransferTool
        BY <1>1, <1>2, <2>1, <2>2
    <2> QED
        BY <2>1, <2>2, <2>3 DEF Tools
<1> QED
    BY <1>3

LEMMA StepIsLocal ==
    ASSUME ToolsInv, NEW c \in Calls, FlowStep(c)
    PROVE  /\ UNCHANGED <<ownTools, toolsets, targets, crashed>>
           /\ \A f \in Flows \ {FlowOf[c]} :
                 resolved'[f] = resolved[f] /\ list'[f] = list[f] /\ active'[f] = active[f]
           /\ \A d \in Calls \ {c} : at'[d] = at[d] /\ answers'[d] = answers[d]
                                     /\ read'[d] = read[d] /\ declared'[d] = declared[d]
           /\ \A d \in Calls : FlowOf[d] # FlowOf[c] => maps'[d] = maps[d]
<1>0. /\ ToolsTypeOK /\ FlowOf[c] \in Flows
      /\ resolved[FlowOf[c]] # NoMap => FlowOf[resolved[FlowOf[c]]] = FlowOf[c]
      /\ at[c] \in {"own", "sets"} => resolved[FlowOf[c]] # NoMap
    BY ToolsAssumption DEF ToolsInv, FlowInv, FieldsInv, ToolsTypeOK, Ats, Flow
<1>1. CASE BeginStep(c)
    BY <1>0, <1>1 DEF BeginStep, Moves, Flow, ToolsTypeOK
<1>2. CASE MakeMap(c)
    BY <1>0, <1>2 DEF MakeMap, Moves, Flow, ToolsTypeOK
<1>3. CASE WriteOwn(c)
    BY <1>0, <1>3 DEF WriteOwn, Write, Moves, Flow, ToolsTypeOK
<1>4. ASSUME NEW names, AskToolset(c, names)
      PROVE  /\ UNCHANGED <<ownTools, toolsets, targets, crashed, resolved, list, active, read, declared>>
             /\ \A d \in Calls \ {c} : at'[d] = at[d] /\ answers'[d] = answers[d]
             /\ \A d \in Calls : FlowOf[d] # FlowOf[c] => maps'[d] = maps[d]
    BY <1>0, <1>4 DEF AskToolset, Write, Moves, Flow, ToolsTypeOK
<1>5. CASE ToolsetFails(c)
    BY <1>0, <1>5 DEF ToolsetFails, Moves, Flow, ToolsTypeOK
<1>6. CASE ReadMap(c) \/ SetList(c)
    BY <1>0, <1>6 DEF ReadMap, SetList, Moves, Flow, ToolsTypeOK
<1>7. CASE Declare(c)
    BY <1>0, <1>7 DEF Declare, Moves, Flow, ToolsTypeOK
<1>8. CASE EndCall(c) \/ \E n \in CallNames : CallTool(c, n)
    BY <1>0, <1>8 DEF EndCall, CallTool, Moves, Flow, ToolsTypeOK
<1> QED
    BY <1>1, <1>2, <1>3, <1>4, <1>5, <1>6, <1>7, <1>8 DEF FlowStep, Resolve

\* A flow is as it was when its fields and its calls are.
LEMMA FlowStays ==
    ASSUME NEW f \in Flows, FlowInv(f), UNCHANGED <<ownTools, toolsets, targets>>,
           resolved'[f] = resolved[f], list'[f] = list[f], active'[f] = active[f],
           \A d \in Calls : FlowOf[d] = f =>
              /\ at'[d] = at[d] /\ answers'[d] = answers[d] /\ read'[d] = read[d]
              /\ declared'[d] = declared[d] /\ maps'[d] = maps[d]
    PROVE  FlowInv(f)'
<1>1. FieldsInv(f)'
    BY DEF FlowInv, FieldsInv
<1>2. OwnMap(f)' = OwnMap(f)
    BY DEF OwnMap
<1>3. toolsets[f] = <<>> => PlainInv(f)'
    BY <1>2 DEF FlowInv, PlainInv
<1>4. Resolvers(f)' = Resolvers(f)
    BY DEF Resolvers
<1>5. ASSUME NEW c \in Calls, FlowOf[c] = f, LoneInv(f, c) PROVE LoneInv(f, c)'
    <2>1. Told(f, c)' = Told(f, c)
        BY <1>5, ToldAsFunction
    <2> QED
        BY <1>5, <2>1 DEF LoneInv
<1>6. \A c \in Calls : Resolvers(f) = {c} => FlowOf[c] = f
    BY DEF Resolvers
<1> QED
    BY <1>1, <1>3, <1>4, <1>5, <1>6 DEF FlowInv

\* No call stops being one of those that resolved its flow, if there are toolsets.
LEMMA ResolversGrow ==
    ASSUME ToolsInv, NEW c \in Calls, FlowStep(c), NEW f \in Flows, f = FlowOf[c], toolsets[f] # <<>>
    PROVE  Resolvers(f) \subseteq Resolvers(f)'
<1>0. /\ ToolsTypeOK /\ FieldsInv(f) /\ Len(toolsets[f]) \in Nat /\ Len(toolsets[f]) # 0
      /\ \A d \in Calls : answers[d] \in Seq(SUBSET ToolNames)
      /\ \A d \in Calls : Len(answers[d]) # 0 => answers[d] # <<>>
    BY DEF ToolsInv, FlowInv, ToolsTypeOK
<1> DEFINE busy == {"make", "own", "sets", "list"}
<1>1. ASSUME NEW d \in Calls, FlowOf[d] = f, d \in Resolvers(f)
      PROVE  at[d] \in busy \/ answers[d] # <<>>
    BY <1>0, <1>1 DEF Resolvers, FieldsInv
<1>2. SUFFICES ASSUME NEW d \in Calls, FlowOf[d] = f, at[d] \in busy \/ answers[d] # <<>>
               PROVE  at'[d] \in busy \/ answers'[d] # <<>> \/ resolved'[f] = d
    BY <1>1 DEF Resolvers
<1>3. CASE d # c
    BY <1>2, <1>3, StepIsLocal
<1>4. CASE d = c
    <2>1. CASE MakeMap(c)
        BY <1>0, <1>4, <2>1 DEF MakeMap, Moves, ToolsTypeOK
    <2>2. CASE BeginStep(c) \/ Declare(c) \/ EndCall(c)
               \/ \E n \in CallNames : CallTool(c, n)
        BY <1>0, <1>2, <1>4, <2>2 DEF BeginStep, Declare, EndCall, CallTool, Moves, ToolsTypeOK
    <2>3. CASE WriteOwn(c) \/ ReadMap(c) \/ ToolsetFails(c)
        BY <1>0, <1>4, <2>3 DEF WriteOwn, ReadMap, ToolsetFails, Moves, ToolsTypeOK
    <2>4. ASSUME NEW names, AskToolset(c, names) PROVE at'[c] \in busy
        BY <1>0, <2>4 DEF AskToolset, Moves, ToolsTypeOK
    <2>5. CASE SetList(c)
        BY <1>0, <1>4, <2>5 DEF SetList, Moves, FieldsInv
    <2> QED
        BY <1>4, <2>1, <2>2, <2>3, <2>4, <2>5 DEF FlowStep, Resolve
<1> QED
    BY <1>3, <1>4

\* The call that is alone after a step of its flow was alone before, or nobody resolved.
LEMMA StillLone ==
    ASSUME ToolsInv, NEW c \in Calls, FlowStep(c), NEW f \in Flows, f = FlowOf[c], toolsets[f] # <<>>,
           NEW x \in Calls, Resolvers(f)' = {x}
    PROVE  /\ FlowOf[x] = f
           /\ resolved[f] # NoMap => resolved[f] = x /\ LoneInv(f, x)
           /\ c \in Resolvers(f) => c = x /\ LoneInv(f, x)
<1>1. Resolvers(f) \subseteq {x}
    BY ResolversGrow
<1>2. Resolvers(f) # {} => Resolvers(f) = {x} /\ LoneInv(f, x)
    BY <1>1 DEF ToolsInv, FlowInv
<1>3. resolved[f] # NoMap => resolved[f] \in Resolvers(f)
    BY DEF ToolsInv, FlowInv, FieldsInv, ToolsTypeOK, Resolvers
<1>4. x \in Resolvers(f)'
    OBVIOUS
<1>5. FlowOf[x] = f
    BY <1>4 DEF Resolvers
<1> QED
    BY <1>1, <1>2, <1>3, <1>5

\* What is known of a flow with toolsets before a step of one of its calls, for the call
\* that is alone after it.
LoneBefore(f, c, x) ==
    /\ FlowOf[x] = f
    /\ resolved[f] # NoMap => resolved[f] = x /\ LoneInv(f, x)
    /\ c \in Resolvers(f) => c = x /\ LoneInv(f, x)

\* What is left to show of a step of a call.
LEMMA FlowAfter ==
    ASSUME ToolsInv, NEW c \in Calls, FlowStep(c), NEW f \in Flows, f = FlowOf[c],
           ToolsTypeOK', FieldsInv(f)',
           toolsets[f] = <<>> => PlainInv(f)',
           \A x \in Calls : toolsets[f] # <<>> /\ LoneBefore(f, c, x) /\ Resolvers(f)' = {x} => LoneInv(f, x)'
    PROVE  ToolsInv'
<1>1. toolsets' = toolsets
    BY StepIsLocal
<1>2. ASSUME NEW x \in Calls, toolsets[f] # <<>>, Resolvers(f)' = {x} PROVE LoneBefore(f, c, x)
    BY <1>2, StillLone DEF LoneBefore
<1>3. FlowInv(f)'
    BY <1>1, <1>2 DEF FlowInv
<1>4. ASSUME NEW g \in Flows, g # f PROVE FlowInv(g)'
    <2>1. /\ UNCHANGED <<ownTools, toolsets, targets>>
          /\ resolved'[g] = resolved[g] /\ list'[g] = list[g] /\ active'[g] = active[g]
          /\ \A d \in Calls : FlowOf[d] = g =>
                /\ at'[d] = at[d] /\ answers'[d] = answers[d] /\ read'[d] = read[d]
                /\ declared'[d] = declared[d] /\ maps'[d] = maps[d]
        BY <1>4, StepIsLocal
    <2>2. FlowInv(g)
        BY DEF ToolsInv
    <2> QED
        BY <2>1, <2>2, FlowStays
<1> QED
    BY <1>3, <1>4 DEF ToolsInv

\* The field points to a map of the flow once one of its calls is past making one.
LEMMA ResolvedMap ==
    ASSUME ToolsInv, NEW c \in Calls, at[c] \notin {"off", "make", "returned"}
    PROVE  /\ FlowOf[c] \in Flows
           /\ resolved[FlowOf[c]] \in Calls /\ FlowOf[resolved[FlowOf[c]]] = FlowOf[c]
           /\ maps[resolved[FlowOf[c]]] \in [ToolNames -> Owners \cup {NoOwner}]
<1>1. ToolsTypeOK /\ FlowOf[c] \in Flows /\ FieldsInv(FlowOf[c])
    BY ToolsAssumption DEF ToolsInv, FlowInv
<1>2. resolved[FlowOf[c]] \in Calls
    BY <1>1 DEF ToolsTypeOK, Flow
<1> QED
    BY <1>1, <1>2, ToolsAssumption DEF FieldsInv, ToolsTypeOK

LEMMA BeginTools ==
    ASSUME ToolsInv, NEW c \in Calls, BeginStep(c) PROVE ToolsInv'
<1> DEFINE f == FlowOf[c]
<1>1. /\ ToolsTypeOK /\ f \in Flows /\ FieldsInv(f)
      /\ at[c] \in {"off", "called"}
      /\ at' = [at EXCEPT ![c] = IF resolved[f] # NoMap THEN "declare" ELSE "make"]
      /\ found' = [found EXCEPT ![c] = NoTool]
      /\ UNCHANGED <<ownTools, toolsets, targets, active, resolved, list, maps, answers, read, declared>>
    BY ToolsAssumption DEF ToolsInv, FlowInv, BeginStep, Moves, IsResolved, Flow
<1> HIDE DEF f
<1>2. ToolsTypeOK'
    BY <1>1 DEF ToolsTypeOK, Flow, Ats, f
<1>3. /\ at'[c] = IF resolved[f] # NoMap THEN "declare" ELSE "make"
      /\ \A d \in Calls \ {c} : at'[d] = at[d]
      /\ FlowOf[c] = f
    BY <1>1 DEF ToolsTypeOK, f
<1>4. FieldsInv(f)'
    BY <1>1, <1>3 DEF FieldsInv, ToolsTypeOK
<1>5. toolsets[f] = <<>> => PlainInv(f)'
    <2>1. OwnMap(f)' = OwnMap(f)
        BY <1>1 DEF OwnMap
    <2> QED
        BY <1>1, <1>3, <2>1 DEF ToolsInv, FlowInv, PlainInv
<1>6. ASSUME NEW x \in Calls, LoneBefore(f, c, x), Resolvers(f)' = {x} PROVE LoneInv(f, x)'
    <2>1. CASE resolved[f] = NoMap
        BY <1>1, <1>3, <2>1, ToolsAssumption DEF FieldsInv, LoneInv
    <2>2. CASE resolved[f] # NoMap
        <3>1. LoneInv(f, x) /\ resolved[f] = x
            BY <1>6, <2>2 DEF LoneBefore
        <3>2. Told(f, x)' = Told(f, x)
            BY <1>1, ToldAsFunction
        <3>3. x # c => at'[x] = at[x]
            BY <1>3
        <3>4. x = c => at[x] \notin {"own", "sets", "list"} /\ at'[x] \notin {"own", "sets", "list"}
            BY <1>1, <1>3, <2>2
        <3>5. \A d \in Calls : at'[d] = "model" => at[d] = "model"
            BY <1>3
        <3> QED
            BY <1>1, <1>3, <3>1, <3>2, <3>3, <3>4, <3>5 DEF LoneInv
    <2> QED
        BY <2>1, <2>2
<1> QED
    BY <1>1, <1>2, <1>4, <1>5, <1>6, FlowAfter DEF FlowStep, f

LEMMA MakeTools ==
    ASSUME ToolsInv, NEW c \in Calls, MakeMap(c) PROVE ToolsInv'
<1> DEFINE f == FlowOf[c]
<1>1. /\ ToolsTypeOK /\ f \in Flows /\ FieldsInv(f)
      /\ at[c] = "make" /\ at' = [at EXCEPT ![c] = "own"]
      /\ resolved' = [resolved EXCEPT ![f] = c]
      /\ maps' = [maps EXCEPT ![c] = EmptyMap]
      /\ answers' = [answers EXCEPT ![c] = <<>>]
      /\ UNCHANGED <<ownTools, toolsets, targets, active, list, read, declared, found>>
    BY ToolsAssumption DEF ToolsInv, FlowInv, MakeMap, Moves, Flow
<1> HIDE DEF f
<1>2. ToolsTypeOK'
    <2>1. EmptyMap \in [ToolNames -> Owners \cup {NoOwner}]
        BY DEF EmptyMap
    <2>2. \A d \in Calls : Len(toolsets[FlowOf[d]]) \in Nat /\ Len(<<>>) = 0
        BY <1>1, ToolsAssumption DEF ToolsTypeOK
    <2>3. \A d \in Calls : Len(answers'[d]) <= Len(toolsets[FlowOf[d]])
        BY <1>1, <2>2 DEF ToolsTypeOK, Flow
    <2>4. \A d \in Calls : at'[d] \in Ats \ {"off", "make", "returned"} => resolved'[FlowOf[d]] # NoMap
        BY <1>1, ToolsAssumption DEF ToolsTypeOK, Flow, f
    <2> QED
        BY <1>1, <2>1, <2>3, <2>4 DEF ToolsTypeOK, Flow, Ats
<1>3. /\ at'[c] = "own" /\ maps'[c] = EmptyMap /\ answers'[c] = <<>> /\ resolved'[f] = c
      /\ \A d \in Calls \ {c} : at'[d] = at[d] /\ maps'[d] = maps[d] /\ answers'[d] = answers[d]
      /\ FlowOf[c] = f
    BY <1>1 DEF ToolsTypeOK, f
<1>4. FieldsInv(f)'
    BY <1>1, <1>3, ToolsAssumption DEF FieldsInv, ToolsTypeOK
<1>5. toolsets[f] = <<>> => PlainInv(f)'
    <2>1. OwnMap(f)' = OwnMap(f)
        BY <1>1 DEF OwnMap
    <2> QED
        BY <1>1, <1>3, <2>1 DEF ToolsInv, FlowInv, PlainInv
<1>6. ASSUME NEW x \in Calls, LoneBefore(f, c, x) PROVE LoneInv(f, x)'
    <2>1. c = x /\ LoneInv(f, x)
        BY <1>1, <1>3, <1>6 DEF LoneBefore, Resolvers
    <2>2. resolved[f] = NoMap
        BY <1>1, <1>3, <2>1 DEF LoneInv, FieldsInv
    <2>3. list[f] = {} /\ \A d \in Calls : FlowOf[d] = f => at[d] # "model"
        BY <1>1, <2>2 DEF FieldsInv
    <2> QED
        BY <1>1, <1>3, <2>1, <2>3 DEF LoneInv
<1> QED
    BY <1>1, <1>2, <1>4, <1>5, <1>6, FlowAfter DEF FlowStep, Resolve, f

\* A map of the flow is written: by its only call, if one is alone.
LEMMA WriteTools ==
    ASSUME ToolsInv, NEW c \in Calls, FlowStep(c), NEW f \in Flows, f = FlowOf[c],
           at[c] \in {"own", "sets"}, at' = [at EXCEPT ![c] = "sets"],
           NEW map \in [ToolNames -> Owners \cup {NoOwner}],
           maps' = [maps EXCEPT ![resolved[f]] = map],
           answers' \in [Calls -> Seq(SUBSET ToolNames)], Len(answers'[c]) <= Len(toolsets[f]),
           UNCHANGED <<ownTools, toolsets, targets, active, resolved, list, read, declared, found>>,
           toolsets[f] = <<>> => map \in {EmptyMap, OwnMap(f)},
           toolsets[f] # <<>> /\ LoneInv(f, c) /\ resolved[f] = c => map = Told(f, c)'
    PROVE  ToolsInv'
<1>1. ToolsTypeOK /\ FieldsInv(f) /\ resolved[f] # NoMap /\ resolved[f] \in Calls
    BY DEF ToolsInv, FlowInv, ToolsTypeOK, Flow, Ats
<1>2. /\ at'[c] = "sets" /\ maps'[resolved[f]] = map
      /\ \A d \in Calls \ {c} : at'[d] = at[d] /\ answers'[d] = answers[d]
      /\ \A d \in Calls \ {resolved[f]} : maps'[d] = maps[d]
    BY <1>1, StepIsLocal DEF ToolsTypeOK
<1>3. ToolsTypeOK'
    BY <1>1, <1>2 DEF ToolsTypeOK, Flow, Ats
<1>4. FieldsInv(f)'
    BY <1>1, <1>2 DEF FieldsInv
<1>5. toolsets[f] = <<>> => PlainInv(f)'
    <2>1. OwnMap(f)' = OwnMap(f)
        BY DEF OwnMap
    <2> QED
        BY <1>1, <1>2, <2>1 DEF ToolsInv, FlowInv, PlainInv
<1>6. ASSUME NEW x \in Calls, toolsets[f] # <<>>, LoneBefore(f, c, x) PROVE LoneInv(f, x)'
    <2>1. c = x /\ LoneInv(f, x) /\ resolved[f] = x
        BY <1>1, <1>6 DEF LoneBefore, Resolvers
    <2>2. map = Told(f, c)'
        BY <1>6, <2>1
    <2>3. list[f] = {}
        BY <2>1 DEF LoneInv
    <2>4. maps'[x] = map /\ at'[x] = "sets" /\ \A d \in Calls : at'[d] = "model" => at[d] = "model"
        BY <1>2, <2>1
    <2> QED
        BY <2>1, <2>2, <2>3, <2>4 DEF LoneInv
<1> QED
    BY <1>3, <1>4, <1>5, <1>6, FlowAfter

LEMMA OwnTools ==
    ASSUME ToolsInv, NEW c \in Calls, WriteOwn(c) PROVE ToolsInv'
<1> DEFINE f == FlowOf[c]
           map == [n \in ToolNames |-> IF n \in ownTools[f] THEN Own ELSE maps[resolved[f]][n]]
<1>1. /\ ToolsTypeOK /\ f \in Flows
      /\ at[c] = "own" /\ at' = [at EXCEPT ![c] = "sets"]
      /\ maps' = [maps EXCEPT ![resolved[f]] = map]
      /\ UNCHANGED <<ownTools, toolsets, targets, active, resolved, list, answers, read, declared, found>>
      /\ FlowStep(c)
    BY ToolsAssumption DEF ToolsInv, WriteOwn, Write, TheMap, Moves, Flow, FlowStep, Resolve
<1>2. resolved[f] \in Calls /\ FlowOf[resolved[f]] = f
    BY <1>1, ResolvedMap
<1>3. map \in [ToolNames -> Owners \cup {NoOwner}]
    BY <1>1, <1>2 DEF ToolsTypeOK, Owners
<1>4. answers' \in [Calls -> Seq(SUBSET ToolNames)] /\ Len(answers'[c]) <= Len(toolsets[f])
    BY <1>1 DEF ToolsTypeOK, Flow
<1>5. maps[resolved[f]] \in {EmptyMap, OwnMap(f)} => map = OwnMap(f)
    BY DEF EmptyMap, OwnMap
<1>6. toolsets[f] = <<>> => map \in {EmptyMap, OwnMap(f)}
    BY <1>1, <1>2, <1>5 DEF ToolsInv, FlowInv, PlainInv
<1>7. LoneInv(f, c) /\ resolved[f] = c => map = Told(f, c)'
    <2>1. LoneInv(f, c) /\ resolved[f] = c => map = OwnMap(f) /\ answers[c] = <<>>
        BY <1>1, <1>5 DEF LoneInv
    <2>2. answers[c] = <<>> => Told(f, c)' = OwnMap(f)
        BY <1>1, ToldAsFunction, ToldNothing DEF OwnMap
    <2> QED
        BY <2>1, <2>2
<1> HIDE DEF map, f
<1>8. f = FlowOf[c]
    BY DEF f
<1> QED
    BY <1>1, <1>3, <1>4, <1>6, <1>7, <1>8, WriteTools

\* The call is told one answer more, and writes it.
LEMMA AskTools ==
    ASSUME ToolsInv, NEW c \in Calls, NEW names \in UNION {Offers[ts] : ts \in DOMAIN Offers},
           AskToolset(c, names)
    PROVE  ToolsInv'
<1> DEFINE f == FlowOf[c]
           ts == toolsets[f][Len(answers[c]) + 1]
           map == Merged(maps[resolved[f]], ts, names)
<1>1. /\ ToolsTypeOK /\ f \in Flows
      /\ at[c] = "sets" /\ at' = [at EXCEPT ![c] = "sets"]
      /\ Len(answers[c]) < Len(toolsets[f])
      /\ maps' = [maps EXCEPT ![resolved[f]] = map]
      /\ answers' = [answers EXCEPT ![c] = Append(answers[c], names)]
      /\ UNCHANGED <<ownTools, toolsets, targets, active, resolved, list, read, declared, found>>
      /\ FlowStep(c)
    BY ToolsAssumption
       DEF ToolsInv, AskToolset, NextToolset, Write, TheMap, Moves, Flow, FlowStep, Resolve
<1>2. resolved[f] \in Calls /\ FlowOf[resolved[f]] = f
    BY <1>1, ResolvedMap
<1>3. /\ toolsets[f] \in Seq(DOMAIN Offers) /\ answers[c] \in Seq(SUBSET ToolNames)
      /\ ownTools[f] \in SUBSET ToolNames /\ names \in SUBSET ToolNames /\ ts \in DOMAIN Offers
    <2>1. toolsets[f] \in Seq(DOMAIN Offers) /\ answers[c] \in Seq(SUBSET ToolNames)
          /\ ownTools[f] \in SUBSET ToolNames
        BY <1>1 DEF ToolsTypeOK
    <2> QED
        BY <1>1, <2>1, ToolsAssumption
<1>4. map \in [ToolNames -> Owners \cup {NoOwner}]
    BY <1>1, <1>2, <1>3 DEF ToolsTypeOK, Owners, Merged
<1>5. /\ answers'[c] = Append(answers[c], names)
      /\ answers' \in [Calls -> Seq(SUBSET ToolNames)] /\ Len(answers'[c]) <= Len(toolsets[f])
    <2>1. Append(answers[c], names) \in Seq(SUBSET ToolNames)
          /\ Len(Append(answers[c], names)) <= Len(toolsets[f])
        BY <1>1, <1>3
    <2> QED
        BY <1>1, <2>1 DEF ToolsTypeOK
<1>6. toolsets[f] # <<>>
    <2>1. Len(answers[c]) \in Nat /\ Len(toolsets[f]) \in Nat
        BY <1>3
    <2>2. Len(toolsets[f]) # 0
        BY <1>1, <2>1
    <2> QED
        BY <2>2
<1>7. LoneInv(f, c) /\ resolved[f] = c => map = Told(f, c)'
    <2>1. LoneInv(f, c) /\ resolved[f] = c => maps[resolved[f]] = Told(f, c)
        BY <1>1 DEF LoneInv
    <2>2. Told(f, c)' = ToldBy(ownTools[f], toolsets[f], Append(answers[c], names))
        BY <1>1, <1>5, ToldAsFunction
    <2>3. Told(f, c) = ToldBy(ownTools[f], toolsets[f], answers[c])
        BY ToldAsFunction
    <2>4. ToldBy(ownTools[f], toolsets[f], Append(answers[c], names))
             = Merged(ToldBy(ownTools[f], toolsets[f], answers[c]), ts, names)
        BY <1>1, <1>3, ToldMerged
    <2> QED
        BY <2>1, <2>2, <2>3, <2>4
<1> HIDE DEF map, f
<1>8. f = FlowOf[c]
    BY DEF f
<1> QED
    BY <1>1, <1>4, <1>5, <1>6, <1>7, <1>8, WriteTools

\* A toolset that fails tells nothing.
LEMMA FailedTools ==
    ASSUME ToolsInv, NEW c \in Calls, ToolsetFails(c) PROVE ToolsInv'
<1> DEFINE f == FlowOf[c]
           ts == toolsets[f][Len(answers[c]) + 1]
           map == maps[resolved[f]]
<1>1. /\ ToolsTypeOK /\ f \in Flows
      /\ at[c] = "sets" /\ at' = [at EXCEPT ![c] = "sets"]
      /\ Len(answers[c]) < Len(toolsets[f])
      /\ answers' = [answers EXCEPT ![c] = Append(answers[c], {})]
      /\ UNCHANGED <<ownTools, toolsets, targets, active, resolved, list, maps, read, declared, found>>
      /\ FlowStep(c)
    BY ToolsAssumption DEF ToolsInv, ToolsetFails, Moves, Flow, FlowStep, Resolve
<1>2. resolved[f] \in Calls /\ FlowOf[resolved[f]] = f /\ map \in [ToolNames -> Owners \cup {NoOwner}]
    BY <1>1, ResolvedMap
<1>3. /\ toolsets[f] \in Seq(DOMAIN Offers) /\ answers[c] \in Seq(SUBSET ToolNames)
      /\ ownTools[f] \in SUBSET ToolNames /\ {} \in SUBSET ToolNames
    BY <1>1 DEF ToolsTypeOK
<1>4. maps' = [maps EXCEPT ![resolved[f]] = map]
    BY <1>1, <1>2 DEF ToolsTypeOK
<1>5. /\ answers'[c] = Append(answers[c], {})
      /\ answers' \in [Calls -> Seq(SUBSET ToolNames)] /\ Len(answers'[c]) <= Len(toolsets[f])
    <2>1. Append(answers[c], {}) \in Seq(SUBSET ToolNames)
          /\ Len(Append(answers[c], {})) <= Len(toolsets[f])
        BY <1>1, <1>3
    <2> QED
        BY <1>1, <2>1 DEF ToolsTypeOK
<1>6. toolsets[f] # <<>>
    <2>1. Len(answers[c]) \in Nat /\ Len(toolsets[f]) \in Nat
        BY <1>3
    <2>2. Len(toolsets[f]) # 0
        BY <1>1, <2>1
    <2> QED
        BY <2>2
<1>7. LoneInv(f, c) /\ resolved[f] = c => map = Told(f, c)'
    <2>1. LoneInv(f, c) /\ resolved[f] = c => map = Told(f, c)
        BY <1>1 DEF LoneInv
    <2>2. Told(f, c)' = ToldBy(ownTools[f], toolsets[f], Append(answers[c], {}))
        BY <1>1, <1>5, ToldAsFunction
    <2>3. Told(f, c) = ToldBy(ownTools[f], toolsets[f], answers[c])
        BY ToldAsFunction
    <2>4. ToldBy(ownTools[f], toolsets[f], Append(answers[c], {}))
             = Merged(ToldBy(ownTools[f], toolsets[f], answers[c]), ts, {})
        BY <1>1, <1>3, ToldMerged
    <2>5. map = Merged(map, ts, {})
        BY <1>2 DEF Merged
    <2> QED
        BY <2>1, <2>2, <2>3, <2>4, <2>5
<1> HIDE DEF map, f
<1>8. f = FlowOf[c]
    BY DEF f
<1> QED
    BY <1>1, <1>2, <1>4, <1>5, <1>6, <1>7, <1>8, WriteTools

LEMMA ReadTools ==
    ASSUME ToolsInv, NEW c \in Calls, ReadMap(c) PROVE ToolsInv'
<1> DEFINE f == FlowOf[c]
           map == maps[resolved[f]]
<1>1. /\ ToolsTypeOK /\ f \in Flows /\ FieldsInv(f)
      /\ at[c] = "sets" /\ at' = [at EXCEPT ![c] = "list"]
      /\ Len(answers[c]) = Len(toolsets[f])
      /\ read' = [read EXCEPT ![c] = ListOf(map)]
      /\ UNCHANGED <<ownTools, toolsets, targets, active, resolved, list, maps, answers, declared, found>>
      /\ FlowStep(c)
    BY ToolsAssumption DEF ToolsInv, FlowInv, ReadMap, TheMap, Moves, Flow, FlowStep, Resolve
<1>2. /\ resolved[f] \in Calls /\ FlowOf[resolved[f]] = f /\ resolved[f] # NoMap
      /\ ListOf(map) \in SUBSET Tools /\ TransferTool \notin ListOf(map)
    BY <1>1, ResolvedMap, ListsAreTools, ToolsAssumption
<1> HIDE DEF f, map
<1>3. /\ at'[c] = "list" /\ read'[c] = ListOf(map)
      /\ \A d \in Calls \ {c} : at'[d] = at[d] /\ read'[d] = read[d]
      /\ FlowOf[c] = f /\ map = maps[resolved[f]]
    BY <1>1 DEF ToolsTypeOK, f, map
<1>4. ToolsTypeOK'
    BY <1>1, <1>2, <1>3 DEF ToolsTypeOK, Flow, Ats
<1>5. FieldsInv(f)'
    BY <1>1, <1>2, <1>3 DEF FieldsInv
<1>6. toolsets[f] = <<>> => PlainInv(f)'
    <2>1. OwnMap(f)' = OwnMap(f)
        BY <1>1 DEF OwnMap
    <2>2. ListOf(EmptyMap) = {}
        BY DEF ListOf, EmptyMap
    <2>3. toolsets[f] = <<>> => ListOf(map) \in {{}, ListOf(OwnMap(f))}
        BY <1>1, <1>2, <1>3, <2>2 DEF ToolsInv, FlowInv, PlainInv
    <2> QED
        BY <1>1, <1>3, <2>1, <2>3 DEF ToolsInv, FlowInv, PlainInv
<1>7. ASSUME NEW x \in Calls, LoneBefore(f, c, x) PROVE LoneInv(f, x)'
    <2>1. c = x /\ LoneInv(f, x) /\ resolved[f] = x
        BY <1>1, <1>2, <1>3, <1>7 DEF LoneBefore, Resolvers
    <2>2. Told(f, x)' = Told(f, x)
        BY <1>1, ToldAsFunction
    <2> QED
        BY <1>1, <1>3, <2>1, <2>2 DEF LoneInv
<1> QED
    BY <1>1, <1>3, <1>4, <1>5, <1>6, <1>7, FlowAfter

LEMMA ListTools ==
    ASSUME ToolsInv, NEW c \in Calls, SetList(c) PROVE ToolsInv'
<1> DEFINE f == FlowOf[c]
<1>1. /\ ToolsTypeOK /\ f \in Flows /\ FieldsInv(f)
      /\ at[c] = "list" /\ at' = [at EXCEPT ![c] = "declare"]
      /\ list' = [list EXCEPT ![f] = read[c]]
      /\ read' = [read EXCEPT ![c] = {}]
      /\ UNCHANGED <<ownTools, toolsets, targets, active, resolved, maps, answers, declared, found>>
      /\ FlowStep(c)
    BY ToolsAssumption DEF ToolsInv, FlowInv, SetList, Moves, Flow, FlowStep, Resolve
<1>2. resolved[f] \in Calls /\ FlowOf[resolved[f]] = f /\ resolved[f] # NoMap
    BY <1>1, ResolvedMap, ToolsAssumption
<1> HIDE DEF f
<1>3. /\ at'[c] = "declare" /\ read'[c] = {} /\ list'[f] = read[c]
      /\ \A d \in Calls \ {c} : at'[d] = at[d] /\ read'[d] = read[d]
      /\ FlowOf[c] = f
    BY <1>1 DEF ToolsTypeOK, f
<1>4. ToolsTypeOK'
    BY <1>1, <1>2, <1>3 DEF ToolsTypeOK, Flow, Ats
<1>5. FieldsInv(f)'
    BY <1>1, <1>2, <1>3 DEF FieldsInv
<1>6. toolsets[f] = <<>> => PlainInv(f)'
    <2>1. OwnMap(f)' = OwnMap(f)
        BY <1>1 DEF OwnMap
    <2> QED
        BY <1>1, <1>3, <2>1 DEF ToolsInv, FlowInv, PlainInv
<1>7. ASSUME NEW x \in Calls, LoneBefore(f, c, x) PROVE LoneInv(f, x)'
    <2>1. c = x /\ LoneInv(f, x) /\ resolved[f] = x
        BY <1>1, <1>2, <1>3, <1>7 DEF LoneBefore, Resolvers
    <2>2. Told(f, x)' = Told(f, x)
        BY <1>1, ToldAsFunction
    <2>3. list[f] = {} /\ CollectDeclarations({}) = {} /\ read[c] = ListOf(maps[c])
        BY <1>1, <2>1 DEF LoneInv, CollectDeclarations
    <2> QED
        BY <1>1, <1>3, <2>1, <2>2, <2>3 DEF LoneInv
<1> QED
    BY <1>1, <1>3, <1>4, <1>5, <1>6, <1>7, FlowAfter

LEMMA DeclareTools ==
    ASSUME ToolsInv, NEW c \in Calls, Declare(c) PROVE ToolsInv'
<1> DEFINE f == FlowOf[c]
           tools == CollectDeclarations(list[f]) \cup (IF targets[f] THEN {TransferTool} ELSE {})
<1>1. /\ ToolsTypeOK /\ f \in Flows /\ FieldsInv(f)
      /\ at[c] = "declare" /\ at' = [at EXCEPT ![c] = "model"]
      /\ declared' = [declared EXCEPT ![c] = tools]
      /\ active' = [active EXCEPT ![f] = targets[f]]
      /\ UNCHANGED <<ownTools, toolsets, targets, resolved, list, maps, answers, read, found>>
      /\ FlowStep(c)
    BY ToolsAssumption DEF ToolsInv, FlowInv, Declare, Moves, Flow, FlowStep
<1>2. resolved[f] \in Calls /\ FlowOf[resolved[f]] = f /\ resolved[f] # NoMap
    BY <1>1, ResolvedMap, ToolsAssumption
<1>3. /\ Without(tools) = CollectDeclarations(list[f]) /\ tools \in SUBSET Tools
      /\ TransferTool \in tools => targets[f]
    <2>1. TransferTool \notin CollectDeclarations(list[f]) /\ CollectDeclarations(list[f]) \in SUBSET Tools
        BY <1>1 DEF FieldsInv, ToolsTypeOK, CollectDeclarations
    <2> QED
        BY <2>1 DEF Without, Tools
<1> HIDE DEF f, tools
<1>4. /\ at'[c] = "model" /\ declared'[c] = tools /\ active'[f] = targets[f]
      /\ \A d \in Calls \ {c} : at'[d] = at[d] /\ declared'[d] = declared[d]
      /\ FlowOf[c] = f
    BY <1>1 DEF ToolsTypeOK, f
<1>5. ToolsTypeOK'
    BY <1>1, <1>2, <1>3, <1>4 DEF ToolsTypeOK, Flow, Ats
<1>6. FieldsInv(f)'
    BY <1>1, <1>2, <1>3, <1>4 DEF FieldsInv
<1>7. toolsets[f] = <<>> => PlainInv(f)'
    <2>1. OwnMap(f)' = OwnMap(f) /\ UNCHANGED <<list, maps, read>>
        BY <1>1 DEF OwnMap
    <2>2. CASE toolsets[f] = <<>>
        <3>1. PlainInv(f)
            BY <1>1, <2>2 DEF ToolsInv, FlowInv
        <3>2. Without(declared'[c]) \in {{}, CollectDeclarations(ListOf(OwnMap(f)))}
            BY <1>3, <1>4, <3>1 DEF PlainInv, CollectDeclarations
        <3> QED
            BY <1>4, <2>1, <3>1, <3>2 DEF PlainInv
    <2> QED
        BY <2>2
<1>8. ASSUME NEW x \in Calls, LoneBefore(f, c, x) PROVE LoneInv(f, x)'
    <2>1. LoneInv(f, x) /\ resolved[f] = x
        BY <1>2, <1>8 DEF LoneBefore
    <2>2. Told(f, x)' = Told(f, x)
        BY <1>1, ToldAsFunction
    <2>3. ASSUME NEW d \in Calls, FlowOf[d] = f, at'[d] = "model"
          PROVE  /\ Without(declared'[d]) \in {{}, CollectDeclarations(list[f])}
                 /\ d = c => Without(declared'[d]) = CollectDeclarations(list[f])
                 /\ d # c => at[d] = "model" /\ declared'[d] = declared[d]
        <3>1. CASE d = c
            BY <1>3, <1>4, <3>1
        <3>2. CASE d # c
            BY <1>4, <2>1, <2>3, <3>2 DEF LoneInv
        <3> QED
            BY <3>1, <3>2
    <2>4. at'[x] = at[x] \/ (at[x] = "declare" /\ at'[x] = "model")
        BY <1>1, <1>4
    <2>5. at'[x] = "model" => Without(declared'[x]) = CollectDeclarations(list[f])
        BY <1>8, <2>1, <2>3 DEF LoneInv, LoneBefore
    <2> QED
        BY <1>1, <2>1, <2>2, <2>3, <2>4, <2>5 DEF LoneInv, Without
<1> QED
    BY <1>1, <1>4, <1>5, <1>6, <1>7, <1>8, FlowAfter

\* A tool call, and the end of a call, leave the fields as they are.
LEMMA UseTools ==
    ASSUME ToolsInv, NEW c \in Calls,
           EndCall(c) \/ \E n \in CallNames : CallTool(c, n)
    PROVE  ToolsInv'
<1> DEFINE f == FlowOf[c]
<1>1. /\ ToolsTypeOK /\ f \in Flows /\ FieldsInv(f)
      /\ at[c] \in {"model", "called"}
      /\ UNCHANGED <<ownTools, toolsets, targets, active, resolved, list, maps, answers, read>>
      /\ FlowStep(c)
    BY ToolsAssumption DEF ToolsInv, FlowInv, EndCall, CallTool, Moves, Flow, FlowStep
<1>2. /\ resolved[f] \in Calls /\ FlowOf[resolved[f]] = f /\ resolved[f] # NoMap
      /\ maps[resolved[f]] \in [ToolNames -> Owners \cup {NoOwner}]
    BY <1>1, ResolvedMap, ToolsAssumption
<1>3. \A n : Lookup(f, n) \in Tools \cup {NoTool}
    <2> SUFFICES ASSUME NEW n PROVE Lookup(f, n) \in Tools \cup {NoTool}
        OBVIOUS
    <2>1. n \in ToolNames => maps[resolved[f]][n] \in Owners \cup {NoOwner}
        BY <1>2
    <2>2. n \in ownTools[f] => n \in ToolNames
        BY <1>1 DEF ToolsTypeOK
    <2> QED
        BY <1>1, <2>1, <2>2 DEF Lookup, Tools, Tool, NoTool, Owners
<1>4. /\ at' = [at EXCEPT ![c] = "called"] \/ at' = [at EXCEPT ![c] = "returned"]
      /\ \A d \in Calls : declared'[d] = declared[d] \/ at'[d] # "model"
      /\ declared' \in [Calls -> SUBSET Tools] /\ found' \in [Calls -> Tools \cup {NoTool}]
    <2>1. CASE EndCall(c)
        BY <1>1, <2>1 DEF EndCall, Moves, ToolsTypeOK
    <2>2. ASSUME NEW n \in CallNames, CallTool(c, n)
          PROVE  /\ at' = [at EXCEPT ![c] = "called"] /\ declared' = declared
                 /\ found' \in [Calls -> Tools \cup {NoTool}]
        BY <1>1, <1>3, <2>2 DEF CallTool, Moves, ToolsTypeOK, Flow
    <2> QED
        BY <1>1, <2>1, <2>2 DEF ToolsTypeOK
<1> HIDE DEF f
<1>5. PICK to \in {"called", "returned"} : at' = [at EXCEPT ![c] = to]
    BY <1>4
<1>6. /\ at'[c] = to /\ \A d \in Calls \ {c} : at'[d] = at[d]
      /\ \A d \in Calls : at'[d] = "model" => at[d] = "model" /\ declared'[d] = declared[d]
      /\ FlowOf[c] = f
    BY <1>1, <1>4, <1>5 DEF ToolsTypeOK, f
<1>7. ToolsTypeOK'
    BY <1>1, <1>2, <1>4, <1>5, <1>6 DEF ToolsTypeOK, Flow, Ats
<1>8. FieldsInv(f)'
    BY <1>1, <1>2, <1>6 DEF FieldsInv
<1>9. toolsets[f] = <<>> => PlainInv(f)'
    <2>1. OwnMap(f)' = OwnMap(f)
        BY <1>1 DEF OwnMap
    <2> QED
        BY <1>1, <1>6, <2>1 DEF ToolsInv, FlowInv, PlainInv
<1>10. ASSUME NEW x \in Calls, LoneBefore(f, c, x) PROVE LoneInv(f, x)'
    <2>1. LoneInv(f, x) /\ resolved[f] = x
        BY <1>2, <1>10 DEF LoneBefore
    <2>2. Told(f, x)' = Told(f, x)
        BY <1>1, ToldAsFunction
    <2> QED
        BY <1>1, <1>6, <2>1, <2>2 DEF LoneInv
<1> QED
    BY <1>1, <1>6, <1>7, <1>8, <1>9, <1>10, FlowAfter

LEMMA ToolsHold ==
    ASSUME ToolsInv, NEW c \in Calls, FlowStep(c) PROVE ToolsInv'
BY BeginTools, MakeTools, OwnTools, AskTools, FailedTools, ReadTools, ListTools, DeclareTools, UseTools
   DEF FlowStep, Resolve

\* No call was made yet, of flows with any tools.
FreshTools ==
    /\ ToolsInit
    /\ ownTools \in [Flows -> SUBSET ToolNames] /\ toolsets \in [Flows -> Seq(DOMAIN Offers)]
    /\ targets \in [Flows -> BOOLEAN]

LEMMA FreshToolsInv == FreshTools => ToolsInv
<1> SUFFICES ASSUME ToolsInit, ownTools \in [Flows -> SUBSET ToolNames],
                    toolsets \in [Flows -> Seq(DOMAIN Offers)], targets \in [Flows -> BOOLEAN]
             PROVE  ToolsInv
    BY DEF FreshTools
<1>1. ToolsTypeOK
    <2>1. EmptyMap \in [ToolNames -> Owners \cup {NoOwner}]
        BY DEF EmptyMap
    <2>2. \A c \in Calls : Len(answers[c]) <= Len(toolsets[Flow(c)])
        <3> SUFFICES ASSUME NEW c \in Calls PROVE Len(answers[c]) <= Len(toolsets[Flow(c)])
            OBVIOUS
        <3>1. toolsets[Flow(c)] \in Seq(DOMAIN Offers)
            BY ToolsAssumption DEF Flow
        <3>2. answers[c] = <<>> /\ Len(<<>>) = 0
            BY DEF ToolsInit
        <3> QED
            BY <3>1, <3>2
    <2> QED
        BY <2>1, <2>2 DEF ToolsInit, ToolsTypeOK, Ats
<1>2. ASSUME NEW f \in Flows PROVE FlowInv(f)
    <2>1. FieldsInv(f)
        BY ToolsAssumption DEF ToolsInit, FieldsInv
    <2>2. PlainInv(f)
        BY DEF ToolsInit, PlainInv
    <2>3. Resolvers(f) = {}
        BY ToolsAssumption DEF ToolsInit, Resolvers
    <2> QED
        BY <2>1, <2>2, <2>3 DEF FlowInv
<1> QED
    BY <1>1, <1>2 DEF ToolsInv

\* Nothing is resolved before the program serves.
ToolboxInv == ToolsInv /\ (~serving => ToolsInit) /\ serving \in BOOLEAN

LEMMA ToolboxStarts == ProgramInit => ToolboxInv
<1> SUFFICES ASSUME ProgramInit PROVE ToolboxInv
    OBVIOUS
<1>1. ToolsInit
    BY DEF ProgramInit, ServerInit
<1>2. CASE InCode
    <2>1. FreshTools /\ serving
        BY <1>1, <1>2, ProgramAssumption DEF FreshTools, InCode
    <2> QED
        BY <1>1, <1>2, <2>1, FreshToolsInv DEF ToolboxInv, InCode
<1>3. CASE FromConfig
    <2>1. FreshTools
        BY <1>1, <1>3 DEF FreshTools, FromConfig
    <2> QED
        BY <1>1, <1>3, <2>1, FreshToolsInv DEF ToolboxInv, FromConfig
<1> QED
    BY <1>2, <1>3 DEF ProgramInit

\* The first llm_agent of a built tree has registered tools.
LEMMA SpeakersTools ==
    ASSUME ConfigInv, phase = "built", Speakers # {}
    PROVE  agents[Speaker].tools \in SUBSET ToolNames
<1>1. cfg \in Configs /\ DOMAIN agents = Nodes
    BY AllAreMade DEF ConfigInv
<1>2. Speakers \subseteq Nodes /\ Nodes \subseteq Nat
    BY <1>1, TreeOfNodes DEF Speakers
<1>3. PICK n \in Speakers : \A m \in Speakers : n <= m
    BY <1>2, LeastOf
<1>4. Speaker \in Speakers
    BY <1>3 DEF Speaker
<1>5. agents[Speaker] \in AgentType
    BY <1>1, <1>2, <1>4 DEF ConfigInv, MadeOf
<1> QED
    BY <1>5, ProgramAssumption DEF AgentType

LEMMA ToolboxStep ==
    ASSUME ToolboxInv, ConfigInv, [ProgramNext]_programVars PROVE ToolboxInv'
<1>1. CASE UNCHANGED <<toolVars, serving>>
    <2>1. ToolsTypeOK'
        BY <1>1 DEF toolVars, fields, locals, ToolboxInv, ToolsInv, ToolsTypeOK, Flow
    <2>2. ASSUME NEW f \in Flows PROVE FlowInv(f)'
        BY <1>1, FlowStays DEF toolVars, fields, locals, ToolboxInv, ToolsInv
    <2>3. ToolsInit' = ToolsInit
        BY <1>1 DEF toolVars, fields, locals, ToolsInit
    <2> QED
        BY <1>1, <2>1, <2>2, <2>3 DEF ToolboxInv, ToolsInv
<1>2. CASE Start
    <2>1. ~serving /\ serving' = TRUE /\ ToolsInit /\ phase = "built"
        BY <1>2 DEF Start, ToolboxInv
    <2>2. ToolsInit'
        BY <1>2, <2>1 DEF Start, ToolsInit, locals
    <2>3. Speakers # {} => agents[Speaker].tools \in SUBSET ToolNames
        BY <2>1, SpeakersTools
    <2>4. /\ ownTools' \in [Flows -> SUBSET ToolNames] /\ toolsets' \in [Flows -> Seq(DOMAIN Offers)]
          /\ targets' \in [Flows -> BOOLEAN]
        <3>1. PICK own \in SUBSET ToolNames, may \in BOOLEAN :
                  /\ ownTools' = [ownTools EXCEPT !["root"] = own]
                  /\ targets' = [targets EXCEPT !["root"] = may]
                  /\ toolsets' = toolsets
            BY <1>2, <2>3 DEF Start
        <3> QED
            BY <3>1 DEF ToolboxInv, ToolsInv, ToolsTypeOK
    <2>5. FreshTools'
        BY <2>2, <2>4 DEF FreshTools
    <2>6. ToolsInv'
        BY <2>5, FreshToolsInv, PTL
    <2> QED
        BY <2>1, <2>6 DEF ToolboxInv
<1>3. CASE Serve /\ ~UNCHANGED <<toolVars, serving>>
    <2>1. serving /\ serving' = serving /\ ServerNext
        BY <1>3 DEF Serve
    <2>2. CASE Fatal
        <3>1. UNCHANGED <<fields, locals>>
            BY <2>2 DEF Fatal, FatalMapAccess
        <3>2. ToolsTypeOK'
            BY <3>1 DEF fields, locals, ToolboxInv, ToolsInv, ToolsTypeOK, Flow
        <3>3. ASSUME NEW f \in Flows PROVE FlowInv(f)'
            BY <3>1, FlowStays DEF fields, locals, ToolboxInv, ToolsInv
        <3> QED
            BY <2>1, <3>2, <3>3 DEF ToolboxInv, ToolsInv
    <2>3. ASSUME NEW c \in Calls, FlowStep(c) PROVE ToolboxInv'
        BY <2>1, <2>3, ToolsHold DEF ToolboxInv
    <2>4. CASE \E r \in Requests : (\E a \in clients : Refuse(r, a) \/ Accept(r, a)) \/ Handle(r)
        <3>1. PICK r \in Calls : (\E a \in clients : Refuse(r, a) \/ Accept(r, a)) \/ Handle(r)
            BY <2>4, RestAssumption
        <3>2. CASE AgentRuns(r)
            BY <1>3, <2>1, <2>3, <3>2
               DEF AgentRuns, CallerFlow, ToolCall, ToolRefuses, ToolStarts, ToolFails, ToolAnswers
        <3>3. CASE ~AgentRuns(r)
            BY <1>3, <2>1, <3>1, <3>3
               DEF Handle, Refuse, Accept, LoadFails, OpenSession, OpenFails, RunReturns, RunFails,
                   SkipChunk, Persist, PersistFails, PersistError, WriteDocument, WriteEvent, WriteFails, StreamEnds
        <3> QED
            BY <3>2, <3>3
    <2> QED
        BY <2>1, <2>2, <2>4 DEF ServerNext
<1> QED
    <2>1. CASE Build \/ Idle \/ UNCHANGED programVars
        BY <1>1, <2>1 DEF Build, Idle, programVars, serverVars
    <2> QED
        BY <1>1, <1>2, <1>3, <2>1 DEF ProgramNext

LEMMA ToolboxAlways == ProgramSpec => []ToolboxInv
<1>1. ConfigInv /\ ToolboxInv /\ [ProgramNext]_programVars => (ConfigInv /\ ToolboxInv)'
    BY ConfigStep, ToolboxStep
<1> QED
    BY <1>1, ConfigStarts, ToolboxStarts, PTL DEF ProgramSpec

\* The list is what the map holds, and keys are looked up in it after the own ones.
LEMMA FoundInMap ==
    ASSUME NEW f \in Flows, NEW d \in Calls, FlowOf[d] = f, at[d] = "model",
           ToolsTypeOK, FieldsInv(f),
           NEW map \in [ToolNames -> Owners \cup {NoOwner}], NEW t \in declared[d], ~Hidden(f, t),
           Without(declared[d]) \in {{}, CollectDeclarations(ListOf(map))},
           \A n \in ToolNames : map[n] = Own <=> n \in ownTools[f],
           \A n \in ToolNames : map[n] \notin {Own, NoOwner} => maps[resolved[f]][n] = map[n]
    PROVE  Lookup(f, t.name) = t
<1>1. CASE t = TransferTool
    <2>1. active[f]
        BY <1>1 DEF FieldsInv
    <2>2. t.name \notin ownTools[f]
        BY <1>1 DEF Hidden
    <2> QED
        BY <1>1, <2>1, <2>2 DEF Lookup
<1>2. CASE t # TransferTool
    <2>1. t \in ListOf(map)
        BY <1>2 DEF Without, CollectDeclarations
    <2>2. t.name \in ToolNames /\ t = Tool(t.name, map[t.name]) /\ map[t.name] # NoOwner
        BY <2>1, ListsAreTools
    <2>3. t.name # TransferTool.name
        BY <1>2 DEF Hidden
    <2> QED
        BY <2>2, <2>3 DEF Lookup
<1> QED
    BY <1>1, <1>2

\* What was told of a name is its owner, the flow before its toolsets.
LEMMA ToldIsOwned ==
    ASSUME ToolsTypeOK, NEW f \in Flows, NEW c \in Calls, FlowOf[c] = f
    PROVE  \A n \in ToolNames : Told(f, c)[n] = Own <=> n \in ownTools[f]
<1> TAKE n \in ToolNames
<1> DEFINE first == FirstOf(answers[c], n)
<1>1. Told(f, c)[n] = IF n \in ownTools[f] THEN Own
                      ELSE IF first = {} THEN NoOwner ELSE toolsets[f][CHOOSE i \in first : TRUE]
    <2>1. Told(f, c) = ToldBy(ownTools[f], toolsets[f], answers[c])
        BY ToldAsFunction
    <2> QED
        BY <2>1 DEF ToldBy
<1>2. /\ answers[c] \in Seq(SUBSET ToolNames) /\ toolsets[f] \in Seq(DOMAIN Offers)
      /\ Len(answers[c]) <= Len(toolsets[f])
    BY DEF ToolsTypeOK, Flow
<1>3. first \subseteq DOMAIN toolsets[f]
    BY <1>2 DEF FirstOf
<1>4. \A i \in DOMAIN toolsets[f] : toolsets[f][i] # Own
    BY <1>2, ToolsAssumption
<1> HIDE DEF first
<1>5. first # {} => (CHOOSE i \in first : TRUE) \in first
    OBVIOUS
<1> QED
    BY <1>1, <1>3, <1>4, <1>5 DEF Own, NoOwner

\* A flow without toolsets has its own tools, or none yet.
LEMMA PlainTools ==
    ASSUME ToolsInv, NEW f \in Flows, toolsets[f] = <<>>, NEW d \in Calls, FlowOf[d] = f, at[d] = "model"
    PROVE  /\ Without(declared[d]) \in {{}, CollectDeclarations(ListOf(OwnMap(f)))}
           /\ \A c \in Calls : FlowOf[c] = f => Told(f, c) = OwnMap(f)
<1>1. PlainInv(f) /\ ToolsTypeOK
    BY DEF ToolsInv, FlowInv
<1>2. ASSUME NEW c \in Calls, FlowOf[c] = f PROVE Told(f, c) = OwnMap(f)
    <2>1. answers[c] \in Seq(SUBSET ToolNames) /\ Len(answers[c]) <= Len(toolsets[f]) /\ Len(toolsets[f]) = 0
        BY <1>1, <1>2 DEF ToolsTypeOK, Flow
    <2>2. answers[c] = <<>>
        BY <2>1
    <2> QED
        BY <2>2, ToldAsFunction, ToldNothing DEF OwnMap
<1> QED
    BY <1>1, <1>2 DEF PlainInv

\* ToolsOfOneResolver for any number of calls, toolsets and answers, and for any keys and
\* declared names: if one call alone resolved a flow, a request declares all of what that
\* call was told or nothing, all of it once that call is through, and a tool that is
\* declared under its key finds the tool, the key of the transfer tool excepted
\* (flow.go:711-757).
THEOREM ToolsAlwaysOfOneResolver == ProgramSpec => []ToolsOfOneResolver
<1>1. ASSUME ToolsInv PROVE ToolsOfOneResolver
    <2>1. ToolsTypeOK
        BY <1>1 DEF ToolsInv
    <2>2. ASSUME NEW f \in Flows, NEW c \in Calls, Resolvers(f) = {c},
                 NEW d \in Calls, FlowOf[d] = f, at[d] = "model"
          PROVE  /\ Without(declared[d]) \in {{}, CollectDeclarations(ListOf(Told(f, c)))}
                 /\ \A t \in declared[d] : ~Hidden(f, t) => Lookup(f, t.name) = t
        <3>1. FieldsInv(f) /\ FlowOf[c] = f
            BY <1>1, <2>2 DEF ToolsInv, FlowInv, Resolvers
        <3>2. CASE toolsets[f] = <<>>
            <4>1. Without(declared[d]) \in {{}, CollectDeclarations(ListOf(OwnMap(f)))}
                  /\ Told(f, c) = OwnMap(f)
                BY <1>1, <2>2, <3>1, <3>2, PlainTools
            <4>2. /\ OwnMap(f) \in [ToolNames -> Owners \cup {NoOwner}]
                  /\ \A n \in ToolNames : OwnMap(f)[n] \in {Own, NoOwner}
                                          /\ (OwnMap(f)[n] = Own <=> n \in ownTools[f])
                BY DEF OwnMap, Owners, Own, NoOwner
            <4> QED
                BY <2>1, <2>2, <3>1, <4>1, <4>2, FoundInMap
        <3>3. CASE toolsets[f] # <<>>
            <4>1. LoneInv(f, c)
                BY <1>1, <2>2, <3>3 DEF ToolsInv, FlowInv
            <4>2. resolved[f] = c
                BY <2>1, <2>2, <4>1 DEF LoneInv, ToolsTypeOK, Flow, Ats
            <4>3. Without(declared[d]) \in {{}, CollectDeclarations(list[f])}
                BY <2>2, <4>1 DEF LoneInv
            <4>0. CollectDeclarations({}) = {}
                BY DEF CollectDeclarations
            <4>4. Without(declared[d]) # {} => maps[c] = Told(f, c) /\ list[f] = ListOf(Told(f, c))
                BY <4>0, <4>1, <4>2, <4>3 DEF LoneInv
            <4>5. Without(declared[d]) \in {{}, CollectDeclarations(ListOf(Told(f, c)))}
                BY <4>3, <4>4
            <4>6. \A t \in declared[d] : ~Hidden(f, t) => Lookup(f, t.name) = t
                <5>1. CASE Without(declared[d]) = {}
                    <6>1. OwnMap(f) \in [ToolNames -> Owners \cup {NoOwner}]
                          /\ \A n \in ToolNames : OwnMap(f)[n] \in {Own, NoOwner}
                                          /\ (OwnMap(f)[n] = Own <=> n \in ownTools[f])
                        BY DEF OwnMap, Owners, Own, NoOwner
                    <6> QED
                        BY <2>1, <2>2, <3>1, <5>1, <6>1, FoundInMap
                <5>2. CASE Without(declared[d]) # {}
                    <6>1. maps[c] \in [ToolNames -> Owners \cup {NoOwner}]
                        BY <2>1 DEF ToolsTypeOK
                    <6>2. \A n \in ToolNames : maps[c][n] = Own <=> n \in ownTools[f]
                        BY <2>1, <3>1, <4>4, <5>2, ToldIsOwned
                    <6>3. Without(declared[d]) \in {{}, CollectDeclarations(ListOf(maps[c]))}
                        BY <4>4, <4>5, <5>2
                    <6> QED
                        BY <2>1, <2>2, <3>1, <4>2, <6>1, <6>2, <6>3, FoundInMap
                <5> QED
                    BY <5>1, <5>2
            <4> QED
                BY <4>5, <4>6
        <3> QED
            BY <3>2, <3>3
    <2>5. ASSUME NEW f \in Flows, NEW c \in Calls, Resolvers(f) = {c}, toolsets[f] # <<>>,
                 c \notin Resolving(f)
          PROVE  /\ list[f] = ListOf(Told(f, c))
                 /\ at[c] = "model" => Without(declared[c]) = CollectDeclarations(list[f])
        <3>1. LoneInv(f, c) /\ FieldsInv(f)
            BY <1>1, <2>5 DEF ToolsInv, FlowInv
        <3>2. c \in Resolvers(f) /\ FlowOf[c] = f
            BY <2>5 DEF Resolvers
        <3>3. at[c] \notin {"make", "own", "sets", "list"}
            BY <2>5, <3>2 DEF Resolving
        <3>4. resolved[f] = c
            BY <3>1, <3>2, <3>3 DEF LoneInv, FieldsInv, Resolvers
        <3> QED
            BY <3>1, <3>3, <3>4 DEF LoneInv
    <2>3. SoleResolverDeclaresAll
        BY <2>2, <2>5 DEF SoleResolverDeclaresAll, Without
    <2>4. DeclaredIsFound
        BY <2>2 DEF DeclaredIsFound
    <2> QED
        BY <2>1, <2>3, <2>4 DEF ToolsOfOneResolver
<1> QED
    BY <1>1, ToolboxAlways, PTL DEF ToolboxInv

(***************************************************************************)
(* The server: what a handler knows at each of its statements.             *)
(***************************************************************************)

EntryType == [run: Calls, what: Whats]

HandlerTypes ==
    /\ loader \in {"none", "bare", "agent"} /\ configured \in BOOLEAN /\ clients \subseteq Arrivals
    /\ got \in [Calls -> Arrivals \cup {NoArrival}]
    /\ stage \in [Calls -> Stages]
    /\ status \in [Calls -> {0, 200, 400, 404, 405, 500}]
    /\ body \in [Calls -> Seq(Nat)]
    /\ told \in [Calls -> BOOLEAN]
    /\ replies \in [Calls -> Replies]
    /\ passed \in [Calls -> Nat]
    /\ lost \in [Calls -> BOOLEAN]
    /\ saw \in [Calls -> Seq(EntryType)]

\* What has been written and persisted of the request r.
HandlerInv(r) ==
    /\ stage[r] # "idle" => got[r] \in Arrivals
    /\ stage[r] \in {"idle", "load", "run"} => replies[r] = <<>> /\ passed[r] = 0 /\ ~lost[r]
    /\ stage[r] \in {"load", "run", "persist", "gone"} =>
          ~told[r] /\ status[r] = IF Streams(r) THEN 200 ELSE 0
    /\ stage[r] = "idle" => ~told[r]
    /\ passed[r] <= Len(replies[r])
    /\ stage[r] \in {"done", "gone"} => LoopEnds(r)
    /\ stage[r] \in {"idle", "load", "run"} => body[r] = <<>>
    /\ body[r] # <<>> => Persisted(r) /\ ~told[r] /\ replies[r] # <<>>
    /\ body[r] # <<>> /\ stage[r] \in {"persist", "gone"} => Streams(r)
    /\ stage[r] = "done" =>
          /\ status[r] # 0
          /\ ~told[r] => Len(body[r]) = Len(replies[r]) /\ status[r] = 200
          /\ ~Streams(r) /\ told[r] => status[r] # 200

HandlersInv == HandlerTypes /\ \A r \in Calls : HandlerInv(r)

LEMMA RepliesAreSequences ==
    ASSUME HandlerTypes, NEW r \in Calls
    PROVE  /\ replies[r] \in Seq({"chunk", "finished"}) /\ Len(replies[r]) \in Nat
           /\ DOMAIN replies[r] = 1..Len(replies[r])
<1>1. replies[r] \in Seq({"chunk", "finished"})
    BY RestAssumption DEF HandlerTypes
<1> QED
    BY <1>1

\* A handler changes its own variables only.
LEMMA OthersStay ==
    ASSUME HandlerTypes, NEW r \in Calls, NEW q \in Calls, q # r, HandlerInv(q),
           UNCHANGED loaderVars,
           got'[q] = got[q], stage'[q] = stage[q], status'[q] = status[q], body'[q] = body[q],
           told'[q] = told[q], replies'[q] = replies[q], passed'[q] = passed[q], lost'[q] = lost[q]
    PROVE  HandlerInv(q)'
BY DEF HandlerInv, Streams, LoopEnds, Persisted

LEMMA HandlersStart == ProgramInit => HandlersInv
BY RestAssumption, ProgramAssumption
   DEF ProgramInit, ServerInit, InCode, FromConfig, HandlersInv, HandlerTypes, HandlerInv, Stages, Streams,
       LoopEnds, Persisted

\* What is left to show of a step of the handler of r.
LEMMA OwnStep ==
    ASSUME HandlersInv, NEW r \in Calls, UNCHANGED loaderVars, HandlerTypes',
           \A q \in Calls \ {r} :
              /\ got'[q] = got[q] /\ stage'[q] = stage[q] /\ status'[q] = status[q]
              /\ body'[q] = body[q] /\ told'[q] = told[q] /\ replies'[q] = replies[q]
              /\ passed'[q] = passed[q] /\ lost'[q] = lost[q],
           HandlerInv(r)'
    PROVE  HandlersInv'
<1>1. ASSUME NEW q \in Calls PROVE HandlerInv(q)'
    <2>1. CASE q = r
        BY <2>1
    <2>2. CASE q # r
        <3>1. HandlerTypes /\ HandlerInv(q)
            BY DEF HandlersInv
        <3> QED
            BY <2>2, <3>1, OthersStay
    <2> QED
        BY <2>1, <2>2
<1> QED
    BY <1>1 DEF HandlersInv

LEMMA RefuseHandler ==
    ASSUME HandlersInv, NEW r \in Calls, NEW a \in clients, Refuse(r, a)
    PROVE  HandlersInv'
<1>1. HandlerTypes /\ HandlerInv(r) /\ a \in Arrivals /\ a \in Arrival /\ stage[r] = "idle"
    BY RestAssumption DEF HandlersInv, HandlerTypes, Refuse, Goes
<1>2. Refusal(a) \in {400, 405, 500}
    BY DEF Refuse, Refusal
<1>3. HandlerTypes'
    BY <1>1, <1>2 DEF HandlerTypes, Refuse, Goes, WriteError, loaderVars, runVars, Stages
<1>4. /\ got'[r] = a /\ stage'[r] = "done" /\ status'[r] = Refusal(a) /\ body' = body /\ told'[r] = TRUE
      /\ replies' = replies /\ passed' = passed /\ lost' = lost /\ UNCHANGED loaderVars
    BY <1>1 DEF HandlerTypes, Refuse, Goes, WriteError, runVars
<1>5. HandlerInv(r)'
    BY <1>1, <1>2, <1>4 DEF HandlerInv, Streams, HandlerTypes, LoopEnds, Persisted
<1>6. \A q \in Calls \ {r} :
              /\ got'[q] = got[q] /\ stage'[q] = stage[q] /\ status'[q] = status[q]
              /\ body'[q] = body[q] /\ told'[q] = told[q] /\ replies'[q] = replies[q]
              /\ passed'[q] = passed[q] /\ lost'[q] = lost[q]
    BY <1>1 DEF HandlerTypes, Refuse, Goes, WriteError, runVars
<1> QED
    BY <1>3, <1>4, <1>5, <1>6, OwnStep

LEMMA AcceptHandler ==
    ASSUME HandlersInv, NEW r \in Calls, NEW a \in clients, Accept(r, a)
    PROVE  HandlersInv'
<1>1. HandlerTypes /\ HandlerInv(r) /\ a \in Arrivals /\ stage[r] = "idle"
    BY RestAssumption DEF HandlersInv, HandlerTypes, Accept, Goes
<1>3. HandlerTypes'
    BY <1>1 DEF HandlerTypes, Accept, Goes, loaderVars, runVars, Stages
<1>4. /\ got'[r] = a /\ stage'[r] = "load" /\ body' = body /\ told' = told
      /\ status'[r] = IF a.path = "run_sse" THEN 200 ELSE 0
      /\ replies' = replies /\ passed' = passed /\ lost' = lost /\ UNCHANGED loaderVars
    BY <1>1 DEF HandlerTypes, Accept, Goes, runVars
<1>5. HandlerInv(r)'
    BY <1>1, <1>4 DEF HandlerInv, Streams, HandlerTypes, LoopEnds, Persisted
<1>6. \A q \in Calls \ {r} :
              /\ got'[q] = got[q] /\ stage'[q] = stage[q] /\ status'[q] = status[q]
              /\ body'[q] = body[q] /\ told'[q] = told[q] /\ replies'[q] = replies[q]
              /\ passed'[q] = passed[q] /\ lost'[q] = lost[q]
    BY <1>1 DEF HandlerTypes, Accept, Goes, runVars
<1> QED
    BY <1>3, <1>4, <1>5, <1>6, OwnStep

\* An error of runAgent is written instead of the events of the run.
LEMMA ErrorHandler ==
    ASSUME HandlersInv, NEW r \in Calls, NEW code \in {404, 500},
           stage[r] \in {"load", "run"} \/ (stage[r] = "persist" /\ LoopEnds(r) /\ lost[r]),
           stage' = [stage EXCEPT ![r] = "done"], RunError(r, code),
           UNCHANGED <<loaderVars, got, runVars>>
    PROVE  HandlersInv'
<1>1. HandlerTypes /\ HandlerInv(r)
    BY DEF HandlersInv
<1>2. /\ body' = body /\ told' = [told EXCEPT ![r] = TRUE]
      /\ status' = IF Streams(r) THEN status ELSE [status EXCEPT ![r] = code]
    BY DEF RunError, WriteError
<1>3. HandlerTypes'
    BY <1>1, <1>2 DEF HandlerTypes, loaderVars, runVars, Stages
<1>4. /\ got' = got /\ stage'[r] = "done" /\ told'[r] = TRUE /\ replies' = replies /\ passed' = passed /\ lost' = lost
      /\ status'[r] = IF Streams(r) THEN status[r] ELSE code
    BY <1>1, <1>2 DEF HandlerTypes, runVars
<1>5. HandlerInv(r)'
    BY <1>1, <1>2, <1>4 DEF HandlerInv, Streams, HandlerTypes, LoopEnds, Persisted
<1>6. \A q \in Calls \ {r} :
              /\ got'[q] = got[q] /\ stage'[q] = stage[q] /\ status'[q] = status[q]
              /\ body'[q] = body[q] /\ told'[q] = told[q] /\ replies'[q] = replies[q]
              /\ passed'[q] = passed[q] /\ lost'[q] = lost[q]
    BY <1>1, <1>2 DEF HandlerTypes, runVars
<1> QED
    BY <1>3, <1>5, <1>6, OwnStep DEF loaderVars

\* The stores, and where each run and its agent tool work.
StoreTypes ==
    /\ events \in [Services -> [Sids -> Seq(EntryType)]]
    /\ state \in [Services -> [Sids -> SUBSET Keys]]
    /\ users \in [Services -> SUBSET Keys]
    /\ inside \in [Services -> [Sids -> SUBSET MergedKeys]]
    /\ home \in [Calls -> Services]
    /\ sid \in [Calls -> Sids]
    /\ tool \in [Calls -> ToolAnswersOrNot]

LEMMA OpenHandler ==
    ASSUME HandlersInv, StoreTypes, NEW r \in Calls, OpenSession(r)
    PROVE  HandlersInv'
<1>1. HandlerTypes /\ HandlerInv(r) /\ stage[r] = "load" /\ got[r] \in Arrival
    BY RestAssumption DEF HandlersInv, HandlerInv, OpenSession, Goes
<1>2. ServiceFor(r) \in Services /\ got[r].sid \in Sids
    BY <1>1 DEF ServiceFor, Services, Arrival
<1>3. events[ServiceFor(r)][got[r].sid] \in Seq(EntryType)
    BY <1>2 DEF StoreTypes
<1>4. saw' \in [Calls -> Seq(EntryType)]
    BY <1>1, <1>3 DEF OpenSession, HandlerTypes
<1>5. HandlerTypes'
    BY <1>1, <1>4 DEF HandlerTypes, OpenSession, Goes, loaderVars, answerVars, Stages
<1>6. /\ stage'[r] = "run" /\ \A q \in Calls \ {r} : stage'[q] = stage[q]
      /\ UNCHANGED <<loaderVars, got, status, body, told, replies, passed, lost>>
    BY <1>1 DEF HandlerTypes, OpenSession, Goes, answerVars
<1>7. HandlerInv(r)'
    BY <1>1, <1>6 DEF HandlerInv, Streams, HandlerTypes, LoopEnds, Persisted
<1> QED
    BY <1>5, <1>6, <1>7, OwnStep

LEMMA ReturnHandler ==
    ASSUME HandlersInv, NEW r \in Calls, NEW es \in Replies, RunReturns(r, es)
    PROVE  HandlersInv'
<1>1. HandlerTypes /\ HandlerInv(r) /\ stage[r] = "run" /\ es \in Seq({"chunk", "finished"})
    BY RestAssumption DEF HandlersInv, RunReturns, Goes
<1>2. HandlerTypes'
    BY <1>1 DEF HandlerTypes, RunReturns, Goes, loaderVars, answerVars, Stages
<1>3. /\ stage'[r] = "persist" /\ replies'[r] = es
      /\ \A q \in Calls \ {r} : stage'[q] = stage[q] /\ replies'[q] = replies[q]
      /\ UNCHANGED <<loaderVars, got, status, body, told, passed, lost>>
    BY <1>1 DEF HandlerTypes, RunReturns, Goes, answerVars
<1>4. HandlerInv(r)'
    <2>1. Len(es) \in Nat /\ passed[r] = 0 /\ body[r] = <<>>
        BY <1>1 DEF HandlerInv
    <2> QED
        BY <1>1, <1>3, <2>1 DEF HandlerInv, Streams, HandlerTypes, LoopEnds, Persisted
<1> QED
    BY <1>2, <1>3, <1>4, OwnStep

\* The loop goes on, whether the event is a chunk, is kept or is lost.
LEMMA LoopHandler ==
    ASSUME HandlersInv, NEW r \in Calls, SkipChunk(r) \/ Persist(r) \/ PersistFails(r)
    PROVE  HandlersInv'
<1>1. /\ HandlerTypes /\ HandlerInv(r) /\ stage[r] = "persist" /\ passed[r] < Len(replies[r])
      /\ stage' = [stage EXCEPT ![r] = "persist"]
      /\ passed' = [passed EXCEPT ![r] = @ + 1]
      /\ lost' \in {lost, [lost EXCEPT ![r] = TRUE]}
      /\ UNCHANGED <<loaderVars, got, status, body, told, replies, saw>>
    BY DEF HandlersInv, SkipChunk, Persist, PersistFails, NextEvent, Goes, answerVars
<1>2. HandlerTypes'
    <2>1. stage' \in [Calls -> Stages]
        BY <1>1 DEF HandlerTypes, Stages
    <2>2. passed' \in [Calls -> Nat]
        BY <1>1 DEF HandlerTypes
    <2>3. lost' \in [Calls -> BOOLEAN]
        BY <1>1 DEF HandlerTypes
    <2>4. UNCHANGED <<loader, configured, clients, got, status, body, told, replies, saw>>
        BY <1>1 DEF loaderVars
    <2> QED
        BY <1>1, <2>1, <2>2, <2>3, <2>4 DEF HandlerTypes
<1>3. /\ stage'[r] = "persist" /\ passed'[r] = passed[r] + 1
      /\ \A q \in Calls \ {r} :
            stage'[q] = stage[q] /\ passed'[q] = passed[q] /\ lost'[q] = lost[q]
    BY <1>1 DEF HandlerTypes
<1>4. passed[r] \in Nat /\ Len(replies[r]) \in Nat
    BY <1>1, RepliesAreSequences DEF HandlerTypes
<1>5. body[r] = <<>>
    BY <1>1, <1>4 DEF HandlerInv, Persisted, LoopEnds
<1>6. HandlerInv(r)'
    BY <1>1, <1>3, <1>4, <1>5 DEF HandlerInv, Streams, LoopEnds, Persisted
<1> QED
    BY <1>1, <1>2, <1>3, <1>6, OwnStep

\* The events of a run are all written, and then the handler ends.
LEMMA DocumentHandler ==
    ASSUME HandlersInv, NEW r \in Calls, WriteDocument(r)
    PROVE  HandlersInv'
<1>1. HandlerTypes /\ HandlerInv(r) /\ stage[r] = "persist" /\ ~Streams(r) /\ Persisted(r)
    BY DEF HandlersInv, WriteDocument, Goes
<1>2. /\ Document(r) \in Seq(Nat) /\ Len(Document(r)) = Len(replies[r])
      /\ Document(r) # <<>> => replies[r] # <<>>
    BY <1>1, RepliesAreSequences DEF Document
<1>4. HandlerTypes'
    BY <1>1, <1>2 DEF HandlerTypes, WriteDocument, Goes, loaderVars, runVars, Stages
<1>5. /\ stage'[r] = "done" /\ status'[r] = 200 /\ body'[r] = Document(r)
      /\ \A q \in Calls \ {r} :
            stage'[q] = stage[q] /\ status'[q] = status[q] /\ body'[q] = body[q]
      /\ UNCHANGED <<loaderVars, got, told, replies, passed, lost>>
    BY <1>1 DEF HandlerTypes, WriteDocument, Goes, runVars
<1>6. HandlerInv(r)'
    BY <1>1, <1>2, <1>5 DEF HandlerInv, Streams, LoopEnds, Persisted
<1> QED
    BY <1>4, <1>5, <1>6, OwnStep

LEMMA WriteHandler ==
    ASSUME HandlersInv, NEW r \in Calls, WriteEvent(r)
    PROVE  HandlersInv'
<1>1. HandlerTypes /\ HandlerInv(r) /\ stage[r] = "persist" /\ Streams(r) /\ Persisted(r)
    BY DEF HandlersInv, WriteEvent, Goes
<1>2. body[r] \in Seq(Nat) /\ Append(body[r], Len(body[r]) + 1) \in Seq(Nat)
    BY <1>1 DEF HandlerTypes
<1>3. HandlerTypes'
    <2>1. body' \in [Calls -> Seq(Nat)]
        BY <1>1, <1>2 DEF HandlerTypes, WriteEvent
    <2> QED
        BY <1>1, <2>1 DEF HandlerTypes, WriteEvent, Goes, loaderVars, runVars, Stages
<1>4. /\ stage'[r] = "persist" /\ \A q \in Calls \ {r} : stage'[q] = stage[q] /\ body'[q] = body[q]
      /\ UNCHANGED <<loaderVars, got, status, told, replies, passed, lost>>
    BY <1>1 DEF HandlerTypes, WriteEvent, Goes, runVars
<1>5. replies[r] # <<>>
    <2>1. Len(body[r]) < Len(replies[r]) /\ Len(body[r]) \in Nat
        BY <1>2 DEF WriteEvent
    <2>2. Len(<<>>) = 0
        OBVIOUS
    <2> QED
        BY <2>1, <2>2
<1>6. HandlerInv(r)'
    BY <1>1, <1>4, <1>5 DEF HandlerInv, Streams, LoopEnds, Persisted
<1> QED
    BY <1>3, <1>4, <1>6, OwnStep

LEMMA StreamEndsHandler ==
    ASSUME HandlersInv, NEW r \in Calls, WriteFails(r) \/ StreamEnds(r)
    PROVE  HandlersInv'
<1>1. /\ HandlerTypes /\ HandlerInv(r) /\ stage[r] = "persist" /\ Streams(r) /\ Persisted(r)
      /\ \/ stage' = [stage EXCEPT ![r] = "gone"]
         \/ stage' = [stage EXCEPT ![r] = "done"] /\ Len(body[r]) = Len(replies[r])
      /\ UNCHANGED <<loaderVars, got, answerVars, runVars>>
    BY DEF HandlersInv, WriteFails, StreamEnds, Goes
<1>2. HandlerTypes'
    <2>1. stage' \in [Calls -> Stages]
        <3>1. PICK to \in {"gone", "done"} : stage' = [stage EXCEPT ![r] = to]
            BY <1>1
        <3>2. stage \in [Calls -> Stages] /\ to \in Stages
            BY <1>1 DEF HandlerTypes, Stages
        <3> QED
            BY <3>1, <3>2
    <2>2. UNCHANGED <<loader, configured, clients, got, status, body, told, replies, passed, lost, saw>>
        BY <1>1 DEF loaderVars, answerVars, runVars
    <2> QED
        BY <1>1, <2>1, <2>2 DEF HandlerTypes
<1>3. /\ \/ stage'[r] = "gone"
         \/ stage'[r] = "done" /\ Len(body[r]) = Len(replies[r])
      /\ \A q \in Calls \ {r} : stage'[q] = stage[q]
      /\ UNCHANGED <<loaderVars, got, status, body, told, replies, passed, lost>>
    BY <1>1 DEF HandlerTypes, answerVars, runVars
<1>4. HandlerInv(r)'
    BY <1>1, <1>3 DEF HandlerInv, Streams, LoopEnds, Persisted
<1> QED
    BY <1>2, <1>3, <1>4, OwnStep

LEMMA HandlersStay ==
    ASSUME HandlersInv, UNCHANGED handlerVars
    PROVE  HandlersInv'
BY DEF HandlersInv, HandlerTypes, HandlerInv, Streams, LoopEnds, Persisted, handlerVars, loaderVars, answerVars, runVars

LEMMA HandlersHold ==
    ASSUME HandlersInv, StoreTypes, ServerNext
    PROVE  HandlersInv'
<1>1. ASSUME NEW r \in Calls, Handle(r) PROVE HandlersInv'
    <2>1. CASE LoadFails(r)
        <3>1. PICK code \in {404, 500} : RunError(r, code)
            BY <2>1 DEF LoadFails
        <3> QED
            BY <2>1, <3>1, ErrorHandler DEF LoadFails, Goes
    <2>2. CASE RunFails(r) \/ OpenFails(r) \/ PersistError(r)
        BY <2>2, ErrorHandler DEF RunFails, OpenFails, PersistError, Goes
    <2>3. CASE AgentRuns(r)
        BY <2>3, HandlersStay DEF AgentRuns
    <2> QED
        BY <1>1, <2>1, <2>2, <2>3, OpenHandler, ReturnHandler, LoopHandler, DocumentHandler,
           WriteHandler, StreamEndsHandler DEF Handle
<1> QED
    BY <1>1, RestAssumption, RefuseHandler, AcceptHandler, HandlersStay DEF ServerNext, Fatal

(***************************************************************************)
(* The stores: sandboxes stay apart, and histories keep what was told.     *)
(***************************************************************************)

Outside(s) == \A r \in Calls : s # Sandbox(r)

OutsideIsClean ==
    \A s \in Services : Outside(s) =>
        /\ users[s] \subseteq RootKeys
        /\ \A i \in Sids : state[s][i] \subseteq RootKeys /\ inside[s][i] \subseteq RootKeys \ Internal

\* The internal keys that no agent in a tool sets.
Kept == Internal \ (ChildKeys \cup MergedKeys)

InsideIsClean ==
    \A r \in Calls : \A i \in Sids :
        state[Sandbox(r)][i] \cap Kept = {} /\ inside[Sandbox(r)][i] = {}

SaidInside == {"request", "text", "quiet", "error"}

EntriesStayIn ==
    \A s \in Services : \A i \in Sids : \A j \in DOMAIN events[s][i] :
        events[s][i][j].what \in SaidInside => s = Sandbox(events[s][i][j].run)

SandboxesAreOwn ==
    \A r \in Calls : \A j \in DOMAIN events[Sandbox(r)][ChildSid] :
        events[Sandbox(r)][ChildSid][j].run = r

HomesAreOutside == \A r \in Calls : home[r] \in {Shared, OwnService(r)}

ApartInv ==
    OutsideIsClean /\ InsideIsClean /\ EntriesStayIn /\ SandboxesAreOwn /\ HomesAreOutside

\* The history of a sandbox at each step of its tool, and what it has borrowed.
AnswerInv(r) ==
    LET es == events[Sandbox(r)][ChildSid]
    IN /\ tool[r] = "off" => es = <<>>
       /\ tool[r] = "running" =>
             es = <<Entry(r, "request")>> /\ state[Sandbox(r)][ChildSid] \subseteq RootKeys \ Internal
       /\ tool[r] \in {"text", "empty"} =>
             /\ es # <<>>
             /\ \A j \in DOMAIN es : es[j].what # "error"
             /\ tool[r] = "text" <=> \E j \in DOMAIN es : es[j].what = "text"

SandboxInv == StoreTypes /\ ApartInv /\ \A r \in Calls : AnswerInv(r)

LEMMA ServicesDiffer ==
    /\ \A r, q \in Calls :
          /\ Sandbox(r) # OwnService(q) /\ Sandbox(r) # Shared /\ OwnService(r) # Shared
          /\ Sandbox(r) = Sandbox(q) => r = q
          /\ OwnService(r) = OwnService(q) => r = q
          /\ Sandbox(r) \in Services /\ OwnService(r) \in Services
          /\ Outside(OwnService(r))
    /\ Shared \in Services /\ Outside(Shared) /\ ChildSid \in Sids
<1>1. ASSUME NEW r \in Calls, NEW q \in Calls
      PROVE  /\ Sandbox(r) # OwnService(q) /\ Sandbox(r) # Shared /\ OwnService(r) # Shared
             /\ Sandbox(r) = Sandbox(q) => r = q
             /\ OwnService(r) = OwnService(q) => r = q
             /\ Sandbox(r) \in Services /\ OwnService(r) \in Services
    <2>1. <<r, "sandbox">> \in Calls \X {"own", "sandbox"} /\ <<r, "own">> \in Calls \X {"own", "sandbox"}
        OBVIOUS
    <2> QED
        BY <2>1, AgentToolAssumption DEF Sandbox, OwnService, Services
<1> QED
    BY <1>1, AgentToolAssumption DEF Outside, Services

LEMMA SandboxStarts == ProgramInit => SandboxInv
<1> SUFFICES ASSUME ProgramInit PROVE SandboxInv
    OBVIOUS
<1>1. SandboxInit
    BY DEF ProgramInit, ServerInit
<1>2. StoreTypes
    BY <1>1, ServicesDiffer DEF SandboxInit, StoreTypes, Keys, ToolAnswersOrNot
<1>3. ApartInv
    <2>1. OutsideIsClean /\ InsideIsClean
        BY <1>1, ServicesDiffer DEF SandboxInit, OutsideIsClean, InsideIsClean, Outside
    <2>2. EntriesStayIn /\ SandboxesAreOwn /\ HomesAreOutside
        BY <1>1, ServicesDiffer DEF SandboxInit, EntriesStayIn, SandboxesAreOwn, HomesAreOutside
    <2> QED
        BY <2>1, <2>2 DEF ApartInv
<1>4. ASSUME NEW r \in Calls PROVE AnswerInv(r)
    BY <1>1, ServicesDiffer DEF SandboxInit, AnswerInv
<1> QED
    BY <1>2, <1>3, <1>4 DEF SandboxInv

\* What Record changes.
LEMMA RecordOne ==
    ASSUME StoreTypes, NEW s \in Services, NEW i \in Sids, NEW es \in Seq(EntryType),
           Record(s, i, es)
    PROVE  /\ events' \in [Services -> [Sids -> Seq(EntryType)]]
           /\ events'[s][i] = events[s][i] \o es
           /\ \A t \in Services, k \in Sids : t # s \/ k # i => events'[t][k] = events[t][k]
<1>1. events \in [Services -> [Sids -> Seq(EntryType)]]
    BY DEF StoreTypes
<1>2. events[s][i] \in Seq(EntryType) /\ events[s][i] \o es \in Seq(EntryType)
    BY <1>1
<1> QED
    BY <1>1, <1>2 DEF Record

LEMMA Concatenated ==
    ASSUME NEW h \in Seq(EntryType), NEW es \in Seq(EntryType)
    PROVE  /\ \A j \in DOMAIN h : j \in DOMAIN (h \o es) /\ (h \o es)[j] = h[j]
           /\ \A j \in DOMAIN (h \o es) \ DOMAIN h :
                 j > Len(h) /\ j - Len(h) \in DOMAIN es /\ (h \o es)[j] = es[j - Len(h)]
OBVIOUS

LEMMA ConcatenatedLen ==
    ASSUME NEW h \in Seq(EntryType), NEW es \in Seq(EntryType)
    PROVE  /\ Len(h \o es) = Len(h) + Len(es) /\ DOMAIN (h \o es) = 1..Len(h \o es)
           /\ Len(h) \in Nat /\ DOMAIN h = 1..Len(h)
OBVIOUS

LEMMA ConcatenatedAt ==
    ASSUME NEW h \in Seq(EntryType), NEW es \in Seq(EntryType), NEW k \in DOMAIN es
    PROVE  Len(h) + k \in DOMAIN (h \o es) /\ (h \o es)[Len(h) + k] = es[k]
OBVIOUS

\* A record is apart if what it says belongs where it is recorded.
LEMMA RecordApart ==
    ASSUME SandboxInv, NEW s \in Services, NEW i \in Sids, NEW es \in Seq(EntryType),
           Record(s, i, es),
           \A k \in DOMAIN es : es[k].what \in SaidInside => s = Sandbox(es[k].run),
           \A r \in Calls : s = Sandbox(r) => \A k \in DOMAIN es : es[k].run = r
    PROVE  EntriesStayIn' /\ SandboxesAreOwn'
<1>0. /\ events \in [Services -> [Sids -> Seq(EntryType)]] /\ events[s][i] \in Seq(EntryType)
      /\ EntriesStayIn /\ SandboxesAreOwn
    BY DEF SandboxInv, StoreTypes, ApartInv
<1>1. /\ events'[s][i] = events[s][i] \o es
      /\ \A t \in Services, k \in Sids : t # s \/ k # i => events'[t][k] = events[t][k]
    BY RecordOne DEF SandboxInv
<1>2. ASSUME NEW t \in Services, NEW k \in Sids, NEW j \in DOMAIN events'[t][k]
      PROVE  \/ j \in DOMAIN events[t][k] /\ events'[t][k][j] = events[t][k][j]
             \/ t = s /\ \E n \in DOMAIN es : events'[t][k][j] = es[n]
    <2>1. CASE t = s /\ k = i
        <3> DEFINE h == events[s][i]
        <3>1. /\ \A n \in DOMAIN h : n \in DOMAIN (h \o es) /\ (h \o es)[n] = h[n]
              /\ \A n \in DOMAIN (h \o es) \ DOMAIN h :
                    n > Len(h) /\ n - Len(h) \in DOMAIN es /\ (h \o es)[n] = es[n - Len(h)]
            BY <1>0, Concatenated, Zenon
        <3>2. events'[t][k] = h \o es /\ events[t][k] = h
            BY <1>1, <2>1
        <3>3. j \in DOMAIN (h \o es) /\ events'[t][k][j] = (h \o es)[j]
            BY <3>2, Zenon
        <3> HIDE DEF h
        <3>4. CASE j \in DOMAIN h
            BY <3>1, <3>2, <3>3, <3>4, Zenon
        <3>5. CASE j \notin DOMAIN h
            <4>1. j - Len(h) \in DOMAIN es /\ (h \o es)[j] = es[j - Len(h)]
                BY <3>1, <3>3, <3>5
            <4> QED
                BY <2>1, <3>3, <4>1, Zenon
        <3> QED
            BY <3>4, <3>5
    <2>2. CASE t # s \/ k # i
        BY <1>1, <2>2
    <2> QED
        BY <2>1, <2>2
<1>3. EntriesStayIn'
    <2>1. ASSUME NEW t \in Services, NEW k \in Sids, NEW j \in DOMAIN events'[t][k],
                 events'[t][k][j].what \in SaidInside
          PROVE  t = Sandbox(events'[t][k][j].run)
        <3>1. CASE j \in DOMAIN events[t][k] /\ events'[t][k][j] = events[t][k][j]
            BY <1>0, <2>1, <3>1, Zenon DEF EntriesStayIn
        <3>2. CASE t = s /\ \E n \in DOMAIN es : events'[t][k][j] = es[n]
            BY <2>1, <3>2, Zenon
        <3> QED
            BY <1>2, <3>1, <3>2
    <2> QED
        BY <2>1 DEF EntriesStayIn, Sandbox
<1>4. SandboxesAreOwn'
    <2>1. ASSUME NEW r \in Calls, NEW j \in DOMAIN events'[Sandbox(r)][ChildSid]
          PROVE  events'[Sandbox(r)][ChildSid][j].run = r
        <3> DEFINE t == Sandbox(r)
        <3>1. t \in Services /\ ChildSid \in Sids
            BY ServicesDiffer
        <3>2. CASE j \in DOMAIN events[t][ChildSid] /\ events'[t][ChildSid][j] = events[t][ChildSid][j]
            BY <1>0, <3>2, Zenon DEF SandboxesAreOwn
        <3>3. CASE t = s /\ \E n \in DOMAIN es : events'[t][ChildSid][j] = es[n]
            BY <3>3, Zenon
        <3> QED
            BY <1>2, <3>1, <3>2, <3>3
    <2> QED
        BY <2>1 DEF SandboxesAreOwn, Sandbox
<1> QED
    BY <1>3, <1>4

LEMMA SandboxStays ==
    ASSUME SandboxInv, UNCHANGED sandboxVars
    PROVE  SandboxInv'
<1>1. UNCHANGED <<events, state, users, inside, home, sid, tool>>
    BY DEF sandboxVars, storeVars, callerVars
<1>2. StoreTypes'
    BY <1>1 DEF SandboxInv, StoreTypes
<1>3. ApartInv'
    BY <1>1 DEF SandboxInv, ApartInv, OutsideIsClean, InsideIsClean, EntriesStayIn,
                SandboxesAreOwn, HomesAreOutside, Outside, Sandbox, OwnService
<1>4. ASSUME NEW q \in Calls PROVE AnswerInv(q)'
    BY <1>1 DEF SandboxInv, AnswerInv, Sandbox
<1> QED
    BY <1>2, <1>3, <1>4 DEF SandboxInv

LEMMA ElementOf ==
    ASSUME NEW E, NEW s \in Seq(E), NEW j \in DOMAIN s
    PROVE  s[j] \in E
OBVIOUS

LEMMA OneEntry ==
    ASSUME NEW r \in Calls, NEW what \in Whats, NEW es, es = <<Entry(r, what)>>
    PROVE  /\ es \in Seq(EntryType) /\ Len(es) = 1 /\ DOMAIN es = {1}
           /\ \A k \in DOMAIN es : es[k] = Entry(r, what) /\ es[k].run = r /\ es[k].what = what
<1>1. PICK e : e = Entry(r, what)
    OBVIOUS
<1>2. e \in EntryType /\ e.run = r /\ e.what = what
    BY <1>1 DEF Entry, EntryType
<1>3. es = <<e>>
    BY <1>1, Zenon
<1>4. es \in Seq(EntryType) /\ Len(es) = 1 /\ DOMAIN es = {1} /\ \A k \in DOMAIN es : es[k] = e
    BY <1>2, <1>3
<1> QED
    BY <1>1, <1>2, <1>4, Zenon

\* What handlers record is outside, and no sandbox sees it.
LEMMA RecordOutside ==
    ASSUME SandboxInv, NEW r \in Calls, NEW s \in {Shared, OwnService(r)}, NEW i \in Sids,
           NEW what \in {"message", "reply"}, Record(s, i, <<Entry(r, what)>>),
           home' \in [Calls -> Services], sid' \in [Calls -> Sids], HomesAreOutside',
           UNCHANGED <<state, users, inside, tool>>
    PROVE  SandboxInv'
<1>0. PICK es : es = <<Entry(r, what)>>
    OBVIOUS
<1>1. es \in Seq(EntryType) /\ \A k \in DOMAIN es : es[k].what \notin SaidInside
    <2>1. what \in Whats /\ what \notin SaidInside
        BY DEF SaidInside, Whats
    <2> QED
        <3>1. es \in Seq(EntryType) /\ \A k \in DOMAIN es : es[k].what = what
            BY <1>0, <2>1, OneEntry
        <3> QED
            BY <2>1, <3>1
<1>2. s \in Services /\ \A q \in Calls : s # Sandbox(q)
    BY ServicesDiffer
<1>3. Record(s, i, es)
    BY <1>0, Zenon
<1>4. EntriesStayIn' /\ SandboxesAreOwn'
    BY <1>1, <1>2, <1>3, RecordApart, Zenon
<1>5. /\ events' \in [Services -> [Sids -> Seq(EntryType)]]
      /\ \A t \in Services, k \in Sids : t # s \/ k # i => events'[t][k] = events[t][k]
    BY <1>1, <1>2, <1>3, RecordOne, Zenon DEF SandboxInv
<1>6. StoreTypes'
    BY <1>5 DEF SandboxInv, StoreTypes
<1>7. ApartInv'
    BY <1>4 DEF SandboxInv, ApartInv, OutsideIsClean, InsideIsClean, Outside, Sandbox
<1>8. ASSUME NEW q \in Calls PROVE AnswerInv(q)'
    <2>1. events'[Sandbox(q)][ChildSid] = events[Sandbox(q)][ChildSid]
        BY <1>2, <1>5, ServicesDiffer
    <2>2. AnswerInv(q)
        BY DEF SandboxInv
    <2> QED
        BY <2>1, <2>2 DEF AnswerInv, Sandbox
<1> QED
    BY <1>6, <1>7, <1>8 DEF SandboxInv

LEMMA OpenSandbox ==
    ASSUME SandboxInv, HandlersInv, NEW r \in Calls, OpenSession(r)
    PROVE  SandboxInv'
<1>1. got[r] \in Arrival
    BY RestAssumption DEF HandlersInv, HandlerInv, OpenSession, Goes
<1>2. ServiceFor(r) \in {Shared, OwnService(r)} /\ got[r].sid \in Sids /\ ServiceFor(r) \in Services
    BY <1>1, ServicesDiffer DEF ServiceFor, Arrival
<1>3. home' \in [Calls -> Services] /\ sid' \in [Calls -> Sids]
    BY <1>2 DEF OpenSession, SandboxInv, StoreTypes
<1>4. HomesAreOutside'
    BY <1>2 DEF OpenSession, SandboxInv, StoreTypes, ApartInv, HomesAreOutside, OwnService
<1>5. Record(ServiceFor(r), got[r].sid, <<Entry(r, "message")>>) /\ UNCHANGED <<state, users, inside, tool>>
    BY DEF OpenSession
<1> QED
    BY <1>2, <1>3, <1>4, <1>5, RecordOutside

LEMMA PersistSandbox ==
    ASSUME SandboxInv, NEW r \in Calls, Persist(r)
    PROVE  SandboxInv'
<1>1. /\ home[r] \in {Shared, OwnService(r)} /\ sid[r] \in Sids
      /\ Record(home[r], sid[r], <<Entry(r, "reply")>>)
      /\ UNCHANGED <<state, users, inside, home, sid, tool>>
    BY DEF SandboxInv, StoreTypes, ApartInv, HomesAreOutside, Persist, callerVars
<1>2. home' \in [Calls -> Services] /\ sid' \in [Calls -> Sids] /\ HomesAreOutside'
    BY <1>1 DEF SandboxInv, StoreTypes, ApartInv, HomesAreOutside, OwnService
<1> QED
    BY <1>1, <1>2, RecordOutside

\* A step of an agent tool changes the sandbox of its call only, and what it has borrowed.
LEMMA ToolStep ==
    ASSUME SandboxInv, NEW r \in Calls, StoreTypes', EntriesStayIn', SandboxesAreOwn',
           UNCHANGED callerVars,
           \A s \in Services \ {Sandbox(r)} :
              /\ users'[s] = users[s] /\ state'[s] = state[s]
              /\ \A i \in Sids : events'[s][i] = events[s][i],
           \A i \in Sids : state'[Sandbox(r)][i] \cap Kept = {},
           \A s \in Services : \A i \in Sids :
              inside'[s][i] = inside[s][i] \/ (s = home[r] /\ inside'[s][i] \subseteq RootKeys \ Internal),
           \A q \in Calls \ {r} : tool'[q] = tool[q],
           AnswerInv(r)'
    PROVE  SandboxInv'
<1>1. OutsideIsClean'
    <2>1. ASSUME NEW s \in Services, Outside(s)
          PROVE  /\ users'[s] \subseteq RootKeys
                 /\ \A i \in Sids : state'[s][i] \subseteq RootKeys /\ inside'[s][i] \subseteq RootKeys \ Internal
        BY <2>1 DEF SandboxInv, ApartInv, OutsideIsClean, Outside
    <2> QED
        BY <2>1 DEF OutsideIsClean, Outside, Sandbox
<1>2. InsideIsClean'
    <2>1. ASSUME NEW q \in Calls, NEW i \in Sids
          PROVE  state'[Sandbox(q)][i] \cap Kept = {} /\ inside'[Sandbox(q)][i] = {}
        <3>1. /\ Sandbox(q) \in Services /\ Sandbox(q) # home[r]
              /\ Sandbox(q) # Sandbox(r) => state'[Sandbox(q)] = state[Sandbox(q)]
            BY ServicesDiffer DEF SandboxInv, ApartInv, HomesAreOutside
        <3>2. inside'[Sandbox(q)][i] = inside[Sandbox(q)][i]
            BY <3>1
        <3> QED
            BY <3>1, <3>2 DEF SandboxInv, ApartInv, InsideIsClean
    <2> QED
        BY <2>1 DEF InsideIsClean, Sandbox, Kept
<1>3. HomesAreOutside'
    BY DEF SandboxInv, ApartInv, HomesAreOutside, OwnService, callerVars
<1>4. ASSUME NEW q \in Calls PROVE AnswerInv(q)'
    <2>1. CASE q = r
        BY <2>1
    <2>2. CASE q # r
        <3>1. /\ events'[Sandbox(q)][ChildSid] = events[Sandbox(q)][ChildSid] /\ tool'[q] = tool[q]
              /\ state'[Sandbox(q)] = state[Sandbox(q)]
            BY <2>2, ServicesDiffer
        <3>2. AnswerInv(q)
            BY DEF SandboxInv
        <3> QED
            BY <3>1, <3>2 DEF AnswerInv, Sandbox
    <2> QED
        BY <2>1, <2>2
<1> QED
    BY <1>1, <1>2, <1>3, <1>4 DEF SandboxInv, ApartInv

LEMMA RefuseTool ==
    ASSUME SandboxInv, NEW r \in Calls, ToolRefuses(r)
    PROVE  SandboxInv'
<1>1. tool' = [tool EXCEPT ![r] = "error"] /\ UNCHANGED <<storeVars, callerVars>>
    BY DEF ToolRefuses
<1>2. StoreTypes'
    BY <1>1 DEF SandboxInv, StoreTypes, storeVars, callerVars, ToolAnswersOrNot
<1>3. EntriesStayIn' /\ SandboxesAreOwn'
    BY <1>1 DEF SandboxInv, ApartInv, EntriesStayIn, SandboxesAreOwn, Sandbox, storeVars
<1>4. tool'[r] = "error" /\ \A q \in Calls \ {r} : tool'[q] = tool[q]
    BY <1>1 DEF SandboxInv, StoreTypes
<1>5. AnswerInv(r)'
    BY <1>4 DEF AnswerInv
<1> QED
    BY <1>1, <1>2, <1>3, <1>4, <1>5, ServicesDiffer, ToolStep
       DEF SandboxInv, ApartInv, InsideIsClean, storeVars

LEMMA StartTool ==
    ASSUME SandboxInv, NEW r \in Calls, ToolStarts(r)
    PROVE  SandboxInv'
<1> DEFINE s == Sandbox(r)
<1>a. PICK es : es = <<Entry(r, "request")>>
    OBVIOUS
<1>0. /\ state' = [state EXCEPT ![s][ChildSid] = Copied(r)] /\ Record(s, ChildSid, es)
      /\ tool' = [tool EXCEPT ![r] = "running"] /\ UNCHANGED <<users, inside, callerVars>>
      /\ tool[r] = "off"
    BY <1>a DEF ToolStarts, ChildService
<1>1. s \in Services /\ ChildSid \in Sids /\ StoreTypes /\ events[s][ChildSid] = <<>>
    BY <1>0, ServicesDiffer DEF SandboxInv, AnswerInv
<1>2. es \in Seq(EntryType) /\ \A k \in DOMAIN es : es[k].run = r
    <2>1. "request" \in Whats
        BY DEF Whats
    <2> QED
        BY <1>a, <2>1, OneEntry
<1>3. EntriesStayIn' /\ SandboxesAreOwn'
    <2>1. /\ \A k \in DOMAIN es : es[k].what \in SaidInside => s = Sandbox(es[k].run)
          /\ \A q \in Calls : s = Sandbox(q) => \A k \in DOMAIN es : es[k].run = q
        BY <1>2, ServicesDiffer
    <2> HIDE DEF s
    <2> QED
        BY <1>0, <1>1, <1>2, <2>1, RecordApart, Zenon
<1>4. /\ events' \in [Services -> [Sids -> Seq(EntryType)]]
      /\ events'[s][ChildSid] = events[s][ChildSid] \o es
      /\ \A t \in Services, k \in Sids : t # s \/ k # ChildSid => events'[t][k] = events[t][k]
    <2> HIDE DEF s
    <2> QED
        BY <1>0, <1>1, <1>2, RecordOne, Zenon
<1>5. /\ Copied(r) \in SUBSET Keys /\ Copied(r) \cap Internal = {}
      /\ Copied(r) \subseteq RootKeys \ Internal
    <2>1. home[r] \in Services /\ Outside(home[r]) /\ sid[r] \in Sids
        BY <1>1, ServicesDiffer DEF SandboxInv, StoreTypes, ApartInv, HomesAreOutside
    <2> QED
        BY <1>1, <2>1 DEF Copied, StoreTypes, SandboxInv, ApartInv, OutsideIsClean
<1>6. /\ state' \in [Services -> [Sids -> SUBSET Keys]] /\ state'[s][ChildSid] = Copied(r)
      /\ \A i \in Sids \ {ChildSid} : state'[s][i] = state[s][i]
      /\ \A t \in Services \ {s} : state'[t] = state[t]
    BY <1>0, <1>1, <1>5 DEF StoreTypes
<1>7. tool' \in [Calls -> ToolAnswersOrNot] /\ tool'[r] = "running" /\ \A q \in Calls \ {r} : tool'[q] = tool[q]
    BY <1>0, <1>1 DEF StoreTypes, ToolAnswersOrNot
<1>8. StoreTypes'
    BY <1>0, <1>1, <1>4, <1>6, <1>7 DEF StoreTypes, callerVars
<1>9. \A i \in Sids : state'[s][i] \cap Kept = {}
    BY <1>5, <1>6 DEF SandboxInv, ApartInv, InsideIsClean, Kept
<1>10. AnswerInv(r)'
    <2>1. events'[s][ChildSid] = es
        BY <1>1, <1>4
    <2> QED
        BY <1>a, <1>5, <1>6, <1>7, <2>1 DEF AnswerInv, Sandbox, Entry
<1>11. \A t \in Services \ {s} :
          /\ users'[t] = users[t] /\ state'[t] = state[t]
          /\ \A i \in Sids : events'[t][i] = events[t][i]
    BY <1>0, <1>4, <1>6
<1>12. \A t \in Services : \A i \in Sids : inside'[t][i] = inside[t][i]
    BY <1>0
<1> QED
    BY <1>0, <1>3, <1>7, <1>8, <1>9, <1>10, <1>11, <1>12, ToolStep

\* Callbacks change the sandbox's state whatever becomes of the run, and tools write in
\* borrowed maps.
LEMMA ChildSteps ==
    ASSUME SandboxInv, NEW r \in Calls, tool[r] = "running", ChildSets(r)
    PROVE  /\ state' \in [Services -> [Sids -> SUBSET Keys]]
           /\ users' \in [Services -> SUBSET Keys]
           /\ inside' \in [Services -> [Sids -> SUBSET MergedKeys]]
           /\ \A i \in Sids : state'[Sandbox(r)][i] \cap Kept = {}
           /\ \A s \in Services \ {Sandbox(r)} : state'[s] = state[s] /\ users'[s] = users[s]
           /\ \A s \in Services : \A i \in Sids :
                 inside'[s][i] = inside[s][i] \/ (s = home[r] /\ inside'[s][i] \subseteq RootKeys \ Internal)
<1> DEFINE s == Sandbox(r)
           set == ChildKeys \cup MergedKeys
<1>1. s \in Services /\ ChildSid \in Sids /\ set \subseteq Keys /\ set \cap Kept = {}
    BY ServicesDiffer DEF Keys, Kept
<1>2. /\ state' = [state EXCEPT ![s][ChildSid] = state[s][ChildSid] \cup set]
      /\ users' = [users EXCEPT ![s] = users[s] \cup (set \cap OfUser)]
      /\ inside' = [inside EXCEPT ![home[r]][sid[r]] = inside[home[r]][sid[r]] \cup Borrowed(r)]
    BY DEF ChildSets, ChildService
<1>3. /\ state \in [Services -> [Sids -> SUBSET Keys]] /\ users \in [Services -> SUBSET Keys]
      /\ inside \in [Services -> [Sids -> SUBSET MergedKeys]]
      /\ \A i \in Sids : state[s][i] \cap Kept = {}
    BY DEF SandboxInv, StoreTypes, ApartInv, InsideIsClean
<1>4. /\ home[r] \in Services /\ sid[r] \in Sids
      /\ inside[home[r]][sid[r]] \subseteq RootKeys \ Internal
      /\ Borrowed(r) \subseteq MergedKeys /\ Borrowed(r) \subseteq RootKeys \ Internal
    <2>1. Outside(home[r]) /\ home[r] \in Services /\ sid[r] \in Sids
        BY ServicesDiffer DEF SandboxInv, StoreTypes, ApartInv, HomesAreOutside
    <2>2. state[s][ChildSid] \subseteq RootKeys \ Internal
        BY DEF SandboxInv, AnswerInv
    <2> QED
        BY <2>1, <2>2 DEF SandboxInv, ApartInv, OutsideIsClean, Borrowed, ChildService
<1> HIDE DEF s, set
<1>5. /\ state[s][ChildSid] \cup set \in SUBSET Keys
      /\ users[s] \cup (set \cap OfUser) \in SUBSET Keys
    BY <1>1, <1>3
<1>6. /\ state' \in [Services -> [Sids -> SUBSET Keys]]
      /\ \A i \in Sids : state'[s][i] \cap Kept = {}
      /\ \A t \in Services \ {s} : state'[t] = state[t]
    BY <1>1, <1>2, <1>3, <1>5
<1>7. /\ users' \in [Services -> SUBSET Keys]
      /\ \A t \in Services \ {s} : users'[t] = users[t]
    BY <1>1, <1>2, <1>3, <1>5
<1>8. /\ inside' \in [Services -> [Sids -> SUBSET MergedKeys]]
      /\ \A t \in Services : \A i \in Sids :
            inside'[t][i] = inside[t][i] \/ (t = home[r] /\ inside'[t][i] \subseteq RootKeys \ Internal)
    BY <1>2, <1>3, <1>4
<1> QED
    BY <1>6, <1>7, <1>8 DEF s

LEMMA FailTool ==
    ASSUME SandboxInv, NEW r \in Calls, ToolFails(r)
    PROVE  SandboxInv'
<1>1. /\ ChildSets(r) /\ tool' = [tool EXCEPT ![r] = "error"] /\ tool[r] = "running"
      /\ UNCHANGED <<events, callerVars>> /\ StoreTypes
    BY DEF ToolFails, SandboxInv
<1>2. StoreTypes'
    BY <1>1, ChildSteps DEF StoreTypes, callerVars, ToolAnswersOrNot
<1>3. EntriesStayIn' /\ SandboxesAreOwn'
    BY <1>1 DEF SandboxInv, ApartInv, EntriesStayIn, SandboxesAreOwn, Sandbox
<1>4. tool'[r] = "error" /\ \A q \in Calls \ {r} : tool'[q] = tool[q]
    BY <1>1 DEF StoreTypes
<1>5. AnswerInv(r)'
    BY <1>4 DEF AnswerInv
<1> QED
    BY <1>1, <1>2, <1>3, <1>4, <1>5, ChildSteps, ToolStep

LEMMA AnswerTool ==
    ASSUME SandboxInv, NEW r \in Calls, NEW es \in ChildEvents, ToolAnswers(r, es)
    PROVE  SandboxInv'
<1> DEFINE s == Sandbox(r)
           said == [i \in DOMAIN es |-> Entry(r, es[i])]
<1>1. /\ ChildSets(r) /\ tool' = [tool EXCEPT ![r] = AnswerOf(es)]
      /\ Record(s, ChildSid, said) /\ UNCHANGED callerVars /\ StoreTypes /\ tool[r] = "running"
    BY DEF ToolAnswers, ChildService, SandboxInv
<1>2. /\ s \in Services /\ ChildSid \in Sids /\ events[s][ChildSid] = <<Entry(r, "request")>>
      /\ es \in Seq({"text", "quiet", "error"})
    BY <1>1, ServicesDiffer, AgentToolAssumption DEF SandboxInv, AnswerInv
<1>3. /\ said \in Seq(EntryType) /\ DOMAIN said = DOMAIN es
      /\ \A k \in DOMAIN said : said[k].run = r /\ said[k].what = es[k]
    <2>1. \A k \in DOMAIN es : es[k] \in Whats
        <3>1. \A k \in DOMAIN es : es[k] \in {"text", "quiet", "error"}
            BY <1>2, ElementOf
        <3> QED
            BY <3>1 DEF Whats
    <2>2. \A k \in DOMAIN es : Entry(r, es[k]) \in EntryType /\ Entry(r, es[k]).run = r /\ Entry(r, es[k]).what = es[k]
        BY <2>1 DEF Entry, EntryType
    <2>3. DOMAIN es = 1..Len(es) /\ Len(es) \in Nat
        BY <1>2
    <2> QED
        BY <2>2, <2>3
<1> HIDE DEF said
<1>4. EntriesStayIn' /\ SandboxesAreOwn'
    <2>1. /\ \A k \in DOMAIN said : said[k].what \in SaidInside => s = Sandbox(said[k].run)
          /\ \A q \in Calls : s = Sandbox(q) => \A k \in DOMAIN said : said[k].run = q
        BY <1>3, ServicesDiffer
    <2> HIDE DEF s
    <2> QED
        BY <1>1, <1>2, <1>3, <2>1, RecordApart, Zenon
<1>5. /\ events' \in [Services -> [Sids -> Seq(EntryType)]]
      /\ events'[s][ChildSid] = events[s][ChildSid] \o said
      /\ \A t \in Services, k \in Sids : t # s \/ k # ChildSid => events'[t][k] = events[t][k]
    <2> HIDE DEF s
    <2> QED
        BY <1>1, <1>2, <1>3, RecordOne, Zenon
<1>6. AnswerOf(es) \in {"error", "text", "empty"}
    BY DEF AnswerOf
<1>7. /\ tool' \in [Calls -> ToolAnswersOrNot] /\ tool'[r] = AnswerOf(es)
      /\ \A q \in Calls \ {r} : tool'[q] = tool[q]
    BY <1>1, <1>6 DEF StoreTypes, ToolAnswersOrNot
<1>8. StoreTypes'
    BY <1>1, <1>5, <1>7, ChildSteps DEF StoreTypes, callerVars
<1>9. \A i \in Sids : state'[s][i] \cap Kept = {}
    BY <1>1, ChildSteps
<1>10. AnswerInv(r)'
    <2>1. PICK h : h = <<Entry(r, "request")>>
        OBVIOUS
    <2>2. h \in Seq(EntryType) /\ Len(h) = 1 /\ DOMAIN h = {1} /\ \A k \in DOMAIN h : h[k].what = "request"
        <3>1. "request" \in Whats
            BY DEF Whats
        <3> QED
            BY <2>1, <3>1, OneEntry
    <2>3. Len(h) = 1 /\ DOMAIN h = {1}
        BY <2>2
    <2>4. events'[s][ChildSid] = h \o said
        BY <1>2, <1>5, <2>1
    <2>5. h \o said # <<>>
        BY <1>3, <2>2, <2>3
    <2>6. \A j \in DOMAIN (h \o said) :
             \/ (h \o said)[j].what = "request"
             \/ \E k \in DOMAIN es : (h \o said)[j].what = es[k]
        <3> DEFINE all == h \o said
        <3>0. /\ \A j \in DOMAIN h : j \in DOMAIN all /\ all[j] = h[j]
              /\ \A j \in DOMAIN all \ DOMAIN h :
                    j > Len(h) /\ j - Len(h) \in DOMAIN said /\ all[j] = said[j - Len(h)]
            <4>1. h \in Seq(EntryType) /\ said \in Seq(EntryType)
                BY <1>3, <2>2
            <4> QED
                BY <4>1, Concatenated, Zenon
        <3>1. ASSUME NEW j \in DOMAIN (h \o said)
              PROVE  \/ (h \o said)[j].what = "request"
                     \/ \E k \in DOMAIN es : (h \o said)[j].what = es[k]
            <4>1. CASE j \in DOMAIN h
                BY <2>2, <3>0, <4>1, Zenon
            <4>2. CASE j \notin DOMAIN h
                BY <1>3, <3>0, <4>2, Zenon
            <4> QED
                BY <4>1, <4>2
        <3> QED
            BY <3>1
    <2>7. \A k \in DOMAIN es : \E j \in DOMAIN (h \o said) : (h \o said)[j].what = es[k]
        <3>1. ASSUME NEW k \in DOMAIN es
              PROVE  1 + k \in DOMAIN (h \o said) /\ (h \o said)[1 + k] = said[k]
            <4>1. said \in Seq(EntryType) /\ k \in DOMAIN said
                BY <1>3
            <4> QED
                BY <2>2, <2>3, <4>1, ConcatenatedAt
        <3> QED
            BY <1>3, <3>1, Zenon
    <2>8. /\ AnswerOf(es) \in {"text", "empty"} => \A k \in DOMAIN es : es[k] # "error"
          /\ AnswerOf(es) = "text" => \E k \in DOMAIN es : es[k] = "text"
          /\ AnswerOf(es) = "empty" => \A k \in DOMAIN es : es[k] # "text"
        BY DEF AnswerOf
    <2>9. PICK all : all = h \o said
        OBVIOUS
    <2>10. AnswerOf(es) \in {"text", "empty"} =>
              /\ all # <<>>
              /\ \A j \in DOMAIN all : all[j].what # "error"
              /\ AnswerOf(es) = "text" <=> \E j \in DOMAIN all : all[j].what = "text"
        BY <2>5, <2>6, <2>7, <2>8, <2>9
    <2> QED
        BY <1>6, <1>7, <2>4, <2>9, <2>10 DEF AnswerInv, Sandbox
<1> QED
    BY <1>1, <1>4, <1>5, <1>7, <1>8, <1>9, <1>10, ChildSteps, ToolStep

LEMMA SandboxHolds ==
    ASSUME SandboxInv, HandlersInv, ServerNext
    PROVE  SandboxInv'
<1>1. ASSUME NEW r \in Calls, Handle(r) PROVE SandboxInv'
    <2>1. CASE AgentRuns(r)
        BY <2>1, SandboxStays, RefuseTool, StartTool, FailTool, AnswerTool
           DEF AgentRuns, CallerFlow, ToolCall
    <2> QED
        BY <1>1, <2>1, OpenSandbox, PersistSandbox, SandboxStays
           DEF Handle, LoadFails, OpenFails, RunReturns, RunFails, NextEvent, SkipChunk, PersistFails,
               PersistError, WriteDocument, WriteEvent, WriteFails, StreamEnds
<1>2. ASSUME NEW r \in Calls, NEW a \in clients, Refuse(r, a) \/ Accept(r, a) PROVE SandboxInv'
    BY <1>2, SandboxStays DEF Refuse, Accept
<1> QED
    BY <1>1, <1>2, RestAssumption, SandboxStays DEF ServerNext, Fatal

LEMMA SandboxInvApart == SandboxInv => AgentToolIsApart
<1> SUFFICES ASSUME SandboxInv PROVE AgentToolIsApart
    OBVIOUS
<1>1. \A s \in Services : \A i \in Sids : \A j \in DOMAIN events[s][i] :
          events[s][i][j].what \in {"request", "text", "quiet", "error"} =>
              s = Sandbox(events[s][i][j].run)
    BY DEF SandboxInv, ApartInv, EntriesStayIn, SaidInside
<1>2. ASSUME NEW r \in Calls, NEW i \in Sids
      PROVE  /\ (state[home[r]][i] \cup users[home[r]]) \subseteq RootKeys
             /\ state[Sandbox(r)][i] \cap Kept = {}
             /\ inside[home[r]][i] \subseteq RootKeys \ Internal
             /\ inside[Sandbox(r)][i] = {}
    <2>1. home[r] \in Services /\ Outside(home[r])
        BY ServicesDiffer DEF SandboxInv, ApartInv, HomesAreOutside
    <2> QED
        BY <2>1 DEF SandboxInv, ApartInv, OutsideIsClean, InsideIsClean
<1>3. SandboxIsApart
    BY <1>1, <1>2 DEF SandboxIsApart, SandboxInv, ApartInv, SandboxesAreOwn, Kept
<1>4. AnswerIsSound
    BY DEF AnswerIsSound, SandboxInv, AnswerInv
<1> QED
    BY <1>3, <1>4 DEF AgentToolIsApart

\* Where a history has an entry.
Places(s, i, e) == {j \in DOMAIN events[s][i] : events[s][i][j] = e}

\* The run of a request has begun and not failed.
Runs(r) == stage[r] \in {"run", "persist"} \/ replies[r] # <<>>

\* The finished events among those that the runner is done with.
Due(r) == {n \in 1..passed[r] : replies[r][n] = "finished"}

\* What is in the histories of the request r: its message, and behind it as many replies
\* as are due, unless one could not be appended.
KeptInv(r) ==
    /\ \A s \in Services : \A i \in Sids :
          Places(s, i, Entry(r, "reply")) # {} => passed[r] > 0 /\ s = home[r] /\ i = sid[r]
    /\ ~lost[r] => Cardinality(Places(home[r], sid[r], Entry(r, "reply"))) = Cardinality(Due(r))
    /\ Runs(r) =>
          /\ home[r] = ServiceFor(r) /\ sid[r] = got[r].sid
          /\ \E m \in Places(home[r], sid[r], Entry(r, "message")) :
                \A j \in Places(home[r], sid[r], Entry(r, "reply")) : m < j

\* The service of a request's own has no history before its run.
FreshInv(r) ==
    stage[r] \in {"idle", "load"} => \A i \in Sids : events[OwnService(r)][i] = <<>>

KeepingInv == \A r \in Calls : KeptInv(r) /\ FreshInv(r)

LEMMA KeepingStarts == ProgramInit => KeepingInv
<1> SUFFICES ASSUME ProgramInit, NEW r \in Calls PROVE KeptInv(r) /\ FreshInv(r)
    BY DEF KeepingInv
<1>1. /\ \A s \in Services : \A i \in Sids : events[s][i] = <<>>
      /\ home[r] \in Services /\ sid[r] \in Sids /\ stage[r] = "idle" /\ replies[r] = <<>> /\ passed[r] = 0
    BY RestAssumption, ServicesDiffer DEF ProgramInit, ServerInit, SandboxInit
<1>2. \A s \in Services : \A i \in Sids : Places(s, i, Entry(r, "reply")) = {}
    BY <1>1 DEF Places
<1>3. Cardinality(Places(home[r], sid[r], Entry(r, "reply"))) = Cardinality(Due(r))
    <2>1. Due(r) = {}
        BY <1>1 DEF Due
    <2> QED
        BY <1>1, <1>2, <2>1
<1>4. FreshInv(r)
    BY <1>1, ServicesDiffer DEF FreshInv
<1> QED
    BY <1>1, <1>2, <1>3, <1>4 DEF KeptInv, Runs

LEMMA DueIsFinite ==
    ASSUME HandlerTypes, NEW r \in Calls
    PROVE  IsFiniteSet(Due(r)) /\ Due(r) \subseteq 1..passed[r] /\ passed[r] \in Nat
<1>1. Due(r) \subseteq 1..passed[r] /\ passed[r] \in Nat
    BY DEF Due, HandlerTypes
<1>2. IsFiniteSet(1..passed[r])
    BY <1>1, FS_Interval
<1>3. IsFiniteSet(Due(r))
    BY <1>1, <1>2, FS_Subset, Zenon
<1> QED
    BY <1>1, <1>3

LEMMA PlacesAreFinite ==
    ASSUME StoreTypes, NEW s \in Services, NEW i \in Sids, NEW e
    PROVE  /\ IsFiniteSet(Places(s, i, e)) /\ Places(s, i, e) \subseteq 1..Len(events[s][i])
           /\ Len(events[s][i]) \in Nat
<1>1. events[s][i] \in Seq(EntryType)
    BY DEF StoreTypes
<1>2. Places(s, i, e) \subseteq 1..Len(events[s][i]) /\ Len(events[s][i]) \in Nat
    BY <1>1 DEF Places
<1>3. IsFiniteSet(1..Len(events[s][i]))
    BY <1>2, FS_Interval
<1>4. IsFiniteSet(Places(s, i, e))
    BY <1>2, <1>3, FS_Subset, Zenon
<1> QED
    BY <1>2, <1>4

\* Recording an entry leaves the places of all others.
LEMMA PlacesGrow ==
    ASSUME StoreTypes, NEW s \in Services, NEW i \in Sids, NEW r \in Calls, NEW what \in Whats,
           Record(s, i, <<Entry(r, what)>>)
    PROVE  /\ \A t \in Services, k \in Sids : \A e :
                 t # s \/ k # i \/ e # Entry(r, what) => Places(t, k, e)' = Places(t, k, e)
           /\ Places(s, i, Entry(r, what))'
                 = Places(s, i, Entry(r, what)) \cup {Len(events[s][i]) + 1}
<1>0. PICK es : es = <<Entry(r, what)>>
    OBVIOUS
<1> DEFINE h == events[s][i]
<1>1. es \in Seq(EntryType) /\ Len(es) = 1 /\ DOMAIN es = {1} /\ \A k \in DOMAIN es : es[k] = Entry(r, what)
    BY <1>0, OneEntry
<1>2. /\ events'[s][i] = h \o es
      /\ \A t \in Services, k \in Sids : t # s \/ k # i => events'[t][k] = events[t][k]
    <2>1. Record(s, i, es)
        BY <1>0, Zenon
    <2> QED
        BY <1>1, <2>1, RecordOne
<1>3. h \in Seq(EntryType)
    BY DEF StoreTypes
<1> HIDE DEF h
<1> DEFINE all == h \o es
<1>4. DOMAIN all = DOMAIN h \cup {Len(h) + 1} /\ Len(h) + 1 \notin DOMAIN h
    <2>1. Len(all) = Len(h) + 1 /\ DOMAIN all = 1..Len(all) /\ Len(h) \in Nat /\ DOMAIN h = 1..Len(h)
        BY <1>1, <1>3, ConcatenatedLen
    <2> HIDE DEF all
    <2> QED
        BY <2>1
<1>5. \A j \in DOMAIN h : all[j] = h[j]
    BY <1>1, <1>3, Concatenated
<1>6. all[Len(h) + 1] = Entry(r, what)
    BY <1>1, <1>3, ConcatenatedAt
<1> HIDE DEF all
<1>7. ASSUME NEW e
      PROVE  /\ e = Entry(r, what) => Places(s, i, e)' = Places(s, i, e) \cup {Len(h) + 1}
             /\ e # Entry(r, what) => Places(s, i, e)' = Places(s, i, e)
    <2>1. /\ Places(s, i, e) = {j \in DOMAIN h : h[j] = e}
          /\ Places(s, i, e)' = {j \in DOMAIN all : all[j] = e}
        BY <1>2, Zenon DEF Places, h, all
    <2>2. CASE e = Entry(r, what)
        <3>1. {j \in DOMAIN all : all[j] = e} = {j \in DOMAIN h : h[j] = e} \cup {Len(h) + 1}
            BY <1>4, <1>5, <1>6, <2>2
        <3> QED
            BY <2>1, <2>2, <3>1
    <2>3. CASE e # Entry(r, what)
        <3>1. {j \in DOMAIN all : all[j] = e} = {j \in DOMAIN h : h[j] = e}
            BY <1>4, <1>5, <1>6, <2>3
        <3> QED
            BY <2>1, <2>3, <3>1
    <2> QED
        BY <2>2, <2>3
<1>8. ASSUME NEW t \in Services, NEW k \in Sids, NEW e, t # s \/ k # i \/ e # Entry(r, what)
      PROVE  Places(t, k, e)' = Places(t, k, e)
    <2>1. CASE t # s \/ k # i
        BY <1>2, <2>1 DEF Places
    <2>2. CASE t = s /\ k = i
        BY <1>7, <1>8, <2>2
    <2> QED
        BY <2>1, <2>2
<1> QED
    BY <1>7, <1>8 DEF h

LEMMA PlacesStay ==
    ASSUME StoreTypes, NEW s \in Services, NEW i \in Sids, NEW es \in Seq(EntryType),
           Record(s, i, es), NEW e, \A n \in DOMAIN es : es[n] # e
    PROVE  \A t \in Services, k \in Sids : Places(t, k, e)' = Places(t, k, e)
<1> DEFINE h == events[s][i]
<1>1. /\ events'[s][i] = h \o es
      /\ \A t \in Services, k \in Sids : t # s \/ k # i => events'[t][k] = events[t][k]
    BY RecordOne
<1>2. h \in Seq(EntryType)
    BY DEF StoreTypes
<1> HIDE DEF h
<1> DEFINE all == h \o es
<1>3. /\ \A j \in DOMAIN h : j \in DOMAIN all /\ all[j] = h[j]
      /\ \A j \in DOMAIN all \ DOMAIN h :
            j > Len(h) /\ j - Len(h) \in DOMAIN es /\ all[j] = es[j - Len(h)]
    BY <1>2, Concatenated, Zenon
<1> HIDE DEF all
<1>4. {j \in DOMAIN all : all[j] = e} = {j \in DOMAIN h : h[j] = e}
    BY <1>3
<1>5. Places(s, i, e)' = Places(s, i, e)
    BY <1>1, <1>4, Zenon DEF Places, h, all
<1>6. ASSUME NEW t \in Services, NEW k \in Sids, t # s \/ k # i
      PROVE  Places(t, k, e)' = Places(t, k, e)
    BY <1>1, <1>6 DEF Places
<1> QED
    BY <1>5, <1>6

\* A step that records nothing of the request q.
Quiet(q) ==
    /\ passed[q] > 0 => passed'[q] > 0
    /\ ~lost'[q] => ~lost[q] /\ Due(q)' = Due(q)
    /\ Runs(q)' => Runs(q) /\ got'[q] = got[q]
    /\ stage'[q] \in {"idle", "load"} => stage[q] \in {"idle", "load"}

\* Whatever the step does, if it leaves what is kept of q.
LEMMA QuietIfSame ==
    ASSUME NEW q, passed'[q] = passed[q], lost'[q] = lost[q], replies'[q] = replies[q],
           got'[q] = got[q], stage'[q] = stage[q]
    PROVE  Quiet(q)
BY DEF Quiet, Due, Runs

\* The request q as another step leaves it.
LEMMA KeptStays ==
    ASSUME NEW q \in Calls, KeptInv(q), FreshInv(q), configured' = configured,
           home[q] \in Services, sid[q] \in Sids,
           \A t \in Services, k \in Sids, what \in {"reply", "message"} :
              Places(t, k, Entry(q, what))' = Places(t, k, Entry(q, what)),
           home'[q] = home[q], sid'[q] = sid[q], Quiet(q),
           \A k \in Sids : events'[OwnService(q)][k] = events[OwnService(q)][k]
    PROVE  KeptInv(q)' /\ FreshInv(q)'
<1>1. FreshInv(q)'
    BY DEF FreshInv, OwnService, Quiet
<1>2. /\ \A t \in Services, k \in Sids : Places(t, k, Entry(q, "reply"))' = Places(t, k, Entry(q, "reply"))
      /\ Places(home[q], sid[q], Entry(q, "message"))' = Places(home[q], sid[q], Entry(q, "message"))
      /\ Places(home[q], sid[q], Entry(q, "reply"))' = Places(home[q], sid[q], Entry(q, "reply"))
    OBVIOUS
<1>3. \A s \in Services : \A i \in Sids :
          Places(s, i, Entry(q, "reply"))' # {} => passed'[q] > 0 /\ s = home'[q] /\ i = sid'[q]
    BY <1>2 DEF KeptInv, Quiet
<1>4. PICK h, k : h = home[q] /\ k = sid[q]
    OBVIOUS
<1>5. /\ Places(h, k, Entry(q, "message"))' = Places(h, k, Entry(q, "message"))
      /\ Places(h, k, Entry(q, "reply"))' = Places(h, k, Entry(q, "reply"))
    BY <1>4
<1>6. ~lost'[q] => Cardinality(Places(h, k, Entry(q, "reply")))' = Cardinality(Due(q))'
    BY <1>4, <1>5 DEF KeptInv, Quiet
<1>7. Runs(q)' =>
          /\ h = ServiceFor(q)' /\ k = got'[q].sid
          /\ \E m \in Places(h, k, Entry(q, "message"))' :
                \A j \in Places(h, k, Entry(q, "reply"))' : m < j
    BY <1>4, <1>5 DEF KeptInv, ServiceFor, OwnService, Quiet
<1>8. h = home'[q] /\ k = sid'[q]
    BY <1>4
<1> HIDE <1>4
<1>9. KeptInv(q)'
    BY <1>3, <1>6, <1>7, <1>8 DEF KeptInv, Places, Entry, Due
<1> QED
    BY <1>1, <1>9

\* Steps that leave the stores, and the tools of sandboxes.
LEMMA QuietKeeping ==
    ASSUME SandboxInv, KeepingInv, UNCHANGED <<events, home, sid, configured>>,
           \A q \in Calls : Quiet(q)
    PROVE  KeepingInv'
<1>1. ASSUME NEW q \in Calls PROVE KeptInv(q)' /\ FreshInv(q)'
    <2>1. home[q] \in Services /\ sid[q] \in Sids /\ KeptInv(q) /\ FreshInv(q)
        BY DEF SandboxInv, StoreTypes, KeepingInv
    <2>2. /\ \A t \in Services, k \in Sids, what \in {"reply", "message"} :
                Places(t, k, Entry(q, what))' = Places(t, k, Entry(q, what))
          /\ \A k \in Sids : events'[OwnService(q)][k] = events[OwnService(q)][k]
        BY DEF Places, Entry
    <2> QED
        BY <2>1, <2>2, KeptStays
<1> QED
    BY <1>1 DEF KeepingInv

LEMMA SandboxKeeping ==
    ASSUME SandboxInv, KeepingInv, NEW r \in Calls, NEW es \in Seq(EntryType),
           Record(Sandbox(r), ChildSid, es), \A n \in DOMAIN es : es[n].what \in SaidInside,
           UNCHANGED <<handlerVars, callerVars>>
    PROVE  KeepingInv'
<1>1. ASSUME NEW q \in Calls PROVE KeptInv(q)' /\ FreshInv(q)'
    <2>1. /\ home[q] \in Services /\ sid[q] \in Sids /\ KeptInv(q) /\ FreshInv(q) /\ StoreTypes
          /\ Sandbox(r) \in Services /\ ChildSid \in Sids /\ OwnService(q) # Sandbox(r)
          /\ OwnService(q) \in Services
        BY ServicesDiffer DEF SandboxInv, StoreTypes, KeepingInv
    <2>2. ASSUME NEW what \in {"reply", "message"}, NEW n \in DOMAIN es PROVE es[n] # Entry(q, what)
        <3>1. Entry(q, what).what = what
            BY DEF Entry
        <3>2. what \notin SaidInside
            BY DEF SaidInside
        <3> QED
            BY <3>1, <3>2, Zenon
    <2>3. \A t \in Services, k \in Sids, what \in {"reply", "message"} :
                Places(t, k, Entry(q, what))' = Places(t, k, Entry(q, what))
        BY <2>1, <2>2, PlacesStay
    <2>4. \A k \in Sids : events'[OwnService(q)][k] = events[OwnService(q)][k]
        BY <2>1, RecordOne
    <2>5. /\ configured' = configured /\ home' = home /\ sid' = sid /\ passed' = passed /\ got' = got
          /\ stage' = stage /\ replies' = replies /\ lost' = lost
        BY DEF handlerVars, callerVars, loaderVars, runVars
    <2>6. Quiet(q)
        BY <2>5, QuietIfSame
    <2> QED
        BY <2>1, <2>3, <2>4, <2>5, <2>6, KeptStays
<1> QED
    BY <1>1 DEF KeepingInv

\* A handler of r that records an entry of its own: what is to show of r.
LEMMA RecordKeeping ==
    ASSUME SandboxInv, KeepingInv, NEW r \in Calls, NEW s \in {Shared, OwnService(r)}, NEW i \in Sids,
           NEW what \in {"message", "reply"}, Record(s, i, <<Entry(r, what)>>),
           configured' = configured,
           \A q \in Calls \ {r} :
              /\ home'[q] = home[q] /\ sid'[q] = sid[q] /\ passed'[q] = passed[q] /\ lost'[q] = lost[q]
              /\ stage'[q] = stage[q] /\ replies'[q] = replies[q] /\ got'[q] = got[q],
           KeptInv(r)' /\ FreshInv(r)'
    PROVE  KeepingInv'
<1>1. ASSUME NEW q \in Calls, q # r PROVE KeptInv(q)' /\ FreshInv(q)'
    <2>1. /\ home[q] \in Services /\ sid[q] \in Sids /\ KeptInv(q) /\ FreshInv(q) /\ StoreTypes
          /\ s \in Services /\ OwnService(q) # s /\ OwnService(q) \in Services /\ what \in Whats
        BY <1>1, ServicesDiffer DEF SandboxInv, StoreTypes, KeepingInv, Whats
    <2>2. \A to \in {"reply", "message"} : Entry(q, to) # Entry(r, what)
        BY <1>1 DEF Entry
    <2>3. \A t \in Services, k \in Sids, to \in {"reply", "message"} :
                Places(t, k, Entry(q, to))' = Places(t, k, Entry(q, to))
        BY <2>1, <2>2, PlacesGrow
    <2>4. \A k \in Sids : events'[OwnService(q)][k] = events[OwnService(q)][k]
        <3>1. PICK es : es = <<Entry(r, what)>>
            OBVIOUS
        <3>2. es \in Seq(EntryType)
            BY <2>1, <3>1, OneEntry
        <3>3. Record(s, i, es)
            BY <3>1, Zenon
        <3> QED
            BY <2>1, <3>2, <3>3, RecordOne
    <2>5. Quiet(q)
        BY <1>1, QuietIfSame
    <2> QED
        BY <1>1, <2>1, <2>3, <2>4, <2>5, KeptStays
<1> QED
    BY <1>1 DEF KeepingInv

LEMMA PersistKeeping ==
    ASSUME SandboxInv, HandlersInv, KeepingInv, NEW r \in Calls, Persist(r)
    PROVE  KeepingInv'
<1>1. PICK s, i : s = home[r] /\ i = sid[r]
    OBVIOUS
<1>2. /\ s \in {Shared, OwnService(r)} /\ i \in Sids /\ StoreTypes /\ s \in Services
      /\ KeptInv(r) /\ stage[r] = "persist" /\ "reply" \in Whats /\ passed[r] \in Nat /\ Runs(r)
    BY <1>1, ServicesDiffer
       DEF SandboxInv, StoreTypes, ApartInv, HomesAreOutside, KeepingInv, Persist, NextEvent, Goes,
           Whats, HandlersInv, HandlerTypes, Runs
<1>3. /\ Record(s, i, <<Entry(r, "reply")>>)
      /\ passed' = [passed EXCEPT ![r] = passed[r] + 1] /\ stage' = stage
      /\ UNCHANGED <<configured, home, sid, replies, lost, got>>
      /\ replies[r][passed[r] + 1] = "finished"
    <2>1. stage' = stage
        BY <1>2 DEF Persist, NextEvent, Goes, HandlersInv, HandlerTypes
    <2> QED
        BY <1>1, <2>1 DEF Persist, NextEvent, Goes, loaderVars, callerVars
<1>4. passed'[r] = passed[r] + 1 /\ \A q \in Calls \ {r} : passed'[q] = passed[q]
    BY <1>3 DEF HandlersInv, HandlerTypes
<1>14. /\ Due(r)' = Due(r) \cup {passed[r] + 1} /\ passed[r] + 1 \notin Due(r)
       /\ IsFiniteSet(Due(r))
    <2>1. Due(r) = {m \in 1..passed[r] : replies[r][m] = "finished"}
        BY DEF Due
    <2>2. Due(r)' = {m \in 1..(passed[r] + 1) : replies[r][m] = "finished"}
        BY <1>3, <1>4 DEF Due
    <2>3. IsFiniteSet(Due(r))
        BY DueIsFinite DEF HandlersInv
    <2> QED
        BY <1>2, <1>3, <2>1, <2>2, <2>3
<1> DEFINE reply == Entry(r, "reply")
           n == Len(events[s][i]) + 1
           S == Places(s, i, reply)
           M == Places(s, i, Entry(r, "message"))
<1>5. /\ S' = S \cup {n} /\ M' = M
      /\ \A t \in Services, k \in Sids : t # s \/ k # i => Places(t, k, reply)' = Places(t, k, reply)
    <2>1. Entry(r, "message") # reply
        BY DEF Entry
    <2> QED
        BY <1>2, <1>3, <2>1, PlacesGrow
<1>6. /\ IsFiniteSet(S) /\ n \notin S /\ n \in Nat /\ M \subseteq 1..(n - 1)
    BY <1>2, PlacesAreFinite
<1>7. /\ \A t \in Services : \A k \in Sids : Places(t, k, reply) # {} => t = s /\ k = i
      /\ ~lost[r] => Cardinality(S) = Cardinality(Due(r))
      /\ s = ServiceFor(r) /\ i = got[r].sid
      /\ \E m \in M : \A j \in S : m < j
    BY <1>1, <1>2 DEF KeptInv
<1> HIDE DEF S, M, n
<1>8. ~lost'[r] => Cardinality(S') = Cardinality(Due(r)')
    <2>1. Cardinality(S') = Cardinality(S) + 1
        BY <1>5, <1>6, FS_AddElement
    <2>2. Cardinality(Due(r)') = Cardinality(Due(r)) + 1
        BY <1>14, FS_AddElement
    <2> QED
        BY <1>3, <1>7, <2>1, <2>2
<1>9. \E m \in M' : \A j \in S' : m < j
    BY <1>5, <1>6, <1>7
<1>10. \A t \in Services : \A k \in Sids :
          Places(t, k, reply)' # {} => passed'[r] > 0 /\ t = s /\ k = i
    BY <1>2, <1>4, <1>5, <1>7
<1>11. s = home'[r] /\ i = sid'[r] /\ s = ServiceFor(r)' /\ i = got'[r].sid
    BY <1>1, <1>3, <1>7 DEF ServiceFor, OwnService
<1>12. KeptInv(r)'
    BY <1>8, <1>9, <1>10, <1>11 DEF KeptInv, S, M, Entry, Due
<1>13. FreshInv(r)'
    BY <1>2, <1>3 DEF FreshInv
<1> QED
    BY <1>2, <1>3, <1>4, <1>12, <1>13, RecordKeeping

LEMMA OpenKeeping ==
    ASSUME SandboxInv, HandlersInv, KeepingInv, NEW r \in Calls, OpenSession(r)
    PROVE  KeepingInv'
<1>1. PICK s, i : s = ServiceFor(r) /\ i = got[r].sid
    OBVIOUS
<1>2. /\ s \in {Shared, OwnService(r)} /\ i \in Sids /\ StoreTypes /\ s \in Services
      /\ KeptInv(r) /\ stage[r] = "load" /\ "message" \in Whats /\ passed[r] = 0
    <2>1. stage[r] = "load" /\ got[r] \in Arrival
        BY RestAssumption DEF HandlersInv, HandlerInv, OpenSession, Goes
    <2>2. replies[r] = <<>> /\ passed[r] = 0
        BY <2>1, RestAssumption DEF HandlersInv, HandlerTypes, HandlerInv
    <2> QED
        BY <1>1, <2>1, <2>2, ServicesDiffer
           DEF SandboxInv, KeepingInv, Whats, ServiceFor, Arrival
<1>3. /\ Record(s, i, <<Entry(r, "message")>>)
      /\ home' = [home EXCEPT ![r] = s] /\ sid' = [sid EXCEPT ![r] = i]
      /\ stage' = [stage EXCEPT ![r] = "run"]
      /\ UNCHANGED <<configured, passed, lost, replies, got>>
    BY <1>1 DEF OpenSession, Goes, loaderVars
<1>4. /\ home'[r] = s /\ sid'[r] = i /\ stage'[r] = "run"
      /\ \A q \in Calls \ {r} : home'[q] = home[q] /\ sid'[q] = sid[q] /\ stage'[q] = stage[q]
    BY <1>2, <1>3 DEF HandlersInv, HandlerTypes, StoreTypes
<1> DEFINE message == Entry(r, "message")
           n == Len(events[s][i]) + 1
           R(t, k) == Places(t, k, Entry(r, "reply"))
           M == Places(s, i, message)
<1>5. M' = M \cup {n} /\ \A t \in Services, k \in Sids : R(t, k)' = R(t, k)
    <2>1. Entry(r, "reply") # message
        BY DEF Entry
    <2> QED
        BY <1>2, <1>3, <2>1, PlacesGrow
<1>6. \A t \in Services : \A k \in Sids : R(t, k) = {}
    BY <1>2 DEF KeptInv
<1>7. \A t \in Services : \A k \in Sids : R(t, k)' = {}
    BY <1>5, <1>6
<1>8. Cardinality(R(s, i)') = Cardinality(Due(r)')
    <2>1. Due(r)' = {}
        BY <1>2, <1>3 DEF Due
    <2> QED
        BY <1>2, <1>7, <2>1
<1>9. \E m \in M' : \A j \in R(s, i)' : m < j
    BY <1>2, <1>5, <1>7
<1> HIDE DEF M, n, R
<1>10. s = ServiceFor(r)' /\ i = got'[r].sid
    BY <1>1, <1>2, <1>3 DEF ServiceFor, OwnService
<1>11. KeptInv(r)'
    BY <1>4, <1>7, <1>8, <1>9, <1>10 DEF KeptInv, M, R, Entry, Due
<1>12. FreshInv(r)'
    BY <1>4 DEF FreshInv
<1> QED
    BY <1>2, <1>3, <1>4, <1>11, <1>12, RecordKeeping

\* The other steps of a handler.
LEMMA HandlerKeeping ==
    ASSUME SandboxInv, HandlersInv, KeepingInv, NEW r \in Calls,
           \/ \E a \in clients : Refuse(r, a) \/ Accept(r, a)
           \/ LoadFails(r) \/ OpenFails(r) \/ (\E es \in Replies : RunReturns(r, es)) \/ RunFails(r)
           \/ PersistError(r) \/ WriteDocument(r) \/ WriteEvent(r) \/ WriteFails(r) \/ StreamEnds(r)
    PROVE  KeepingInv'
<1>1. HandlerTypes /\ HandlerInv(r)
    BY DEF HandlersInv
<1>2. PICK to \in Stages :
          /\ stage' = [stage EXCEPT ![r] = to]
          /\ UNCHANGED <<events, home, sid, configured, passed, lost>>
          /\ \/ /\ stage[r] \in {"idle", "load", "run"} /\ to \in {"load", "done"} /\ replies' = replies
                /\ to = "load" => stage[r] = "idle"
                /\ \A q \in Calls \ {r} : got'[q] = got[q]
             \/ stage[r] = "run" /\ to = "persist" /\ got' = got /\ \A q \in Calls \ {r} : replies'[q] = replies[q]
             \/ stage[r] = "persist" /\ to \in {"persist", "done", "gone"} /\ replies' = replies /\ got' = got
    <2>1. ASSUME NEW a, Refuse(r, a) \/ Accept(r, a)
          PROVE  /\ stage[r] = "idle" /\ UNCHANGED <<events, home, sid, configured, passed, lost, replies>>
                 /\ \/ stage' = [stage EXCEPT ![r] = "load"] 
                    \/ stage' = [stage EXCEPT ![r] = "done"]
                 /\ \A q \in Calls \ {r} : got'[q] = got[q]
        BY <1>1, <2>1 DEF Refuse, Accept, Goes, HandlerTypes, loaderVars, runVars, sandboxVars, storeVars, callerVars
    <2>2. ASSUME LoadFails(r) \/ OpenFails(r) \/ RunFails(r)
          PROVE  /\ stage[r] \in {"load", "run"} /\ UNCHANGED <<events, home, sid, configured, passed, lost, replies, got>>
                 /\ stage' = [stage EXCEPT ![r] = "done"]
        BY <2>2 DEF LoadFails, OpenFails, RunFails, Goes, loaderVars, runVars, sandboxVars, storeVars, callerVars
    <2>3. ASSUME NEW es, RunReturns(r, es)
          PROVE  /\ stage[r] = "run" /\ UNCHANGED <<events, home, sid, configured, passed, lost, got>>
                 /\ stage' = [stage EXCEPT ![r] = "persist"]
                 /\ \A q \in Calls \ {r} : replies'[q] = replies[q]
        BY <1>1, <2>3 DEF RunReturns, Goes, HandlerTypes, loaderVars, sandboxVars, storeVars, callerVars
    <2>4. ASSUME PersistError(r) \/ WriteDocument(r) \/ WriteEvent(r) \/ WriteFails(r) \/ StreamEnds(r)
          PROVE  /\ stage[r] = "persist" /\ UNCHANGED <<events, home, sid, configured, passed, lost, got, replies>>
                 /\ \/ stage' = [stage EXCEPT ![r] = "persist"]
                    \/ stage' = [stage EXCEPT ![r] = "gone"]
                    \/ stage' = [stage EXCEPT ![r] = "done"]
        BY <2>4 DEF PersistError, WriteDocument, WriteEvent, WriteFails, StreamEnds, Goes, loaderVars, runVars, sandboxVars, storeVars, callerVars
    <2>5. {"persist", "gone", "done", "load"} \subseteq Stages
        BY DEF Stages
    <2>6. CASE \E a \in clients : Refuse(r, a) \/ Accept(r, a)
        BY <2>1, <2>5, <2>6
    <2>7. CASE LoadFails(r) \/ OpenFails(r) \/ RunFails(r)
        BY <2>2, <2>5, <2>7
    <2>8. CASE \E es \in Replies : RunReturns(r, es)
        BY <2>3, <2>5, <2>8
    <2>9. CASE PersistError(r) \/ WriteDocument(r) \/ WriteEvent(r) \/ WriteFails(r) \/ StreamEnds(r)
        BY <2>4, <2>5, <2>9
    <2> QED
        BY <2>6, <2>7, <2>8, <2>9
<1>3. stage'[r] = to /\ \A q \in Calls \ {r} : stage'[q] = stage[q]
    BY <1>1, <1>2 DEF HandlerTypes
<1>4. ASSUME NEW q \in Calls PROVE Quiet(q)
    <2>3. Due(q)' = Due(q)
        <3>1. CASE replies'[q] = replies[q]
            BY <1>2, <3>1 DEF Due
        <3>2. CASE passed[q] = 0
            BY <1>2, <3>2 DEF Due
        <3>3. stage[r] = "run" => passed[r] = 0
            BY <1>1 DEF HandlerInv
        <3> QED
            BY <1>2, <3>1, <3>2, <3>3
    <2>1. CASE q = r
        <3>1. stage[r] \in {"idle", "load", "run"} => replies[r] = <<>>
            BY <1>1 DEF HandlerInv
        <3>2. CASE /\ stage[r] \in {"idle", "load", "run"} /\ to \in {"load", "done"} /\ replies' = replies
                   /\ to = "load" => stage[r] = "idle"
            BY <1>2, <1>3, <2>1, <2>3, <3>1, <3>2 DEF Quiet, Runs
        <3>3. CASE stage[r] = "run" /\ to = "persist" /\ got' = got
            BY <1>2, <1>3, <2>1, <2>3, <3>3 DEF Quiet, Runs
        <3>4. CASE stage[r] = "persist" /\ to \in {"persist", "done", "gone"} /\ replies' = replies /\ got' = got
            BY <1>2, <1>3, <2>1, <2>3, <3>4 DEF Quiet, Runs
        <3> QED
            BY <1>2, <3>2, <3>3, <3>4
    <2>2. CASE q # r
        BY <1>2, <1>3, <2>2, <2>3 DEF Quiet, Runs
    <2> QED
        BY <2>1, <2>2
<1> QED
    BY <1>2, <1>4, QuietKeeping

\* The runner passes an event without appending it.
LEMMA PassKeeping ==
    ASSUME SandboxInv, HandlersInv, KeepingInv, NEW r \in Calls, SkipChunk(r) \/ PersistFails(r)
    PROVE  KeepingInv'
<1>1. HandlerTypes /\ stage[r] = "persist" /\ passed[r] \in Nat
    BY DEF HandlersInv, HandlerTypes, SkipChunk, PersistFails, NextEvent, Goes
<1>2. /\ stage' = [stage EXCEPT ![r] = "persist"] /\ passed' = [passed EXCEPT ![r] = passed[r] + 1]
      /\ UNCHANGED <<events, home, sid, configured, got, replies>>
      /\ \/ replies[r][passed[r] + 1] = "chunk" /\ lost' = lost
         \/ lost' = [lost EXCEPT ![r] = TRUE]
    BY DEF SkipChunk, PersistFails, NextEvent, Goes, loaderVars, sandboxVars, storeVars, callerVars
<1>3. /\ stage' = stage /\ passed'[r] = passed[r] + 1
      /\ \A q \in Calls \ {r} : passed'[q] = passed[q] /\ lost'[q] = lost[q]
      /\ lost'[r] \/ (replies[r][passed[r] + 1] = "chunk" /\ lost' = lost)
    BY <1>1, <1>2 DEF HandlerTypes
<1>4. ASSUME NEW q \in Calls PROVE Quiet(q)
    <2>1. CASE q # r
        BY <1>2, <1>3, <2>1, QuietIfSame
    <2>2. CASE q = r
        <3>1. Due(r) = {n \in 1..passed[r] : replies[r][n] = "finished"}
            BY DEF Due
        <3>2. Due(r)' = {n \in 1..(passed[r] + 1) : replies[r][n] = "finished"}
            BY <1>2, <1>3 DEF Due
        <3>3. ~lost'[r] => Due(r)' = Due(r)
            BY <1>1, <1>3, <3>1, <3>2
        <3> QED
            BY <1>1, <1>2, <1>3, <2>2, <3>3 DEF Quiet, Runs
    <2> QED
        BY <2>1, <2>2
<1> QED
    BY <1>2, <1>4, QuietKeeping

LEMMA KeepingHolds ==
    ASSUME SandboxInv, HandlersInv, KeepingInv, ServerNext
    PROVE  KeepingInv'
<1>1. ASSUME UNCHANGED <<events, handlerVars, home, sid>> PROVE KeepingInv'
    <2>1. \A q \in Calls : Quiet(q)
        BY <1>1, QuietIfSame DEF handlerVars, runVars
    <2>2. UNCHANGED configured
        BY <1>1 DEF handlerVars, loaderVars
    <2> QED
        BY <1>1, <2>1, <2>2, QuietKeeping
<1>2. ASSUME NEW r \in Calls, AgentRuns(r) PROVE KeepingInv'
    <2>1. UNCHANGED handlerVars /\ (CallerFlow(r) \/ ToolCall(r))
        BY <1>2 DEF AgentRuns
    <2>2. CASE CallerFlow(r) \/ ToolRefuses(r) \/ ToolFails(r)
        BY <1>1, <2>1, <2>2 DEF CallerFlow, ToolRefuses, ToolFails, sandboxVars, storeVars, callerVars
    <2>3. CASE ToolStarts(r)
        <3>1. PICK es : es = <<Entry(r, "request")>>
            OBVIOUS
        <3>2. "request" \in Whats
            BY DEF Whats
        <3>3. es \in Seq(EntryType) /\ \A n \in DOMAIN es : es[n].what = "request"
            BY <3>1, <3>2, OneEntry
        <3>4. Record(Sandbox(r), ChildSid, es) /\ UNCHANGED callerVars
            BY <2>3, <3>1 DEF ToolStarts, ChildService
        <3> QED
            BY <2>1, <3>3, <3>4, SandboxKeeping DEF SaidInside
    <2>4. ASSUME NEW es \in ChildEvents, ToolAnswers(r, es) PROVE KeepingInv'
        <3> DEFINE said == [i \in DOMAIN es |-> Entry(r, es[i])]
        <3>1. es \in Seq({"text", "quiet", "error"})
            BY AgentToolAssumption
        <3>2. said \in Seq(EntryType) /\ \A n \in DOMAIN said : said[n].what \in SaidInside
            <4>1. \A k \in DOMAIN es : es[k] \in {"text", "quiet", "error"}
                BY <3>1, ElementOf
            <4>2. \A k \in DOMAIN es : Entry(r, es[k]) \in EntryType /\ Entry(r, es[k]).what \in SaidInside
                BY <4>1 DEF Entry, EntryType, Whats, SaidInside
            <4>3. DOMAIN es = 1..Len(es) /\ Len(es) \in Nat
                BY <3>1
            <4> QED
                BY <4>2, <4>3
        <3> HIDE DEF said
        <3>3. Record(Sandbox(r), ChildSid, said) /\ UNCHANGED callerVars
            BY <2>4 DEF ToolAnswers, ChildService, said
        <3> QED
            BY <2>1, <3>2, <3>3, SandboxKeeping
    <2> QED
        BY <2>1, <2>2, <2>3, <2>4 DEF ToolCall
<1>3. ASSUME NEW r \in Calls, Handle(r) PROVE KeepingInv'
    BY <1>2, <1>3, OpenKeeping, PersistKeeping, PassKeeping, HandlerKeeping DEF Handle
<1> QED
    BY <1>1, <1>3, RestAssumption, HandlerKeeping
       DEF ServerNext, Fatal, sandboxVars, storeVars, callerVars

(***************************************************************************)
(* The server in its program                                               *)
(***************************************************************************)

ServerInv == HandlersInv /\ SandboxInv /\ KeepingInv

\* Only the server changes what the server keeps, but for the agent it is given.
LEMMA OtherSteps ==
    ASSUME [ProgramNext]_programVars
    PROVE  \/ ServerNext
           \/ /\ UNCHANGED <<configured, clients, got, stage, answerVars, runVars, sandboxVars>>
              /\ loader' \in {loader, "agent"}
<1>1. CASE Build
    BY <1>1 DEF Build, serverVars, handlerVars, loaderVars
<1>2. CASE Start
    BY <1>2 DEF Start
<1>3. CASE Serve
    BY <1>3 DEF Serve
<1>4. CASE UNCHANGED programVars
    BY <1>4 DEF programVars, serverVars, handlerVars, loaderVars
<1> QED
    BY <1>1, <1>2, <1>3, <1>4 DEF ProgramNext, Idle

LEMMA ServerStep ==
    ASSUME ServerInv, [ProgramNext]_programVars
    PROVE  ServerInv'
<1>1. CASE ServerNext
    <2>1. HandlersInv'
        BY <1>1, HandlersHold DEF ServerInv, SandboxInv
    <2>2. SandboxInv'
        BY <1>1, SandboxHolds DEF ServerInv
    <2>3. KeepingInv'
        BY <1>1, KeepingHolds DEF ServerInv
    <2> QED
        BY <2>1, <2>2, <2>3 DEF ServerInv
<1>2. CASE /\ UNCHANGED <<configured, clients, got, stage, answerVars, runVars, sandboxVars>>
           /\ loader' \in {loader, "agent"}
    <2>1. HandlersInv'
        <3>1. HandlerTypes'
            BY <1>2 DEF ServerInv, HandlersInv, HandlerTypes, answerVars, runVars
        <3>2. ASSUME NEW r \in Calls PROVE HandlerInv(r)'
            BY <1>2 DEF ServerInv, HandlersInv, HandlerInv, LoopEnds, Persisted, Streams, answerVars, runVars
        <3> QED
            BY <3>1, <3>2 DEF HandlersInv
    <2>2. SandboxInv'
        BY <1>2, SandboxStays DEF ServerInv
    <2>3. KeepingInv'
        <3>1. UNCHANGED <<events, home, sid, configured>> /\ \A q \in Calls : Quiet(q)
            BY <1>2, QuietIfSame DEF sandboxVars, storeVars, callerVars, runVars
        <3> QED
            BY <3>1, QuietKeeping DEF ServerInv
    <2> QED
        BY <2>1, <2>2, <2>3 DEF ServerInv
<1> QED
    BY <1>1, <1>2, OtherSteps

LEMMA ServerAlways == ProgramSpec => []ServerInv
<1>1. ProgramInit => ServerInv
    BY HandlersStart, SandboxStarts, KeepingStarts DEF ServerInv
<1>2. ServerInv /\ [ProgramNext]_programVars => ServerInv'
    BY ServerStep
<1> QED
    BY <1>1, <1>2, PTL DEF ProgramSpec

\* AgentToolIsApart for any services, keys and numbers of calls: an agent that runs as a tool
\* leaves nothing in its caller's session but what it merged into the maps it was given, and
\* its answer is never half of one (agent_tool.go:75-155).
THEOREM AgentToolStaysApart == ProgramSpec => []AgentToolIsApart
<1>1. ServerInv => AgentToolIsApart
    BY SandboxInvApart DEF ServerInv
<1> QED
    BY <1>1, ServerAlways, PTL

\* After the loop all finished events were due.
LEMMA AllAreDue ==
    ASSUME ServerInv, NEW r \in Calls, LoopEnds(r)
    PROVE  Due(r) = Finished(r) /\ IsFiniteSet(Due(r))
<1>1. HandlerTypes
    BY DEF ServerInv, HandlersInv
<1>2. DOMAIN replies[r] = 1..Len(replies[r])
    BY <1>1, RepliesAreSequences
<1> QED
    BY <1>1, <1>2, DueIsFinite DEF Due, Finished, LoopEnds

\* What the client of r has got is in its session.
LEMMA ToldIsKept ==
    ASSUME ServerInv, NEW r \in Calls, body[r] # <<>>
    PROVE  /\ ~lost[r]
           /\ Cardinality(EntriesOf(r, "reply", got[r].sid)) = Cardinality(Finished(r))
           /\ \E m \in EntriesOf(r, "message", got[r].sid) :
                 \A j \in EntriesOf(r, "reply", got[r].sid) : m < j
<1>1. HandlerInv(r) /\ KeptInv(r)
    BY DEF ServerInv, HandlersInv, KeepingInv
<1>2. Runs(r) /\ ~lost[r] /\ Due(r) = Finished(r)
    BY <1>1, AllAreDue DEF HandlerInv, Persisted, Runs
<1>3. sid[r] = got[r].sid
    BY <1>1, <1>2 DEF KeptInv
<1>4. \A what : EntriesOf(r, what, got[r].sid) = Places(home[r], sid[r], Entry(r, what))
    BY <1>3 DEF EntriesOf, Places
<1> QED
    BY <1>1, <1>2, <1>4 DEF KeptInv

LEMMA ServerIsTyped == ASSUME ServerInv PROVE ServerTypeOK
<1>1. SandboxTypeOK
    BY DEF ServerInv, SandboxInv, StoreTypes, SandboxTypeOK, EntryType
<1>2. ASSUME NEW r \in Calls PROVE passed[r] \in 0..Len(replies[r])
    <2>1. HandlerInv(r) /\ HandlerTypes
        BY DEF ServerInv, HandlersInv
    <2>2. passed[r] \in Nat /\ Len(replies[r]) \in Nat /\ passed[r] <= Len(replies[r])
        BY <2>1, RepliesAreSequences DEF HandlerTypes, HandlerInv
    <2> QED
        BY <2>2
<1> QED
    BY <1>1, <1>2, RestAssumption DEF ServerInv, HandlersInv, HandlerTypes, ServerTypeOK

\* ClientsAreToldTheRun for any number of concurrent requests: an answer is all of a run or an
\* error, and if any of it was written then all finished events of the run are in the
\* session, each once and behind its message (server.go:64-194, runner.go:144-185).
THEOREM ClientsAreAlwaysToldTheRun == ProgramSpec => []ClientsAreToldTheRun
<1>1. ASSUME ServerInv PROVE ClientsAreToldTheRun
    <2>1. AnswerIsTheRun
        <3> SUFFICES ASSUME NEW r \in Calls
                     PROVE  /\ body[r] # <<>> => ~told[r] /\ status[r] = 200
                            /\ stage[r] = "done" =>
                                  /\ status[r] # 0
                                  /\ ~told[r] => Len(body[r]) = Len(replies[r])
                                  /\ ~Streams(r) => (told[r] <=> status[r] # 200)
            BY RestAssumption DEF AnswerIsTheRun
        <3>1. HandlerInv(r) /\ stage[r] \in Stages /\ told[r] \in BOOLEAN
            BY <1>1 DEF ServerInv, HandlersInv, HandlerTypes
        <3> QED
            BY <3>1 DEF HandlerInv, Stages
    <2>2. AnsweredIsKept
        BY <1>1, RestAssumption, ToldIsKept DEF AnsweredIsKept
    <2> QED
        BY <1>1, <2>1, <2>2, ServerIsTyped DEF ClientsAreToldTheRun
<1> QED
    BY <1>1, ServerAlways, PTL

\* A handler gets to its run by OpenSession only.
LEMMA RunsBegin ==
    ASSUME HandlersInv, ServerNext, NEW r \in Calls, stage[r] = "load", stage'[r] = "run"
    PROVE  OpenSession(r)
<1>0. stage \in [Calls -> Stages]
    BY DEF HandlersInv, HandlerTypes
<1>1. CASE Fatal
    BY <1>1 DEF Fatal, handlerVars
<1>2. ASSUME NEW q \in Calls, NEW a \in clients, Refuse(q, a) \/ Accept(q, a) PROVE FALSE
    BY <1>0, <1>2 DEF Refuse, Accept, Goes
<1>3. ASSUME NEW q \in Calls, Handle(q), ~OpenSession(r) PROVE FALSE
    <2>1. CASE OpenSession(q)
        BY <1>0, <1>3, <2>1 DEF OpenSession, Goes
    <2>2. CASE AgentRuns(q)
        BY <2>2 DEF AgentRuns, handlerVars
    <2>3. CASE \/ LoadFails(q) \/ OpenFails(q) \/ (\E es \in Replies : RunReturns(q, es)) \/ RunFails(q)
               \/ SkipChunk(q) \/ Persist(q) \/ PersistFails(q) \/ PersistError(q)
               \/ WriteDocument(q) \/ WriteEvent(q) \/ WriteFails(q) \/ StreamEnds(q)
        BY <1>0, <2>3
           DEF LoadFails, OpenFails, RunReturns, RunFails, SkipChunk, Persist, PersistFails, NextEvent,
               PersistError, WriteDocument, WriteEvent, WriteFails, StreamEnds, Goes
    <2> QED
        BY <1>3, <2>1, <2>2, <2>3 DEF Handle
<1> QED
    BY <1>1, <1>2, <1>3, RestAssumption DEF ServerNext

\* What was answered is in the history with which a run of the same service begins.
LEMMA AnsweredIsSeen ==
    ASSUME ServerInv, configured, NEW r \in Calls, OpenSession(r),
           NEW q \in Calls, Remembered(q), got[q].sid = got[r].sid
    PROVE  \E j \in DOMAIN saw'[r] : saw'[r][j] = Entry(q, "reply")
<1>1. HandlerInv(q) /\ KeptInv(q) /\ StoreTypes /\ saw \in [Calls -> Seq(EntryType)]
    BY DEF ServerInv, HandlersInv, HandlerTypes, KeepingInv, SandboxInv
<1>2. home[q] = Shared /\ sid[q] = got[r].sid /\ ServiceFor(r) = Shared /\ ~lost[q]
    <2>1. replies[q] # <<>>
        BY DEF Remembered, Finished
    <2> QED
        BY <1>1, <2>1 DEF Remembered, KeptInv, Runs, ServiceFor
<1>3. Places(home[q], sid[q], Entry(q, "reply")) # {}
    <2> DEFINE replied == Places(home[q], sid[q], Entry(q, "reply"))
    <2>1. Cardinality(replied) = Cardinality(Due(q))
        BY <1>1, <1>2 DEF KeptInv
    <2>3. Due(q) # {} /\ IsFiniteSet(Due(q))
        BY <1>1, AllAreDue DEF HandlerInv, Remembered
    <2> HIDE DEF replied
    <2>2. replied # {}
        BY <2>1, <2>3, FS_EmptySet
    <2> QED
        BY <2>2 DEF replied
<1>4. saw'[r] = events[home[q]][sid[q]]
    BY <1>1, <1>2 DEF OpenSession
<1> QED
    BY <1>3, <1>4 DEF Places

\* ConversationGoesOn for any number of requests and sessions: a run begins with what every
\* request of its session that was answered with a finished event has left there, or with nothing when the server makes a
\* service for each request (server.go:166-169).
THEOREM ConversationsAlwaysGoOn == ProgramSpec => ConversationGoesOn
<1> DEFINE Sees(r) ==
        IF configured
        THEN \A q \in Calls :
                Remembered(q) /\ got[q].sid = got[r].sid =>
                    \E j \in DOMAIN saw'[r] : saw'[r][j] = Entry(q, "reply")
        ELSE saw'[r] = <<>>
<1>1. ASSUME ServerInv, [ProgramNext]_programVars, NEW r \in Calls,
             stage[r] = "load", stage'[r] = "run"
      PROVE  Sees(r)
    <2>1. ServerNext
        BY <1>1, OtherSteps
    <2>2. OpenSession(r)
        BY <1>1, <2>1, RunsBegin DEF ServerInv
    <2>3. CASE configured
        BY <1>1, <2>2, <2>3, AnsweredIsSeen
    <2>4. CASE ~configured
        <3>1. FreshInv(r) /\ got[r].sid \in Sids /\ saw \in [Calls -> Seq(EntryType)]
            BY <1>1, RestAssumption
               DEF ServerInv, KeepingInv, HandlersInv, HandlerTypes, HandlerInv, Arrival
        <3> QED
            BY <1>1, <2>2, <2>4, <3>1 DEF OpenSession, ServiceFor, FreshInv
    <2> QED
        BY <2>3, <2>4
<1>2. ServerInv /\ [ProgramNext]_programVars =>
          [\A r \in Requests : stage[r] = "load" /\ stage'[r] = "run" =>
              IF configured
              THEN \A q \in Requests :
                      Remembered(q) /\ got[q].sid = got[r].sid =>
                          \E j \in DOMAIN saw'[r] : saw'[r][j] = Entry(q, "reply")
              ELSE saw'[r] = <<>>]_serverVars
    BY <1>1, RestAssumption
<1> QED
    BY <1>2, ServerAlways, PTL DEF ProgramSpec, ConversationGoesOn

=============================================================================
