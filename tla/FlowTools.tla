------------------------------ MODULE FlowTools ------------------------------
(***************************************************************************)
(* The tools of a Flow (flow/flow.go): at its first step a flow asks its   *)
(* toolsets for their tools and keeps the answers in its fields for good.  *)
(* The fields have no lock.  Calls of one flow by concurrent requests read *)
(* and write them in any order, and the runtime may end the program when   *)
(* two of them use one map at a time.                                      *)
(*                                                                         *)
(* A tool is its owner, which is the flow itself, one of its toolsets or   *)
(* the transfer tool, and its key in maps of tools: the one the flow was   *)
(* given it under, or its name.  Its declaration has a name of its own.  A *)
(* map of tools is known by the call that made it: a call makes at most    *)
(* one.                                                                    *)
(***************************************************************************)
EXTENDS Naturals, Sequences, FiniteSets

CONSTANTS
    Flows,      \* the flows, each of one agent
    Calls,      \* the calls of Flow.Run
    FlowOf,     \* FlowOf[c]: the flow that c calls
    ToolNames,  \* the keys of tools
    DeclaredAs, \* DeclaredAs[t]: the name in the declaration of the tool t
    Undeclared, \* the empty one, and that of a tool without a declaration
    Offers,     \* Offers[ts]: the sets of tools the toolset ts may answer with
    Unreliable, \* the toolsets that may fail; a StaticToolset does not
    NoMap,      \* the nil map of a flow that resolved nothing
    MaxSteps    \* bound: MaxSteps[c], the steps of the call c

Own == "own"
NoOwner == "none"
Tool(n, o) == [name |-> n, owner |-> o]
NoTool == Tool("", NoOwner)
TransferTool == Tool("transfer_to_agent", "transfer")
Owners == {Own} \cup DOMAIN Offers
Tools == [name: ToolNames, owner: Owners] \cup {TransferTool}

\* A map without tools, and the list of the tools of a map.
EmptyMap == [n \in ToolNames |-> NoOwner]
ListOf(map) == {Tool(n, map[n]) : n \in {m \in ToolNames : map[m] # NoOwner}}

\* Offers are sets of tool names; a toolset is no other owner of tools.
ASSUME ToolsAssumption ==
    /\ FlowOf \in [Calls -> Flows]
    /\ NoMap \notin Calls
    /\ \A ts \in DOMAIN Offers :
          /\ ts \notin {Own, NoOwner, TransferTool.owner}
          /\ Offers[ts] \subseteq SUBSET ToolNames
    /\ DOMAIN DeclaredAs = Tools
    /\ DeclaredAs[TransferTool] = TransferTool.name /\ TransferTool.name # Undeclared

VARIABLES
    ownTools,  \* f.Tools
    toolsets,  \* f.Toolsets
    targets,   \* whether the agent of the flow has transfer targets
    active,    \* f.activeTransferTool is not nil
    resolved,  \* f.resolvedTools: the map it points to
    list,      \* f.resolvedToolList
    maps,      \* the maps, by the call that made them
    at,        \* the next statement of each call
    answers,   \* what the toolsets told a call so far
    read,      \* the local list of a resolving call
    declared,  \* the tools whose declarations are in its request
    found,     \* the tool that a step of the call looked up
    steps,     \* the steps of the call so far
    crashed    \* two calls used a map at a time, and the program ended

fields == <<ownTools, toolsets, targets, active, resolved, list, maps>>
locals == <<at, answers, read, declared, found, steps>>
toolVars == <<fields, locals, crashed>>

ToolsInit ==
    /\ active = [f \in Flows |-> FALSE]
    /\ resolved = [f \in Flows |-> NoMap]
    /\ list = [f \in Flows |-> {}]
    /\ maps = [c \in Calls |-> EmptyMap]
    /\ at = [c \in Calls |-> "off"]
    /\ answers = [c \in Calls |-> <<>>]
    /\ read = [c \in Calls |-> {}]
    /\ declared = [c \in Calls |-> {}]
    /\ found = [c \in Calls |-> NoTool]
    /\ steps = [c \in Calls |-> 0]
    /\ crashed = FALSE

Flow(c) == FlowOf[c]

Moves(c, from, to) ==
    /\ ~crashed
    /\ at[c] = from
    /\ at' = [at EXCEPT ![c] = to]
    /\ UNCHANGED <<ownTools, toolsets, targets, crashed>>

-----------------------------------------------------------------------------
(***************************************************************************)
(* resolveToolsets                                                         *)
(***************************************************************************)

\* if f.resolvedTools != nil
IsResolved(c) == resolved[Flow(c)] # NoMap

\* A step of Flow.Run comes to the tools of its request.
BeginStep(c) ==
    /\ steps[c] < MaxSteps[c]
    /\ LET next == IF IsResolved(c) THEN "declare" ELSE "make"
       IN Moves(c, "off", next) \/ Moves(c, "called", next)
    /\ steps' = [steps EXCEPT ![c] = @ + 1]
    /\ found' = [found EXCEPT ![c] = NoTool]
    /\ UNCHANGED <<active, resolved, list, maps, answers, read, declared>>

\* The field is set before the map has any tool.
MakeMap(c) ==
    /\ Moves(c, "make", "own")
    /\ resolved' = [resolved EXCEPT ![Flow(c)] = c]
    /\ maps' = [maps EXCEPT ![c] = EmptyMap]
    /\ answers' = [answers EXCEPT ![c] = <<>>]
    /\ UNCHANGED <<active, list, read, declared, found, steps>>

\* Each write goes to the map that the field points to by then.
Write(c, map) == maps' = [maps EXCEPT ![resolved[Flow(c)]] = map]

TheMap(c) == maps[resolved[Flow(c)]]

WriteOwn(c) ==
    /\ Moves(c, "own", "sets")
    /\ Write(c, [n \in ToolNames |-> IF n \in ownTools[Flow(c)] THEN Own ELSE TheMap(c)[n]])
    /\ UNCHANGED <<active, resolved, list, answers, read, declared, found, steps>>

\* Mutant: a toolset replaces the tools before it.
MergedOver(map, ts, names) == [n \in ToolNames |-> IF n \in names THEN ts ELSE map[n]]

\* The first tool of a name wins.
Merged(map, ts, names) ==
    [n \in ToolNames |-> IF n \in names /\ map[n] = NoOwner THEN ts ELSE map[n]]

NextToolset(c) == toolsets[Flow(c)][Len(answers[c]) + 1]

\* One toolset answers, and what is new of it goes into the map.
AskToolset(c, names) ==
    /\ Moves(c, "sets", "sets")
    /\ Len(answers[c]) < Len(toolsets[Flow(c)])
    /\ names \in Offers[NextToolset(c)]
    /\ Write(c, Merged(TheMap(c), NextToolset(c), names))
    /\ answers' = [answers EXCEPT ![c] = Append(@, names)]
    /\ UNCHANGED <<active, resolved, list, read, declared, found, steps>>

\* A toolset that fails is passed over.
ToolsetFails(c) ==
    /\ Moves(c, "sets", "sets")
    /\ Len(answers[c]) < Len(toolsets[Flow(c)])
    /\ NextToolset(c) \in Unreliable
    /\ answers' = [answers EXCEPT ![c] = Append(@, {})]
    /\ UNCHANGED <<active, resolved, list, maps, read, declared, found, steps>>

ReadMap(c) ==
    /\ Moves(c, "sets", "list")
    /\ Len(answers[c]) = Len(toolsets[Flow(c)])
    /\ read' = [read EXCEPT ![c] = ListOf(TheMap(c))]
    /\ UNCHANGED <<active, resolved, list, maps, answers, declared, found, steps>>

SetList(c) ==
    /\ Moves(c, "list", "declare")
    /\ list' = [list EXCEPT ![Flow(c)] = read[c]]
    /\ read' = [read EXCEPT ![c] = {}]
    /\ UNCHANGED <<active, resolved, maps, answers, declared, found, steps>>

-----------------------------------------------------------------------------
(***************************************************************************)
(* The request and the tool calls of the response                          *)
(***************************************************************************)

\* CollectDeclarations: a tool without one, or with one that has no name, is passed over.
CollectDeclarations(tools) == {t \in tools : DeclaredAs[t] # Undeclared}

\* injectToolDeclarations and injectTransferTool
Declare(c) ==
    /\ Moves(c, "declare", "model")
    /\ declared' = [declared EXCEPT
           ![c] = CollectDeclarations(list[Flow(c)])
                  \cup (IF targets[Flow(c)] THEN {TransferTool} ELSE {})]
    /\ active' = [active EXCEPT ![Flow(c)] = targets[Flow(c)]]
    /\ UNCHANGED <<resolved, list, maps, answers, read, found, steps>>

\* lookupTool, by key.  By the time of a tool call f.resolvedTools is not nil any more.
Lookup(f, n) ==
    LET o == IF n \in ToolNames THEN maps[resolved[f]][n] ELSE NoOwner
    IN IF n \in ownTools[f] THEN Tool(n, Own)
       ELSE IF active[f] /\ n = TransferTool.name THEN TransferTool
       ELSE IF o # NoOwner THEN Tool(n, o)
       ELSE NoTool

\* What the model may call a tool: the keys and the declared names.
CallNames == ToolNames \cup ({DeclaredAs[t] : t \in Tools} \ {Undeclared})

\* The model calls a tool by a name, a declared one or not.
CallTool(c, n) ==
    /\ Moves(c, "model", "called")
    /\ found' = [found EXCEPT ![c] = Lookup(Flow(c), n)]
    /\ UNCHANGED <<active, resolved, list, maps, answers, read, declared, steps>>

\* The model gives its answer, or the flow ends after a tool (MaxSteps).
EndCall(c) ==
    /\ \/ Moves(c, "model", "returned")
       \/ steps[c] = MaxSteps[c] /\ Moves(c, "called", "returned")
    /\ declared' = [declared EXCEPT ![c] = {}]
    /\ found' = [found EXCEPT ![c] = NoTool]
    /\ UNCHANGED <<active, resolved, list, maps, answers, read, steps>>

\* The calls that are about to write to the map of f, or to read it.
Writing(f) == {c \in Calls : FlowOf[c] = f /\ at[c] \in {"own", "sets"}}
Reading(f) == {c \in Calls : FlowOf[c] = f /\ at[c] \in {"sets", "model"}}

\* "concurrent map writes", "concurrent map read and map write"
FatalMapAccess(f) ==
    /\ ~crashed
    /\ \E c \in Writing(f) : \E d \in (Writing(f) \cup Reading(f)) \ {c} : TRUE
    /\ crashed' = TRUE
    /\ UNCHANGED <<fields, locals>>

Resolve(c) ==
    \/ MakeMap(c) \/ WriteOwn(c)
    \/ \E names \in UNION {Offers[ts] : ts \in DOMAIN Offers} : AskToolset(c, names)
    \/ ToolsetFails(c) \/ ReadMap(c) \/ SetList(c)

FlowStep(c) ==
    \/ BeginStep(c)
    \/ Resolve(c)
    \/ Declare(c)
    \/ \E n \in CallNames : CallTool(c, n)
    \/ EndCall(c)

-----------------------------------------------------------------------------
(***************************************************************************)
(* Properties                                                              *)
(***************************************************************************)

Ats == {"off", "make", "own", "sets", "list", "declare", "model", "called",
        "returned"}

\* Fields and locals have their types; a call that fills a map finds the field set.
ToolsTypeOK ==
    /\ ownTools \in [Flows -> SUBSET ToolNames]
    /\ toolsets \in [Flows -> Seq(DOMAIN Offers)]
    /\ resolved \in [Flows -> Calls \cup {NoMap}]
    /\ targets \in [Flows -> BOOLEAN] /\ active \in [Flows -> BOOLEAN]
    /\ list \in [Flows -> SUBSET Tools]
    /\ maps \in [Calls -> [ToolNames -> Owners \cup {NoOwner}]]
    /\ at \in [Calls -> Ats]
    /\ answers \in [Calls -> Seq(SUBSET ToolNames)]
    /\ read \in [Calls -> SUBSET Tools]
    /\ declared \in [Calls -> SUBSET Tools]
    /\ found \in [Calls -> Tools \cup {NoTool}]
    /\ \A c \in Calls :
          /\ Len(answers[c]) <= Len(toolsets[Flow(c)])
          /\ at[c] \in Ats \ {"off", "make", "returned"} =>
                resolved[Flow(c)] # NoMap

Resolving(f) ==
    {c \in Calls : FlowOf[c] = f /\ at[c] \in {"make", "own", "sets", "list"}}

\* The calls that found the field nil.
Resolvers(f) ==
    {c \in Calls : FlowOf[c] = f /\
        (at[c] \in {"make", "own", "sets", "list"} \/ answers[c] # <<>> \/ resolved[f] = c)}

\* What the toolsets of f told the call c, the first tool of a name winning.
Told(f, c) ==
    LET first(n) == {i \in DOMAIN answers[c] :
                        n \in answers[c][i] /\ \A j \in 1..(i - 1) : n \notin answers[c][j]}
    IN [n \in ToolNames |->
           IF n \in ownTools[f] THEN Own
           ELSE IF first(n) = {} THEN NoOwner
           ELSE toolsets[f][CHOOSE i \in first(n) : TRUE]]

\* When one call alone found a flow unresolved, a request of the flow declares nothing (it
\* came while the map was filled) or all that the toolsets told that call, each key for
\* its first owner: no request sees a part of the tools.  Once that call is through, the
\* list is complete, and so is what it and all later requests declare; a flow without
\* toolsets does not show how many calls resolved it (flow.go:711-738).
SoleResolverDeclaresAll ==
    \A f \in Flows : \A c \in Calls : Resolvers(f) = {c} =>
        LET whole == ListOf(Told(f, c))
            asDeclared(d) == declared[d] \ {TransferTool}
        IN /\ \A d \in Calls : FlowOf[d] = f /\ at[d] = "model" =>
                  asDeclared(d) \in {{}, CollectDeclarations(whole)}
           /\ toolsets[f] # <<>> /\ c \notin Resolving(f) =>
                  /\ list[f] = whole
                  /\ at[c] = "model" => asDeclared(c) = CollectDeclarations(whole)

\* The tools of f under the key that is reserved for its transfer tool hide each other.
Hidden(f, t) ==
    t.name = TransferTool.name /\ (t # TransferTool \/ t.name \in ownTools[f])

\* Such a flow finds a tool that it declared by the name it declared it under, if that is
\* the tool's key and not the reserved one, although declarations come from the list and
\* calls are looked up in the map (flow.go:740-751).
DeclaredIsFound ==
    \A f \in Flows : \A d \in Calls :
        FlowOf[d] = f /\ at[d] = "model" /\ (\E c \in Calls : Resolvers(f) = {c}) =>
            \A t \in declared[d] :
                DeclaredAs[t] = t.name /\ ~Hidden(f, t) => Lookup(f, DeclaredAs[t]) = t

\* What one request resolved serves the others whole, or not at all while it is being
\* filled in, under the keys of the tools (flow.go:711-757).
ToolsOfOneResolver == ToolsTypeOK /\ SoleResolverDeclaresAll /\ DeclaredIsFound

OwnDeclarations(f) == CollectDeclarations({Tool(n, Own) : n \in ownTools[f]})

\* "Flow auto-resolves toolsets and injects declarations before each model call"
\* (README.md:393): every request declares the flow's own tools at least.  One that comes
\* while another call fills the map finds the field set and the list nil
\* (flow.go:712-714, 738): this does not hold.
RequestsDeclareTheTools ==
    \A c \in Calls : at[c] = "model" => OwnDeclarations(Flow(c)) \subseteq declared[c]

\* The same of the list that all later requests declare, once no call resolves the flow any
\* more.  Of two calls that found the field nil, one may read the map that the other has
\* just made, and set its empty list last (flow.go:715, 734-738): this does not hold, and
\* the flow never declares its tools.
SettledFlowsDeclareAll ==
    \A f \in Flows : resolved[f] # NoMap /\ Resolving(f) = {} =>
        OwnDeclarations(f) \subseteq list[f]

\* "inject function declarations into the request so the LLM knows which tools are
\* available" (tool/tool.go:267-268): it is what the model gets by the name of a declaration.
\* Declarations come with a name of their own, tools are looked up by the key of the map
\* (tool.go:296-300, flow.go:741): this does not hold.
DeclaredToolsAreAvailable ==
    \A c \in Calls : at[c] = "model" =>
        \A t \in declared[c] : Lookup(Flow(c), DeclaredAs[t]) = t

=============================================================================
