------------------------------ MODULE AgentTool ------------------------------
(***************************************************************************)
(* agenttool (tool/agenttool/agent_tool.go): an agent as a tool of a flow. *)
(* A call of the tool makes services of its own, copies the state of the   *)
(* caller's session into a new session of them, runs the agent there and   *)
(* answers with its last text.                                             *)
(*                                                                         *)
(* The caller is a call of a flow of FlowTools.  The agent in the tool is  *)
(* any agent; what it does between its start and its end is not looked at. *)
(***************************************************************************)
EXTENDS FlowTools

CONSTANTS
    Sids,       \* the IDs of sessions
    ChildSid,   \* the one that the tool makes up
    Shared,     \* the session service of the configuration
    RootKeys,   \* the keys in the state of a session that goes on
    ChildKeys,  \* the keys that callbacks of the agent in the tool set
    MergedKeys, \* the keys whose values are maps, which tools of that agent have in
                \* their state_delta
    Internal,   \* the keys that begin with _adk
    OfUser,     \* the keys that a service keeps for the user
    AgentTools, \* the names of own tools that are agents
    ChildEvents \* bound: the finished events an agent in a tool may return

Keys == RootKeys \cup ChildKeys \cup MergedKeys

\* The services that a caller and its agent tool make for themselves.
OwnService(r) == <<r, "own">>
Sandbox(r) == <<r, "sandbox">>

Services == {Shared} \cup {OwnService(r) : r \in Calls} \cup {Sandbox(r) : r \in Calls}

ASSUME AgentToolAssumption ==
    /\ ChildSid \in Sids
    /\ Shared \notin Calls \X {"own", "sandbox"}
    /\ \A es \in ChildEvents : es \in Seq({"text", "quiet", "error"})

Entry(r, what) == [run |-> r, what |-> what]

\* An entry of a caller's session, and of the session of an agent in a tool.
Whats == {"message", "reply"} \cup {"request", "text", "quiet", "error"}

VARIABLES
    events,  \* events[s][sid]: the history of a session of a service
    state,   \* state[s][sid]: the keys in its state
    users,   \* users[s]: the keys that a service keeps for the user
    inside,  \* inside[s][sid]: the keys of that state whose maps, made for this session,
             \* an agent in a tool has written in
    home,    \* the service of each request's run
    sid,     \* the session of it
    tool     \* the agent tool of each run: not called, running, or its answer

storeVars == <<events, state, users, inside>>
callerVars == <<home, sid>>
sandboxVars == <<storeVars, callerVars, tool>>

SandboxInit ==
    /\ events = [s \in Services |-> [i \in Sids |-> <<>>]]
    /\ state = [s \in Services |->
          [i \in Sids |-> IF s = Shared /\ i # ChildSid THEN RootKeys ELSE {}]]
    /\ users = [s \in Services |-> {}]
    /\ inside = [s \in Services |-> [i \in Sids |-> {}]]
    /\ home = [r \in Calls |-> Shared]
    /\ sid = [r \in Calls |-> ChildSid]
    /\ tool = [r \in Calls |-> "off"]

Record(s, i, es) == events' = [events EXCEPT ![s][i] = @ \o es]

-----------------------------------------------------------------------------

IsAgentTool(t) == t.owner = Own /\ t.name \in AgentTools

\* The flow of the request has called the tool and waits for it.
InAgentTool(r) ==
    /\ ~crashed
    /\ at[r] = "called" /\ IsAgentTool(found[r])
    /\ tool[r] \in {"off", "running"}

\* No request argument, or an agent that has no Execute.
ToolRefuses(r) ==
    /\ InAgentTool(r) /\ tool[r] = "off"
    /\ tool' = [tool EXCEPT ![r] = "error"]
    /\ UNCHANGED <<storeVars, callerVars, toolVars>>

\* Mutant: the run of the agent is given the service of the caller.
SandboxOfCaller(r) == home[r]

\* The session service of the child: a new one at every call.
ChildService(r) == Sandbox(r)

\* The state of the caller's session as the tool sees it, without internal keys.  All
\* copies keys and values, and a value that is a map is the caller's own.
Copied(r) == state[home[r]][sid[r]] \ Internal

\* Create, the copy of the state, and the runner's user event in the child session.
ToolStarts(r) ==
    /\ InAgentTool(r) /\ tool[r] = "off"
    /\ LET s == ChildService(r)
       IN /\ state' = [state EXCEPT ![s][ChildSid] = Copied(r)]
          /\ Record(s, ChildSid, <<Entry(r, "request")>>)
    /\ tool' = [tool EXCEPT ![r] = "running"]
    /\ UNCHANGED <<users, inside, callerVars, toolVars>>

\* The maps of the caller's session that are in the state of the child.
Borrowed(r) == MergedKeys \cap state[ChildService(r)][ChildSid]

\* The callbacks of the agent set their keys, in the session at once and, with the event
\* that carries them, in what the service keeps for the user.  What its tools return is
\* merged into the maps that are there, which are the caller's (MergeStateDelta).
ChildSets(r) ==
    LET s == ChildService(r)
        set == ChildKeys \cup MergedKeys
    IN /\ state' = [state EXCEPT ![s][ChildSid] = @ \cup set]
       /\ users' = [users EXCEPT ![s] = @ \cup (set \cap OfUser)]
       /\ inside' = [inside EXCEPT ![home[r]][sid[r]] = @ \cup Borrowed(r)]

\* An event with an error is an error of the tool; otherwise the last text is the
\* answer, which may be missing.
AnswerOf(es) ==
    IF \E i \in DOMAIN es : es[i] = "error" THEN "error"
    ELSE IF \E i \in DOMAIN es : es[i] = "text" THEN "text" ELSE "empty"

\* The run of the agent fails, or its events are persisted in its session.
ToolFails(r) ==
    /\ InAgentTool(r) /\ tool[r] = "running"
    /\ ChildSets(r)
    /\ tool' = [tool EXCEPT ![r] = "error"]
    /\ UNCHANGED <<events, callerVars, toolVars>>

ToolAnswers(r, es) ==
    /\ InAgentTool(r) /\ tool[r] = "running"
    /\ ChildSets(r)
    /\ tool' = [tool EXCEPT ![r] = AnswerOf(es)]
    /\ Record(ChildService(r), ChildSid, [i \in DOMAIN es |-> Entry(r, es[i])])
    /\ UNCHANGED <<callerVars, toolVars>>

\* Of the called tool only the agent tool takes steps of its own.  A second call of
\* it in one run would be like the first one (bound).
CallerFlow(r) ==
    /\ ~InAgentTool(r)
    /\ FlowStep(r)
    /\ IsAgentTool(found'[r]) /\ found'[r] # found[r] => tool[r] = "off"
    /\ UNCHANGED sandboxVars

ToolCall(r) ==
    \/ ToolRefuses(r)
    \/ ToolStarts(r)
    \/ ToolFails(r)
    \/ \E es \in ChildEvents : ToolAnswers(r, es)

-----------------------------------------------------------------------------
(***************************************************************************)
(* Properties                                                              *)
(***************************************************************************)

ToolAnswersOrNot == {"off", "running", "error", "text", "empty"}

SandboxTypeOK ==
    /\ \A s \in Services : \A i \in Sids :
          /\ events[s][i] \in Seq([run: Calls, what: Whats])
          /\ state[s][i] \subseteq Keys
    /\ users \in [Services -> SUBSET Keys]
    /\ inside \in [Services -> [Sids -> SUBSET MergedKeys]]
    /\ home \in [Calls -> Services]
    /\ sid \in [Calls -> Sids]
    /\ tool \in [Calls -> ToolAnswersOrNot]

\* What an agent in a tool says and what it sets stays in its sandbox: neither the history
\* and the keys of a caller's session nor what its service keeps for the user have any of
\* it, the histories of concurrent sandboxes do not meet, and nothing internal of the caller
\* gets into one.  Only in the maps it has borrowed it writes outside: in maps of the
\* caller that are not internal (agent_tool.go:82-130).
SandboxIsApart ==
    /\ \A s \in Services : \A i \in Sids : \A j \in DOMAIN events[s][i] :
          events[s][i][j].what \in {"request", "text", "quiet", "error"} =>
              s = Sandbox(events[s][i][j].run)
    /\ \A r \in Calls : \A j \in DOMAIN events[Sandbox(r)][ChildSid] :
          events[Sandbox(r)][ChildSid][j].run = r
    /\ \A r \in Calls : \A i \in Sids :
          /\ (state[home[r]][i] \cup users[home[r]]) \subseteq RootKeys
          /\ state[Sandbox(r)][i] \cap (Internal \ (ChildKeys \cup MergedKeys)) = {}
          /\ inside[home[r]][i] \subseteq RootKeys \ Internal
          /\ inside[Sandbox(r)][i] = {}

\* An agent tool answers with a text only if the agent's run is complete and nowhere in
\* it an error was reported, also before the last text (agent_tool.go:128-151).
AnswerIsSound ==
    \A r \in Calls : tool[r] \in {"text", "empty"} =>
        LET es == events[Sandbox(r)][ChildSid]
        IN /\ es # <<>>
           /\ \A j \in DOMAIN es : es[j].what # "error"
           /\ tool[r] = "text" <=> \E j \in DOMAIN es : es[j].what = "text"

\* An agent that runs as a tool leaves its caller an answer, which is never half of one, and
\* nothing else but what it merged into the maps of the copy (agent_tool.go:75-155).
AgentToolIsApart == SandboxIsApart /\ AnswerIsSound

\* "The child runner is wholly independent of the parent, preventing session pollution."
\* (.rive-artifacts/19-agent-tool-sandbox.md:17-18): an agent in a tool writes nothing that
\* the caller's session holds.  The copy of the state has the caller's maps, and a
\* state_delta is merged into them (agent_tool.go:126-128, session.go:206-210): this does
\* not hold.
SandboxWritesStayInside ==
    \A r \in Calls : \A i \in Sids : inside[home[r]][i] = {}

=============================================================================
