------------------------------- MODULE Program -------------------------------
(***************************************************************************)
(* A program with a REST server: its agent is made in code, with toolsets  *)
(* and an agent as a tool, or built from a configuration (AgentConfig),    *)
(* whose flows have the tools of the registry and no toolsets; then the    *)
(* server runs one of its flows for every request.                         *)
(***************************************************************************)
EXTENDS AgentConfig, RestServer

CONSTANTS
    CodeTools,     \* CodeTools[f]: the tools of a flow made in code
    CodeToolsets,  \* CodeToolsets[f]: its toolsets, in order
    CodeClients,   \* bound: the requests to a program whose agent is made in code
    BuiltClients   \* bound: the requests to one that is built

ASSUME ProgramAssumption ==
    /\ CodeTools \in [Flows -> SUBSET ToolNames]
    /\ CodeToolsets \in [Flows -> Seq(DOMAIN Offers)]
    /\ Registry \subseteq ToolNames
    /\ CodeClients \subseteq Arrivals /\ BuiltClients \subseteq Arrivals

VARIABLE serving   \* the server has been started

programVars == <<configVars, serverVars, serving>>

\* The agent is made in code, or the loader gives none, or one without Execute.
InCode ==
    /\ cfg = <<>> /\ phase = "none" /\ path = <<>> /\ agents = <<>>
    /\ \/ loader = "agent" /\ clients = CodeClients
       \/ loader \in {"none", "bare"} /\ clients = BuiltClients
    /\ ownTools = CodeTools
    /\ toolsets = CodeToolsets
    /\ targets = [f \in Flows |-> FALSE]
    /\ serving = TRUE

FromConfig ==
    /\ ConfigInit
    /\ loader = "none" /\ clients = BuiltClients
    /\ ownTools = [f \in Flows |-> {}]
    /\ toolsets = [f \in Flows |-> <<>>]
    /\ targets = [f \in Flows |-> FALSE]
    /\ serving = FALSE

ProgramInit ==
    /\ ServerInit
    /\ configured \in BOOLEAN
    /\ InCode \/ FromConfig

Build == ConfigNext /\ UNCHANGED <<serverVars, serving>>

\* The llm_agent that runs for a request: the first one below the root.  Without any the
\* tree is run like an agent that has no tools.
Speakers == {n \in Nodes : agents[n].kind = LLM}
Speaker == CHOOSE n \in Speakers : \A m \in Speakers : n <= m

\* The built agent is given to the server; each llm_agent has a flow of its own.
Start ==
    /\ phase = "built" /\ ~serving
    /\ serving' = TRUE
    /\ loader' = "agent"
    /\ ownTools' = [ownTools EXCEPT
           !["root"] = IF Speakers = {} THEN {} ELSE agents[Speaker].tools]
    /\ targets' = [targets EXCEPT !["root"] = Speakers # {} /\ MayTransfer(Speaker) # {}]
    /\ UNCHANGED <<configVars, configured, clients, got, stage, answerVars, runVars, sandboxVars,
                   toolsets, active, resolved, list, maps, locals, crashed>>

Serve == serving /\ ServerNext /\ UNCHANGED <<configVars, serving>>

\* No request is on its way, or the program is dead or was never started.  In any other
\* state somebody can go on: no request waits for ever.
Idle ==
    /\ crashed \/ phase = "error" \/ (serving /\ \A r \in Requests : Answered(r))
    /\ UNCHANGED programVars

ProgramNext == Build \/ Start \/ Serve \/ Idle

ProgramSpec == ProgramInit /\ [][ProgramNext]_programVars

=============================================================================
