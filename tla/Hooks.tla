-------------------------------- MODULE Hooks --------------------------------
(***************************************************************************)
(* The hooks around an agent, a model and a tool, and who has the last     *)
(* word: plugin/manager.go, the callbacks of agent/agent.go,               *)
(* RunWithCallbackContext, and runOneStep, callModel and executeToolCall   *)
(* of flow/flow.go.                                                        *)
(*                                                                         *)
(* A procedure is the chains of hooks it goes through, around its core:    *)
(* the agent's run, the model or the tool.  A hook that is nil, and every  *)
(* hook of a plugin manager that is nil, is one that never answers.        *)
(***************************************************************************)
EXTENDS Naturals, Sequences

CONSTANTS
    Hooks, \* the hooks of each chain
    None   \* no error

ASSUME HooksAssumption == Hooks \in Nat

\* The chains in the order in which each procedure runs them
Order ==
    [ lifecycle |-> <<"pluginBefore", "ctxBefore", "core", "pluginAfter", "ctxAfter">>,
      execute   |-> <<"before", "core", "after">>,
      step      |-> <<"request", "enter", "pluginBefore", "ctxBefore", "before", "core",
                      "pluginError", "pluginAfter", "ctxAfter", "after", "check",
                      "response", "again">>,
      tool      |-> <<"pluginBefore", "ctxBefore", "before", "core", "pluginError",
                      "pluginAfter", "ctxAfter", "after">> ]

Procedures == DOMAIN Order
AgentProcedures == {"lifecycle", "execute"}

BeforeChains == {"pluginBefore", "ctxBefore", "before"}
AfterChains  == {"pluginAfter", "ctxAfter", "after"}
HookChains   == BeforeChains \cup AfterChains \cup {"request", "pluginError", "response"}

VARIABLES
    procedure, \* which one runs
    at,        \* its current chain, an index of Order[procedure]
    place,     \* the next hook of the chain
    answer,    \* its values and its error, by the hooks they come from
    runErr,    \* what executeToolCall tells the after hooks
    ended,     \* the invocation has been ended
    log        \* auxiliary: who answered since the model was last asked, and how

vars == <<procedure, at, place, answer, runErr, ended, log>>

Authors == (HookChains \cup {"core", "check"}) \X (1..Hooks + 1)

ASSUME NoneIsNobody == None \notin Authors

Outcomes == {"value", "empty", "ending", "error", "both", "nothing"}

HooksTypeOK ==
    /\ procedure \in Procedures
    /\ at \in 1..Len(Order[procedure]) + 1
    /\ place \in 1..Hooks + 1
    /\ answer.values \in Seq(Authors)
    /\ answer.error \in Authors \cup {None}
    /\ answer.empty \in BOOLEAN
    /\ runErr \in Authors \cup {None}
    /\ ended \in BOOLEAN
    /\ \A i \in DOMAIN log : log[i].by \in Authors /\ log[i].out \in Outcomes

Done == at = Len(Order[procedure]) + 1

Chain == IF Done THEN "done" ELSE Order[procedure][at]

Self == <<Chain, place>>

NoAnswer == [values |-> <<>>, error |-> None, empty |-> FALSE]

-----------------------------------------------------------------------------
(***************************************************************************)
(* Outcomes.  "empty" is a response without content, error code or         *)
(* interruption, "ending" an event with EndInvocation, "both" a response,  *)
(* or the events of a run, with an error, "nothing" neither.  An agent     *)
(* callback's event is not looked at beside an error, and a plugin manager *)
(* never returns both.                                                     *)
(***************************************************************************)

HookOutcomes ==
    IF procedure \in AgentProcedures THEN {"value", "ending", "error"}
    ELSE IF procedure = "tool" \/ Chain = "request" THEN {"value", "error"}
    ELSE IF Chain \in {"pluginBefore", "pluginError", "pluginAfter"} THEN {"value", "empty", "error"}
    ELSE {"value", "empty", "error", "both"}

CoreOutcomes ==
    IF procedure = "step" THEN {"value", "empty", "error", "nothing"}
    ELSE IF procedure = "tool" THEN {"value", "error"}
    ELSE {"value", "error", "both"}

\* What an outcome makes of the answer.  A tool's result always holds its error.
Reply(out) ==
    [ values |-> IF out = "nothing" \/ (out = "error" /\ procedure # "tool")
                 THEN <<>> ELSE <<Self>>,
      error  |-> IF out \in {"error", "both"} THEN Self ELSE None,
      empty  |-> out = "empty" ]

Failure == [NoAnswer EXCEPT !.error = Self]

Logged(out) == Append(log, [by |-> Self, out |-> out])

-----------------------------------------------------------------------------
GoTo(i) == at' = i /\ place' = 1

GoOn == GoTo(at + 1)

Finish == GoTo(Len(Order[procedure]) + 1)

GoToChain(chain) == GoTo(CHOOSE i \in DOMAIN Order[procedure] : Order[procedure][i] = chain)

InChain(chains) == Chain \in chains /\ place <= Hooks

\* A hook is nil or gives neither a value nor an error.
Pass ==
    /\ InChain(HookChains)
    /\ Chain = "pluginError" => answer.error # None
    /\ place' = place + 1
    /\ UNCHANGED <<procedure, at, answer, runErr, ended, log>>

EndOfChain ==
    /\ Chain \in HookChains
    /\ \/ place = Hooks + 1
       \/ Chain = "pluginError" /\ answer.error = None
    /\ GoOn
    /\ UNCHANGED <<procedure, answer, runErr, ended, log>>

\* preprocess: the event or the error of a request processor ends the step.
Preprocess(out) ==
    /\ InChain({"request"})
    /\ answer' = Reply(out)
    /\ log' = Logged(out)
    /\ Finish
    /\ UNCHANGED <<procedure, runErr, ended>>

\* Who holds the invocation's context may end it while it goes on: a processor, a plain
\* callback, an agent's run, a tool that wants a context.  A CallbackContext and a model
\* cannot.
HoldsInvocation ==
    \/ InChain({"request", "before", "after", "response"})
    \/ Chain = "core" /\ procedure # "step"

EndsInvocation ==
    /\ HoldsInvocation /\ ~ended
    /\ ended' = TRUE
    /\ UNCHANGED <<procedure, at, place, answer, runErr, log>>

Enter ==
    /\ Chain = "enter"
    /\ IF ended THEN Finish ELSE GoOn
    /\ UNCHANGED <<procedure, answer, runErr, ended, log>>

\* A before hook answers instead of the core; no after hook sees its answer.
AnswerBefore(out) ==
    /\ InChain(BeforeChains)
    /\ answer' = Reply(out)
    /\ log' = Logged(out)
    /\ IF procedure = "step" THEN GoToChain("check") ELSE Finish
    /\ UNCHANGED <<procedure, runErr, ended>>

AgentFails(out) == procedure \in AgentProcedures /\ out \in {"error", "both"}

\* The agent's run, GenerateContent, or the look-up and dispatch of a tool.  An agent's
\* failure is returned at once, without the events that came with it.
RunCore(out) ==
    /\ Chain = "core"
    /\ answer' = IF AgentFails(out) THEN Failure ELSE Reply(out)
    /\ runErr' = answer'.error
    /\ log' = Logged(out)
    /\ IF AgentFails(out) THEN Finish ELSE GoOn
    /\ UNCHANGED <<procedure, ended>>

\* RunOnModelErrorCallback: the answer, a new error too, skips the after hooks.
RecoverModel(out) ==
    /\ procedure = "step" /\ InChain({"pluginError"}) /\ answer.error # None
    /\ answer' = Reply(out)
    /\ log' = Logged(out)
    /\ GoToChain("check")
    /\ UNCHANGED <<procedure, runErr, ended>>

\* RunOnToolErrorCallback: a result is a recovery, an error replaces the error, and the
\* after hooks run in either case.
RecoverTool(out) ==
    /\ procedure = "tool" /\ InChain({"pluginError"}) /\ answer.error # None
    /\ answer' = Reply(out)
    /\ runErr' = IF out = "value" THEN None ELSE runErr
    /\ log' = Logged(out)
    /\ GoOn
    /\ UNCHANGED <<procedure, ended>>

\* An agent's after hook adds its event or fails; the hooks after it do not run.
AfterAgent(out) ==
    /\ procedure \in AgentProcedures /\ InChain(AfterChains)
    /\ answer' = IF out = "error" THEN Failure
                 ELSE [answer EXCEPT !.values = Append(@, Self)]
    /\ ended' = (ended \/ out = "ending")
    /\ log' = Logged(out)
    /\ Finish
    /\ UNCHANGED <<procedure, runErr>>

\* Mutant: an after hook's response leaves the model's error in place.
AfterModelKeepingError(out) ==
    /\ procedure = "step" /\ InChain(AfterChains)
    /\ answer' = [Reply(out) EXCEPT !.error = IF @ = None THEN answer.error ELSE @]
    /\ log' = Logged(out)
    /\ GoOn
    /\ UNCHANGED <<procedure, runErr, ended>>

\* The first override of each chain replaces response and error together.
AfterModel(out) ==
    /\ procedure = "step" /\ InChain(AfterChains)
    /\ answer' = Reply(out)
    /\ log' = Logged(out)
    /\ GoOn
    /\ UNCHANGED <<procedure, runErr, ended>>

\* As for a model, but a plugin's override is final, and runErr stays as it was.
AfterTool(out) ==
    /\ procedure = "tool" /\ InChain(AfterChains)
    /\ answer' = Reply(out)
    /\ log' = Logged(out)
    /\ IF Chain = "pluginAfter" THEN Finish ELSE GoOn
    /\ UNCHANGED <<procedure, runErr, ended>>

\* runOneStep looks at what callModel returned.
Check ==
    /\ Chain = "check"
    /\ IF answer.error # None
       THEN answer' = [NoAnswer EXCEPT !.error = answer.error] /\ Finish
       ELSE IF answer.values = <<>> THEN answer' = Failure /\ Finish
       ELSE answer' = answer /\ GoOn
    /\ UNCHANGED <<procedure, runErr, ended, log>>

\* postprocess: a response processor can only fail.
Postprocess ==
    /\ InChain({"response"})
    /\ answer' = Failure
    /\ log' = Logged("error")
    /\ Finish
    /\ UNCHANGED <<procedure, runErr, ended>>

\* Mutant: an empty response is asked for again, whatever the response is.
AskAgainAlways ==
    /\ Chain = "again"
    /\ GoToChain("pluginBefore") /\ answer' = NoAnswer /\ log' = <<>>
    /\ UNCHANGED <<procedure, runErr, ended>>

\* A response without content, error or interruption is asked for again.
AskAgain ==
    /\ Chain = "again"
    /\ IF answer.empty
       THEN GoToChain("pluginBefore") /\ answer' = NoAnswer /\ log' = <<>>
       ELSE Finish /\ UNCHANGED <<answer, log>>
    /\ UNCHANGED <<procedure, runErr, ended>>

Init ==
    /\ procedure \in Procedures
    /\ at = 1 /\ place = 1
    /\ answer = NoAnswer
    /\ runErr = None
    /\ ended = FALSE
    /\ log = <<>>

Answer(out) ==
    \/ Preprocess(out) \/ AnswerBefore(out)
    \/ RecoverModel(out) \/ RecoverTool(out)
    \/ AfterAgent(out) \/ AfterModel(out) \/ AfterTool(out)

Next ==
    \/ Pass \/ EndOfChain
    \/ EndsInvocation \/ Enter
    \/ \E out \in HookOutcomes : Answer(out)
    \/ \E out \in CoreOutcomes : RunCore(out)
    \/ Check \/ Postprocess \/ AskAgain

Spec == Init /\ [][Next]_vars

\* The procedures are sequential code: they go on until they return.
FairSpec == Spec /\ WF_vars(Next)

-----------------------------------------------------------------------------
LastEntry == log[Len(log)]

By(chains) == {i \in DOMAIN log : log[i].by[1] \in chains}

(***************************************************************************)
(* The core runs exactly when no hook before it answered, and an answer    *)
(* from before the core is final: nothing runs after it but the response   *)
(* processors (the early returns of callModel, executeToolCall, Execute    *)
(* and RunWithCallbackContext).                                            *)
(***************************************************************************)
CoreUnlessAnswered ==
    LET early == By(BeforeChains \cup {"request"})
        after == By({"core", "pluginError"} \cup AfterChains)
    IN /\ early # {} => after = {} /\ early = {1}
       /\ Done /\ (procedure = "step" => ~ended) /\ early = {} =>
             \E i \in after : log[i].by = <<"core", 1>>
       /\ \A i, j \in By({"core"}) : i = j

(***************************************************************************)
(* The last hook that answered owns the whole answer: no value and error   *)
(* of different hooks are ever combined, though a procedure has up to four *)
(* chains that may each replace what the one before left.  An agent's      *)
(* after hook adds to the events of the run instead.                       *)
(***************************************************************************)
LastWordIsWhole ==
    log # <<>> =>
        /\ answer.error \in {None, LastEntry.by, <<"check", 1>>}
        /\ (LastEntry.out = "error" => answer.error = LastEntry.by)
        /\ answer.values # <<>> => answer.values[Len(answer.values)] = LastEntry.by
        /\ Len(answer.values) = 2 =>
              /\ procedure \in AgentProcedures
              /\ answer.values[1] = <<"core", 1>> /\ answer.error = None
        /\ Len(answer.values) <= 2

(***************************************************************************)
(* A failed step has no response beside its error, whatever the model or   *)
(* a hook returned with it (flow.go:184-186).  A tool's error is in its    *)
(* result as well, so that the model reads of it (flow.go:410-592).        *)
(***************************************************************************)
FailureIsAlone ==
    Done /\ answer.error # None =>
        /\ procedure = "step" => answer.values = <<>>
        /\ procedure = "tool" => answer.values = <<answer.error>>

(***************************************************************************)
(* The after hooks of a tool are told of an error exactly when the tool    *)
(* itself failed and no plugin recovered it.  What the after hooks         *)
(* themselves do to the result never changes what the later ones are told. *)
(***************************************************************************)
ToldOfToolFailure ==
    procedure = "tool" /\ Chain \in AfterChains =>
        (runErr # None <=>
            /\ \E i \in By({"core"}) : log[i].out = "error"
            /\ \A i \in By({"pluginError"}) : log[i].out # "value")

(***************************************************************************)
(* However the chains of a procedure replace what the one before left, the *)
(* result is one answer: of the core or of the last hook that gave one     *)
(* (flow.go:244-328, 464-592, agent.go:136-173,                            *)
(* callback_context.go:255-317).                                           *)
(***************************************************************************)
OneAnswerWins ==
    /\ HooksTypeOK
    /\ CoreUnlessAnswered
    /\ LastWordIsWhole
    /\ FailureIsAlone
    /\ ToldOfToolFailure

(***************************************************************************)
(* "It returns all events produced and the last error encountered."        *)
(* (agent.go:137): what the run produced is in what Execute returns, also  *)
(* when the run or an after hook fails.  Execute returns nil beside an     *)
(* error (agent.go:157): this does not hold.                               *)
(***************************************************************************)
AllEventsReturned ==
    procedure = "execute" /\ Done =>
        \A i \in By({"core"}) :
            log[i].out \in {"value", "both"} =>
                \E k \in DOMAIN answer.values : answer.values[k] = log[i].by

(***************************************************************************)
(* "EndInvocation signals that the current invocation should terminate."   *)
(* (event.go:81): an agent that returns a hook's event with the signal has *)
(* ended the invocation, whichever hook the event is of.  Only the event   *)
(* of an after hook is looked at (agent.go:152): this does not hold.       *)
(***************************************************************************)
EndSignalEnds ==
    procedure \in AgentProcedures /\ Done =>
        \A i \in DOMAIN log : log[i].out = "ending" => ended

(***************************************************************************)
(* Only empty responses keep a procedure from returning: if from some time *)
(* on none comes, it ends.                                                 *)
(***************************************************************************)
EndsUnlessEmpty == <>[](~answer.empty) => <>Done
=============================================================================
