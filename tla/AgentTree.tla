------------------------------ MODULE AgentTree ------------------------------
(***************************************************************************)
(* One invocation of a tree of agents: the loop of flow/flow.go, transfer  *)
(* of control between agents, and the sequential, parallel and loop agents *)
(* of workflow/workflow.go.                                                *)
(*                                                                         *)
(* Every call of an agent's Execute is an activation; its frame is a       *)
(* record in acts, and an activation that waits for others is one whose    *)
(* callees are listed in kids.  Only a parallel agent has several running  *)
(* callees, so everything but its goroutines is a call stack.              *)
(*                                                                         *)
(* The flag behind Ended() is a cell.  The invocation has one, numbered 0; *)
(* a transferContext shares the cell of the context it wraps, and a subCtx *)
(* has one of its own, numbered like the activation it was made for.       *)
(***************************************************************************)
EXTENDS Naturals, Sequences, FiniteSets

CONSTANTS
    Agents,           \* agents that have a name somewhere in this program
    NoAgent,          \* a nil agent, and an event without TransferToAgent
    Root,             \* the runner's agent, at which FindAgent starts
    Entry,            \* agents at which a run may start (findAgentToRun)
    Kind,             \* Kind[g]: "llm", "custom", "sequential", "parallel" or "loop"
    Subs,             \* Subs[g]: the sub-agents, in declaration order
    Parent,           \* Parent[g]: the parent, or NoAgent
    NoParentTransfer, \* agents with DisallowTransferToParent
    NoPeerTransfer,   \* agents with DisallowTransferToPeers
    Executable,       \* agents that have an Execute method
    ToolSignals,      \* signals a batch of tools may raise
    ToolTargets,      \* agents a tool other than transfer_to_agent may name
    CustomMoves,      \* what the Run function of a custom agent may do
    MaxTransferDepth, \* maxTransferDepth
    MaxIterations,    \* of a loop agent; 0 is no limit
    MaxRounds,        \* bound: steps of one flow, passes of one unlimited loop
    MaxActs           \* bound: activations in an invocation

Kinds == {"llm", "custom", "sequential", "parallel", "loop"}

\* EndInvocation and Escalate of event.EventActions.
Signals == {"ends", "escalates"}

Move == [events: Seq([transfer: Agents \cup {NoAgent}, signals: SUBSET Signals]),
         endsContext: BOOLEAN]

ASSUME AgentTreeAssumption ==
    /\ NoAgent \notin Agents
    /\ Root \in Agents
    /\ Entry \subseteq Agents
    /\ Kind \in [Agents -> Kinds]
    /\ Subs \in [Agents -> Seq(Agents)]
    /\ Parent \in [Agents -> Agents \cup {NoAgent}]
    /\ Executable \subseteq Agents
    /\ ToolSignals \subseteq Signals
    /\ ToolTargets \subseteq Agents
    /\ CustomMoves \in [Agents -> SUBSET Move]
    /\ {MaxTransferDepth, MaxIterations, MaxRounds, MaxActs} \subseteq Nat

VARIABLES
    acts,   \* the activations so far, in the order of their start
    ended,  \* the cells whose EndInvocation was called
    log     \* the events produced so far; an event is its index here

vars == <<acts, ended, log>>

-----------------------------------------------------------------------------
(***************************************************************************)
(* The tree                                                                *)
(***************************************************************************)

SubsOf(g) == {Subs[g][i] : i \in DOMAIN Subs[g]}

\* The agents FindAgent can reach from the root.
Tree == {g \in Agents :
            \A S \in SUBSET Agents :
                (Root \in S /\ \A h \in S : SubsOf(h) \subseteq S) => g \in S}

\* shouldAllowPeers
AllowsPeers(g) == \/ Subs[g] # <<>>
                  \/ g \notin NoParentTransfer
                  \/ g \notin NoPeerTransfer

\* ComputeTransferTargets, the agents that transfer_to_agent accepts
TransferTargets(g) ==
    LET p == Parent[g]
        up == IF p = NoAgent \/ g \in NoParentTransfer THEN {} ELSE {p}
        peers == IF p = NoAgent \/ g \in NoPeerTransfer \/ ~AllowsPeers(p)
                 THEN {} ELSE SubsOf(p) \ {g}
    IN SubsOf(g) \cup up \cup peers

-----------------------------------------------------------------------------
(***************************************************************************)
(* Frames and events                                                       *)
(***************************************************************************)

Sources == {"model", "tool", "agent"}

Event(a, from, transfer, signals) ==
    [act |-> a, from |-> from, transfer |-> transfer, signals |-> signals]

Raises(e, signal) == signal \in log[e].signals

\* A frame at the start of Execute.  round is Flow.Run's step, the loop agent's
\* pass or the parallel agent's next result, now the events of the current step,
\* todo the transfers of the step that are still to be executed, events what
\* Execute has gathered, arrived the results in a parallel agent's channel, cause
\* the event that asked for it.
Frame(g, parent, cell, depth, cause) ==
    [agent |-> g, parent |-> parent, cell |-> cell, depth |-> depth,
     cause |-> cause, pc |-> "ready", round |-> 1, kids |-> <<>>,
     now |-> <<>>, todo |-> <<>>, events |-> <<>>, arrived |-> <<>>]

KindOf(a) == Kind[acts[a].agent]

At(a, pc) == a \in DOMAIN acts /\ acts[a].pc = pc

ContextEnded(a) == acts[a].cell \in ended

Finished(a) == acts[a].pc \in {"returned", "failed"}

LastKid(a) == acts[a].kids[Len(acts[a].kids)]

NewId == Len(acts) + 1

\* The transfers that events ask for, to be executed under a context of the given
\* depth; most ask for none.
Requests(es, depth) ==
    [i \in DOMAIN es |->
        [to |-> log[es[i]].transfer, depth |-> depth, cause |-> es[i]]]

\* The places in todo of what is really asked for, the first one, and what is left
\* after it.
Due(a) == {i \in DOMAIN acts[a].todo : acts[a].todo[i].to # NoAgent}

First(a) == CHOOSE i \in Due(a) : \A j \in Due(a) : i <= j

NextRequest(a) == acts[a].todo[First(a)]

Rest(a) == SubSeq(acts[a].todo, First(a) + 1, Len(acts[a].todo))

\* The depth guard of executeTransfer.
WithinDepth(request) == request.depth < MaxTransferDepth

\* Mutant: the context of the target does not count the transfer.
TargetFrameUncounted(a, request) ==
    Frame(request.to, a, acts[a].cell, request.depth, request.cause)

\* The target of a transfer, under a transferContext around the flow's context.
TargetFrame(a, request) ==
    Frame(request.to, a, acts[a].cell, request.depth + 1, request.cause)

\* The events of the step, with those of the target that returned.
StepEvents(a) == acts[a].now \o acts[LastKid(a)].events

\* Every event of the target that asks for a transfer is executed next, under the
\* target's context.
Chained(a) ==
    Requests(acts[LastKid(a)].events, acts[LastKid(a)].depth) \o acts[a].todo

\* Mutant: only the model's own event is asked.
StepAsksForEndByModel(a) == Raises(acts[a].now[1], "ends")

\* Flow.Run's scan of a step for an event that ends the invocation.
StepAsksForEnd(a) == \E i \in DOMAIN acts[a].now : Raises(acts[a].now[i], "ends")

\* Flow.Run's scan of what follows the model's event for a transfer.
StepHandsOver(a) ==
    \E i \in DOMAIN acts[a].now \ {1} : log[acts[a].now[i]].transfer # NoAgent

\* What a workflow agent has gathered, with the sub-agent that returned.
Gathered(a) == acts[a].events \o acts[LastKid(a)].events

\* Mutant: the end of a sub-agent is not passed on.
EndedByKidForgotten(a) == ended

\* A sequence passes the end of a sub-agent's context on to its own.
EndedByKid(a) == IF LastKid(a) \in ended THEN ended \cup {acts[a].cell} ELSE ended

\* Mutant: the results in the order in which they left the channel.
ResultOrderOfArrival(a) ==
    [i \in DOMAIN acts[a].arrived |-> acts[a].kids[acts[a].arrived[i]]]

\* A parallel agent's results, in declaration order.
ResultOrder(a) == acts[a].kids

\* The error path of baseAgent.Execute: what the run produced is dropped.
Fail(a) == acts' = [acts EXCEPT ![a].pc = "failed", ![a].events = <<>>]

TreeInit ==
    /\ \E g \in Entry : acts = <<Frame(g, 0, 0, 0, 0)>>
    /\ ended = {}
    /\ log = <<>>

-----------------------------------------------------------------------------
(***************************************************************************)
(* Flow.Run and runOneStep                                                 *)
(***************************************************************************)

\* The top of the loop, under a context that has ended.
FlowEnded(a) ==
    /\ At(a, "ready") /\ KindOf(a) = "llm"
    /\ ContextEnded(a)
    /\ acts' = [acts EXCEPT ![a].pc = "returned"]
    /\ UNCHANGED <<ended, log>>

\* A finished answer, from the model, a callback or a request processor.
ModelAnswers(a) ==
    /\ At(a, "ready") /\ KindOf(a) = "llm"
    /\ ~ContextEnded(a)
    /\ log' = Append(log, Event(a, "model", NoAgent, {}))
    /\ acts' = [acts EXCEPT ![a].events = Append(@, Len(log) + 1),
                            ![a].pc = "returned"]
    /\ UNCHANGED ended

\* A response that is not final and calls no tool (interrupted, or with an error
\* code): the loop goes round again.
ModelStalls(a) ==
    /\ At(a, "ready") /\ KindOf(a) = "llm"
    /\ ~ContextEnded(a)
    /\ acts[a].round < MaxRounds
    /\ log' = Append(log, Event(a, "model", NoAgent, {}))
    /\ acts' = [acts EXCEPT ![a].events = Append(@, Len(log) + 1),
                            ![a].round = @ + 1]
    /\ UNCHANGED ended

\* An error of the model or a processor, no response, or a partial one.
ModelFails(a) ==
    /\ At(a, "ready") /\ KindOf(a) = "llm"
    /\ ~ContextEnded(a)
    /\ Fail(a)
    /\ UNCHANGED <<ended, log>>

\* A response with function calls and the merged event of their results.  The
\* transfer tool accepts the agent's targets; another tool is free to name any.
ToolsRun(a) ==
    /\ At(a, "ready") /\ KindOf(a) = "llm"
    /\ ~ContextEnded(a)
    /\ \E to \in TransferTargets(acts[a].agent) \cup ToolTargets \cup {NoAgent},
          signals \in SUBSET ToolSignals :
         /\ \/ acts[a].round < MaxRounds
            \/ to # NoAgent
            \/ "ends" \in signals
         /\ log' = log \o <<Event(a, "model", NoAgent, {}),
                            Event(a, "tool", to, signals)>>
         /\ acts' = [acts EXCEPT
                ![a].now = <<Len(log) + 1, Len(log) + 2>>,
                ![a].todo = <<[to |-> to, depth |-> acts[a].depth,
                               cause |-> Len(log) + 2]>>,
                ![a].pc = "step"]
    /\ UNCHANGED ended

\* executeTransfer, agent not found: an error event and no error.
TransferUnknown(a) ==
    /\ At(a, "step") /\ Due(a) # {}
    /\ NextRequest(a).to \notin Tree
    /\ log' = Append(log, Event(a, "tool", NoAgent, {}))
    /\ acts' = [acts EXCEPT ![a].now = Append(@, Len(log) + 1),
                            ![a].todo = Rest(a)]
    /\ UNCHANGED ended

\* executeTransfer, no Execute method or the depth guard.
TransferRefused(a) ==
    /\ At(a, "step") /\ Due(a) # {}
    /\ NextRequest(a).to \in Tree
    /\ NextRequest(a).to \notin Executable \/ ~WithinDepth(NextRequest(a))
    /\ Fail(a)
    /\ UNCHANGED <<ended, log>>

\* executeTransfer, the call of the target under a transferContext.
TransferStart(a) ==
    /\ At(a, "step") /\ Due(a) # {}
    /\ NextRequest(a).to \in Tree \cap Executable
    /\ WithinDepth(NextRequest(a))
    /\ Len(acts) < MaxActs
    /\ acts' = Append([acts EXCEPT ![a].todo = Rest(a),
                                   ![a].kids = Append(@, NewId),
                                   ![a].pc = "waiting"],
                      TargetFrame(a, NextRequest(a)))
    /\ UNCHANGED <<ended, log>>

\* Mutant: a target that returns no events is waited for.
TransferReturnsWithEvents(a) ==
    /\ At(a, "waiting") /\ KindOf(a) = "llm"
    /\ acts[LastKid(a)].pc = "returned"
    /\ acts[LastKid(a)].events # <<>>
    /\ acts' = [acts EXCEPT ![a].now = StepEvents(a),
                            ![a].todo = Chained(a),
                            ![a].pc = "step"]
    /\ UNCHANGED <<ended, log>>

\* executeTransfer, after the call.
TransferReturns(a) ==
    /\ At(a, "waiting") /\ KindOf(a) = "llm"
    /\ acts[LastKid(a)].pc = "returned"
    /\ acts' = [acts EXCEPT ![a].now = StepEvents(a),
                            ![a].todo = Chained(a),
                            ![a].pc = "step"]
    /\ UNCHANGED <<ended, log>>

TransferFails(a) ==
    /\ At(a, "waiting") /\ KindOf(a) = "llm"
    /\ acts[LastKid(a)].pc = "failed"
    /\ Fail(a)
    /\ UNCHANGED <<ended, log>>

\* Flow.Run after a step with tools: an event that ends the invocation, then a
\* transfer after the model's event, stop the loop.
StepEnds(a) ==
    /\ At(a, "step") /\ Due(a) = {}
    /\ LET stop == StepAsksForEnd(a) \/ StepHandsOver(a)
       IN acts' = [acts EXCEPT
              ![a].events = @ \o acts[a].now,
              ![a].now = <<>>,
              ![a].todo = <<>>,
              ![a].round = IF stop THEN @ ELSE @ + 1,
              ![a].pc = IF stop THEN "returned" ELSE "ready"]
    /\ ended' = IF StepAsksForEnd(a) THEN ended \cup {acts[a].cell} ELSE ended
    /\ UNCHANGED log

-----------------------------------------------------------------------------
(***************************************************************************)
(* baseAgent.Execute around a Run function of the embedder.  endsContext   *)
(* stands for a call of ctx.EndInvocation, by Run or because an            *)
(* after-callback's event asked for it.                                    *)
(***************************************************************************)

CustomReturns(a) ==
    /\ At(a, "ready") /\ KindOf(a) = "custom"
    /\ \E move \in CustomMoves[acts[a].agent] :
         /\ log' = log \o [i \in DOMAIN move.events |->
                              Event(a, "agent", move.events[i].transfer,
                                    move.events[i].signals)]
         /\ acts' = [acts EXCEPT
                ![a].events = [i \in DOMAIN move.events |-> Len(log) + i],
                ![a].pc = "returned"]
         /\ ended' = IF move.endsContext THEN ended \cup {acts[a].cell} ELSE ended

CustomFails(a) ==
    /\ At(a, "ready") /\ KindOf(a) = "custom"
    /\ Fail(a)
    /\ UNCHANGED <<ended, log>>

-----------------------------------------------------------------------------
(***************************************************************************)
(* Workflow agents                                                         *)
(***************************************************************************)

InTurn == {"sequential", "loop"}

SubAt(a) == Subs[acts[a].agent]

\* A sub-agent's frame: a subCtx hides the depth of the transfers around it.
SubFrame(g, parent, id) == Frame(g, parent, id, 0, 0)

StartSub(a) ==
    /\ At(a, "ready") /\ KindOf(a) \in InTurn
    /\ Len(acts[a].kids) < Len(SubAt(a))
    /\ Len(acts) < MaxActs
    /\ acts' = Append([acts EXCEPT ![a].kids = Append(@, NewId),
                                   ![a].pc = "waiting"],
                      SubFrame(SubAt(a)[Len(acts[a].kids) + 1], a, NewId))
    /\ UNCHANGED <<ended, log>>

\* SequentialAgent.Execute, after a sub-agent.
SequenceResumes(a) ==
    /\ At(a, "waiting") /\ KindOf(a) = "sequential"
    /\ acts[LastKid(a)].pc = "returned"
    /\ acts' = [acts EXCEPT
           ![a].events = Gathered(a),
           ![a].pc = IF LastKid(a) \in ended THEN "returned" ELSE "ready"]
    /\ ended' = EndedByKid(a)
    /\ UNCHANGED log

\* LoopAgent.Execute, after a sub-agent: only an event that escalates stops it.
LoopResumes(a) ==
    /\ At(a, "waiting") /\ KindOf(a) = "loop"
    /\ acts[LastKid(a)].pc = "returned"
    /\ LET new == acts[LastKid(a)].events
       IN acts' = [acts EXCEPT
              ![a].events = Gathered(a),
              ![a].pc = IF \E i \in DOMAIN new : Raises(new[i], "escalates")
                        THEN "returned" ELSE "ready"]
    /\ UNCHANGED <<ended, log>>

\* A sub-agent's error: the events gathered before it go with the error, those
\* that came with the error do not.
SubFails(a) ==
    /\ At(a, "waiting") /\ KindOf(a) \in InTurn
    /\ acts[LastKid(a)].pc = "failed"
    /\ acts' = [acts EXCEPT ![a].pc = "failed"]
    /\ UNCHANGED <<ended, log>>

SequenceEnds(a) ==
    /\ At(a, "ready") /\ KindOf(a) = "sequential"
    /\ Len(acts[a].kids) = Len(SubAt(a))
    /\ acts' = [acts EXCEPT ![a].pc = "returned"]
    /\ UNCHANGED <<ended, log>>

\* The end of a pass: the last one allowed, or another.
LoopPassEnds(a) ==
    /\ At(a, "ready") /\ KindOf(a) = "loop"
    /\ Len(acts[a].kids) = Len(SubAt(a))
    /\ IF MaxIterations > 0 /\ acts[a].round = MaxIterations
       THEN acts' = [acts EXCEPT ![a].pc = "returned"]
       ELSE /\ MaxIterations > 0 \/ acts[a].round < MaxRounds
            /\ acts' = [acts EXCEPT ![a].kids = <<>>, ![a].round = @ + 1]
    /\ UNCHANGED <<ended, log>>

\* ParallelAgent.Execute starts a goroutine for every sub-agent.
Fork(a) ==
    /\ At(a, "ready") /\ KindOf(a) = "parallel"
    /\ LET n == Len(SubAt(a))
       IN /\ Len(acts) + n <= MaxActs
          /\ acts' = [acts EXCEPT ![a].kids = [i \in 1..n |-> Len(acts) + i],
                                  ![a].pc = "waiting"]
                     \o [i \in 1..n |-> SubFrame(SubAt(a)[i], a, Len(acts) + i)]
    /\ UNCHANGED <<ended, log>>

\* A goroutine of a parallel agent puts its result into the channel.
SendResult(a) ==
    /\ At(a, "waiting") /\ KindOf(a) = "parallel"
    /\ \E i \in DOMAIN acts[a].kids :
         /\ Finished(acts[a].kids[i])
         /\ \A j \in DOMAIN acts[a].arrived : acts[a].arrived[j] # i
         /\ acts' = [acts EXCEPT ![a].arrived = Append(@, i)]
    /\ UNCHANGED <<ended, log>>

\* ParallelAgent.Execute after wg.Wait: the results one by one.
Join(a) ==
    /\ At(a, "waiting") /\ KindOf(a) = "parallel"
    /\ Len(acts[a].arrived) = Len(acts[a].kids)
    /\ acts[a].round \in DOMAIN ResultOrder(a)
    /\ acts' = [acts EXCEPT
           ![a].events = @ \o acts[ResultOrder(a)[acts[a].round]].events,
           ![a].round = @ + 1]
    /\ UNCHANGED <<ended, log>>

\* Its return, with the first error if there was one.
JoinEnds(a) ==
    /\ At(a, "waiting") /\ KindOf(a) = "parallel"
    /\ Len(acts[a].arrived) = Len(acts[a].kids)
    /\ acts[a].round \notin DOMAIN ResultOrder(a)
    /\ LET failed == \E i \in DOMAIN acts[a].kids : At(acts[a].kids[i], "failed")
       IN acts' = [acts EXCEPT ![a].pc = IF failed THEN "failed" ELSE "returned"]
    /\ UNCHANGED <<ended, log>>

-----------------------------------------------------------------------------

FlowStep(a) ==
    \/ FlowEnded(a) \/ ModelAnswers(a) \/ ModelStalls(a) \/ ModelFails(a)
    \/ ToolsRun(a) \/ StepEnds(a)

TransferStep(a) ==
    \/ TransferUnknown(a) \/ TransferRefused(a) \/ TransferStart(a)
    \/ TransferReturns(a) \/ TransferFails(a)

CustomStep(a) == CustomReturns(a) \/ CustomFails(a)

WorkflowStep(a) ==
    \/ StartSub(a) \/ SequenceResumes(a) \/ LoopResumes(a) \/ SubFails(a)
    \/ SequenceEnds(a) \/ LoopPassEnds(a)
    \/ Fork(a) \/ SendResult(a) \/ Join(a) \/ JoinEnds(a)

TreeNext ==
    \E a \in DOMAIN acts :
        FlowStep(a) \/ TransferStep(a) \/ CustomStep(a) \/ WorkflowStep(a)

TreeSpec == TreeInit /\ [][TreeNext]_vars

\* Every goroutine that can go on does, and models and tools answer.
FairTreeSpec == TreeSpec /\ WF_vars(TreeNext)

-----------------------------------------------------------------------------
(***************************************************************************)
(* Properties                                                              *)
(***************************************************************************)

Pcs == {"ready", "step", "waiting", "returned", "failed"}

\* A frame beside n activations and m events.
Request(m) == [to: Agents \cup {NoAgent}, depth: Nat, cause: 1..m]

FrameType(n, m) ==
    [agent: Agents, parent: Nat, cell: Nat, depth: 0..MaxTransferDepth,
     cause: 0..m, pc: Pcs, round: Nat \ {0}, kids: Seq(1..n), now: Seq(1..m),
     todo: Seq(Request(m)), events: Seq(1..m), arrived: Seq(Nat \ {0})]

EventType(n) == [act: 1..n, from: Sources, transfer: Agents \cup {NoAgent},
                 signals: SUBSET Signals]

\* The variables have their types; every activation but the first was started by
\* an older one, and the depth of transfers stays within the limit.
TreeTypeOK ==
    /\ acts \in Seq(FrameType(Len(acts), Len(log)))
    /\ \A a \in DOMAIN acts : acts[a].parent < a /\ acts[a].cell <= a
    /\ ended \subseteq 0..Len(acts)
    /\ log \in Seq(EventType(Len(acts)))

Transferred(a) == acts[a].cause # 0

\* The depth guard of executeTransfer is a ranking: an activation started by a
\* transfer is deeper than the one that executes the transfer, so a chain of
\* transfers, however the events of the targets chain further ones, is finite.
TransfersDescend ==
    \A a \in DOMAIN acts :
        Transferred(a) => acts[acts[a].parent].depth < acts[a].depth

\* The activations above a, and a itself.
Within ==
    LET up[a \in 0..Len(acts)] == IF a = 0 THEN {} ELSE {a} \cup up[acts[a].parent]
    IN up

\* executeTransfer scans the events of a target for further transfers, and the flow
\* that made the event has executed it already: whatever chains of targets hand
\* events up, each flow executes the request of one event at most once, and only the
\* flow that got it from a tool or a flow above that one ever does.
TransferOncePerFlow ==
    \A a \in DOMAIN acts : Transferred(a) =>
        /\ acts[a].parent \in Within[log[acts[a].cause].act]
        /\ \A b \in DOMAIN acts :
              acts[b].cause = acts[a].cause /\ acts[b].parent = acts[a].parent => a = b

\* A call of transfer_to_agent hands control over once: it sets the action "on the event,
\* which the flow detects and executes inline" (tool/transfer/tool.go:8-9).  A flow finds
\* the requests that its target's flows have executed among the target's events, and
\* executes them again (flow.go:824-826): this does not hold.
EachTransferRunsOnce ==
    \A a, b \in DOMAIN acts : Transferred(a) /\ acts[a].cause = acts[b].cause => a = b

\* The depth limit is there "to prevent infinite loops" of agents that hand over to
\* each other (.rive-artifacts/28-agent-transfer-routing.md:34): of the activations on a
\* call stack, no more than the limit were started by transfers.  Below a workflow agent
\* the depth is counted from zero again (flow.go:839): of trees in which a flow may hand
\* over to the workflow agent that runs it this does not hold.
NestingIsBounded ==
    \A a \in DOMAIN acts :
        Cardinality({b \in Within[a] : Transferred(b)}) <= MaxTransferDepth

IsSortedRun(es) == es = [i \in DOMAIN log |-> i]

\* A run in which no activation failed returns every event that was produced,
\* each once, and without parallel agents in the order of production: no event
\* of a step, a transfer or a sub-agent is lost, repeated or overtaken while
\* the slices are handed up.
ResultIsTheRun ==
    acts[1].pc = "returned" /\ (\A a \in DOMAIN acts : acts[a].pc # "failed") =>
        LET es == acts[1].events
        IN /\ Len(es) = Len(log)
           /\ {es[i] : i \in DOMAIN es} = DOMAIN log
           /\ (\A a \in DOMAIN acts : KindOf(a) # "parallel") => IsSortedRun(es)

\* Every event of activation k is among those of activation a.
HandsUp(k, a) ==
    \A p \in DOMAIN acts[k].events :
        \E q \in DOMAIN acts[a].events : acts[a].events[q] = acts[k].events[p]

\* "Events produced before the failure are still returned" (workflow.go:89-90): a sequence
\* that failed hands up the events of every sub-agent it ran, also of the one that
\* failed with some.  Those of the failing one are dropped (workflow.go:153-154): this does
\* not hold.
FailureKeepsEvents ==
    \A a \in DOMAIN acts :
        At(a, "failed") /\ KindOf(a) = "sequential" =>
            \A i \in DOMAIN acts[a].kids : HandsUp(acts[a].kids[i], a)

\* "Successfully produced events are always returned alongside the error": a parallel
\* agent hands up the events of every sub-agent, of those that failed too.
ParallelKeepsAll ==
    \A a \in DOMAIN acts :
        Finished(a) /\ KindOf(a) = "parallel" =>
            \A i \in DOMAIN acts[a].kids : HandsUp(acts[a].kids[i], a)

\* A parallel agent's events come in the order in which its sub-agents are
\* declared, whichever goroutine is the first to finish.
ParallelInDeclarationOrder ==
    \A a \in DOMAIN acts :
        KindOf(a) = "parallel" /\ Finished(a) =>
            LET es == acts[a].events
                sub(e) == CHOOSE i \in DOMAIN acts[a].kids :
                    \E p \in DOMAIN acts[acts[a].kids[i]].events :
                        acts[acts[a].kids[i]].events[p] = e
            IN \A p, q \in DOMAIN es : p < q => sub(es[p]) <= sub(es[q])

\* The slices of events that executions hand up: of a run without failures nothing is
\* lost, repeated or overtaken, and a parallel agent keeps what its sub-agents produced,
\* with failures too, in their order (flow.go, Run; workflow.go:244-326, 376-420).
EventsAreHandedUp == ResultIsTheRun /\ ParallelKeepsAll /\ ParallelInDeclarationOrder

ToolRaised(e, signal) == log[e].from = "tool" /\ Raises(e, signal)

CallsModelAfter(e) ==
    \E f \in DOMAIN log :
        f > e /\ log[f].from = "model" /\ log[f].act = log[e].act

\* A flow whose tools ask for the end of the invocation calls its model no more,
\* although the request sits in the second event of the step and transfers of
\* the same step run before the flow looks at it.
EndStopsFlow ==
    \A e \in DOMAIN log : ToolRaised(e, "ends") => ~CallsModelAfter(e)

\* The activations above a, up to the first loop or parallel agent.
Above ==
    LET up[a \in 0..Len(acts)] ==
            LET p == acts[a].parent
            IN IF a = 0 \/ p = 0 \/ KindOf(p) \in {"loop", "parallel"} THEN {}
               ELSE {p} \cup up[p]
    IN up

\* "If a sub-agent signals EndInvocation, the chain stops immediately": when a tool
\* asks for the end, no sequence above its flow starts a further sub-agent,
\* through any number of sequences and transfers in between.
EndStopsSequences ==
    [][\A e \in DOMAIN log : ToolRaised(e, "ends") =>
          \A s \in Above[log[e].act] :
              KindOf(s) = "sequential" => acts'[s].kids = acts[s].kids]_vars

\* The agents strictly below g in the tree.
Below(g) ==
    LET down[n \in Nat] ==
            IF n = 0 THEN SubsOf(g)
            ELSE LET found == down[n - 1]
                 IN found \cup UNION {SubsOf(h) : h \in found}
    IN down[Cardinality(Agents)]

\* What the flow or the Run function of g may hand over to.
HandOvers(g) ==
    IF Kind[g] = "llm" THEN TransferTargets(g) \cup ToolTargets
    ELSE {e.transfer : e \in UNION {{m.events[i] : i \in DOMAIN m.events} :
                                        m \in CustomMoves[g]}}

\* No agent below a workflow agent may hand over to one that is not below it, which
\* takes control back to a place where the depth of transfers is counted from zero.
HandOversStayBelow ==
    \A w \in Agents : Kind[w] \notin {"llm", "custom"} =>
        \A g \in Below(w) : HandOvers(g) \cap Tree \subseteq Below(w)

\* Every invocation of such a tree returns, if its models stop asking for tools: agents
\* that hand over to each other, round and round, do not keep it going for ever.
InvocationReturns == HandOversStayBelow => <>Finished(1)

=============================================================================
