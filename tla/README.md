# TLA+ verification of rive-adk-go

rive-adk-go is a small agent runtime: a runner takes a user's message, finds the
session and the agent that should answer, lets the agent run its loop of model and
tool calls, and stores the events it returns. This directory holds TLA+ models of
it, TLC configurations that check them on small instances, and proofs checked by
TLAPS for all instances.

## 1. Inventory of the system

| Component | State | Operations | Interacts with |
|---|---|---|---|
| Session service (`session/session.go`) | sessions by joined key, app and user state, one lock; per session a local state and a history with a mutex each | Create, Get, GetOrCreate, DeleteSession, AppendEvent, GetMergedState; State().Get/Set/Delete | the runner, the tools and callbacks (through handles) |
| Runner (`runner/runner.go`) | none of its own; each call of Run has a session handle, an ordinal, an agent, the events | Run, findAgentToRun | session service, agents |
| Agent tree and callbacks (`agent`, `context`, `callbackctx`) | parent and child links; the EventActions a callback context records | Execute, FindAgent, before and after callbacks, write-through state | sessions, artifacts, plugins |
| Flow (`flow/flow.go`) | resolved tools and the active transfer tool, shared by calls | Run, runOneStep, handleFunctionCalls, executeTransfer | model, tools, other agents |
| Tools (`tool/...`) | confirmation flags of a tool, the registry | Execute, ExecuteStream, ContextExecute, transfer, exit loop, agent as a tool | session state, event actions |
| Workflow agents (`workflow/workflow.go`) | a sub-context per run | sequential, parallel and loop runs | agents, flow |
| Plugins (`plugin/...`) | ordered plugins; retryreflect's failure counter | first-answer-wins callback chains | flow, agents |
| Remote agent (`agent/remoteagent`) | aggregator of artifact chunks, remote task id | execute, convert, aggregate, clean-up | a remote server, the runner |
| Artifact store (`artifact/inmemory.go`) | versions per (app, user, session, file), one lock | Save, Load, Delete, List, Versions | callback contexts |
| Memory store (`memory/inmemory.go`) | entries per app and user and session, one lock | AddSessionToMemory, SearchMemory | sessions |
| REST server (`server/adkrest`) | none | run, run_sse, list apps | runner |
| Configuration, instructions, launchers, telemetry, model adapter, deploy, demos | none that decides anything at run time | parsing, formatting, I/O | - |

What is hard to test here:

- **Interleaving without a lock of the runner.** Concurrent calls of Run on one
  session read the history, decide, and append later; agents write state through
  handles while other calls append.
- **Three critical sections in one append.** AppendEvent holds the lock of the
  service, but applies the delta, removes temp keys and appends the event under
  three separate holds of smaller mutexes that State().Set also takes.
- **Handles that outlive their session**, ids joined with a separator, look-then-create.
- **Failure in the middle**: an agent that wrote state and then returns an error.
- **Transfer chains, parallel tools, nested contexts, streams that end early** in the
  flow, the workflow agents and the remote agent.
- **State of a tool, a plugin or a flow shared by calls**: confirmation flags without a lock, a
  count of failures with one, tools resolved into fields by the first call that needs them.
- **Chains of hooks that replace each other's answers**, by rules that differ between an agent,
  a model and a tool.
- **Versions and snapshots**: numbers that follow the last version left, entries that are read
  before the lock that stores them.
- **One body for events and errors**, a status that is sent before the run, and a service made for
  a single request.

PROJECT.json lists each hazard at its line with the properties that watch it. Where the code does
not do what a comment, a test or a note of the repository says of the hazard, its note names the
statement that does not hold (section 4), and the property says what does hold.

What makes each component correct: the session service must give each id its own
session, keep streaming chunks and temp keys out of histories, keep the shared
layers consistent between sessions, and make an append all or nothing. The runner must
number, order, route and persist every call as if it were alone, and lose or invent
nothing when an agent fails. The flow must end exactly on a final answer, an end of the
invocation or a transfer, and execute each transfer once, which a chain of transfers does not (section 4). Workflow agents must run their
sub-agents in the promised order and stop when told to. The remote agent must deliver
all text of the remote once and clean up a task it abandons. The hooks around an
agent, a model or a tool must leave one whole answer, and guards shared by calls must
count and ask as if the calls came one by one. Artifact versions must name one content each,
as long as it is stored. Memory must hold a snapshot of the right session, and a newer one
unless ingestions overlap. A flow must find the tools that it declared. An agent in a tool must
stay in its sandbox and away from the maps of its caller. A configuration must give a tree that transfer can walk, and the
server must tell its client what happened and what will be remembered.

## 2. Plan

The modules, in the order in which they were written, what composes what, and what is left.

1. *Session service*: SessionState, SessionService; abstract AtomicSession and the
   refinement; proofs of types, durability, privacy of plain ids, shared views and the refinement. **Done.**
2. *Runner*, which composes its calls with the session service; liveness; proofs of all its
   safety properties. **Done.**
3. *AgentTree*: the step loop of flows, transfer between agents with its depth guard, and
   sequential, parallel and loop agents, as one call forest of activations; proofs of
   all its safety properties. **Done.**
4. *ToolCalls*: one process per call of a batch, write-through, the merge in call order, the
   deep merge of maps in the state, persisting; proofs of all its properties. **Done.**
5. *Hooks* and *ToolGuards*: who has the last word around an agent, a model and a tool; the flags of
   a confirmed tool and retryreflect's counter under parallel calls; proofs of both. **Done.**
6. *RemoteAgent*: stream, aggregator, cancellation, clean-up; liveness under cancellation;
   proofs of all its safety properties. **Done.**
7. *ArtifactStore*, and *MemoryStore* over the session service: concurrent clients; proofs
   of all their properties. **Done.**
8. *FlowTools*, *AgentTool*, *RestServer*, *AgentConfig*, composed by *Program*: a server whose
   requests share the tools of a flow and a session service; proofs of their properties. **Done.**

Every safety and every action property that a passing run checks is also a theorem. Left are the four
liveness properties, which stay with TLC (section 5).

Passing runs are few by intent: each answers one question, and where two questions can share an
instance they do. The two runs that fail show the disagreements that matter most: events that are
lost, and a prompt for an approval that does not arrive.

## 3. The modules

| Module | What it is |
|---|---|
| SessionState | constant operators: keys and scopes, deltas, trimming, the merged view |
| SessionService | the service as a state machine |
| AtomicSession | the abstract store: every operation one step over durable state only |
| SessionRefinement | the mapping from the service to the abstract store |
| SessionProofs | theorems about the service, the runner and the memory |
| Runner | concurrent calls of Run over SessionService |
| AgentTree | one invocation of a tree of agents: flows, transfer, workflow agents |
| AgentTreeProofs | theorems about an invocation |
| ToolCalls | the state of a session under batches of parallel tool calls, and what is persisted of it |
| ToolCallsProofs | theorems about tool calls |
| RemoteAgent | one Execute of a remote agent: stream, aggregation, cancellation, clean-up |
| RemoteAgentProofs | theorems about remote agents |
| ToolGuardsProofs | theorems about confirmation and retryreflect |
| ArtifactStoreProofs | theorems about versions, files and what events record of them |
| ArtifactStore | versions of files under concurrent calls, and what runs record of their saves |
| MemoryStore | ingestions and searches over SessionService |
| Hooks | the chains of hooks around an agent's run, a model call and a tool call |
| ToolGuards | confirmation and retryreflect under parallel calls of one tool |
| AgentConfig | Build: a tree of agents from a configuration |
| FlowTools | the tools of a flow, resolved by concurrent calls |
| AgentTool | an agent as a tool, over FlowTools |
| RestServer | concurrent requests, over AgentTool |
| Program | a configuration built or an agent made in code, and then served: AgentConfig with RestServer |
| HooksProofs | theorems about the chains of hooks |
| ProgramProofs | theorems about AgentConfig, FlowTools, AgentTool and RestServer, in Program |
| MC_* | instances for TLC |

### SessionState and SessionService

A state key is a record of its scope and the name after the prefix. A Go map is a total
function with Absent for missing keys, so `maps.Copy` and the copying loops are Overlay.
The tombstone is a value like any other except in MergedView: exactly as in the code.

A session is an object (`Objects`); `sessions` maps the joined key to the current one, and
`owner`, `state`, `events` are its fields. Ids are sequences of segments that hold no
separator, so that joining with "/" is concatenation and collisions are visible: the instance has
users "10" and "10/20" and sessions "21" and "20/21", of whose four triples two share a key. The
app and user values are in nested maps, whose keys are not joined.

| Code | Action |
|---|---|
| `Service.Create` | Create (whole body, shared deltas included) |
| `Service.Get`, `GetMergedState` | Lookup, GetMergedState |
| `Service.DeleteSession` | DeleteSession |
| `stateImpl.Set`, `Delete` | SetState, DeleteState (no lock of the service needed) |
| `AppendEvent` up to the end of `applyStateDelta` | AppendBegin |
| trimming of the event's delta and of the state | AppendTrim, skipped without a delta |
| append under the session's mutex, unlock | AppendRecord |

`pending` is the append that holds `svc.mu`; while it is set no other operation of the
service starts, and SetState and DeleteState may run. The shared maps change in
AppendBegin: nobody can read them before the lock is released. The early returns of
AppendEvent (nil arguments, a foreign session type) change nothing and are left out; a
partial event and an unknown key leave AppendBegin disabled.

### AtomicSession and SessionRefinement

AtomicSession has one step each for creating, forgetting, writing a durable key and
appending. SessionRefinement maps the service to it: the durable state is the local
state without temp keys, and the history is the stored one with the event in progress,
already trimmed, in place. AppendBegin is the point at which an append takes effect;
AppendTrim and AppendRecord are stutters, also when a durable key is written in between.

### Runner

One process per call of Run. `pc` names the next statement; the variables are Run's
locals. InMemorySessionService.Create calls GetOrCreate, so a miss leads to a second Get
(`getAgain`) and then Create, which may find the session created by another call and fail.
The two appends of a call go through AppendBegin, AppendTrim and AppendRecord of the
service, so calls interleave inside them.

The agent is external: between `execute` and its return it may set or delete keys through
a callback context (into the recorded delta and at once into the session), and it returns
one of `Shapes`, sequences of streaming chunks ("chunk"), finished events without a delta
("plain") and finished events with the delta recorded so far ("carry"), or it fails. A
delta that no event carries is real: the callbacks around an agent's run record into
actions that may ride on no event. An agent writes a key at most once in a call, which bounds
the model. An event is its tag (call, ordinal, place in the call), author, partial flag and delta.

Not in the model of the runner: deletion of sessions, because the runner's wrapper keeps the
service private and has no delete; session services supplied by the embedder;
New, which only validates.

### AgentTree

Everything that happens inside one `Execute` of the runner's agent. Each call of an agent's
Execute is an activation with a frame in `acts`; a frame holds the agent, the caller, the
context it runs under and the locals of its loop, and `pc` says which statement is next.
Only ParallelAgent has several running callees, so the rest is a call stack.

| Code | Action |
|---|---|
| `Flow.Run`, top of the loop under an ended context | FlowEnded |
| `runOneStep` with a final response; without one; with an error | ModelAnswers; ModelStalls; ModelFails |
| `handleFunctionCalls` up to the merged event | ToolsRun |
| `executeTransfer`: not found; refused; the call; after it | TransferUnknown; TransferRefused; TransferStart; TransferReturns, TransferFails |
| `Flow.Run` after a step with tools | StepEnds |
| `baseAgent.Execute` around an embedder's Run | CustomReturns, CustomFails |
| `SequentialAgent.Execute` | StartSub, SequenceResumes, SubFails, SequenceEnds |
| `LoopAgent.Execute` | StartSub, LoopResumes, SubFails, LoopPassEnds |
| `ParallelAgent.Execute` | Fork, SendResult, Join, JoinEnds |

An event is its place in `log`, with the activation that produced it, whether a model, a
tool or a custom agent did, the agent it names in TransferToAgent, and the two signals that
code reads: EndInvocation ("ends") and Escalate ("escalates"). `events` of a frame
is the slice that Execute gathers, so that loss, repetition and order of events show.

`ended` is the set of contexts whose EndInvocation was called. A transferContext shares the
flag of the context it wraps (`cell`); a subCtx has its own. The depth of a
transferContext is a field of the frame and a subCtx resets it, as transferDepth finds
nothing behind the sub-context's type. After a target returns, each event of it that asks
for a transfer is executed again under the target's depth (`todo`, `Chained`): the recursion
of executeTransfer, flattened in the order in which it visits the events.

Models, tools and custom agents are external and answer anything of their type: a tool
names one of the agent's targets (ComputeTransferTargets) or none, and a custom agent
makes one of CustomMoves.

Left out: branch labels; the contents that processors and callbacks put into requests;
the order of callbacks (Hooks has it: here a callback's answer is a model's answer, and
an agent with callbacks that signal is a custom agent); tools that call EndInvocation on
their context directly; cancellation of the Go context.

### ToolCalls

One flow, and one session, over any number of runs of the flow. The state of a key is written
four times over: by callbacks and hooks at once (write-through), by MergeStateDelta when the
results of a batch are merged, and again by AppendEvent, event by event, when the run is over.
The module is about whether these writes agree.

| Code | Action |
|---|---|
| the user's event, then `Flow.Run` | Start |
| `callbackContextState.Set`, `Delete` in a model callback | ModelSets, ModelDeletes |
| `runOneStep` with an error of a callback, a processor or the model, or with a chunk | ModelFails |
| `finalizeModelResponseEvent` of a final response; of one with function calls | Answer; CallTools |
| `Set`, `Delete` in a hook of `executeToolCall` | HookSets, HookDeletes |
| early returns of `executeToolCall` before the tool | HookAnswers |
| the tool: nothing written; a state_delta in its result, or its `Actions()` written | ToolReturns; ToolWrites |
| `applyAfterToolPluginAndCallbacks`, its end | HooksEnd |
| `wg.Wait`, `mergeResultsToEvent`, `MergeStateDelta` | Merge |
| `AppendEvent` of the next event of the run | Persist |

`calls` holds the goroutines of a batch, each with its own EventActions. `pending` holds the
deltas of the run's events. A map is a reference into `heap`, because deepMergeMap
changes the map that the state holds in place, and a delta or an earlier event may hold
the same one. `seen` is auxiliary: the state when the run started, and when it ended.

Every Set of a map is given a new map, maps have one level, and a map is not changed by who
created it. The keys are session keys: the other scopes go through the same code here and are
told apart in SessionState. Signals of actions are in AgentTree. Left out: hooks without a callback
context and tools that write InvocationContext().Session().State() directly, whose writes ride
on no event by design; an event that a request processor gives in place
of the model's, and which has whatever delta the processor puts there. Artifacts and confirmation
are in ArtifactStore and ToolGuards, and which hook's answer counts in Hooks.

### RemoteAgent

One Execute of a remote agent as the goroutine that calls it, the remote, and the caller that may
cancel. `stream` is the channel of the client and `closed` says that no more will come.

| Code | Action |
|---|---|
| the client sends on the channel; closes it (`fake_client.go`) | RemoteSends; RemoteCloses |
| the context of the invocation is cancelled | Cancel |
| `execute` up to the stream | CreateClient |
| `case se, ok := <-stream`, `conv`, `aggregator.process` | ReceiveStatus, ReceiveChunk, ReceiveWhole |
| an error in the stream, a nil event, an unknown type | ReceiveBad |
| the stream is closed | StreamEnds |
| `case <-done` | SeesCancel |
| one callback of `invokeCleanupCallbacks` | CleanupCallback |
| `client.Destroy`, the choice of the error, the last flush | Destroy |

What was received is listed part by part in `heard`; the aggregator's `pending` and the events
in `allEvents` are positions in it, so that a part lost, repeated or out of place can be
seen. An entry of `allEvents` that `starts` begins an event. A part is text, a thought, or a
"call", which stands for all parts without text. Artifact updates and messages go the
same way through the aggregator and are one kind here. An event without parts is no entry.

Left out: the content of the request; custom converters; cancelling the remote task
(a callback's business); timestamps. A context that is no Go context cannot be cancelled, which is
a behaviour of the model in which Cancel is not taken.

### ArtifactStore

| Code | Action or operator |
|---|---|
| `Validate` of each request | SaveValid, LoadValid, DeleteValid, ListValid, VersionsValid, VersionInfoValid |
| `resolveIdentity` | IdentityOf |
| a batch of tool calls starts | Start |
| `trackedArtifacts.Save` up to the answer of `Save`; the rest of it | CallSaves; Record |
| `Save` through the plain service | PlainSave |
| `mergeEventActions` for ArtifactDelta | Merge |
| `Delete` | Delete |
| `Load`, `List`, `Versions`, `GetArtifactVersion` | Load, List, Versions, VersionInfo |

A part is its save's number in `saves`, which is auxiliary. `keys` is apart from `store`, because the
map keeps the key of a file whose versions were deleted one by one, and List shows keys. Each
operation is one critical section of the store. Left out: MIME types and the copies that guard
the stored bytes.

### MemoryStore

| Code | Action or operator |
|---|---|
| `AddSessionToMemory`: the loop over the session's events | ReadSession |
| the lock and the assignment | StoreEntries |
| `SearchMemory`, `wordsIntersect` | SearchMemory, WordsIntersect |
| everything that happens to sessions | the actions of SessionService |

The words of an event stand for its text. An entry keeps the id and author of its event.

### Hooks

One procedure at a time: `lifecycle` is RunWithCallbackContext, `execute` is baseAgent.Execute, `step`
is runOneStep with callModel, and `tool` is executeToolCall with
applyAfterToolPluginAndCallbacks. Order lists the chains of each, and `answer` holds the results
by the hooks they come from.

| Code | Action |
|---|---|
| a hook that is nil or answers nothing; the end of a chain | Pass; EndOfChain |
| a processor, a plain callback, an agent's run or a tool calls EndInvocation on its context | EndsInvocation |
| `preprocess`; the check behind it | Preprocess; Enter |
| `RunBefore...`, `runBeforeCallbacks...` | AnswerBefore |
| the run, `GenerateContent`, the tool; an agent's run that fails | RunCore; AgentFails |
| `RunOnModelErrorCallback`; `RunOnToolErrorCallback` | RecoverModel; RecoverTool |
| the after hooks of an agent; of a model; of a tool | AfterAgent; AfterModel; AfterTool |
| `runOneStep` with what `callModel` returned; `postprocess`; the request that is repeated | Check; Postprocess; AskAgain |

Left out: what the hooks write, which is in ToolCalls.

### ToolGuards

| Code | Action |
|---|---|
| `SetConfirmed`, its two assignments | SetConfirmed, SetConfirmedEnds |
| `executeToolCall` before the tool | Begin |
| `confirmationTool.Run`: reading `confirmedCall`; clearing it; refusing or asking | Look; Spend; Judge |
| the tool, by `Execute`; by `ContextExecute`; by `ExecuteStream` | Run; RunWithContext; RunStream |
| retryreflect's `OnToolError` up to the count; storing it | OnToolError; StoreCount |
| no recovery hook, or no error | NoOnToolError |
| retryreflect's `AfterTool` | AfterTool |

`using`, `others`, `refused`, `verdict`, `settings` and `attempts` are auxiliary. The reads
and writes of the flags are single steps, because they have no lock; OnToolError is two, to show that the
mutex matters.

### AgentConfig

| Code | Action |
|---|---|
| the name, `validateNoDuplicateNames`, `validateToolRefs` | CheckName, CheckDuplicates, CheckTools |
| `buildNode` and its switch | EnterRoot, EnterSub |
| `buildLLMAgent`, `buildSequentialAgent`, ... after the sub-agents | Create |
| `wireParents` | WireParents |

A configuration is a list of nodes in preorder (IsTree). Build sets the parents of all agents, also below
workflow agents, whose constructors set none: a tree made in code has only the parents that its
program sets, as the trees of AgentTree. Left out: reading the YAML or JSON, models
and instructions, which are looked up and passed on.

### FlowTools

| Code | Action |
|---|---|
| a step comes to `resolveToolsets` | BeginStep |
| the new map in the field; the flow's own tools; each toolset; the list read from the map; the list in the field | MakeMap; WriteOwn; AskToolset, ToolsetFails; ReadMap; SetList |
| `injectToolDeclarations`, `injectTransferTool` | Declare |
| `lookupTool` | CallTool |
| the flow returns | EndCall |
| the runtime finds two calls in one map and ends the program | FatalMapAccess |

A tool has a key, the one of the map it is given in or its Name, and a declaration with a name of
its own (`DeclaredAs`) or none: CollectDeclarations goes by the declaration, Lookup by the key. The model may call
any name that is a key or declared (CallNames).

A map is known by the call that made it, so that a call which writes through the field into the map
of another one is visible. The reads and writes of the fields have no order among calls
but the one in which they happen: where the Go memory model allows more, a second call would only see an
older value of a field, as if it had been earlier.

### AgentTool

| Code | Action |
|---|---|
| no request, or an agent without Execute | ToolRefuses |
| Create and the copy of the state, the runner's user event | ToolStarts |
| the run fails; it returns events, which are persisted, searched for an error, then for the last text | ToolFails; ToolAnswers |
| what the child agent's callbacks set; what MergeStateDelta merges into maps that are there | ChildSets, Borrowed |
| the flow that called the tool | CallerFlow |

The state of a session is the set of its keys, and `inside` has the keys whose map another agent has written
into. `MergedKeys` are the keys at which the child merges a map: where the copy has one, it is
the caller's (`Borrowed`), because copying the state copies references.

### RestServer and Program

| Code | Action |
|---|---|
| method, body, flusher | Refuse, Accept |
| `runAgent`: no agent, or one without Execute | LoadFails |
| the service, `runner.New`, `Run` up to the user event; an error of the service | OpenSession; OpenFails |
| the agent's run, its return and its error | AgentRuns, RunReturns, RunFails |
| `Run`'s loop of appends: a chunk; a finished event; one that the service refuses; the joined errors | SkipChunk; Persist; PersistFails; PersistError |
| `runHandler`'s document | WriteDocument |
| `runSSEHandler`'s loop; a write that fails; its end | WriteEvent; WriteFails; StreamEnds |

The runner is here only what two requests can tell apart; Runner has its interleavings. Program starts
with a configuration that is built first (Build, Start), or with an agent made in code,
and then serves. Of a tree that is built, the first llm_agent speaks (Speaker); a tree without any is
run like an agent without tools. Idle says where nothing is left to do, so that any other deadlock is an error.
Left out: the list of apps, headers, and the rendering of events but for their number.

## 4. The runs

| Run | Question | Distinct states |
|---|---|---|
| session_service | appends, write-throughs, creations and deletions of two sessions, with ids that hold the separator: plain ids are private, merged views follow what was appended last, the service implements AtomicSession | 427,809 |
| runner | two calls on one session, by a fair scheduler: numbering, order, persistence, one session, and both calls return | 279,332 |
| tree | flows that hand over to each other, a sequence in a sequence, and a loop, a flow and a sequence side by side, each of which may fail: they return, with all events in order, and the end of an invocation stops the flow and the sequences above | 707,401 |
| tool_batches | two batches of up to two calls, in one run or in two, that write, delete and merge one key: state, events and what is persisted agree | 1,434,435 |
| remote_agent | up to four events of a remote in any mix, closed, broken or cancelled at any point, two callbacks that may fail | 1,099,880 |
| artifacts | two runs of a user, one of them in a session called "user", that save and delete a plain and a user's file: numbers, contents, lists and what the events record agree | 569,761 |
| memory | two users with a session of the same id each, appended to, deleted and created again while two ingestions overlap: what is found is theirs | 422,587 |
| hooks | two hooks in every chain of the four procedures, each with every outcome, and an invocation that may be ended at any of them: one answer is left, and every procedure returns unless the model keeps answering nothing | 24,609 |
| tool_guards | three calls of a tool of every kind, with and without retryreflect, and three calls of SetConfirmed | 2,805,449 |
| program | seven configurations built, or an agent made in code with an agent as a tool and two toolsets; then two requests at a time | 1,326,219 |

All of these pass. Two more runs fail, each on one sentence of the repository, which its property states and its
counterexample contradicts; both are findings in PROJECT.json.

| Run | The sentence | What the counterexample shows |
|---|---|---|
| tree_failure | events before a failure are still returned (workflow.go:89, FailureKeepsEvents) | a sequence drops the events that a failing sequence inside it returned |
| guards_prompt | the first call of a tool that needs confirmation returns the prompt (src/README.md:375, PromptReachesModel) | retryreflect takes the wait for a failure and replaces the result by a reflection |

### Statements that do not hold

While modelling more sentences turned out not to be kept by the code. Each is a definition beside the properties of its
module, with the sentence and the lines that contradict it, and is in no run. TLC shows the counterexample when the
name is put in the place of the invariants of the configuration in the last column (BatchOrderDecides in the place of a
PROPERTY).

| Statement | The sentence | What the counterexample shows | Configuration |
|---|---|---|---|
| KeyIdentifiesSession | session state is private to each session (session.go:359) | a user "10/20" in session "21" and a user "10" in session "20/21" have one key, and one session | MC_SessionService |
| TempEndsWithTheCall | temp keys are visible during one invocation only (session.go:11) | a call whose agent fails leaves its own to the next call | MC_Runner |
| TempLastsThroughTheCall | the same | the append of an event that writes state removes the temp keys of another call that still runs | MC_Runner with a session key in Writes too |
| FirstCallsGetASession | GetOrCreate gets or creates (session.go:428) | of two first calls one finds no session, and then cannot create it: it fails | MC_Runner |
| EachTransferRunsOnce | the flow executes the transfer that a tool's event asks for (tool/transfer/tool.go:8) | the flow above finds the same request in the events of its target, and executes it again | MC_Tree |
| NestingIsBounded | maxTransferDepth prevents infinite loops (.rive-artifacts/28-agent-transfer-routing.md:34) | a sequence of one flow, which hands over to the sequence: the depth begins at zero every time | MC_Tree with a tree of these two, in which the sequence is the flow's parent |
| MapsStayMerged | a state_delta is deep-merged into the state (.rive-artifacts/02-implement-flow-model-tool.md:53) | persisting assigns the map of each event whole, and fields of an earlier one are gone | MC_ToolBatches |
| DeletedStaysRemoved | Delete removes from durable state (.rive-artifacts/14-callback-context-actions.md:23) | persisting stores the mark of the deletion as the key's value | MC_ToolBatches |
| BatchOrderDecides | ordering does not depend on which goroutine is first (.rive-artifacts/02-implement-flow-model-tool.md:69) | the event has the map of the last call, the state that of the last goroutine with the event's merged into it | MC_ToolBatches |
| SuccessHoldsNothingBack | a stream that ends early is flushed (remote_agent.go:191) | a stream that ends behind a chunk: the call succeeds and the text is lost | MC_RemoteAgent |
| ListShowsOwnFiles | a list is of the session's files and the user's (.rive-artifacts/06-memory-artifact-services.md:22) | the plain files of a session called "user" are listed to all sessions of its user | MC_ArtifactStore |
| ListedHaveVersions | a list is of artifacts (the same) | a file whose versions were deleted one by one is listed, and cannot be loaded | MC_ArtifactStore |
| AllEventsReturned | Execute returns all events and the last error (agent.go:137) | events that come with an error are dropped | MC_Hooks |
| EndSignalEnds | EndInvocation in an event ends the invocation (event.go:81) | the event of a before callback is returned with the signal, and nothing ends | MC_Hooks |
| ApprovalRunsOneCall | a call after SetConfirmed(true) executes the handler (src/README.md:375) | two calls that overlap both run on one approval | MC_ToolGuards |
| ApprovalReachesACall | the same (.rive-artifacts/11-tool-context-confirmation.md:17) | a call on an older approval clears a newer one, on which no call has run | MC_ToolGuards |
| EveryLoopIsLimited | a loop runs up to max_iterations times (agentconfig/config.go:8) | a negative limit is passed on, and is none | MC_Program |
| RequestsDeclareTheTools | toolsets are resolved and declared before each model call (src/README.md:393) | a request that comes while another one resolves declares nothing | MC_Program |
| SettledFlowsDeclareAll | the same | two requests resolve at once, and the flow keeps an empty list for good | MC_Program |
| DeclaredToolsAreAvailable | declarations tell the model which tools are available (tool.go:267) | a tool that is declared by another name than its key is not found, or is another one | MC_Program |
| SandboxWritesStayInside | the child of an agent tool is independent of its parent (.rive-artifacts/19-agent-tool-sandbox.md:17) | the copied state holds the caller's maps, and a state_delta inside is merged into them | MC_Program |

### What the passing runs check


The properties of the passing runs, in short:

- *PlainIdsArePrivate*: whatever other ids are in use, the session under three ids without the separator is
  theirs alone. Without that restriction the sentence is KeyIdentifiesSession, and does not hold.
- *SharedViewsFollow*: every step changes the app and user values that a session's merged view shows exactly
  as the delta it routes to that app and user says, whatever stale copies the appends left in local states.
- *AppendsAreAtomic*: the refinement.
- *FreshInvocation*: a call never takes a number that an event already in the history bears. Calls that
  overlap before either has appended may take the same one, and then events of both bear the same ids (event.go:106).
- *CallsPersistInOrder*: what a call adds to a history is in order and starts with its user
  event (InvocationOrder), and when Run returns without an error every finished event is in the
  stored session, once, and no chunk is (SuccessIsPersisted).
- *FailedCallLeavesNoReply*: no reply of a failed call in any history. What else such a call leaves is
  the user event, and the keys it has set (TempEndsWithTheCall does not hold).
- *OneSessionPerId*: racing first calls never leave a call on an object that is not stored; that one of them
  may fail is FirstCallsGetASession.
- *EveryCallReturns*: each call that is made ends.
- *TransfersDescend*: the target of a transfer is deeper than who executes it. Since a workflow agent
  resets the depth this bounds only the transfers between it and the flow: NestingIsBounded does not hold.
- *EventsAreHandedUp*: when nothing failed the result is the log, each event once, and without
  parallel agents in the order of production (ResultIsTheRun); a parallel agent returns what all its
  sub-agents produced, those that failed too (ParallelKeepsAll), in declaration order, whichever goroutine
  ends first (ParallelInDeclarationOrder). Of a sequence that fails FailureKeepsEvents says the same: the run tree_failure.
- *EndStopsFlow*, *EndStopsSequences*: after a tool asked for the end its flow calls no model
  and no sequence above it starts a sub-agent.
- *InvocationReturns*: every invocation comes to an end, in trees in which no agent below a workflow agent may hand
  over to one that is not (HandOversStayBelow). Without this a workflow agent can be run again under
  itself with a depth of zero, and nothing bounds the run. Trees made in code, whose workflow agents
  set no parents, have it unless a program sets them; trees that Build makes need not.
- *EventsShowInState*: between batches the state shows what the last event with the key says, so
  a goroutine that wrote late has not left another value in the state than in the history. Of
  a map, the state's has the fields the event's has.
- *WritesRideOnEvents*: what a run changed in the state is in the delta of one of its events,
  whichever way executeToolCall returned.
- *NoOlderValueReturns*: persisting all deltas of the run again brings no older scalar back: a key has the scalar the
  run left, or some map where it left one, or no value but perhaps the mark of a deletion where it deleted. What it
  leaves open is what does not hold: the fields of the map (MapsStayMerged) and the mark (DeletedStaysRemoved).
- *OnlyStatusesOvertake*: what was received is in the result or held back, once and in order. Two
  exceptions, both in the code: a status of a task at work may overtake text that is held
  back, and function calls in chunks are dropped.
- *CleanupIsTold*: all callbacks are called, whichever fail, and with the error that Execute returns
  unless the clean-up itself is what failed.
- *SuccessHeardAll*: select may prefer a waiting event to a cancelled context, but a call that
  succeeds has read the stream to its end.
- *CancelReturns*: a silent remote cannot hold a cancelled call.
- *VersionsNameSaves*: versions of a file increase, whatever is deleted in between, and what is stored is
  exactly what was saved and not deleted, under its own version.
- *ReadersFindTheFile*: a session loads the newest save of a file (LatestIsNewestSave), and all it can load is in its
  list (LoadableIsListed). That nothing else is in the list does not hold, in two ways: ListShowsOwnFiles and
  ListedHaveVersions.
- *RecordedVersionLoads*: the version in an event's ArtifactDelta loads what the last call of its batch,
  in the order of the response, saved last, until it is deleted.
- *SearchesFindThePast*: what is stored under a session id is what the history of a session
  of that app, user and id once was, and a search finds the words of the user's own sessions, all that are stored.
- *AloneForgetsNothing*: only an ingestion that another overtook may put an older snapshot in the place
  of a newer one.
- *OneAnswerWins*: the core runs exactly if no hook answered before it (CoreUnlessAnswered); the last hook
  that answered owns value and error (LastWordIsWhole); no response of a step is returned beside an
  error (FailureIsAlone); a tool's after hooks hear of an error exactly if the tool failed and nobody recovered it
  (ToldOfToolFailure). That Execute drops the events beside an error is what AllEventsReturned denies.
- *EndsUnlessEmpty*: a procedure returns unless empty responses keep coming. The loop over empty responses itself has
  no limit in the code.
- *ApprovalsHold*: calls that run on one approval overlapped (SharedApprovalOverlaps), and a call that begins
  after a rejection is refused, whatever calls on an older approval still do (RejectionHolds). That an approval is of one
  call, and waits for it, are ApprovalRunsOneCall and ApprovalReachesACall, which do not hold.
- *AttemptsAreNumbered*: parallel failures are numbered without gap or repetition since the last success.
- *VerdictIsTold*: without retryreflect the result says that a call waits or was refused; with it PromptReachesModel
  fails (guards_prompt).
- *AgentsAreWellBuilt*: exactly the configurations that deserve one get a tree (BuildsTheWellFormed), in which every
  agent leads up to the root and down again (TreeIsClosed), and only a negative limit makes a loop
  without one (LoopsAreLimited; EveryLoopIsLimited does not hold of those).
- *ToolsOfOneResolver*: when one call alone resolved the tools of a flow, every request declares all or none of
  them, and from then on all (SoleResolverDeclaresAll); a declared tool whose declaration has the name of its key is
  found by it, unless another tool hides it under the name of the transfer tool (DeclaredIsFound). RequestsDeclareTheTools,
  SettledFlowsDeclareAll and DeclaredToolsAreAvailable drop the conditions one by one, and do not hold.
- *AgentToolIsApart*: an agent in a tool leaves nothing in its caller's session or service but in the maps it
  was given (SandboxWritesStayInside does not hold), two of them do not meet, nothing internal gets in
  (SandboxIsApart), and the answer is no half of one (AnswerIsSound).
- *ClientsAreToldTheRun*: a document has all events or an error, a stream a prefix of them
  (AnswerIsTheRun), and whoever has got an event, a chunk too, finds all finished events of its run in the session, each
  once, behind their message, also when other appends failed (AnsweredIsKept).
- *ConversationGoesOn*: a request sees what was persisted of the requests that were answered before it
  exactly if a session service is configured.

Some statements are theorems and in no run: PersistedEventsAreDurable, MemoryIsAPast, ThoughtsStayApart,
OnlySuccessResets, TransferOncePerFlow (what is left of "each transfer once") and HeldBackOnlyMidAnswer (the only
place where SuccessHoldsNothingBack does not hold).

Type invariants are not among the properties of the runs where a theorem proves them (section 5). The
others are a part of SearchesFindThePast, OneAnswerWins, AgentsAreWellBuilt, ToolsOfOneResolver and
ClientsAreToldTheRun. VersionsNameSaves has one too.

### Bounds, and why they are enough

- Ids: in the session runs two users and two session ids, one of each with the separator in it, of whose four
  sessions two have one key; elsewhere ids are plain.
- Names: one, under the four prefixes. All keys of one scope are treated alike; the only
  operator that relates two keys (the tombstone of a session key that hides shared keys)
  relates keys of the same name.
- Values: one or two ordinary values and the tombstone, so that an overwrite is visible.
- Objects: two, one more than the live sessions of an id, so that delete and create
  leaves an old handle; in the runner's run the spare cell is what a wrong Create would take.
- MaxEvents: the longest history explored, a guard of AppendBegin. Two in the session
  runs (order and repetition show with two); six in the runner's, enough for the user
  events and replies of both calls, so the guard never stops a call there.
- Runs: two calls, on one session (every hazard listed is a race of two), each with one of four shapes of answer
  (Shapes), by one of two agents, and one key that the agent may write or delete.
- Agents: four, a chain of three with the refusal in the middle and a peer, and an author
  unknown to the tree.
- The tree: a desk that routes to two flows that know each other (all the
  ways control can go round: up, down, to a peer), two nested sequences around a flow with
  a flow and a custom agent as targets, and one branch of each kind under a parallel agent. A run
  begins at one of them (Entry).
- MaxTransferDepth: two, so that the guard is met, by a nested and by a chained transfer.
- MaxRounds: two. It bounds the tool rounds of a flow that end neither in a transfer nor in the
  end of the invocation, and its stalls, for which the code has no limit. So
  InvocationReturns is about transfers and workflow agents, and assumes that a model at last
  answers.
- MaxActs: eight. It bounds the activations of one run; MaxTransferDepth and MaxRounds
  end every run before it has more (with nine the states are the same 707,401), so the guard never
  stops a call there and cannot make InvocationReturns hold or fail.
- The tool calls: one key, because no operation relates two; one scalar and maps of one field
  out of two, enough to tell an old value from a new one together with the tombstone, and
  a merged map from an assigned one. Two calls, one write by the hooks of each and one
  by a model callback of each step (MaxWrites), two batches (MaxBatches, in one run or in two)
  and two maps (MaxMaps): a write of either batch can be overwritten by a concurrent
  one, by a merge and by persisting. The guards of the bounds leave an
  answer, and a new run, always possible, so deadlock is checked.
- The remote: four events (MaxSent) are enough for two chunks, something between or after
  them, and an end; bodies of whole events of up to two parts, empty, with a call and
  with a thought first; a channel of two (Capacity), so that events wait when the call is cancelled; two
  callbacks, so that one is called after another has failed.
- Artifacts: one user (a second has no run, and is there to be shown nothing), the sessions "s" and "user", a plain file, a
  user's and one with a separator in its name; two calls in a batch, one batch a run (MaxBatches), three saves
  (MaxSaves): a version can be deleted between two saves and its number used again while an event records it.
- Memory: two users, a session id that both have, two objects, two ingestions, histories of up to two events that have
  both words, one or none; enough to overtake, to read a session that was replaced, and to skip an event.
- Hooks: two in a chain, so that one may pass and the next answer, or the first keep the second from being called.
- Guards: three calls, so that one may begin when another that ran on its approval has ended while a third goes on;
  MaxRetries one, so that the second failure exceeds it; MaxSettings three, an approval after a rejection after an
  approval. Auxiliary counts stop there; the guard only stops SetConfirmed.
- Program: two requests of two steps each (MaxSteps); a flow with its own tools, one of which is an agent and one of which a
  second toolset has too, a first, unreliable toolset, and a tool that is declared by the key of another or not at
  all; a key whose map the agent in the tool borrows; runs of no event, or of a chunk and a finished one (Replies), of
  which an append may fail. Events of an agent in a tool are finished ones (ChildEvents). The configurations have at most five nodes, each wrong in one way or nested so that
  parents are set by both walks. A request to a program made in code is a plain one
  (CodeClients), and the requests that are refused or streamed are made to the others: what a stream writes does
  not depend on where the tools come from.
- Symmetry is used for objects, calls, ingestions, requests, scalars and fields, in runs without liveness properties.

### Fairness

FairRunnerSpec has weak fairness of each call's own steps: goroutines are scheduled, and
an agent's Execute returns (an assumption about the agent, which the runner makes
too: it has no timeout). The writes of an agent and the arrival of calls are not fair.
Weak fairness is enough for the lock of the service because each other call takes it a
bounded number of times.

FairTreeSpec has weak fairness of the whole next-state relation: some activation that can
go on does. That is enough because an invocation has no step that only waits: models, tools
and custom agents answer (a cancelled context makes them fail), and goroutines of a
parallel agent are scheduled.

FairSpec of RemoteAgent has weak fairness of Execute's own steps (callbacks and Destroy
return; both are the embedder's, and Execute has no timeout for them) and of SeesCancel: a
cancelled context stays ready, and Go's select chooses at random among the ready cases, so it is taken
at last however fast events come. Nothing is assumed of the remote.

FairSpec of Hooks has weak fairness of its whole next-state relation: the procedures are sequential code,
and hooks, models and tools return.

Deadlock is not checked where the system really stops: a remote call, a procedure of Hooks, an invocation
of the tree, the calls of ToolGuards and the bounded saves of ArtifactStore come to an end. Program has Idle for
that, and its deadlock check says that no request waits for ever.

## 5. The proofs

All proofs are about arbitrary constants: any sets of ids, keys, values, objects, calls and
agents, any inputs and replies of the right types, and any bounds. The assumptions are
those stated in the modules (SentinelsDistinct, InputsAreEvents, IdsNonEmpty, NilsDistinct,
RunnerConstants, AgentTreeAssumption, ToolCallsAssumption, RemoteAssumption, HooksAssumption,
NoneIsNobody, GuardsAssumption, ArtifactAssumption, MemoryAssumption, ConfigAssumption,
ToolsAssumption, AgentToolAssumption, RestAssumption, ProgramAssumption), which TLC evaluates in every run. They
say what kind of thing a constant is, that the marks (Absent, Tombstone, NoObject, ...) are
none of the values beside them, and that no id is empty of segments. No theorem has a further hypothesis about
what embedders do: ids may hold the separator, sessions may be called "user", tools may be named or declared like others.

| Theorem | Statement |
|---|---|
| TypeCorrect | Spec => []TypeOK |
| HistoryIsDurable | Spec => []PersistedEventsAreDurable |
| PlainIdsAlwaysPrivate | Spec => []PlainIdsArePrivate |
| SharedViewsAlwaysFollow | Spec => SharedViewsFollow (an action property) |
| ServiceIsAtomic | Spec => AppendsAreAtomic |
| RunnerTypeCorrect | RunnerSpec => []RunnerTypeOK |
| InvocationsAreFresh | RunnerSpec => FreshInvocation (an action property) |
| FailuresLeaveNoReply | RunnerSpec => []FailedCallLeavesNoReply |
| OneSessionAlways | RunnerSpec => []OneSessionPerId |
| CallsAlwaysPersistInOrder | RunnerSpec => []CallsPersistInOrder |
| TreeTypeCorrect | TreeSpec => []TreeTypeOK |
| TransferChainsDescend | TreeSpec => []TransfersDescend |
| EndsStopTheFlow | TreeSpec => []EndStopsFlow |
| EndsStopTheSequences | TreeSpec => EndStopsSequences (an action property) |
| TransfersHappenOnce | TreeSpec => []TransferOncePerFlow |
| EventsReachTheCaller | TreeSpec => []EventsAreHandedUp |
| ToolTypeCorrect | Spec => []ToolTypeOK |
| EventsShow | Spec => []EventsShowInState |
| WritesRide | Spec => []WritesRideOnEvents |
| PersistingBringsNothingBack | Spec => []NoOlderValueReturns |
| RemoteTypeCorrect | Spec => []RemoteTypeOK |
| NothingOvertakes | Spec => []OnlyStatusesOvertake |
| ThoughtsApart | Spec => []ThoughtsStayApart |
| CallbacksAreTold | Spec => []CleanupIsTold |
| SuccessHasHeardAll | Spec => []SuccessHeardAll |
| HeldBackBehindChunks | Spec => []HeldBackOnlyMidAnswer |
| OneAnswerAlwaysWins | Spec => []OneAnswerWins |
| GuardsTypeCorrect | Spec => []GuardsTypeOK |
| ApprovalsAlwaysHold | Spec => []ApprovalsHold |
| AttemptsNumbered | Spec => []AttemptsAreNumbered |
| VerdictsAreTold | Spec => []VerdictIsTold |
| SuccessResets | Spec => OnlySuccessResets (an action property) |
| VersionsAlwaysNameSaves | Spec => []VersionsNameSaves |
| ReadersAlwaysFindTheFile | Spec => []ReadersFindTheFile |
| RecordedVersionsLoad | Spec => []RecordedVersionLoads |
| MemoryAlwaysAPast | MemorySpec => []MemoryIsAPast |
| SearchesAlwaysFindThePast | MemorySpec => []SearchesFindThePast |
| AloneNothingIsForgotten | MemorySpec => AloneForgetsNothing (an action property) |
| AgentsAreAlwaysWellBuilt | ProgramSpec => []AgentsAreWellBuilt |
| ToolsAlwaysOfOneResolver | ProgramSpec => []ToolsOfOneResolver |
| AgentToolStaysApart | ProgramSpec => []AgentToolIsApart |
| ClientsAreAlwaysToldTheRun | ProgramSpec => []ClientsAreToldTheRun |
| ConversationsAlwaysGoOn | ProgramSpec => ConversationGoesOn (an action property) |

*HistoryIsDurable.* The property is not inductive: it says nothing of the event that is
about to be appended. DurableInv adds that a pending event is finished and, once past
the trim, free of temp keys (an append without a delta skips the trim, and an
empty delta has none).

*PlainIdsAlwaysPrivate.* The key of each stored session is that of its owner (KeyOfOwner). An id without the
separator is read back from its key: a key of three segments has no other reading into three ids that have a segment each.

*SharedViewsAlwaysFollow.* The merged view takes shared keys from the two shared maps only; the work is to say, for each step,
which entries of these maps change, and that a creation routes exactly what its session starts with. Sessions whose keys collide
share no values by that: the shared maps are by app and user, not by the joined key.

*ServiceIsAtomic.* Initial states map to initial states. Of the steps, Create,
DeleteSession, durable writes and AppendBegin map to the abstract operation; AppendTrim,
AppendRecord and writes of temp keys to stutters. The lemmas about trimming carry
it: trimming is idempotent, distributes over Overlay, and leaves shared parts alone.

*The runner (SessionProofs)* rests on two inductive invariants, RunnerInv and, over it, OrderInv.
FreshInvocation is not inductive: it must know that an event at place i of a history has a number of at most i.
That holds because a call's number is at most one more than the length of the
history, which only grows, and its events are appended later (HistoryInv, PendingInv,
CallInv). FailedCallLeavesNoReply needs that a reply in a history, or about to enter one,
belongs to a call that is persisting or has returned without the agent's error, and that
such a call stays so (ReplyingStable). Type correctness needs the same invariant:
the ordinal is bounded because histories are, counting the append in progress
(HistoryBounded), and a call holds a session from its count on (CallInv).
OrderInv is for what calls put into histories.
OneSessionPerId needs that nothing is ever lost (SessionsKept, as the runner deletes nothing):
then a handle once looked up or created stays the one stored under the call's target (HandleInv). Order and
completeness need to know of the append in progress whose it is (AppendInv), since three steps pass between
its beginning and its record: the events of a call come before the next one it will
append (PlacesInv, by the loop's index), and what the loop has passed is there (ProgressInv). Both together
give "once".

*AgentTreeProofs* rest on TreeInv, for any tree, targets, signals, custom agents and limits.
TreeTypeOK is not inductive: TransferReturns and the other steps after a call need that a
waiting activation has a callee, and the depth of a request must be known to start
its target within the limit. So TreeInv adds FramesSound (who waits for one callee has one,
a flow's callees are deeper than it is, and so are its requests at least as deep as itself)
and CallersKnown, which is TransfersDescend with the existence of the caller. A chained
request has the depth of the target whose event asks for it, and that target is deeper than
the flow, so the guard of executeTransfer bounds chained and nested transfers
alike. Four more invariants stand on it.

- ShapeInv: the activations are a tree in which all but parallel agents wait for their last callee.
- EndsCarried, for EndStopsFlow and EndStopsSequences. An end that a tool asked for is nowhere in the state
  but in an event, until StepEnds reads it, perhaps after transfers of many steps. The invariant says
  that there is a chain of activations, closed under the callers that an end is handed to, each of which
  waits for one in the chain, holds the event in its step, has returned it under an ended context, or
  failed. Which chain it is changes with every step, so it is quantified over.
- SlicesInv, for TransferOncePerFlow (TransfersHappenOnce) and the order in EventsAreHandedUp: an activation that waits knows
  only events older than all its callee has to tell (HeardInv), so what the callee returns can be
  appended, and its requests queued, without repeating or overtaking anything (RowInv, CausesInv).
- KeptInv, for the rest of EventsAreHandedUp: while nothing failed, each event is held by every
  activation it came from or through, or still to come from a callee (ConservedInv); a parallel agent
  keeps what its callees returned even if one fails (GatheredInv).

The lemmas Grow, Renew and Start say once what every step does, replace one frame
and perhaps add fresh ones; the lemma of each action only has to give the new fields their types.

*ToolCallsProofs* rest on ToolInv, for any keys, maps, numbers of calls, writes and batches.
EventsShowInState is not inductive: while a batch runs the state shows a key as the events say
only if no hook has written it, and what a hook wrote stays in its call's delta until the merge
(ShowsOutsideBatch, ChangesAreSaid). While events are being persisted, what the state will
have when all are, its own value overlaid by the rest of them, is what it had when the run ended
(SettlesAsSeen). The lemmas about LastOn, the last delta that has a key, carry the steps: what an
Append adds and what a Tail leaves. MergeFits and MergeShows say that the merge in
place keeps every map at the key it was made for, so that changing the state's map cannot
change what another key shows. NoOlderValueReturns is SettlesAsSeen when nothing is left to persist.

*RemoteAgentProofs* rest on Sound, a statement about any list of parts, events and buffer,
and three lemmas about it: FlushSound (moving the buffer to the end of the events),
ConvertedSound (passing on an event that is no chunk, when nothing is held back or when it may
overtake) and HeldSound (holding a chunk back). Each receiving step is a composition of
them. OnlyStatusesOvertake and ThoughtsStayApart follow at once; by themselves they
would not be inductive, because a flush keeps thoughts apart only if the buffer holds
nothing but text of chunks. CleanupIsTold and SuccessHeardAll need what Telling adds while callbacks
run: all were told the reason kept, and no reason means that the stream was read to its end.
HeldInv, for HeldBackOnlyMidAnswer, says behind what the buffer may be held back before Destroy as well:
a chunk, or the status of a task at work, at which the last flush of Destroy hands it out.

*HooksProofs* rest on HookInv, for chains of any length, any authors and any number of hooks. OneAnswerWins
is inductive only with the shape of the log, which says that either a hook before the core answered first and then only response processors, or the core
did and then only hooks behind it (LogShape), with who can have answered at which chain (Answered), and
with what the error and after hooks of a tool find (ToldThroughout, ToolSaysError, AgentRan).
FourOrders lists the four procedures once; every step lemma is about the chain after the current one.

*ToolGuardsProofs* rest on GuardsInv, for any number of calls, settings and retries. That attempts are
numbered needs the mutex: who is about to store a count holds it, and the count in the tool is still
the one it read (Numbering). ApprovalsHold needs what the flags say between the two
assignments of SetConfirmed and after them (FlagsAgree: a rejection that has returned is in both flags
and no call on an older approval undoes it), what a call has read (RefusedOf, UsingOf: once it
has spent the latest approval the flag is cleared), and that two calls under way know of each other
(OthersKnown). VerdictIsTold follows a result from the tool to the end of executeToolCall:
ErrorsKept and VerdictsKept say at each statement which keys it still has. SuccessResets needs
ErrorsKept too, because the flow has cleared the error that OnToolError answered when AfterTool is
called, and only the result still tells of it.

*ArtifactStoreProofs* rest on ArtifactInv: versions of a file increase (VersionsIncrease), every entry is the
save of its version and of its file that no Delete has meant (EntriesAreSaves), and each such save has
an entry (SavesHaveEntries). An auxiliary record of all saves makes both directions a statement about
one state. NextIsNew says that the next version is above all that are stored, and WithoutKeeps that
Delete leaves all other entries in their order; the rest of the invariant follows from them. That a file's
number may be used again does no harm, because the save that bore it is by then not stored.
FindInv adds that a higher version is a later save (LaterIsNewer), which makes "the last entry" of the
code "the newest save" of ReadersFindTheFile, and whose each save is. RecordInv follows the versions into
the events: the delta of a call, with the version it is about to record, tells the last of the call's saves
(CallsTell), and the merged delta of an event the last save of the last call that has one
(EventsTell). Which call that is, the merge chooses as the last with an entry, and a set of calls that is not empty
has a last one.

*The memory (SessionProofs)* reuses the theorems of the service: a history only grows, and an object stays the
session of its id (PastStays). So what an ingestion read remains a past of its session until it
stores it (IngestsHoldPasts), whatever is appended, deleted or overtaken in between. SearchesFindThePast
says of every search that it finds the past's matching entries and no others: the loops of the code are a
recursive function (Gathered), of which it is proved that it exists, step by step, because the library's
theorem about such functions takes an operator.
AloneForgetsNothing follows from SnapshotsAreNewer, what is stored is a prefix of what an ingestion
has read that nobody overtook, and CallTypes.

*ProgramProofs* have one invariant for each part, for any configurations, toolsets, arrivals and calls.

- ConfigInv says what each walk over the configuration leaves to the next: unique names, known tools,
  a path of entered nodes, agents that are made of their node (MadeOf). That all nodes
  have an agent when the root has one follows from the least node without: it is a sub-agent of an earlier one.
- ToolsInv follows the fields of a flow (FieldsInv) through the calls that write them, whatever the tools are declared as. Without toolsets
  nothing tells later who resolved, but all maps are alike (PlainInv); with them, if one call c alone resolved,
  the list is what c was told, or still empty (LoneInv). The resolvers of such a flow are only added to, so a state with one resolver had no other
  before, which is what makes the invariant inductive. That the toolsets merged one by one give each name
  to the first that has it is a lemma (ToldMerged). Of a flow with two resolvers nothing is claimed:
  SettledFlowsDeclareAll, which does not hold, is about its list.
- HandlersInv is about one handler at each of its statements, and the lemma OthersStay says that
  no handler changes another's variables.
- SandboxInv says who may write what where: keys and entries of an agent's run inside a tool are in its own
  sandbox (ApartInv), except what it merges into a borrowed map, which is in keys that the copy takes; its
  history is known at each step of its tool (AnswerInv). The services
  are the shared one and two for each call, told apart by AgentToolAssumption.
- KeepingInv counts the replies of a request in the history of its session: as many as the loop has passed finished
  events, unless one was lost, behind its message, and in no other history (KeptInv). ClientsAreToldTheRun and ConversationGoesOn combine it with
  HandlersInv: what was answered was kept.

Only model-checked: EveryCallReturns, InvocationReturns, CancelReturns and EndsUnlessEmpty. They are liveness
under fairness, whose proofs need ENABLED and well-founded induction over temporal formulas, which are out
of the prover's reach. Recursive operators are in no module a theorem is about.

Met while modelling and stated nowhere:

- After DeleteSession and a new Create, AppendEvent through the old handle succeeds and records
  the event in an object that is no longer stored (session.go:466 looks at the key only).
- Overlapping calls on one session may take the same ordinal, and then events of both bear the same
  ids (event.go:106, runner.go:133).
- After content the cleanup callbacks of a remote agent are given no task state
  (remote_agent.go:251), though types.go:183 promises the last known one. What they are told of the
  task is not in the model.
- Two artifacts whose chunks arrive interleaved share one buffer (aggregate.go:26), and become one event.
- SkipSummarization is merged into the event of a step and read by nobody.
- A loop agent does not look at an end that a sub-agent asks for, only at an escalation
  (workflow.go:389); the sub-agent has ended only its own sub-context.
- The after hooks of a tool are told of an error that a recovery hook has not answered, also when an after
  hook before them replaced the result.
- WithConfirmation around a tool that wants a context wraps Run only, so RunWithContext is
  never called (tool.go:404).
- Toolsets are asked once, by the first call of a flow, although their tools "may vary across
  invocations" (tool.go:190). Two first calls at once may also meet in one map, which the Go runtime answers by
  ending the program (FatalMapAccess).
- An embedder's tool that is called like the transfer tool hides it: lookupTool looks at the flow's own tools
  first (flow.go:740), and nothing refuses the name.
- Deleting the newest version of an artifact makes its number be used again.
- WithConfirmation, retryreflect and the tools of a flow keep their state in one object for all sessions that use it.

## 6. Not modelled, and why

- Standalone sessions (NewInMemorySession without a service): the runner never makes one.
- Instruction templates: a substitution in one snapshot of the state, about whose text a property would be.
- Launchers: arguments, the console and the shutdown of the server. What the web launcher gives the server is
  in Program.
- The model adapter (an HTTP request and JSON), telemetry, deployment plans and demos decide nothing that
  the other parts keep or read.
- Functionmodifier, which rewrites arguments and keeps no state.
- Of the remote agent: custom converters, cancelling the remote task, the content of the request.
- Timestamps, contents of messages, logging, branch labels and error texts.
