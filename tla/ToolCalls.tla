------------------------------ MODULE ToolCalls ------------------------------
(***************************************************************************)
(* The state of one session while flow/flow.go runs batches of tool calls  *)
(* over it: the writes of model callbacks, of the goroutines of a batch    *)
(* and of the tools themselves, the event the batch is merged into, and    *)
(* the events that are persisted when the run is over.                     *)
(*                                                                         *)
(* The session's state maps a key to a scalar, to a map, or to nothing.  A *)
(* map is a reference: the state, the delta of an event and the caller may *)
(* hold the same one, and MergeStateDelta changes it in place.  heap holds *)
(* what is behind every reference.                                         *)
(***************************************************************************)
EXTENDS Naturals, Sequences

CONSTANTS
    Keys,      \* session-scoped keys
    Scalars,   \* values that are not maps
    Fields,    \* keys of the maps
    Literals,  \* maps that a callback or a tool may create
    MaxCalls,  \* bound: function calls in one model response
    MaxWrites, \* bound: writes of the hooks of one call, and of a model call
    MaxBatches, \* bound: batches, in one run of the flow or in several
    MaxMaps    \* bound: maps created

\* A value of an any: a scalar, a reference into heap, TombstoneValue, or absent.
Scalar(x) == [is |-> "scalar", of |-> x]
Map(r) == [is |-> "map", of |-> r]
TombstoneValue == [is |-> "tombstone", of |-> 0]
Absent == [is |-> "absent", of |-> 0]

Value == [is: {"scalar", "map", "tombstone", "absent"}, of: Nat \cup Scalars]

IsMap(v) == v.is = "map"

\* What a value stands for: TombstoneValue marks a deleted key.  Neither Get nor the
\* merged view translates it: a program has to.
Reads(v) == IF v = TombstoneValue THEN Absent ELSE v

ScalarValue == {Scalar(x) : x \in Scalars}

ASSUME ToolCallsAssumption ==
    /\ Literals \subseteq [Fields -> ScalarValue \cup {Absent}]
    /\ {MaxCalls, MaxWrites, MaxBatches, MaxMaps} \subseteq Nat
    /\ MaxCalls > 0

VARIABLES
    phase,   \* "idle", "model", "tools", "ending", "persisting" or "done"
    batches, \* batches of tool calls so far
    state,   \* the session's state
    heap,    \* heap[r]: the map behind reference r, and the key it was made for
    model,   \* modelActions of the step: its delta, and the writes so far
    calls,   \* the calls of the batch
    pending, \* deltas of the events of the run, not yet persisted
    seen     \* auxiliary: the state when the run started, and when it ended

vars == <<phase, batches, state, heap, model, calls, pending, seen>>

-----------------------------------------------------------------------------
(***************************************************************************)
(* Deltas                                                                  *)
(***************************************************************************)

Delta == [Keys -> Value]

NoDelta == [k \in Keys |-> Absent]

\* for k, v := range with { into[k] = v }
Override(into, with) ==
    [k \in DOMAIN into |-> IF with[k] = Absent THEN into[k] ELSE with[k]]

\* The last of a sequence of deltas that has a value for k, and that value.
Sets(deltas, k) == {i \in DOMAIN deltas : deltas[i][k] # Absent}

LastOn(deltas, k) ==
    LET last == CHOOSE i \in Sets(deltas, k) : \A j \in Sets(deltas, k) : j <= i
    IN IF Sets(deltas, k) = {} THEN Absent ELSE deltas[last][k]

\* The deltas in order, later ones over earlier ones.
Overlaid(deltas) == [k \in Keys |-> LastOn(deltas, k)]

-----------------------------------------------------------------------------
(***************************************************************************)
(* A call of the batch.  pc is "before" until the tool returns, "after"    *)
(* while error and after-hooks run.  delta is the StateDelta of its own    *)
(* EventActions, result the state_delta of its result.                     *)
(***************************************************************************)

NewCall == [pc |-> "before", delta |-> NoDelta, result |-> NoDelta, writes |-> 0]

Running(c) == c \in DOMAIN calls /\ calls[c].pc # "done"

Results == [c \in DOMAIN calls |-> calls[c].result]
CallDeltas == [c \in DOMAIN calls |-> calls[c].delta]

\* mergeResultsToEvent: the state_delta of every result, then every call's actions
MergedDelta == Override(Overlaid(Results), Overlaid(CallDeltas))

-----------------------------------------------------------------------------
(***************************************************************************)
(* Maps                                                                    *)
(***************************************************************************)

\* What is given to Set: a scalar, or a map that is created for it.
Inputs == ScalarValue \cup [is: {"literal"}, of: Literals]

IsLiteral(x) == x.is = "literal"

Creatable(x) == IsLiteral(x) => Len(heap) < MaxMaps

Stored(x) == IF IsLiteral(x) THEN Map(Len(heap) + 1) ELSE x

HeapWith(k, x) ==
    IF IsLiteral(x) THEN Append(heap, [key |-> k, fields |-> x.of]) ELSE heap

\* deepMergeMap, for the keys at which both the state and the delta have a map
Deepens(delta, k) == IsMap(state[k]) /\ IsMap(delta[k])

HeapMerged(delta) ==
    [r \in DOMAIN heap |->
        LET k == heap[r].key
        IN IF Deepens(delta, k) /\ state[k] = Map(r)
           THEN [heap[r] EXCEPT !.fields = Override(@, heap[delta[k].of].fields)]
           ELSE heap[r]]

\* Mutant: the merged delta is not written back to the state.
StateMergedNot(delta) == state

\* MergeStateDelta
StateMerged(delta) ==
    [k \in Keys |-> IF delta[k] = Absent \/ Deepens(delta, k)
                    THEN state[k] ELSE delta[k]]

-----------------------------------------------------------------------------
(***************************************************************************)
(* Actions                                                                 *)
(***************************************************************************)

Init ==
    /\ phase = "idle"
    /\ batches = 0
    /\ state = NoDelta
    /\ heap = <<>>
    /\ model = [delta |-> NoDelta, writes |-> 0]
    /\ calls = <<>>
    /\ pending = <<>>
    /\ seen = NoDelta

\* The next step's modelActions are new ones.
NextStep ==
    /\ phase' = "model"
    /\ model' = [delta |-> NoDelta, writes |-> 0]

\* Runner.Run appends the user's event, which has no delta, and the flow starts.
Start ==
    /\ phase \in {"idle", "done"}
    /\ NextStep
    /\ seen' = state
    /\ UNCHANGED <<batches, state, heap, calls, pending>>

\* callbackContextState.Set by a model callback or a plugin's hook
ModelSets(k, x) ==
    /\ phase = "model"
    /\ model.writes < MaxWrites
    /\ Creatable(x)
    /\ model' = [delta |-> [model.delta EXCEPT ![k] = Stored(x)],
                 writes |-> model.writes + 1]
    /\ state' = [state EXCEPT ![k] = Stored(x)]
    /\ heap' = HeapWith(k, x)
    /\ UNCHANGED <<phase, batches, calls, pending, seen>>

\* callbackContextState.Delete by a model callback or a plugin's hook
ModelDeletes(k) ==
    /\ phase = "model"
    /\ model.writes < MaxWrites
    /\ model' = [delta |-> [model.delta EXCEPT ![k] = TombstoneValue],
                 writes |-> model.writes + 1]
    /\ state' = [state EXCEPT ![k] = Absent]
    /\ UNCHANGED <<phase, batches, heap, calls, pending, seen>>

\* finalizeModelResponseEvent
ModelEvent ==
    /\ pending' = Append(pending, model.delta)
    /\ model' = [model EXCEPT !.delta = NoDelta]

\* The model, a hook or a processor fails, or the response is a chunk.  runOneStep,
\* Run and Execute return the error, and with it the events of the run are gone;
\* what was written stays.
ModelFails ==
    /\ phase = "model"
    /\ phase' = "idle"
    /\ pending' = <<>>
    /\ model' = [delta |-> NoDelta, writes |-> 0]
    /\ UNCHANGED <<batches, state, heap, calls, seen>>

\* A final response
Answer ==
    /\ phase = "model"
    /\ phase' = "ending"
    /\ ModelEvent
    /\ seen' = state
    /\ UNCHANGED <<batches, state, heap, calls>>

\* A response with n function calls: a goroutine for each of them
CallTools(n) ==
    /\ phase = "model"
    /\ batches < MaxBatches
    /\ phase' = "tools"
    /\ batches' = batches + 1
    /\ ModelEvent
    /\ calls' = [c \in 1..n |-> NewCall]
    /\ UNCHANGED <<state, heap, seen>>

\* callbackContextState.Set by a hook of call c.  The delta is the goroutine's own,
\* so only the write to the state is seen by others.
HookSets(c, k, x) ==
    /\ Running(c)
    /\ calls[c].pc \in {"before", "after"}
    /\ calls[c].writes < MaxWrites
    /\ Creatable(x)
    /\ calls' = [calls EXCEPT ![c].delta[k] = Stored(x), ![c].writes = @ + 1]
    /\ state' = [state EXCEPT ![k] = Stored(x)]
    /\ heap' = HeapWith(k, x)
    /\ UNCHANGED <<phase, batches, model, pending, seen>>

HookDeletes(c, k) ==
    /\ Running(c)
    /\ calls[c].pc \in {"before", "after"}
    /\ calls[c].writes < MaxWrites
    /\ calls' = [calls EXCEPT ![c].delta[k] = TombstoneValue, ![c].writes = @ + 1]
    /\ state' = [state EXCEPT ![k] = Absent]
    /\ UNCHANGED <<phase, batches, heap, model, pending, seen>>

\* The state_delta of a result that a hook gives: none, or one scalar.
Replies == {NoDelta} \cup {[NoDelta EXCEPT ![k] = Scalar(x)] : k \in Keys, x \in Scalars}

\* Mutant: the CallResult of a before-hook that answers is made without Actions.
HookAnswersBare(c, reply) ==
    /\ Running(c)
    /\ calls[c].pc = "before"
    /\ calls' = [calls EXCEPT ![c].pc = "done", ![c].result = reply,
                            ![c].delta = NoDelta]
    /\ UNCHANGED <<phase, batches, state, heap, model, pending, seen>>

\* A before-hook answers, or fails: neither the tool nor the after-hooks run.
HookAnswers(c, reply) ==
    /\ Running(c)
    /\ calls[c].pc = "before"
    /\ calls' = [calls EXCEPT ![c].pc = "done", ![c].result = reply]
    /\ UNCHANGED <<phase, batches, state, heap, model, pending, seen>>

\* The tool runs and returns without a state_delta, or lookupTool finds none.
ToolReturns(c) ==
    /\ Running(c)
    /\ calls[c].pc = "before"
    /\ calls' = [calls EXCEPT ![c].pc = "after"]
    /\ UNCHANGED <<phase, batches, state, heap, model, pending, seen>>

\* The tool returns a state_delta, or has written its Actions(), as a tool with a
\* context may.  Neither touches the state.
ToolWrites(c, k, x, into) ==
    /\ Running(c)
    /\ calls[c].pc = "before"
    /\ Creatable(x)
    /\ calls' = IF into = "result"
                THEN [calls EXCEPT ![c].pc = "after", ![c].result[k] = Stored(x)]
                ELSE [calls EXCEPT ![c].pc = "after", ![c].delta[k] = Stored(x)]
    /\ heap' = HeapWith(k, x)
    /\ UNCHANGED <<phase, batches, state, model, pending, seen>>

\* The error and after-hooks are done, and have left the result or replaced it.
HooksEnd(c, result) ==
    /\ Running(c)
    /\ calls[c].pc = "after"
    /\ calls' = [calls EXCEPT ![c].pc = "done", ![c].result = result]
    /\ UNCHANGED <<phase, batches, state, heap, model, pending, seen>>

\* wg.Wait, then mergeResultsToEvent, and MergeStateDelta on the session's state.
\* The flow, or the flow it transfers to, takes another step, or the run ends.
Merge(last) ==
    /\ phase = "tools"
    /\ \A c \in DOMAIN calls : ~Running(c)
    /\ pending' = Append(pending, MergedDelta)
    /\ state' = StateMerged(MergedDelta)
    /\ heap' = HeapMerged(MergedDelta)
    /\ calls' = <<>>
    /\ IF last
       THEN phase' = "ending" /\ seen' = state' /\ UNCHANGED model
       ELSE NextStep /\ UNCHANGED seen
    /\ UNCHANGED batches

\* Mutant: the events are appended from the last to the first.
PersistBackwards ==
    /\ phase \in {"ending", "persisting"}
    /\ pending' = SubSeq(pending, 1, Len(pending) - 1)
    /\ state' = Override(state, pending[Len(pending)])
    /\ phase' = IF Len(pending) = 1 THEN "done" ELSE "persisting"
    /\ UNCHANGED <<batches, heap, model, calls, seen>>

\* Runner.Run appends the events of the run one after another; AppendEvent
\* overwrites the keys of the delta, applyStateDelta.
Persist ==
    /\ phase \in {"ending", "persisting"}
    /\ pending' = Tail(pending)
    /\ state' = Override(state, Head(pending))
    /\ phase' = IF Len(pending) = 1 THEN "done" ELSE "persisting"
    /\ UNCHANGED <<batches, heap, model, calls, seen>>

CallStep(c) ==
    \/ \E k \in Keys, x \in Inputs : HookSets(c, k, x)
    \/ \E k \in Keys : HookDeletes(c, k)
    \/ \E reply \in Replies : HookAnswers(c, reply)
    \/ ToolReturns(c)
    \/ \E k \in Keys, x \in Inputs, into \in {"result", "actions"} :
          ToolWrites(c, k, x, into)
    \/ \E result \in Replies \cup {calls[c].result} : HooksEnd(c, result)

Next ==
    \/ Start
    \/ \E k \in Keys, x \in Inputs : ModelSets(k, x)
    \/ \E k \in Keys : ModelDeletes(k)
    \/ ModelFails
    \/ Answer
    \/ \E n \in 1..MaxCalls : CallTools(n)
    \/ \E c \in DOMAIN calls : CallStep(c)
    \/ \E last \in BOOLEAN : Merge(last)
    \/ Persist

Spec == Init /\ [][Next]_vars

-----------------------------------------------------------------------------
(***************************************************************************)
(* Types                                                                   *)
(***************************************************************************)

\* A value at key k: a reference is to a map that was made for k.
ValueAt(h, k) ==
    {v \in Value :
        /\ v.is = "map" => v.of \in DOMAIN h /\ h[v.of].key = k
        /\ v.is = "scalar" => v.of \in Scalars
        /\ v.is \in {"tombstone", "absent"} => v.of = 0}

DeltaOK(h, d) == d \in Delta /\ \A k \in Keys : d[k] \in ValueAt(h, k)

FieldValue == ScalarValue \cup {Absent}

Cell == [key: Keys, fields: [Fields -> FieldValue]]
Heap == Seq(Cell)

Call == [pc: {"before", "after", "done"}, delta: Delta, result: Delta,
         writes: 0..MaxWrites]

\* Every map is at one key, calls exist only while a batch runs, and events are
\* waiting exactly while a run has events to persist.
ToolTypeOK ==
    /\ phase \in {"idle", "model", "tools", "ending", "persisting", "done"}
    /\ batches \in 0..MaxBatches
    /\ heap \in Heap
    /\ DeltaOK(heap, state)
    /\ DeltaOK(heap, seen)
    /\ model \in [delta: Delta, writes: 0..MaxWrites] /\ DeltaOK(heap, model.delta)
    /\ phase # "model" => model.delta = NoDelta
    /\ calls \in Seq(Call)
    /\ \A c \in DOMAIN calls : DeltaOK(heap, calls[c].delta) /\ DeltaOK(heap, calls[c].result)
    /\ (calls # <<>>) <=> (phase = "tools")
    /\ pending \in Seq(Delta) /\ \A i \in DOMAIN pending : DeltaOK(heap, pending[i])
    /\ phase \in {"tools", "ending", "persisting"} => pending # <<>>
    /\ phase \in {"idle", "done"} => pending = <<>>

-----------------------------------------------------------------------------
(***************************************************************************)
(* Properties                                                              *)
(***************************************************************************)

\* What the events of the run say of k, the last of them first.
Said(k) == LastOn(Append(pending, model.delta), k)

\* w, which the state has, shows v: it reads like it, or has all fields of the map.
Shows(h, w, v) ==
    IF IsMap(v)
    THEN /\ IsMap(w)
         /\ \A f \in Fields :
                h[v.of].fields[f] # Absent => h[w.of].fields[f] = h[v.of].fields[f]
    ELSE Reads(w) = Reads(v)

\* Between the batches of a run the state shows what the events of the run say,
\* in whatever order the goroutines of a batch wrote: persisting the events
\* brings back no older value (flow.go:389-392 against runner.go's appends).
EventsShowInState ==
    phase \in {"model", "ending"} =>
        \A k \in Keys : Said(k) # Absent => Shows(heap, state[k], Said(k))

\* No write of a callback, a hook or a tool is in the state alone: a key at which
\* the state is not what it was when the run started is in the delta of one of
\* the run's events, so the history explains the state (flow.go:406-433, 588-590).
WritesRideOnEvents ==
    phase = "model" => \A k \in Keys : state[k] # seen[k] => Said(k) # Absent

Deleted(v) == v \in {Absent, TombstoneValue}

\* When all events of a run are persisted no older value is back: a scalar is the one that
\* the run left, a map is still some map, and what the run left deleted has no value, or
\* the mark of a deletion for one (runner.go:176-186, session.go:495-500).
NoOlderValueReturns ==
    phase = "done" =>
        \A k \in Keys : \/ state[k] = seen[k]
                        \/ IsMap(state[k]) /\ IsMap(seen[k])
                        \/ Deleted(state[k]) /\ Deleted(seen[k])

\* "tool result containing state_delta key is deep-merged into session state": the map
\* that the run has merged has all its fields when the events of the run are persisted.
\* Persisting assigns the map of each event whole (session.go:498): this does not hold.
MapsStayMerged ==
    phase = "done" =>
        \A k \in Keys : IsMap(seen[k]) => Shows(heap, state[k], seen[k])

\* Delete "writes TombstoneValue to delta AND removes from durable state": a key that the
\* run left deleted is not in the state when the events of the run are persisted.  The
\* tombstone is persisted as a value (session.go:498): this does not hold.
DeletedStaysRemoved ==
    phase = "done" => \A k \in Keys : seen[k] = Absent => state[k] = Absent

\* The calls that have a map for k in their actions, and whether each has written the key
\* through and no other map of it was made: then the calls, one after another in their
\* order, would leave the map of the last in the state, and the merge would change nothing.
MapCalls(k) == {c \in DOMAIN calls : IsMap(calls[c].delta[k])}

OneMapPerCall(k) ==
    /\ \A c \in MapCalls(k) : calls[c].writes > 0
    /\ {r \in DOMAIN heap : heap[r].key = k} = {calls[c].delta[k].of : c \in MapCalls(k)}

\* "ensuring deterministic ordering regardless of goroutine completion order"
\* (.rive-artifacts/02-implement-flow-model-tool.md:69): the merged event has the calls in
\* their order, and of a map that no one had before, the batch leaves in the state what it
\* leaves when the calls run in that order, which is what the event says.  Merging writes into
\* the map of whoever ran last (session.go:206-210): this does not hold.
BatchOrderDecides ==
    [][phase = "tools" /\ phase' # "tools" =>
        \A k \in Keys :
            OneMapPerCall(k) /\ IsMap(MergedDelta[k]) =>
                heap'[state'[k].of].fields = heap[MergedDelta[k].of].fields]_vars

=============================================================================
