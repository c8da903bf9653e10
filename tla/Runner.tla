-------------------------------- MODULE Runner --------------------------------
(***************************************************************************)
(* runner.Runner over the session service (runner/runner.go): concurrent   *)
(* calls of Run, each of which gets or creates its session, numbers its    *)
(* invocation after the events it sees, appends the user event, routes to  *)
(* an agent, executes it and persists its finished events one by one.      *)
(*                                                                         *)
(* The agent is an ExecutableAgent, external to the runner: while it runs  *)
(* it may write state through its callback contexts, and it ends with an   *)
(* error or with a sequence of events.                                     *)
(*                                                                         *)
(* Run has no lock of its own: its steps interleave with those of other    *)
(* calls on the same session at every access to the session.               *)
(***************************************************************************)
EXTENDS SessionService, FiniteSets

CONSTANTS
    Runs,               \* the calls of Run
    Agents, Root,       \* the agent tree and r.agent
    Parent, NoAgent,    \* Parent[a] is the parent of a, NoAgent for the root
    DisallowParent,     \* agents with DisallowTransferToParent
    Executable,         \* agents that implement ExecutableAgent
    User,               \* the author of user events
    ReplyAuthors,       \* the authors of the events agents return
    Shapes              \* bound: the sequences of events an agent may return

ReplyKinds == {"chunk", "plain", "carry"}

\* An event's ID is made of the invocation's ordinal and its place in the
\* invocation; `run` is the call that produced it, which the ID does not show.
Tag == [run: Runs, inv: 1 .. (MaxEvents + 1), seq: 0 .. MaxEvents]

ASSUME RunnerConstants ==
    /\ Tag \subseteq Tags
    /\ Root \in Agents /\ NoAgent \notin Agents
    /\ Parent \in [Agents -> Agents \cup {NoAgent}]
    /\ DisallowParent \subseteq Agents /\ Root \in Executable
    /\ User \notin Agents
    /\ ReplyAuthors \cup {User} \subseteq Authors
    /\ \A s \in Shapes : s \in Seq(ReplyKinds) /\ Len(s) <= MaxEvents

VARIABLES
    pc,        \* the next statement of each call
    target,    \* the runner's app with the userID and sessionID arguments
    sess,      \* the handle of the session
    ordinal,   \* nextEventOrdinal
    agent,     \* agentToRun
    carried,   \* the StateDelta recorded by the callback contexts
    replies,   \* sessEvents, the events Execute returned
    at,        \* the index of the persisting loop
    result     \* "none" while running, then "ok" or the error that ended it

runVars == <<pc, target, sess, ordinal, agent, carried, replies, at, result>>
vars == <<svcVars, runVars>>

Steps == {"idle", "get", "getAgain", "create", "count", "user", "userAppend",
          "route", "execute", "persist", "persistAppend", "done"}

\* The well-formed states of the calls and of the service under them.
RunnerTypeOK ==
    /\ TypeOK
    /\ pc \in [Runs -> Steps]
    /\ target \in [Runs -> SessionId]
    /\ sess \in [Runs -> Objects \cup {NoObject}]
    /\ ordinal \in [Runs -> 0 .. (MaxEvents + 1)]
    /\ agent \in [Runs -> Agents]
    /\ carried \in [Runs -> StateMap]
    /\ replies \in [Runs -> Seq(Event)]
    /\ at \in [Runs -> Nat \ {0}]
    /\ result \in [Runs -> {"none", "ok", "createError", "agentError"}]

RunnerInit ==
    /\ Init
    /\ pc = [r \in Runs |-> "idle"]
    /\ target = [r \in Runs |-> CHOOSE id \in SessionId : TRUE]
    /\ sess = [r \in Runs |-> NoObject]
    /\ ordinal = [r \in Runs |-> 0]
    /\ agent = [r \in Runs |-> Root]
    /\ carried = [r \in Runs |-> EmptyState]
    /\ replies = [r \in Runs |-> <<>>]
    /\ at = [r \in Runs |-> 1]
    /\ result = [r \in Runs |-> "none"]

-----------------------------------------------------------------------------
(* Getting the session.                                                    *)

Goto(r, from, to) == pc[r] = from /\ pc' = [pc EXCEPT ![r] = to]

\* A caller invokes Run for a session.
Call(r, id) ==
    /\ Goto(r, "idle", "get")
    /\ target' = [target EXCEPT ![r] = id]
    /\ UNCHANGED <<svcVars, sess, ordinal, agent, carried, replies, at, result>>

\* sessionService.Get, and on a miss the Get that opens GetOrCreate; each takes
\* and releases the read lock of svc.mu.
GetSession(r, from, missed) ==
    /\ pending = NoAppend
    /\ sess' = [sess EXCEPT ![r] = Lookup(target[r])]
    /\ Goto(r, from, IF Lookup(target[r]) = NoObject THEN missed ELSE "count")
    /\ UNCHANGED <<svcVars, target, ordinal, agent, carried, replies, at, result>>

\* Mutant: Create overwrites a session stored since GetOrCreate looked.
CreateSessionOverwrites(r) ==
    /\ pending = NoAppend
    /\ Goto(r, "create", "count")
    /\ \E o \in Objects \ alloc :
        /\ alloc' = alloc \cup {o}
        /\ owner' = [owner EXCEPT ![o] = target[r]]
        /\ sessions' = [sessions EXCEPT ![sessionKey(target[r])] = o]
        /\ sess' = [sess EXCEPT ![r] = o]
    /\ UNCHANGED <<state, events, appState, userState, pending,
                   target, ordinal, agent, carried, replies, at, result>>

\* The Create that ends GetOrCreate, when the session is still missing.
CreateSession(r) ==
    /\ Goto(r, "create", "count")
    /\ Create(target[r], EmptyState)
    /\ sess' = [sess EXCEPT ![r] = sessions'[sessionKey(target[r])]]
    /\ UNCHANGED <<target, ordinal, agent, carried, replies, at, result>>

\* Create's "already exists", which Run returns to its caller.
CreateFails(r) ==
    /\ pending = NoAppend
    /\ Lookup(target[r]) # NoObject
    /\ Goto(r, "create", "done")
    /\ result' = [result EXCEPT ![r] = "createError"]
    /\ UNCHANGED <<svcVars, target, sess, ordinal, agent, carried, replies, at>>

-----------------------------------------------------------------------------
(* The user event and the choice of the agent.                             *)

\* Mutant: the ordinal counts the agents' events and not the users'.
CountAgentEvents(r) ==
    /\ Goto(r, "count", "user")
    /\ ordinal' = [ordinal EXCEPT ![r] =
            Cardinality({i \in DOMAIN events[sess[r]] : events[sess[r]][i].author # User}) + 1]
    /\ UNCHANGED <<svcVars, target, sess, agent, carried, replies, at, result>>

\* nextEventOrdinal := sess.EventCount() + 1, under the session's own mutex.
CountEvents(r) ==
    /\ Goto(r, "count", "user")
    /\ ordinal' = [ordinal EXCEPT ![r] = Len(events[sess[r]]) + 1]
    /\ UNCHANGED <<svcVars, target, sess, agent, carried, replies, at, result>>

UserEvent(r) ==
    [tag     |-> [run |-> r, inv |-> ordinal[r], seq |-> 0],
     author  |-> User,
     partial |-> FALSE,
     delta   |-> EmptyState]

\* sess.AppendEvent(userEvent): enter the service, then append and leave it.
AppendUserBegin(r) ==
    /\ Goto(r, "user", "userAppend")
    /\ AppendBegin(sess[r], UserEvent(r))
    /\ UNCHANGED <<target, sess, ordinal, agent, carried, replies, at, result>>

AppendUserEnd(r) ==
    /\ Goto(r, "userAppend", "route")
    /\ AppendRecord
    /\ UNCHANGED <<target, sess, ordinal, agent, carried, replies, at, result>>

\* An agent and its ancestors, following Parent().
Chain(a) ==
    LET up[k \in 0 .. Cardinality(Agents)] ==
            IF k = 0 THEN a
            ELSE IF up[k - 1] = NoAgent THEN NoAgent ELSE Parent[up[k - 1]]
    IN {up[k] : k \in DOMAIN up} \ {NoAgent}

\* isTransferableAcrossAgentTree.
TransferableAcrossTree(a) == Chain(a) \cap DisallowParent = {}

\* findAgentToRun: the author of the last event of a transferable agent of the
\* tree; events of users and of unknown authors are skipped.
FindAgentToRun(history) ==
    LET found == {i \in DOMAIN history :
                    /\ history[i].author \in Agents
                    /\ TransferableAcrossTree(history[i].author)}
    IN IF found = {} THEN Root
       ELSE history[CHOOSE i \in found : \A j \in found : j <= i].author

\* Events() is copied under the session's mutex; a candidate that cannot be
\* executed falls back to the root.
Route(r) ==
    /\ Goto(r, "route", "execute")
    /\ LET found == FindAgentToRun(events[sess[r]])
       IN agent' = [agent EXCEPT ![r] = IF found \in Executable THEN found ELSE Root]
    /\ UNCHANGED <<svcVars, target, sess, ordinal, carried, replies, at, result>>

-----------------------------------------------------------------------------
(* The agent's execution, external to the runner.                          *)

\* callbackContextState.Set: into the delta and at once into the session.
AgentSets(r, key, value) ==
    /\ pc[r] = "execute"
    /\ carried[r][key] = Absent
    /\ carried' = [carried EXCEPT ![r][key] = value]
    /\ SetState(sess[r], key, value)
    /\ UNCHANGED <<pc, target, sess, ordinal, agent, replies, at, result>>

\* callbackContextState.Delete: a tombstone into the delta, the key out of the
\* session.
AgentDeletes(r, key) ==
    /\ pc[r] = "execute"
    /\ carried[r][key] = Absent
    /\ carried' = [carried EXCEPT ![r][key] = Tombstone]
    /\ DeleteState(sess[r], key)
    /\ UNCHANGED <<pc, target, sess, ordinal, agent, replies, at, result>>

\* The events of a shape: streaming chunks, finished events without actions,
\* and finished events that carry the recorded delta.
RepliesOf(r, shape, author) ==
    [i \in DOMAIN shape |->
        [tag     |-> [run |-> r, inv |-> ordinal[r], seq |-> i],
         author  |-> author,
         partial |-> shape[i] = "chunk",
         delta   |-> IF shape[i] = "carry" THEN carried[r] ELSE EmptyState]]

\* Execute returns its events.
AgentReturns(r) ==
    /\ Goto(r, "execute", "persist")
    /\ \E shape \in Shapes, author \in ReplyAuthors :
        replies' = [replies EXCEPT ![r] = RepliesOf(r, shape, author)]
    /\ UNCHANGED <<svcVars, target, sess, ordinal, agent, carried, at, result>>

\* Mutant: the events returned with the error are persisted as well.
AgentFailsButPersists(r) ==
    /\ Goto(r, "execute", "persist")
    /\ \E shape \in Shapes, author \in ReplyAuthors :
        replies' = [replies EXCEPT ![r] = RepliesOf(r, shape, author)]
    /\ result' = [result EXCEPT ![r] = "agentError"]
    /\ UNCHANGED <<svcVars, target, sess, ordinal, agent, carried, at>>

\* Execute returns an error.  Run hands it to the caller, with the events that
\* came along, and persists nothing.
AgentFails(r) ==
    /\ Goto(r, "execute", "done")
    /\ result' = [result EXCEPT ![r] = "agentError"]
    /\ UNCHANGED <<svcVars, target, sess, ordinal, agent, carried, replies, at>>

-----------------------------------------------------------------------------
(* Persisting the finished events.                                         *)

\* Mutant: skipping a chunk does not advance the loop.
SkipPartialStays(r) ==
    /\ pc[r] = "persist"
    /\ at[r] <= Len(replies[r])
    /\ replies[r][at[r]].partial
    /\ UNCHANGED vars

\* A partial event is skipped.
SkipPartial(r) ==
    /\ pc[r] = "persist"
    /\ at[r] <= Len(replies[r])
    /\ replies[r][at[r]].partial
    /\ at' = [at EXCEPT ![r] = @ + 1]
    /\ UNCHANGED <<svcVars, pc, target, sess, ordinal, agent, carried, replies, result>>

\* sess.AppendEvent(ev) for a finished one: apply, trim, append.
PersistBegin(r) ==
    /\ Goto(r, "persist", "persistAppend")
    /\ at[r] <= Len(replies[r])
    /\ AppendBegin(sess[r], replies[r][at[r]])
    /\ UNCHANGED <<target, sess, ordinal, agent, carried, replies, at, result>>

\* The event is shared with the caller's slice, so the trim shows there too.
PersistTrim(r) ==
    /\ pc[r] = "persistAppend"
    /\ AppendTrim
    /\ replies' = [replies EXCEPT ![r][at[r]].delta = TrimTemp(@)]
    /\ UNCHANGED <<pc, target, sess, ordinal, agent, carried, at, result>>

PersistEnd(r) ==
    /\ Goto(r, "persistAppend", "persist")
    /\ AppendRecord
    /\ at' = [at EXCEPT ![r] = @ + 1]
    /\ UNCHANGED <<target, sess, ordinal, agent, carried, replies, result>>

\* Mutant: the first chunk ends the loop.
ReturnAtChunk(r) ==
    /\ Goto(r, "persist", "done")
    /\ at[r] <= Len(replies[r]) => replies[r][at[r]].partial
    /\ result' = [result EXCEPT ![r] = "ok"]
    /\ UNCHANGED <<svcVars, target, sess, ordinal, agent, carried, replies, at>>

Return(r) ==
    /\ Goto(r, "persist", "done")
    /\ at[r] > Len(replies[r])
    /\ result' = [result EXCEPT ![r] = "ok"]
    /\ UNCHANGED <<svcVars, target, sess, ordinal, agent, carried, replies, at>>

\* What a call does by itself once it is made; only the agent's writes are
\* optional.
Step(r) ==
    \/ GetSession(r, "get", "getAgain")
    \/ GetSession(r, "getAgain", "create")
    \/ CreateSession(r)
    \/ CreateFails(r)
    \/ CountEvents(r)
    \/ AppendUserBegin(r)
    \/ AppendUserEnd(r)
    \/ Route(r)
    \/ AgentReturns(r)
    \/ AgentFails(r)
    \/ SkipPartial(r)
    \/ PersistBegin(r)
    \/ PersistTrim(r)
    \/ PersistEnd(r)
    \/ Return(r)

\* All calls have returned.
AllReturned == (\A r \in Runs : pc[r] = "done") /\ UNCHANGED vars

RunnerNext ==
    \/ \E r \in Runs :
        \/ \E id \in SessionId : Call(r, id)
        \/ \E w \in Writes : AgentSets(r, w[1], w[2])
        \/ \E w \in Writes : AgentDeletes(r, w[1])
        \/ Step(r)
    \/ AllReturned

RunnerSpec == RunnerInit /\ [][RunnerNext]_vars

\* Goroutines are scheduled and an agent's Execute returns.  Weak fairness is
\* enough for svc.mu too: the other calls take it finitely often.
FairRunnerSpec == RunnerSpec /\ \A r \in Runs : WF_vars(Step(r))

-----------------------------------------------------------------------------
(* Properties.                                                             *)

\* When a call numbers its invocation, no event in the history bears that
\* number: calls that do not overlap never reuse an invocation id
\* (runner.go:133), however many of the calls before them failed or returned
\* nothing.
FreshInvocation ==
    [][\A r \in Runs : ordinal'[r] # ordinal[r] =>
        \A i \in DOMAIN events[sess[r]] :
            events[sess[r]][i].tag.inv # ordinal'[r]]_vars

\* What one call adds to a history appears in the order in which it was
\* produced, and starts with the user's message, whatever other calls on the
\* same session put in between.
InvocationOrder ==
    \A o \in Objects : \A j \in DOMAIN events[o] :
        LET ev == events[o][j]
            before == {i \in 1 .. (j - 1) : events[o][i].tag.run = ev.tag.run}
        IN /\ \A i \in before : events[o][i].tag.seq < ev.tag.seq
           /\ ev.tag.seq > 0 => \E i \in before : events[o][i].author = User

\* A call whose agent failed leaves its question in the history and no part of
\* an answer.
FailedCallLeavesNoReply ==
    \A o \in Objects : \A i \in DOMAIN events[o] :
        events[o][i].tag.seq > 0 => result[events[o][i].tag.run] # "agentError"

\* When Run returns without an error, all the finished events it returns are in
\* the history of the session that the service stores, once each.
SuccessIsPersisted ==
    \A r \in Runs : result[r] = "ok" =>
        LET history == events[Lookup(target[r])] IN
        \A k \in DOMAIN replies[r] :
            Cardinality({i \in DOMAIN history : history[i] = replies[r][k]})
                = IF replies[r][k].partial THEN 0 ELSE 1

\* Calls that race to create a session end up with one session: no call works
\* on an object that the service has lost.
OneSessionPerId ==
    /\ \A o, p \in alloc : owner[o] = owner[p] => o = p
    /\ \A r \in Runs : sess[r] # NoObject => sess[r] = Lookup(target[r])

\* What calls on one session put into its history is what they return, in their order:
\* nothing is lost, repeated or put before its own message, however the appends of
\* the calls interleave (runner.go:165-184).
CallsPersistInOrder == InvocationOrder /\ SuccessIsPersisted

\* A session that is not used by a call holds no temp keys: they are "visible only
\* during the current invocation" (session.go:11).  A call whose agent failed
\* leaves them behind (runner.go:173): this does not hold.
TempEndsWithTheCall ==
    \A o \in alloc :
        (\A r \in Runs : sess[r] = o => pc[r] = "done") => state[o] = TrimTemp(state[o])

\* A call of an ongoing invocation still reads the temp keys that its agent has
\* set (session.go:11): no append of another call takes them away.  That of an
\* event with a delta removes all of them (session.go:474): this does not hold.
TempLastsThroughTheCall ==
    \A r \in Runs, k \in StateKey :
        (pc[r] = "execute" /\ k.scope = "temp" /\ carried[r][k] \in Values
         /\ \A q \in Runs \ {r} : carried[q][k] = Absent)
            => state[sess[r]][k] = carried[r][k]

\* "GetOrCreate returns an existing session or creates a new one" (session.go:428):
\* none of the first calls for a session fails because another came first.  The
\* Create of the later one finds the other's session: this does not hold.
FirstCallsGetASession == \A r \in Runs : result[r] # "createError"

\* Every call returns, whatever the other calls and their agents do.
EveryCallReturns == \A r \in Runs : (pc[r] # "idle") ~> (pc[r] = "done")

=============================================================================
