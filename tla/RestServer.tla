----------------------------- MODULE RestServer -----------------------------
(***************************************************************************)
(* server/adkrest: concurrent requests to /run and /run_sse, each of which *)
(* is decoded, makes a runner of its own, runs the agent of the loader to  *)
(* the end and writes the events, as one JSON document or one by one.      *)
(*                                                                         *)
(* The steps of the runner (see Runner) are those that requests can tell   *)
(* apart: the user event, the flow of the agent with its tools (FlowTools, *)
(* AgentTool), and the events that are persisted one by one.               *)
(***************************************************************************)
EXTENDS AgentTool

CONSTANTS
    Requests,   \* the requests, each with one call of the flow of the served agent
    Arrivals,   \* the requests that clients may make
    NoArrival,  \* a request not made yet
    Replies     \* bound: the events a run may return, chunks of a stream and finished ones

\* path: "run" or "run_sse"; post: the method is POST; valid: the body decodes and every
\* field is there; app, sid: of the body; flusher: the connection can be flushed.
Arrival == [path: {"run", "run_sse"}, post: BOOLEAN, valid: BOOLEAN,
            app: STRING, sid: Sids \ {ChildSid}, flusher: BOOLEAN]

ASSUME RestAssumption ==
    /\ Requests = Calls
    /\ Replies \subseteq Seq({"chunk", "finished"}) /\ <<>> \in Replies
    /\ \A a \in Arrivals : a \in Arrival
    /\ NoArrival \notin Arrivals

VARIABLES
    loader,      \* the agent of the loader: none, one without Execute, or one that runs
    configured,  \* the configuration has a session service
    clients,     \* the requests that clients make of this server
    got,         \* the request
    stage,       \* the next statement of its handler
    status,      \* the status line that was sent, 0 for none
    body,        \* the events written, by their number in the run
    told,        \* an error was written
    replies,     \* the events the run returned
    passed,      \* the number of them that the runner is done with
    lost,        \* one of them could not be appended
    saw          \* the history the run began with

loaderVars == <<loader, configured, clients>>
answerVars == <<status, body, told>>
runVars == <<replies, passed, lost, saw>>
handlerVars == <<loaderVars, got, stage, answerVars, runVars>>
serverVars == <<handlerVars, sandboxVars, toolVars>>

ServerInit ==
    /\ ToolsInit /\ SandboxInit
    /\ got = [r \in Requests |-> NoArrival]
    /\ stage = [r \in Requests |-> "idle"]
    /\ status = [r \in Requests |-> 0]
    /\ body = [r \in Requests |-> <<>>]
    /\ told = [r \in Requests |-> FALSE]
    /\ replies = [r \in Requests |-> <<>>]
    /\ passed = [r \in Requests |-> 0]
    /\ lost = [r \in Requests |-> FALSE]
    /\ saw = [r \in Requests |-> <<>>]

Goes(r, from, to) ==
    /\ ~crashed
    /\ stage[r] = from
    /\ stage' = [stage EXCEPT ![r] = to]
    /\ UNCHANGED loaderVars

Streams(r) == got[r].path = "run_sse"

-----------------------------------------------------------------------------
(***************************************************************************)
(* The handlers up to the run                                              *)
(***************************************************************************)

\* writeError
WriteError(r, code) ==
    /\ status' = [status EXCEPT ![r] = code]
    /\ told' = [told EXCEPT ![r] = TRUE]
    /\ UNCHANGED body

\* The status that refuses a request before anything is run, 0 for none.
Refusal(a) ==
    IF ~a.post THEN 405
    ELSE IF ~a.valid THEN 400
    ELSE IF a.path = "run_sse" /\ ~a.flusher THEN 500
    ELSE 0

Refuse(r, a) ==
    /\ Goes(r, "idle", "done")
    /\ Refusal(a) # 0
    /\ got' = [got EXCEPT ![r] = a]
    /\ WriteError(r, Refusal(a))
    /\ UNCHANGED <<runVars, sandboxVars, toolVars>>

\* The request is decoded; a stream has its status before anything is run.
Accept(r, a) ==
    /\ Goes(r, "idle", "load")
    /\ Refusal(a) = 0
    /\ got' = [got EXCEPT ![r] = a]
    /\ status' = [status EXCEPT ![r] = IF a.path = "run_sse" THEN 200 ELSE 0]
    /\ UNCHANGED <<body, told, runVars, sandboxVars, toolVars>>

\* An error of runAgent: the status of a document, an event of a stream.
RunError(r, code) ==
    IF Streams(r) THEN told' = [told EXCEPT ![r] = TRUE] /\ UNCHANGED <<status, body>>
                  ELSE WriteError(r, code)

\* runAgent: no agent, or one that does not execute.
LoadFails(r) ==
    /\ Goes(r, "load", "done")
    /\ loader # "agent"
    /\ RunError(r, IF loader = "none" THEN 404 ELSE 500)
    /\ UNCHANGED <<got, runVars, sandboxVars, toolVars>>

\* Mutant: the server keeps one service when none is configured.
ServiceOfServer(r) == Shared

\* The session service of the configuration, or a new one for this request.
ServiceFor(r) == IF configured THEN Shared ELSE OwnService(r)

\* runner.New, and Run up to the user event.
OpenSession(r) ==
    /\ Goes(r, "load", "run")
    /\ loader = "agent"
    /\ home' = [home EXCEPT ![r] = ServiceFor(r)]
    /\ sid' = [sid EXCEPT ![r] = got[r].sid]
    /\ saw' = [saw EXCEPT ![r] = events[ServiceFor(r)][got[r].sid]]
    /\ Record(ServiceFor(r), got[r].sid, <<Entry(r, "message")>>)
    /\ UNCHANGED <<got, answerVars, replies, passed, lost, state, users, inside, tool, toolVars>>

\* A service of the configuration may have no session for the runner, or not take the
\* user event.
OpenFails(r) ==
    /\ Goes(r, "load", "done")
    /\ loader = "agent" /\ configured
    /\ RunError(r, 500)
    /\ UNCHANGED <<got, runVars, sandboxVars, toolVars>>

-----------------------------------------------------------------------------
(***************************************************************************)
(* The run                                                                 *)
(***************************************************************************)

AgentRuns(r) ==
    /\ stage[r] = "run"
    /\ CallerFlow(r) \/ ToolCall(r)
    /\ UNCHANGED handlerVars

RunReturns(r, es) ==
    /\ Goes(r, "run", "persist")
    /\ at[r] = "returned"
    /\ replies' = [replies EXCEPT ![r] = es]
    /\ UNCHANGED <<got, answerVars, passed, lost, saw, sandboxVars, toolVars>>

\* The events that came with the error are dropped.
RunFails(r) ==
    /\ Goes(r, "run", "done")
    /\ at[r] = "returned"
    /\ RunError(r, 500)
    /\ UNCHANGED <<got, runVars, sandboxVars, toolVars>>

\* The loop over the events of the run comes to one of this kind.
NextEvent(r, kind) ==
    /\ Goes(r, "persist", "persist")
    /\ passed[r] < Len(replies[r])
    /\ replies[r][passed[r] + 1] = kind
    /\ passed' = [passed EXCEPT ![r] = @ + 1]

SkipChunk(r) ==
    /\ NextEvent(r, "chunk")
    /\ UNCHANGED <<got, answerVars, replies, lost, saw, sandboxVars, toolVars>>

Persist(r) ==
    /\ NextEvent(r, "finished")
    /\ Record(home[r], sid[r], <<Entry(r, "reply")>>)
    /\ UNCHANGED <<got, answerVars, replies, lost, saw, state, users, inside, callerVars, tool,
                   toolVars>>

\* A session of the configuration's service does not take the event, say because it was
\* deleted; the loop goes on.
PersistFails(r) ==
    /\ NextEvent(r, "finished")
    /\ configured
    /\ lost' = [lost EXCEPT ![r] = TRUE]
    /\ UNCHANGED <<got, answerVars, replies, saw, sandboxVars, toolVars>>

\* Mutant: events are written while they are persisted.
PersistedBeforeWrite(r) == ~lost[r] /\ (passed[r] > 0 \/ replies[r] = <<>>)

\* The loop is through.  Run returns without an error if every append went well.
LoopEnds(r) == passed[r] = Len(replies[r])
Persisted(r) == LoopEnds(r) /\ ~lost[r]

\* The errors of the appends are joined.
PersistError(r) ==
    /\ Goes(r, "persist", "done")
    /\ LoopEnds(r) /\ lost[r]
    /\ RunError(r, 500)
    /\ UNCHANGED <<got, runVars, sandboxVars, toolVars>>

-----------------------------------------------------------------------------
(***************************************************************************)
(* The answer                                                              *)
(***************************************************************************)

Document(r) == [i \in DOMAIN replies[r] |-> i]

WriteDocument(r) ==
    /\ Goes(r, "persist", "done")
    /\ Persisted(r) /\ ~Streams(r)
    /\ status' = [status EXCEPT ![r] = 200]
    /\ body' = [body EXCEPT ![r] = Document(r)]
    /\ UNCHANGED <<got, told, runVars, sandboxVars, toolVars>>

WriteEvent(r) ==
    /\ Goes(r, "persist", "persist")
    /\ Persisted(r) /\ Streams(r)
    /\ Len(body[r]) < Len(replies[r])
    /\ body' = [body EXCEPT ![r] = Append(@, Len(@) + 1)]
    /\ UNCHANGED <<got, status, told, runVars, sandboxVars, toolVars>>

\* The client is gone: the rest is not written.
WriteFails(r) ==
    /\ Goes(r, "persist", "gone")
    /\ Persisted(r) /\ Streams(r)
    /\ Len(body[r]) < Len(replies[r])
    /\ UNCHANGED <<got, answerVars, runVars, sandboxVars, toolVars>>

StreamEnds(r) ==
    /\ Goes(r, "persist", "done")
    /\ Persisted(r) /\ Streams(r)
    /\ Len(body[r]) = Len(replies[r])
    /\ UNCHANGED <<got, answerVars, runVars, sandboxVars, toolVars>>

Handle(r) ==
    \/ LoadFails(r) \/ OpenSession(r) \/ OpenFails(r)
    \/ AgentRuns(r)
    \/ \E es \in Replies : RunReturns(r, es)
    \/ RunFails(r)
    \/ SkipChunk(r) \/ Persist(r) \/ PersistFails(r) \/ PersistError(r)
    \/ WriteDocument(r) \/ WriteEvent(r) \/ WriteFails(r) \/ StreamEnds(r)

Fatal == (\E f \in Flows : FatalMapAccess(f)) /\ UNCHANGED <<handlerVars, sandboxVars>>

Answered(r) == stage[r] \in {"idle", "done", "gone"}

ServerNext ==
    \/ \E r \in Requests : (\E a \in clients : Refuse(r, a) \/ Accept(r, a)) \/ Handle(r)
    \/ Fatal

-----------------------------------------------------------------------------
(***************************************************************************)
(* Properties                                                              *)
(***************************************************************************)

Stages == {"idle", "load", "run", "persist", "done", "gone"}

ServerTypeOK ==
    /\ SandboxTypeOK
    /\ loader \in {"none", "bare", "agent"} /\ configured \in BOOLEAN /\ clients \subseteq Arrivals
    /\ got \in [Requests -> Arrivals \cup {NoArrival}]
    /\ stage \in [Requests -> Stages]
    /\ status \in [Requests -> {0, 200, 400, 404, 405, 500}]
    /\ body \in [Requests -> Seq(Nat)]
    /\ told \in [Requests -> BOOLEAN]
    /\ replies \in [Requests -> Replies]
    /\ \A r \in Requests : passed[r] \in 0..Len(replies[r])
    /\ lost \in [Requests -> BOOLEAN]

EntriesOf(r, what, i) ==
    {j \in DOMAIN events[home[r]][i] : events[home[r]][i][j] = Entry(r, what)}

Finished(r) == {i \in DOMAIN replies[r] : replies[r][i] = "finished"}

\* An answer says what happened: a document has all the events of its run or none and an
\* error, and its status tells which; a stream, whose status says nothing, has a prefix of
\* them, and all unless the client is gone or an error was written and no event
\* (server.go:64-134).
AnswerIsTheRun ==
    \A r \in Requests :
        /\ body[r] # <<>> => ~told[r] /\ status[r] = 200
        /\ stage[r] = "done" =>
              /\ status[r] # 0
              /\ ~told[r] => Len(body[r]) = Len(replies[r])
              /\ ~Streams(r) => (told[r] <=> status[r] # 200)

\* Whoever has got an event, be it a chunk, finds the finished events of the run in the
\* session, each once, and the message before them: nothing is written before everything
\* is persisted, and nothing at all if one event could not be, whatever other requests
\* write into the session (server.go:186-193, runner.go:144-185).
AnsweredIsKept ==
    \A r \in Requests : body[r] # <<>> =>
        /\ ~lost[r]
        /\ Cardinality(EntriesOf(r, "reply", got[r].sid)) = Cardinality(Finished(r))
        /\ \E m \in EntriesOf(r, "message", got[r].sid) :
              \A j \in EntriesOf(r, "reply", got[r].sid) : m < j

\* What a client is told is what happened and what will be remembered (server.go:64-194).
ClientsAreToldTheRun == ServerTypeOK /\ AnswerIsTheRun /\ AnsweredIsKept

\* The request was answered with a finished event.
Remembered(q) == stage[q] = "done" /\ ~lost[q] /\ Finished(q) # {}

\* A conversation goes on from request to request exactly if a session service is
\* configured: a run sees what was persisted of every request for the session that was
\* answered before with a finished event, and without a service it sees nothing
\* (server.go:166-169).  The app that the client names makes no difference.
ConversationGoesOn ==
    [][\A r \in Requests : stage[r] = "load" /\ stage'[r] = "run" =>
          IF configured
          THEN \A q \in Requests :
                  Remembered(q) /\ got[q].sid = got[r].sid =>
                      \E j \in DOMAIN saw'[r] : saw'[r][j] = Entry(q, "reply")
          ELSE saw'[r] = <<>>]_serverVars

=============================================================================
