----------------------------- MODULE RemoteAgent -----------------------------
(***************************************************************************)
(* One Execute of a remote agent (agent/remoteagent): the stream of a      *)
(* remote task, its conversion and aggregation into events, cancellation   *)
(* by the caller, and the clean-up.                                        *)
(*                                                                         *)
(* What is received is listed part by part in heard, and events refer to   *)
(* it by position, so that loss, repetition and order of text show.        *)
(***************************************************************************)
EXTENDS Naturals, Sequences

CONSTANTS
    Bodies,    \* parts of the events that are no chunks: sequences of PartKind
    Callbacks, \* number of cleanup callbacks
    Capacity,  \* of the channel between client and agent
    MaxSent    \* bound: what the remote sends

PartKind == {"text", "thought", "call"}

ASSUME RemoteAssumption ==
    /\ Bodies \subseteq Seq(PartKind)
    /\ {Callbacks, Capacity, MaxSent} \subseteq Nat

VARIABLES
    pc,         \* "create", "streaming", "cleanup" or "returned"
    stream,     \* the channel of SendStreamingMessage
    closed,     \* the client has closed it
    sent,       \* what the remote has sent so far
    cancelled,  \* the context of the invocation is done
    heard,      \* the parts and states received
    pending,    \* aggregator.pending
    allEvents,  \* the parts and states of the events to return
    lastRemote,
    lastErr,
    cleanupErr, \* a callback has failed
    told        \* what the callbacks were given

vars == <<pc, stream, closed, sent, cancelled, heard, pending, allEvents, lastRemote,
          lastErr, cleanupErr, told>>

remoteVars == <<stream, closed, sent, cancelled>>
endVars == <<cleanupErr, told>>

-----------------------------------------------------------------------------
(***************************************************************************)
(* The remote's stream.  Artifact updates and messages are aggregated      *)
(* alike: an append is a chunk, anything else is whole.  Text parts of one *)
(* chunk are added one by one, so that a chunk has one part here.          *)
(***************************************************************************)

TaskState == {"working", "completed"}

IsTerminal(s) == s = "completed"

Status == [is: {"status"}, state: TaskState]
Chunk == [is: {"chunk"}, part: PartKind, last: BOOLEAN]
Whole == [is: {"whole"}, body: Bodies]
Bad == [is: {"error", "nil", "unknown"}]

StreamEvent == Status \cup Chunk \cup Whole \cup Bad

\* lastRemote as the end of Execute looks at it: its Type and its State.
LastNone == [is |-> "none", state |-> ""]
LastStatus(s) == [is |-> "status", state |-> s]
LastContent == [is |-> "content", state |-> ""]
LastUnknown == [is |-> "unknown", state |-> ""]

-----------------------------------------------------------------------------
(***************************************************************************)
(* The aggregator.  allEvents lists the events' parts in a row; a part     *)
(* that starts an event says so.                                           *)
(***************************************************************************)

Entry == [of: Nat, starts: BOOLEAN]

Heard(kind, chunk) == [is |-> kind, chunk |-> chunk]

\* accumulate: parts without text are left out
Accumulated(h, p, n) == IF h[n].is = "call" THEN p ELSE Append(p, n)

\* flushWithoutReset: consecutive text of one kind is one event
Flushed(h, p) ==
    [i \in DOMAIN p |-> [of |-> p[i], starts |-> i = 1 \/ h[p[i]].is # h[p[i - 1]].is]]

\* The one event of a converted remote event, whose parts start at position n.
Converted(n, len) == [i \in 1..len |-> [of |-> n + i - 1, starts |-> i = 1]]

-----------------------------------------------------------------------------
(***************************************************************************)
(* The remote, its client, and the caller                                  *)
(***************************************************************************)

Init ==
    /\ pc = "create"
    /\ stream = <<>> /\ closed = FALSE /\ sent = 0 /\ cancelled = FALSE
    /\ heard = <<>> /\ pending = <<>> /\ allEvents = <<>>
    /\ lastRemote = LastNone
    /\ lastErr = "none" /\ cleanupErr = FALSE /\ told = <<>>

RemoteSends(e) ==
    /\ pc # "create" /\ ~closed
    /\ sent < MaxSent
    /\ Len(stream) < Capacity
    /\ stream' = Append(stream, e)
    /\ sent' = sent + 1
    /\ UNCHANGED <<pc, closed, cancelled, heard, pending, allEvents, lastRemote, lastErr,
                   endVars>>

RemoteCloses ==
    /\ pc # "create" /\ ~closed
    /\ closed' = TRUE
    /\ UNCHANGED <<pc, stream, sent, cancelled, heard, pending, allEvents, lastRemote,
                   lastErr, endVars>>

Cancel ==
    /\ pc # "returned" /\ ~cancelled
    /\ cancelled' = TRUE
    /\ UNCHANGED <<pc, stream, closed, sent, heard, pending, allEvents, lastRemote,
                   lastErr, endVars>>

-----------------------------------------------------------------------------
(***************************************************************************)
(* Execute                                                                 *)
(***************************************************************************)

\* The client provider makes a client, and the request is sent, or it fails.
CreateClient(fails) ==
    /\ pc = "create"
    /\ IF fails THEN pc' = "returned" /\ lastErr' = "create"
                ELSE pc' = "streaming" /\ UNCHANGED lastErr
    /\ UNCHANGED <<remoteVars, heard, pending, allEvents, lastRemote, endVars>>

\* case se, ok := <-stream
Receives(e) ==
    /\ pc = "streaming"
    /\ stream # <<>> /\ e = Head(stream)
    /\ stream' = Tail(stream)
    /\ UNCHANGED <<closed, sent, cancelled, endVars>>

\* A status is passed on at once; a terminal one after all that is held back.
ReceiveStatus(s) ==
    /\ Receives([is |-> "status", state |-> s])
    /\ heard' = Append(heard, Heard(s, FALSE))
    /\ LET status == Converted(Len(heard) + 1, 1)
       IN IF IsTerminal(s)
          THEN /\ allEvents' = allEvents \o Flushed(heard, pending) \o status
               /\ pending' = <<>>
          ELSE /\ allEvents' = allEvents \o status
               /\ UNCHANGED pending
    /\ lastRemote' = LastStatus(s)
    /\ UNCHANGED <<pc, lastErr>>

\* Mutant: the last chunk does not empty the buffer.
ReceiveChunkKeeps(part, last) ==
    /\ Receives([is |-> "chunk", part |-> part, last |-> last])
    /\ heard' = Append(heard, Heard(part, TRUE))
    /\ pending' = Accumulated(heard', pending, Len(heard'))
    /\ allEvents' = IF last THEN allEvents \o Flushed(heard', pending') ELSE allEvents
    /\ lastRemote' = LastContent
    /\ UNCHANGED <<pc, lastErr>>

ReceiveChunk(part, last) ==
    /\ Receives([is |-> "chunk", part |-> part, last |-> last])
    /\ heard' = Append(heard, Heard(part, TRUE))
    /\ LET held == Accumulated(heard', pending, Len(heard'))
       IN IF last
          THEN allEvents' = allEvents \o Flushed(heard', held) /\ pending' = <<>>
          ELSE pending' = held /\ UNCHANGED allEvents
    /\ lastRemote' = LastContent
    /\ UNCHANGED <<pc, lastErr>>

\* What is held back goes first.
ReceiveWhole(body) ==
    /\ Receives([is |-> "whole", body |-> body])
    /\ heard' = heard \o [i \in DOMAIN body |-> Heard(body[i], FALSE)]
    /\ allEvents' = allEvents \o Flushed(heard, pending)
                              \o Converted(Len(heard) + 1, Len(body))
    /\ pending' = <<>>
    /\ lastRemote' = LastContent
    /\ UNCHANGED <<pc, lastErr>>

\* An error of the stream, or an event that cannot be converted
ReceiveBad(what) ==
    /\ Receives([is |-> what])
    /\ lastErr' = IF what = "error" THEN "stream" ELSE "convert"
    /\ lastRemote' = IF what = "unknown" THEN LastUnknown ELSE lastRemote
    /\ pc' = "cleanup"
    /\ UNCHANGED <<heard, pending, allEvents>>

StreamEnds ==
    /\ pc = "streaming"
    /\ stream = <<>> /\ closed
    /\ pc' = "cleanup"
    /\ UNCHANGED <<remoteVars, heard, pending, allEvents, lastRemote, lastErr, endVars>>

\* Mutant: the loop reads the stream and nothing else.
SeesCancelNever ==
    /\ FALSE
    /\ UNCHANGED vars

\* Mutant: the reason is not kept.
SeesCancelSilently ==
    /\ pc = "streaming" /\ cancelled
    /\ pc' = "cleanup"
    /\ UNCHANGED <<remoteVars, heard, pending, allEvents, lastRemote, lastErr, endVars>>

\* case <-done, which select may choose also when an event is waiting
SeesCancel ==
    /\ pc = "streaming" /\ cancelled
    /\ lastErr' = "cancelled"
    /\ pc' = "cleanup"
    /\ UNCHANGED <<remoteVars, heard, pending, allEvents, lastRemote, endVars>>

\* invokeCleanupCallbacks goes on when one fails.
CleanupCallback(fails) ==
    /\ pc = "cleanup"
    /\ Len(told) < Callbacks
    /\ told' = Append(told, [state |-> lastRemote.state, reason |-> lastErr])
    /\ cleanupErr' = (cleanupErr \/ fails)
    /\ UNCHANGED <<pc, remoteVars, heard, pending, allEvents, lastRemote, lastErr>>

\* The last status, if a status was last, is not terminal.
EndsOpen ==
    \/ lastRemote = LastNone
    \/ lastRemote.is = "status" /\ ~IsTerminal(lastRemote.state)

\* Mutant: an error of Destroy hides the others.
FirstErrDestroy(destroyFails) ==
    IF destroyFails THEN "destroy"
    ELSE IF lastErr # "none" THEN lastErr
    ELSE IF cleanupErr THEN "cleanup"
    ELSE "none"

FirstErr(destroyFails) ==
    IF lastErr # "none" THEN lastErr
    ELSE IF cleanupErr THEN "cleanup"
    ELSE IF destroyFails THEN "destroy"
    ELSE "none"

\* client.Destroy, and the rest of Execute
Destroy(fails) ==
    /\ pc = "cleanup"
    /\ Len(told) = Callbacks
    /\ pc' = "returned"
    /\ lastErr' = FirstErr(fails)
    /\ IF lastErr' = "none" /\ EndsOpen
       THEN allEvents' = allEvents \o Flushed(heard, pending) /\ pending' = <<>>
       ELSE UNCHANGED <<allEvents, pending>>
    /\ UNCHANGED <<remoteVars, heard, lastRemote, endVars>>

Execute ==
    \/ \E fails \in BOOLEAN : CreateClient(fails)
    \/ \E s \in TaskState : ReceiveStatus(s)
    \/ \E part \in PartKind, last \in BOOLEAN : ReceiveChunk(part, last)
    \/ \E body \in Bodies : ReceiveWhole(body)
    \/ \E what \in {"error", "nil", "unknown"} : ReceiveBad(what)
    \/ StreamEnds
    \/ SeesCancel
    \/ \E fails \in BOOLEAN : CleanupCallback(fails) \/ Destroy(fails)

Next ==
    \/ \E e \in StreamEvent : RemoteSends(e)
    \/ RemoteCloses
    \/ Cancel
    \/ Execute

Spec == Init /\ [][Next]_vars

\* The goroutine of Execute runs, callbacks and Destroy return, and a select that finds
\* the context done again and again takes that case.  Of the remote nothing is assumed.
FairSpec == Spec /\ WF_vars(Execute) /\ WF_vars(SeesCancel)

-----------------------------------------------------------------------------
(***************************************************************************)
(* Properties                                                              *)
(***************************************************************************)

Reason == {"none", "cancelled", "stream", "convert"}
Err == Reason \cup {"create", "cleanup", "destroy"}

\* Entries and the buffer refer to what was heard, the buffer to text of chunks only.
RemoteTypeOK ==
    /\ pc \in {"create", "streaming", "cleanup", "returned"}
    /\ stream \in Seq(StreamEvent) /\ closed \in BOOLEAN /\ sent \in 0..MaxSent
    /\ cancelled \in BOOLEAN
    /\ heard \in Seq([is: PartKind \cup TaskState, chunk: BOOLEAN])
    /\ pending \in Seq(Nat)
    /\ \A p \in DOMAIN pending :
          /\ pending[p] \in DOMAIN heard
          /\ heard[pending[p]].chunk /\ heard[pending[p]].is # "call"
    /\ allEvents \in Seq(Entry)
    /\ \A i \in DOMAIN allEvents : allEvents[i].of \in DOMAIN heard
    /\ lastRemote \in {LastNone, LastContent, LastUnknown}
                        \cup {LastStatus(s) : s \in TaskState}
    /\ lastErr \in Err /\ cleanupErr \in BOOLEAN
    /\ told \in Seq([state: TaskState \cup {""}, reason: Reason])
    /\ Len(told) <= Callbacks

Of(i) == allEvents[i].of

\* A status before the end of the task may overtake text that is held back.
MayOvertake(n) == heard[n].is = "working"

\* The calls in chunks are dropped; everything else is in the events, or held back, once
\* and in the order in which the remote sent it, statuses of a task at work aside
\* (aggregate.go:45-83): at all times, however the stream mixes chunks and whole events.
OnlyStatusesOvertake ==
    /\ \A i, j \in DOMAIN allEvents :
          i < j /\ ~MayOvertake(Of(i)) /\ ~MayOvertake(Of(j)) => Of(i) < Of(j)
    /\ \A i, j \in DOMAIN allEvents : i # j => Of(i) # Of(j)
    /\ \A i \in DOMAIN allEvents, p \in DOMAIN pending :
          IF MayOvertake(Of(i)) THEN Of(i) # pending[p] ELSE Of(i) < pending[p]
    /\ \A p, q \in DOMAIN pending : p < q => pending[p] < pending[q]
    /\ \A n \in DOMAIN heard :
          \/ heard[n].chunk /\ heard[n].is = "call"
          \/ \E i \in DOMAIN allEvents : Of(i) = n
          \/ \E p \in DOMAIN pending : pending[p] = n

\* No event that is put together from chunks holds thoughts beside text for the user,
\* nor a part of an event that came whole (aggregate.go:105-123).
ThoughtsStayApart ==
    \A i \in DOMAIN allEvents :
        heard[Of(i)].chunk /\ ~allEvents[i].starts =>
            i > 1 /\ heard[Of(i - 1)] = heard[Of(i)]

\* Every callback is called once, before Execute returns, and is given the error that
\* Execute returns unless the clean-up itself fails (remote_agent.go:174-189).
CleanupIsTold ==
    pc = "returned" /\ lastErr # "create" =>
        /\ Len(told) = Callbacks
        /\ \A c \in 1..Callbacks :
              told[c].reason = IF lastErr \in {"cleanup", "destroy"} THEN "none" ELSE lastErr

\* A call that succeeds has read the stream to its end: nothing the remote sent is left
\* unread, also when it was cancelled meanwhile (remote_agent.go:146-197).
SuccessHeardAll == pc = "returned" /\ lastErr = "none" => closed /\ stream = <<>>

\* Cancelling ends Execute even if the remote stays silent for ever (remote_agent.go:148).
CancelReturns == cancelled ~> pc = "returned"

\* "If the stream ended without a terminal status, ensure the aggregator is flushed": a
\* call that succeeds keeps no text to itself (remote_agent.go:191-192).  Behind a chunk
\* nothing is flushed: this does not hold.
SuccessHoldsNothingBack == pc = "returned" /\ lastErr = "none" => pending = <<>>

\* What it does keep to itself is the beginning of an answer that the remote broke off:
\* the last thing it sent was a chunk.  Text that waits behind a status is handed out
\* at the end, whatever was mixed before (remote_agent.go:191-198).
HeldBackOnlyMidAnswer ==
    pc = "returned" /\ lastErr = "none" /\ pending # <<>> => heard[Len(heard)].chunk

=============================================================================
