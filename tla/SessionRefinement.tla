-------------------------- MODULE SessionRefinement --------------------------
(***************************************************************************)
(* The session service implements AtomicSession: an AppendEvent takes      *)
(* effect at once, when it applies its delta, although the state can be    *)
(* read and written between its critical sections.                         *)
(***************************************************************************)
EXTENDS SessionService

\* A history with the event of the append in progress already in place.
HistoryOf(o) ==
    IF pending = NoAppend THEN events[o]
    ELSE IF pending.obj = o THEN Append(events[o], Persisted(pending.ev))
    ELSE events[o]

Atomic == INSTANCE AtomicSession WITH
    SessionIds    <- SessionId,
    Key           <- sessionKey,
    DurableEvents <- {Persisted(ev) : ev \in {e \in Inputs : ~e.partial}},
    DurableStates <- {TrimTemp(s) : s \in InitialStates},
    DurableWrites <- {w \in Writes : w[1].scope # "temp"},
    stored   <- sessions,
    created  <- alloc,
    identity <- owner,
    durable  <- [o \in Objects |-> TrimTemp(state[o])],
    history  <- [o \in Objects |-> HistoryOf(o)],
    app      <- appState,
    user     <- userState

\* Every behaviour of the service is one of the atomic session store: appends
\* are all or nothing over history, local, app and user state, in one order
\* for all sessions, and no temp key ever shows in the durable part.
AppendsAreAtomic == Atomic!AtomicSpec

=============================================================================
