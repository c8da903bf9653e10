--------------------------- MODULE SessionService ---------------------------
(***************************************************************************)
(* session.Service and the sessions it manages (session/session.go).       *)
(*                                                                         *)
(* A session is a heap object that callers keep a handle to; the service   *)
(* maps the joined key app/user/sid to the current object.  Deleting a     *)
(* session only unmaps it, so a handle outlives its mapping.               *)
(*                                                                         *)
(* Locks: svc.mu is held for a whole Create, DeleteSession or AppendEvent, *)
(* but State().Set and State().Delete take only the state's own mutex and  *)
(* so run between the three critical sections of an AppendEvent: apply the *)
(* delta, remove the temp keys, append the event.  `pending` is the append *)
(* that holds svc.mu.                                                      *)
(*                                                                         *)
(* An app, user or session id is a non-empty sequence of "/"-free          *)
(* segments, so that joining with "/" is concatenation.                    *)
(***************************************************************************)
EXTENDS SessionState, Naturals, Sequences

CONSTANTS
    Apps, Users, Sids,   \* ids, each a sequence of "/"-free segments
    Objects, NoObject,   \* heap cells for *inMemorySession, and nil
    NoAppend,            \* svc.mu is free
    Tags,                \* the identity of an event: its ID and content
    Authors,             \* event authors
    Inputs,              \* the events callers append
    InitialStates,       \* the initial states callers pass to Create
    Writes,              \* the <<key, value>> pairs callers write through
    MaxEvents            \* bound: longest history explored

SessionId == [app: Apps, user: Users, sid: Sids]

Event == [tag: Tags, author: Authors, partial: BOOLEAN, delta: StateMap]

ASSUME InputsAreEvents ==
    /\ Inputs \subseteq Event
    /\ InitialStates \subseteq StateMap
    /\ Writes \subseteq StateKey \X Values
    /\ MaxEvents \in Nat

Segments == UNION {{s[i] : i \in DOMAIN s} : s \in Apps \cup Users \cup Sids}

ASSUME IdsNonEmpty ==
    /\ Apps # {} /\ Users # {} /\ Sids # {}
    /\ Apps \cup Users \cup Sids \subseteq Seq(Segments) \ {<<>>}

ASSUME NilsDistinct ==
    /\ NoObject \notin Objects
    /\ NoAppend \notin [obj: Objects, ev: Event, phase: {"applied", "trimmed"}]

VARIABLES
    sessions,   \* svc.sessions: joined key -> object
    alloc,      \* the objects created so far
    owner,      \* appName, userID and id of each object
    state,      \* the local state map of each object
    events,     \* the history of each object
    appState,   \* svc.appState
    userState,  \* svc.userState
    pending     \* the AppendEvent in progress

svcVars == <<sessions, alloc, owner, state, events, appState, userState, pending>>

-----------------------------------------------------------------------------

\* Mutant: the session id is left out of the key.
sessionKeyNoSid(id) == id.app \o id.user

\* Service.sessionKey: the three ids joined with "/".
sessionKey(id) == id.app \o id.user \o id.sid

Keys == {sessionKey(id) : id \in SessionId}

Pending == [obj: Objects, ev: Event, phase: {"applied", "trimmed"}]

\* The state of the service is well-formed.
TypeOK ==
    /\ sessions \in [Keys -> Objects \cup {NoObject}]
    /\ alloc \in SUBSET Objects
    /\ owner \in [Objects -> SessionId]
    /\ state \in [Objects -> StateMap]
    /\ events \in [Objects -> Seq(Event)]
    /\ appState \in [Apps -> SharedMap]
    /\ userState \in [Apps -> [Users -> SharedMap]]
    /\ pending \in Pending \cup {NoAppend}

\* NewService.  The fields of cells not allocated yet are irrelevant.
Init ==
    /\ sessions = [k \in Keys |-> NoObject]
    /\ alloc = {}
    /\ owner = [o \in Objects |-> CHOOSE id \in SessionId : TRUE]
    /\ state = [o \in Objects |-> EmptyState]
    /\ events = [o \in Objects |-> <<>>]
    /\ appState = [a \in Apps |-> EmptyShared]
    /\ userState = [a \in Apps |-> [u \in Users |-> EmptyShared]]
    /\ pending = NoAppend

-----------------------------------------------------------------------------

\* Service.Get and the handle it returns, NoObject for "not found".
Lookup(id) == sessions[sessionKey(id)]

\* mergeStatesForSession, of the session's own app and user.
mergeStatesForSession(o) ==
    MergedView(appState[owner[o].app],
               userState[owner[o].app][owner[o].user], state[o])

\* GetMergedState, the app+user+session view of a stored session.
GetMergedState(id) == mergeStatesForSession(Lookup(id))

\* updateAppState and updateUserState with the scoped parts of a delta.
RouteShared(id, delta) ==
    /\ appState' = [appState EXCEPT
            ![id.app] = Overlay(@, ScopePart(delta, "app"))]
    /\ userState' = [userState EXCEPT
            ![id.app][id.user] = Overlay(@, ScopePart(delta, "user"))]

\* Service.Create, when no session is stored under the key.
Create(id, initial) ==
    /\ pending = NoAppend
    /\ Lookup(id) = NoObject
    /\ \E o \in Objects \ alloc :
        /\ alloc' = alloc \cup {o}
        /\ owner' = [owner EXCEPT ![o] = id]
        /\ state' = [state EXCEPT ![o] = TrimTemp(initial)]
        /\ sessions' = [sessions EXCEPT ![sessionKey(id)] = o]
    /\ RouteShared(id, initial)
    /\ UNCHANGED <<events, pending>>

\* Service.DeleteSession.
DeleteSession(id) ==
    /\ pending = NoAppend
    /\ sessions' = [sessions EXCEPT ![sessionKey(id)] = NoObject]
    /\ UNCHANGED <<alloc, owner, state, events, appState, userState, pending>>

\* stateImpl.Set through a handle: only the state's own mutex is taken.
SetState(o, key, value) ==
    /\ o \in alloc
    /\ state' = [state EXCEPT ![o][key] = value]
    /\ UNCHANGED <<sessions, alloc, owner, events, appState, userState, pending>>

\* stateImpl.Delete through a handle.
DeleteState(o, key) ==
    /\ o \in alloc
    /\ state' = [state EXCEPT ![o][key] = Absent]
    /\ UNCHANGED <<sessions, alloc, owner, events, appState, userState, pending>>

\* Service.AppendEvent from the lock to the end of applyStateDelta.  A partial
\* event, or one of a session whose key is unmapped, changes nothing.  The
\* existence check looks at the key, not at the object under it.
AppendBegin(o, ev) ==
    /\ pending = NoAppend
    /\ o \in alloc
    /\ Len(events[o]) < MaxEvents
    /\ ~ev.partial
    /\ Lookup(owner[o]) # NoObject
    /\ state' = [state EXCEPT ![o] = Overlay(@, ev.delta)]
    /\ RouteShared(owner[o], ev.delta)
    /\ pending' = [obj   |-> o,
                   ev    |-> ev,
                   phase |-> IF ev.delta = EmptyState THEN "trimmed"
                                                      ELSE "applied"]
    /\ UNCHANGED <<sessions, alloc, owner, events>>

\* Mutant: the state is cleaned, but the event keeps its full delta.
AppendTrimStateOnly ==
    /\ pending # NoAppend
    /\ pending.phase = "applied"
    /\ pending' = [pending EXCEPT !.phase = "trimmed"]
    /\ state' = [state EXCEPT ![pending.obj] = TrimTemp(@)]
    /\ UNCHANGED <<sessions, alloc, owner, events, appState, userState>>

\* AppendEvent: trim the event's delta, then the state, of temp keys.  Skipped
\* when the event carried no delta.
AppendTrim ==
    /\ pending # NoAppend
    /\ pending.phase = "applied"
    /\ pending' = [pending EXCEPT !.ev.delta = TrimTemp(@), !.phase = "trimmed"]
    /\ state' = [state EXCEPT ![pending.obj] = TrimTemp(@)]
    /\ UNCHANGED <<sessions, alloc, owner, events, appState, userState>>

\* AppendEvent: append the event under the session's mutex and unlock svc.mu.
AppendRecord ==
    /\ pending # NoAppend
    /\ pending.phase = "trimmed"
    /\ events' = [events EXCEPT ![pending.obj] = Append(@, pending.ev)]
    /\ pending' = NoAppend
    /\ UNCHANGED <<sessions, alloc, owner, state, appState, userState>>

Next ==
    \/ \E id \in SessionId, initial \in InitialStates : Create(id, initial)
    \/ \E id \in SessionId : DeleteSession(id)
    \/ \E o \in Objects, w \in Writes : SetState(o, w[1], w[2])
    \/ \E o \in Objects, w \in Writes : DeleteState(o, w[1])
    \/ \E o \in Objects, ev \in Inputs : AppendBegin(o, ev)
    \/ AppendTrim
    \/ AppendRecord

Spec == Init /\ [][Next]_svcVars

-----------------------------------------------------------------------------

\* What AppendEvent leaves in the history of an appended event.
Persisted(ev) == [ev EXCEPT !.delta = TrimTemp(@)]

\* No stored event is a streaming chunk, and none carries a temp key, whatever
\* appends, write-throughs and deletes interleave with the three critical
\* sections of AppendEvent.
PersistedEventsAreDurable ==
    \A o \in Objects : \A i \in DOMAIN events[o] :
        /\ ~events[o][i].partial
        /\ Persisted(events[o][i]) = events[o][i]

\* None of the three ids holds a "/".
Plain(id) == Len(id.app) = 1 /\ Len(id.user) = 1 /\ Len(id.sid) = 1

\* Whatever ids are in use, also with a "/", the session under three ids that
\* hold none is their own, and no other three ids reach it.
PlainIdsArePrivate ==
    \A i \in SessionId : Plain(i) /\ Lookup(i) # NoObject =>
        /\ Lookup(i) \in alloc /\ owner[Lookup(i)] = i
        /\ \A j \in SessionId : Lookup(j) = Lookup(i) => j = i

\* "Session-state keys are private to each session" (session.go:359): the
\* object under the key of an id is the session of that very app, user and
\* session id.  Ids that hold a "/" may join to the key of others, and then a
\* lookup hands out somebody else's session: this does not hold.
KeyIdentifiesSession ==
    \A id \in SessionId : Lookup(id) # NoObject =>
        Lookup(id) \in alloc /\ owner[Lookup(id)] = id

\* The deltas that a step routes to the shared maps, each with its session: that
\* of the append that begins, or what a session is created with.
Routed ==
    IF pending = NoAppend /\ pending' # NoAppend
    THEN {<<pending'.obj, pending'.ev.delta>>}
    ELSE {<<o, state'[o]>> : o \in alloc' \ alloc}

\* A shared key of one session is the same entry in another.
SameEntry(i, j, k) ==
    \/ k.scope = "app" /\ i.app = j.app
    \/ k.scope = "user" /\ i.app = j.app /\ i.user = j.user

\* The session key of the same name hides a shared one.
Hides(o, k) == state[o][[scope |-> "session", name |-> k.name]] = Tombstone

\* In the merged view of every session an app or user key has the value that any
\* session of the app or the user appended last, from the step on that routes it:
\* no copy that an append or a handle has left in the local state shows through,
\* and no other step changes what is seen.
SharedViewsFollow ==
    [][\A o \in alloc, k \in StateKey :
        k.scope \in {"app", "user"} /\ ~Hides(o, k) /\ ~Hides(o, k)' =>
            LET new == {d[2][k] : d \in {e \in Routed : SameEntry(owner'[e[1]], owner[o], k)}}
            IN IF new \subseteq {Absent}
               THEN mergeStatesForSession(o)'[k] = mergeStatesForSession(o)[k]
               ELSE \A x \in new : mergeStatesForSession(o)'[k] =
                        IF x = Tombstone THEN Absent ELSE x]_svcVars

=============================================================================
