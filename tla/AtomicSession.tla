---------------------------- MODULE AtomicSession ----------------------------
(***************************************************************************)
(* What session.Service promises of the durable part of a session: a       *)
(* history of finished events, a state without temp keys, and shared app   *)
(* and user maps, where creating a session, deleting it, writing one       *)
(* durable key and appending an event are each one indivisible step.  An   *)
(* append extends the history and updates all the layers together.         *)
(***************************************************************************)
EXTENDS SessionState, Sequences

CONSTANTS
    SessionIds, Key(_),        \* identities, and the key each is stored under
    Objects, NoObject,
    DurableEvents,             \* finished events without temp keys
    DurableStates,             \* state maps without temp keys
    DurableWrites              \* <<key, value>> pairs, no temp key

VARIABLES
    stored,     \* key -> object
    created, identity, durable, history,
    app, user   \* shared maps

atomicVars == <<stored, created, identity, durable, history, app, user>>

\* The value of one entry after a delta.
After(old, new) == IF new = Absent THEN old ELSE new

\* One app's and one user's map take the prefixed entries of the delta, and
\* every other map stays as it is.
Shared(id, delta) ==
    /\ app' = [a \in DOMAIN app |-> [n \in Names |->
            IF a = id.app
            THEN After(app[a][n], delta[[scope |-> "app", name |-> n]])
            ELSE app[a][n]]]
    /\ user' = [a \in DOMAIN user |-> [u \in DOMAIN user[a] |-> [n \in Names |->
            IF a = id.app /\ u = id.user
            THEN After(user[a][u][n], delta[[scope |-> "user", name |-> n]])
            ELSE user[a][u][n]]]]

AtomicInit ==
    /\ \A k \in DOMAIN stored : stored[k] = NoObject
    /\ created = {}
    /\ \A o \in Objects : durable[o] = EmptyState /\ history[o] = <<>>
    /\ \A a \in DOMAIN app : app[a] = EmptyShared
    /\ \A a \in DOMAIN user : \A u \in DOMAIN user[a] : user[a][u] = EmptyShared

CreateSession(id, initial) ==
    /\ stored[Key(id)] = NoObject
    /\ \E o \in Objects \ created :
        /\ created' = created \cup {o}
        /\ stored' = [stored EXCEPT ![Key(id)] = o]
        /\ identity' = [identity EXCEPT ![o] = id]
        /\ durable' = [durable EXCEPT ![o] = initial]
    /\ Shared(id, initial)
    /\ UNCHANGED history

ForgetSession(id) ==
    /\ stored' = [stored EXCEPT ![Key(id)] = NoObject]
    /\ UNCHANGED <<created, identity, durable, history, app, user>>

WriteKey(o, key, value) ==
    /\ o \in created
    /\ durable' = [durable EXCEPT ![o][key] = value]
    /\ UNCHANGED <<stored, created, identity, history, app, user>>

AppendDurable(o, ev) ==
    /\ o \in created
    /\ stored[Key(identity[o])] # NoObject
    /\ history' = [history EXCEPT ![o] = Append(@, ev)]
    /\ durable' = [durable EXCEPT
            ![o] = [k \in StateKey |-> After(durable[o][k], ev.delta[k])]]
    /\ Shared(identity[o], ev.delta)
    /\ UNCHANGED <<stored, created, identity>>

AtomicNext ==
    \/ \E id \in SessionIds :
        \/ \E initial \in DurableStates : CreateSession(id, initial)
        \/ ForgetSession(id)
    \/ \E o \in Objects :
        \/ \E w \in DurableWrites : WriteKey(o, w[1], w[2]) \/ WriteKey(o, w[1], Absent)
        \/ \E ev \in DurableEvents : AppendDurable(o, ev)

AtomicSpec == AtomicInit /\ [][AtomicNext]_atomicVars

=============================================================================
