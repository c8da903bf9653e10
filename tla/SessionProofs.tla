----------------------------- MODULE SessionProofs -----------------------------
(***************************************************************************)
(* Proofs about the session service, for any ids, keys, values, objects    *)
(* and inputs; about the runner, for any calls, agent tree, replies and    *)
(* writes; and about the memory, for any sessions, concurrent ingestions   *)
(* and events.  The last two are composed with the service, and their      *)
(* proofs rest on those of the first part.                                 *)
(***************************************************************************)
EXTENDS SessionRefinement, Runner, MemoryStore, WellFoundedInduction,
        FiniteSetTheorems, SequenceTheorems, TLAPS

(***************************************************************************)
(* Part 1: the session service.                                            *)
(***************************************************************************)

-----------------------------------------------------------------------------
(* Lemmas about the operators of SessionState.                             *)

LEMMA EmptyStateType == EmptyState \in StateMap
BY DEF EmptyState, StateMap

LEMMA OverlayStateType ==
    ASSUME NEW m \in StateMap, NEW d \in StateMap
    PROVE  Overlay(m, d) \in StateMap
BY DEF Overlay, StateMap

LEMMA OverlaySharedType ==
    ASSUME NEW m \in SharedMap, NEW d \in SharedMap
    PROVE  Overlay(m, d) \in SharedMap
BY DEF Overlay, SharedMap

LEMMA ScopePartType ==
    ASSUME NEW d \in StateMap, NEW s \in Scopes
    PROVE  ScopePart(d, s) \in SharedMap
BY DEF ScopePart, StateMap, SharedMap, StateKey

LEMMA TrimTempType ==
    ASSUME NEW m \in StateMap
    PROVE  TrimTemp(m) \in StateMap
BY DEF TrimTemp, StateMap

\* Trimming twice is trimming once: an event stays durable once trimmed.
LEMMA TrimTempIdempotent ==
    ASSUME NEW m
    PROVE  TrimTemp(TrimTemp(m)) = TrimTemp(m)
BY DEF TrimTemp

\* Trimming after a delta is a delta of the trimmed map with the trimmed delta.
LEMMA TrimTempOverlay ==
    ASSUME NEW m \in StateMap, NEW d \in StateMap
    PROVE  TrimTemp(Overlay(m, d)) = Overlay(TrimTemp(m), TrimTemp(d))
BY DEF TrimTemp, Overlay, StateMap

\* The shared parts of a delta do not depend on its temp keys.
LEMMA ScopePartTrim ==
    ASSUME NEW d \in StateMap, NEW s \in {"app", "user"}
    PROVE  ScopePart(TrimTemp(d), s) = ScopePart(d, s)
BY DEF ScopePart, TrimTemp, StateKey, Scopes

-----------------------------------------------------------------------------
(* Type correctness.                                                       *)

\* Routing a delta keeps the shared maps well-typed.
LEMMA RouteSharedType ==
    ASSUME TypeOK, NEW id \in SessionId, NEW d \in StateMap, RouteShared(id, d)
    PROVE  /\ appState' \in [Apps -> SharedMap]
           /\ userState' \in [Apps -> [Users -> SharedMap]]
<1> DEFINE appPart == ScopePart(d, "app")
           userPart == ScopePart(d, "user")
<1>1. appPart \in SharedMap /\ userPart \in SharedMap
  BY ScopePartType DEF Scopes
<1>2. id.app \in Apps /\ id.user \in Users
  BY DEF SessionId
<1>3. Overlay(appState[id.app], appPart) \in SharedMap
  BY <1>1, <1>2, OverlaySharedType DEF TypeOK
<1>4. Overlay(userState[id.app][id.user], userPart) \in SharedMap
  BY <1>1, <1>2, OverlaySharedType DEF TypeOK
<1>5. appState' \in [Apps -> SharedMap]
  BY <1>2, <1>3 DEF TypeOK, RouteShared
<1>6. userState' \in [Apps -> [Users -> SharedMap]]
  BY <1>2, <1>4 DEF TypeOK, RouteShared
<1>7. QED
  BY <1>5, <1>6

LEMMA EventFields ==
    ASSUME NEW ev \in Event
    PROVE  ev.partial \in BOOLEAN /\ ev.delta \in StateMap
BY DEF Event

LEMMA PendingFields ==
    ASSUME TypeOK, pending # NoAppend
    PROVE  /\ pending \in Pending
           /\ pending.obj \in Objects
           /\ pending.ev \in Event
           /\ pending.phase \in {"applied", "trimmed"}
BY DEF TypeOK, Pending

LEMMA InitTypeOK == Init => TypeOK
<1> SUFFICES ASSUME Init PROVE TypeOK
  OBVIOUS
<1>1. (CHOOSE id \in SessionId : TRUE) \in SessionId
  <2>1. \E id \in SessionId : TRUE
    <3>1. PICK a \in Apps, u \in Users, s \in Sids : TRUE
      BY IdsNonEmpty
    <3>2. [app |-> a, user |-> u, sid |-> s] \in SessionId
      BY <3>1 DEF SessionId
    <3>3. QED
      BY <3>2
  <2>2. QED
    BY <2>1
<1>2. EmptyShared \in SharedMap
  BY DEF EmptyShared, SharedMap
<1>3. QED
  BY <1>1, <1>2, EmptyStateType DEF Init, TypeOK

\* Each operation keeps the types, for any well-typed arguments.
LEMMA CreateTypeOK ==
    ASSUME TypeOK, NEW id \in SessionId, NEW initial \in StateMap, Create(id, initial)
    PROVE  TypeOK'
<1>1. /\ appState' \in [Apps -> SharedMap]
      /\ userState' \in [Apps -> [Users -> SharedMap]]
  BY RouteSharedType DEF Create
<1>2. TrimTemp(initial) \in StateMap
  BY TrimTempType
<1>3. QED
  BY <1>1, <1>2 DEF Create, TypeOK, Keys

LEMMA SetStateTypeOK ==
    ASSUME TypeOK, NEW o \in Objects, NEW w \in Writes, SetState(o, w[1], w[2])
    PROVE  TypeOK'
<1>1. w[1] \in StateKey /\ w[2] \in Stored
  BY InputsAreEvents DEF Stored
<1>2. state' \in [Objects -> StateMap]
  BY <1>1 DEF SetState, TypeOK, StateMap
<1>3. QED
  BY <1>2 DEF SetState, TypeOK

LEMMA DeleteStateTypeOK ==
    ASSUME TypeOK, NEW o \in Objects, NEW w \in Writes, DeleteState(o, w[1])
    PROVE  TypeOK'
<1>1. w[1] \in StateKey
  BY InputsAreEvents
<1>2. state' \in [Objects -> StateMap]
  BY <1>1 DEF DeleteState, TypeOK, StateMap
<1>3. QED
  BY <1>2 DEF DeleteState, TypeOK

LEMMA AppendBeginTypeOK ==
    ASSUME TypeOK, NEW o \in Objects, NEW ev \in Event, AppendBegin(o, ev)
    PROVE  TypeOK'
<1>1. ev.delta \in StateMap
  BY EventFields
<1>2. owner[o] \in SessionId /\ state[o] \in StateMap
  BY DEF TypeOK
<1>3. /\ appState' \in [Apps -> SharedMap]
      /\ userState' \in [Apps -> [Users -> SharedMap]]
  BY <1>1, <1>2, RouteSharedType DEF AppendBegin
<1>4. Overlay(state[o], ev.delta) \in StateMap
  BY <1>1, <1>2, OverlayStateType
<1>5. pending' \in Pending
  BY DEF AppendBegin, Pending
<1>6. QED
  BY <1>3, <1>4, <1>5 DEF AppendBegin, TypeOK

LEMMA AppendTrimTypeOK ==
    ASSUME TypeOK, AppendTrim
    PROVE  TypeOK'
<1>1. /\ pending \in Pending /\ pending.obj \in Objects /\ pending.ev \in Event
      /\ pending.ev.delta \in StateMap
  BY PendingFields, EventFields DEF AppendTrim
<1>2. TrimTemp(pending.ev.delta) \in StateMap
  BY <1>1, TrimTempType
<1>3. TrimTemp(state[pending.obj]) \in StateMap
  BY <1>1, TrimTempType DEF TypeOK
<1>4. pending' \in Pending
  BY <1>1, <1>2 DEF AppendTrim, Pending, Event
<1>5. QED
  BY <1>1, <1>3, <1>4 DEF AppendTrim, TypeOK

LEMMA AppendRecordTypeOK ==
    ASSUME TypeOK, AppendRecord
    PROVE  TypeOK'
<1>1. pending.obj \in Objects /\ pending.ev \in Event
  BY PendingFields DEF AppendRecord
<1>2. events' \in [Objects -> Seq(Event)]
  BY <1>1 DEF AppendRecord, TypeOK
<1>3. QED
  BY <1>2 DEF AppendRecord, TypeOK

LEMMA NextTypeOK == TypeOK /\ [Next]_svcVars => TypeOK'
<1> SUFFICES ASSUME TypeOK, [Next]_svcVars PROVE TypeOK'
  OBVIOUS
<1>1. ASSUME NEW id \in SessionId, NEW initial \in InitialStates, Create(id, initial)
      PROVE  TypeOK'
  BY <1>1, CreateTypeOK, InputsAreEvents
<1>2. ASSUME NEW id \in SessionId, DeleteSession(id)
      PROVE  TypeOK'
  BY <1>2 DEF DeleteSession, TypeOK
<1>3. ASSUME NEW o \in Objects, NEW w \in Writes, SetState(o, w[1], w[2])
      PROVE  TypeOK'
  BY <1>3, SetStateTypeOK
<1>4. ASSUME NEW o \in Objects, NEW w \in Writes, DeleteState(o, w[1])
      PROVE  TypeOK'
  BY <1>4, DeleteStateTypeOK
<1>5. ASSUME NEW o \in Objects, NEW ev \in Inputs, AppendBegin(o, ev)
      PROVE  TypeOK'
  BY <1>5, AppendBeginTypeOK, InputsAreEvents
<1>6. ASSUME AppendTrim
      PROVE  TypeOK'
  BY <1>6, AppendTrimTypeOK
<1>7. ASSUME AppendRecord
      PROVE  TypeOK'
  BY <1>7, AppendRecordTypeOK
<1>8. CASE UNCHANGED svcVars
  BY <1>8 DEF svcVars, TypeOK
<1>9. QED
  BY <1>1, <1>2, <1>3, <1>4, <1>5, <1>6, <1>7, <1>8 DEF Next

\* The service's maps, histories and lock always hold values of their types.
THEOREM TypeCorrect == Spec => []TypeOK
<1>1. Init => TypeOK
  BY InitTypeOK
<1>2. TypeOK /\ [Next]_svcVars => TypeOK'
  BY NextTypeOK
<1>3. QED
  BY <1>1, <1>2, PTL DEF Spec

-----------------------------------------------------------------------------
(* Durability of the history.  PersistedEventsAreDurable is not inductive: *)
(* an AppendRecord copies whatever pending holds, so the invariant has to  *)
(* say that an append past its trim holds a durable event.                 *)

PendingEventDurable ==
    pending # NoAppend =>
        /\ ~pending.ev.partial
        /\ pending.phase = "trimmed" => Persisted(pending.ev) = pending.ev

DurableInv == PersistedEventsAreDurable /\ PendingEventDurable

LEMMA NextDurableInv ==
    TypeOK /\ DurableInv /\ [Next]_svcVars => DurableInv'
<1> SUFFICES ASSUME TypeOK, DurableInv, [Next]_svcVars PROVE DurableInv'
  OBVIOUS
<1> USE DEF DurableInv
<1>1. ASSUME NEW o \in Objects, NEW ev \in Inputs, AppendBegin(o, ev)
      PROVE  DurableInv'
  <2>1. PersistedEventsAreDurable'
    BY <1>1 DEF AppendBegin, PersistedEventsAreDurable, Persisted
  <2>2. ev \in Event
    BY InputsAreEvents
  <2>3. ev.delta = EmptyState => Persisted(ev) = ev
    <3>1. TrimTemp(EmptyState) = EmptyState
      BY DEF TrimTemp, EmptyState
    <3>2. QED
      BY <2>2, <3>1 DEF Persisted, Event
  <2>4. PendingEventDurable'
    BY <1>1, <2>2, <2>3 DEF AppendBegin, PendingEventDurable, Persisted
  <2>5. QED
    BY <2>1, <2>4
<1>2. ASSUME AppendTrim
      PROVE  DurableInv'
  <2>1. PersistedEventsAreDurable'
    BY <1>2 DEF AppendTrim, PersistedEventsAreDurable, Persisted
  <2>2. pending \in Pending /\ pending.ev \in Event
    BY <1>2, PendingFields DEF AppendTrim
  <2>3. pending'.ev = Persisted(pending.ev) /\ pending'.ev.partial = pending.ev.partial
    BY <1>2, <2>2 DEF AppendTrim, Persisted, Pending, Event
  <2>4. Persisted(pending'.ev) = pending'.ev
    BY <2>2, <2>3, TrimTempIdempotent DEF Persisted, Event
  <2>5. PendingEventDurable'
    BY <1>2, <2>3, <2>4 DEF PendingEventDurable, AppendTrim, Persisted
  <2>6. QED
    BY <2>1, <2>5
<1>3. ASSUME AppendRecord
      PROVE  DurableInv'
  <2>1. pending.obj \in Objects /\ pending.ev \in Event
    BY <1>3, PendingFields DEF AppendRecord
  <2>2. ~pending.ev.partial /\ Persisted(pending.ev) = pending.ev
    BY <1>3 DEF AppendRecord, PendingEventDurable
  <2>3. SUFFICES ASSUME NEW o \in Objects, NEW i \in DOMAIN events'[o]
        PROVE  ~events'[o][i].partial /\ Persisted(events'[o][i]) = events'[o][i]
    BY <1>3 DEF AppendRecord, PersistedEventsAreDurable, PendingEventDurable, Persisted
  <2>4. events[o] \in Seq(Event)
    BY DEF TypeOK
  <2>5. CASE o = pending.obj /\ i = Len(events[o]) + 1
    BY <1>3, <2>1, <2>2, <2>4, <2>5 DEF AppendRecord, TypeOK
  <2>6. CASE ~(o = pending.obj /\ i = Len(events[o]) + 1)
    <3>1. i \in DOMAIN events[o] /\ events'[o][i] = events[o][i]
      BY <1>3, <2>1, <2>3, <2>4, <2>6 DEF AppendRecord, TypeOK
    <3>2. QED
      BY <3>1 DEF PersistedEventsAreDurable
  <2>7. QED
    BY <2>5, <2>6
<1>4. CASE UNCHANGED <<events, pending>>
  BY <1>4 DEF PersistedEventsAreDurable, PendingEventDurable, Persisted
<1>5. QED
  BY <1>1, <1>2, <1>3, <1>4
     DEF Next, svcVars, Create, DeleteSession, SetState, DeleteState

\* Whatever interleaves with an append, no stored event is a streaming chunk
\* and none carries a temp key.
THEOREM HistoryIsDurable == Spec => []PersistedEventsAreDurable
<1>1. Init => DurableInv
  BY DEF Init, DurableInv, PersistedEventsAreDurable, PendingEventDurable
<1>2. TypeOK /\ DurableInv /\ [Next]_svcVars => DurableInv'
  BY NextDurableInv
<1>3. DurableInv => PersistedEventsAreDurable
  BY DEF DurableInv
<1>4. QED
  BY <1>1, <1>2, <1>3, TypeCorrect, PTL DEF Spec

-----------------------------------------------------------------------------
(* Identity of the stored sessions.  A session stored under a key is one   *)
(* of those whose ids join to it; ids without a "/" are alone in that.     *)

LEMMA KeyType ==
    ASSUME NEW id \in SessionId
    PROVE  sessionKey(id) \in Keys
BY DEF Keys

LEMMA IdsAreSequences ==
    ASSUME NEW id \in SessionId
    PROVE  /\ id.app \in Seq(Segments) /\ Len(id.app) \in Nat \ {0}
           /\ id.user \in Seq(Segments) /\ Len(id.user) \in Nat \ {0}
           /\ id.sid \in Seq(Segments) /\ Len(id.sid) \in Nat \ {0}
<1>1. ASSUME NEW s \in Apps \cup Users \cup Sids
      PROVE  s \in Seq(Segments) /\ Len(s) \in Nat \ {0}
  BY IdsNonEmpty, EmptySeq, LenProperties
<1>2. id.app \in Apps /\ id.user \in Users /\ id.sid \in Sids
  BY DEF SessionId
<1>3. QED
  BY <1>1, <1>2

\* Len by another name, which keeps the provers from looking into it.
Long(s) == Len(s)

Joined(a, b, c) == (a \o b) \o c

Both(a, b) == a \o b

LEMMA JoinTwo ==
    ASSUME NEW S, NEW a \in Seq(S), NEW b \in Seq(S)
    PROVE  /\ Both(a, b) \in Seq(S) /\ Long(Both(a, b)) = Long(a) + Long(b)
           /\ \A n \in 1 .. Long(a) : Both(a, b)[n] = a[n]
           /\ \A n \in 1 .. Long(b) : Both(a, b)[Long(a) + n] = b[n]
           /\ Long(a) \in Nat
<1>1. a \o b \in Seq(S) /\ Len(a \o b) = Len(a) + Len(b)
  BY ConcatProperties
<1>2. \A n \in 1 .. Len(a) + Len(b) : (a \o b)[n] = IF n <= Len(a) THEN a[n] ELSE b[n - Len(a)]
  BY ConcatProperties
<1>3. Len(a) \in Nat /\ Len(b) \in Nat
  BY LenProperties
<1>4. QED
  BY <1>1, <1>2, <1>3 DEF Long, Both

\* Three joined sequences: their length, and the entries when each has one.
LEMMA JoinThree ==
    ASSUME NEW S, NEW a \in Seq(S), NEW b \in Seq(S), NEW c \in Seq(S)
    PROVE  /\ Long(Joined(a, b, c)) = Long(a) + Long(b) + Long(c)
           /\ Long(a) = 1 /\ Long(b) = 1 /\ Long(c) = 1 =>
                /\ Joined(a, b, c)[1] = a[1]
                /\ Joined(a, b, c)[2] = b[1]
                /\ Joined(a, b, c)[3] = c[1]
<1> DEFINE d == Both(a, b)
<1>1. /\ d \in Seq(S) /\ Long(d) = Long(a) + Long(b)
      /\ \A n \in 1 .. Long(a) : d[n] = a[n]
      /\ \A n \in 1 .. Long(b) : d[Long(a) + n] = b[n]
  BY JoinTwo
<1> DEFINE e == Both(d, c)
<1> HIDE DEF d
<1>2. /\ Long(e) = Long(d) + Long(c)
      /\ \A n \in 1 .. Long(d) : e[n] = d[n]
      /\ \A n \in 1 .. Long(c) : e[Long(d) + n] = c[n]
  BY <1>1, JoinTwo
<1>3. Long(a) \in Nat /\ Long(b) \in Nat /\ Long(c) \in Nat
  BY JoinTwo
<1> HIDE DEF e
<1>4. ASSUME Long(a) = 1, Long(b) = 1, Long(c) = 1
      PROVE  e[1] = a[1] /\ e[2] = b[1] /\ e[3] = c[1]
  BY <1>1, <1>2, <1>4
<1>5. Long(e) = Long(a) + Long(b) + Long(c)
  BY <1>1, <1>2, <1>3
<1>6. Joined(a, b, c) = e
  BY DEF d, e, Joined, Both
<1>7. QED
  BY <1>4, <1>5, <1>6

\* Joined sequences are as long as the three together, so no others join to what
\* three sequences of one entry do.
LEMMA PlainJoin ==
    ASSUME NEW S, NEW a \in Seq(S), NEW b \in Seq(S), NEW c \in Seq(S),
           NEW x \in Seq(S), NEW y \in Seq(S), NEW z \in Seq(S),
           Long(a) = 1, Long(b) = 1, Long(c) = 1,
           Long(x) # 0, Long(y) # 0, Long(z) # 0,
           Joined(a, b, c) = Joined(x, y, z)
    PROVE  a = x /\ b = y /\ c = z
<1>1. Long(x) \in Nat /\ Long(y) \in Nat /\ Long(z) \in Nat
  BY JoinTwo
<1>2. Long(Joined(a, b, c)) = Long(a) + Long(b) + Long(c)
  BY JoinThree
<1>3. Long(Joined(x, y, z)) = Long(x) + Long(y) + Long(z)
  BY JoinThree
<1>4. Long(x) = 1 /\ Long(y) = 1 /\ Long(z) = 1
  BY <1>1, <1>2, <1>3
<1>5. Joined(a, b, c)[1] = a[1] /\ Joined(a, b, c)[2] = b[1] /\ Joined(a, b, c)[3] = c[1]
  BY JoinThree
<1>6. Joined(x, y, z)[1] = x[1] /\ Joined(x, y, z)[2] = y[1] /\ Joined(x, y, z)[3] = z[1]
  BY <1>4, JoinThree
<1>7. a[1] = x[1] /\ b[1] = y[1] /\ c[1] = z[1]
  BY <1>5, <1>6
<1>8. ASSUME NEW s \in Seq(S), NEW t \in Seq(S), Long(s) = 1, Long(t) = 1, s[1] = t[1]
      PROVE  s = t
  BY <1>8, SeqEqual DEF Long
<1>9. QED
  BY <1>4, <1>7, <1>8

LEMMA PlainKey ==
    ASSUME NEW i \in SessionId, NEW j \in SessionId, Plain(i),
           sessionKey(i) = sessionKey(j)
    PROVE  i = j
<1>1. /\ i.app \in Seq(Segments) /\ i.user \in Seq(Segments) /\ i.sid \in Seq(Segments)
      /\ j.app \in Seq(Segments) /\ j.user \in Seq(Segments) /\ j.sid \in Seq(Segments)
      /\ Long(j.app) # 0 /\ Long(j.user) # 0 /\ Long(j.sid) # 0
  BY IdsAreSequences DEF Long
<1>2. Long(i.app) = 1 /\ Long(i.user) = 1 /\ Long(i.sid) = 1
  BY DEF Plain, Long
<1>3. Joined(i.app, i.user, i.sid) = Joined(j.app, j.user, j.sid)
  BY DEF sessionKey, Joined
<1>4. i.app = j.app /\ i.user = j.user /\ i.sid = j.sid
  <2> DEFINE a == i.app
             b == i.user
             c == i.sid
             x == j.app
             y == j.user
             z == j.sid
  <2>1. /\ a \in Seq(Segments) /\ b \in Seq(Segments) /\ c \in Seq(Segments)
        /\ x \in Seq(Segments) /\ y \in Seq(Segments) /\ z \in Seq(Segments)
        /\ Long(a) = 1 /\ Long(b) = 1 /\ Long(c) = 1
        /\ Long(x) # 0 /\ Long(y) # 0 /\ Long(z) # 0
        /\ Joined(a, b, c) = Joined(x, y, z)
    BY <1>1, <1>2, <1>3
  <2> HIDE DEF a, b, c, x, y, z
  <2>2. a = x /\ b = y /\ c = z
    BY <2>1, PlainJoin
  <2>3. QED
    BY <2>2 DEF a, b, c, x, y, z
<1>5. QED
  BY <1>4 DEF SessionId

\* The ids of a stored session join to the key it is stored under.
KeyOfOwner ==
    \A id \in SessionId : Lookup(id) # NoObject =>
        /\ Lookup(id) \in alloc
        /\ sessionKey(owner[Lookup(id)]) = sessionKey(id)

LEMMA NextKeyOfOwner == TypeOK /\ KeyOfOwner /\ [Next]_svcVars => KeyOfOwner'
<1> SUFFICES ASSUME TypeOK, KeyOfOwner, [Next]_svcVars
             PROVE  KeyOfOwner'
  OBVIOUS
<1>1. ASSUME NEW id \in SessionId, NEW initial \in InitialStates, Create(id, initial)
      PROVE  KeyOfOwner'
  <2>1. PICK o \in Objects \ alloc :
            /\ alloc' = alloc \cup {o}
            /\ owner' = [owner EXCEPT ![o] = id]
            /\ sessions' = [sessions EXCEPT ![sessionKey(id)] = o]
    BY <1>1 DEF Create
  <2>2. SUFFICES ASSUME NEW j \in SessionId, Lookup(j)' # NoObject
        PROVE  Lookup(j)' \in alloc' /\ sessionKey(owner'[Lookup(j)']) = sessionKey(j)
    BY DEF KeyOfOwner
  <2>3. CASE sessionKey(j) = sessionKey(id)
    <3>1. Lookup(j)' = o
      BY <2>1, <2>3, KeyType DEF Lookup, TypeOK
    <3>2. QED
      BY <2>1, <2>3, <3>1 DEF TypeOK
  <2>4. CASE sessionKey(j) # sessionKey(id)
    <3>1. Lookup(j)' = Lookup(j)
      BY <2>1, <2>4, KeyType DEF Lookup, TypeOK
    <3>2. Lookup(j) \in alloc /\ sessionKey(owner[Lookup(j)]) = sessionKey(j)
      BY <2>2, <3>1 DEF KeyOfOwner
    <3>3. owner'[Lookup(j)] = owner[Lookup(j)]
      BY <2>1, <3>2 DEF TypeOK
    <3>4. QED
      BY <2>1, <3>1, <3>2, <3>3
  <2>5. QED
    BY <2>3, <2>4
<1>2. ASSUME NEW id \in SessionId, DeleteSession(id)
      PROVE  KeyOfOwner'
  <2>1. SUFFICES ASSUME NEW j \in SessionId, Lookup(j)' # NoObject
        PROVE  Lookup(j)' \in alloc' /\ sessionKey(owner'[Lookup(j)']) = sessionKey(j)
    BY DEF KeyOfOwner
  <2>2. Lookup(j)' = Lookup(j)
    BY <1>2, <2>1, KeyType DEF DeleteSession, Lookup, TypeOK
  <2>3. QED
    BY <1>2, <2>1, <2>2 DEF DeleteSession, KeyOfOwner
<1>3. CASE UNCHANGED <<sessions, alloc, owner>>
  BY <1>3 DEF KeyOfOwner, Lookup
<1>4. QED
  BY <1>1, <1>2, <1>3
     DEF Next, svcVars, SetState, DeleteState, AppendBegin, AppendTrim, AppendRecord

\* Whatever ids are in use, a session under ids without a "/" is their own and
\* is reached by them alone.
THEOREM PlainIdsAlwaysPrivate == Spec => []PlainIdsArePrivate
<1>1. Init => KeyOfOwner
  BY KeyType DEF Init, KeyOfOwner, Lookup
<1>2. TypeOK /\ KeyOfOwner /\ [Next]_svcVars => KeyOfOwner'
  BY NextKeyOfOwner
<1>3. TypeOK /\ KeyOfOwner => PlainIdsArePrivate
  <2>1. SUFFICES ASSUME TypeOK, KeyOfOwner,
                        NEW i \in SessionId, Plain(i), Lookup(i) # NoObject
                 PROVE  /\ Lookup(i) \in alloc /\ owner[Lookup(i)] = i
                        /\ \A j \in SessionId : Lookup(j) = Lookup(i) => j = i
    BY DEF PlainIdsArePrivate
  <2>2. Lookup(i) \in alloc /\ sessionKey(owner[Lookup(i)]) = sessionKey(i)
    BY <2>1 DEF KeyOfOwner
  <2>3. owner[Lookup(i)] \in SessionId
    BY <2>1, <2>2 DEF TypeOK
  <2>4. owner[Lookup(i)] = i
    BY <2>1, <2>2, <2>3, PlainKey
  <2>5. ASSUME NEW j \in SessionId, Lookup(j) = Lookup(i) PROVE j = i
    <3>1. sessionKey(i) = sessionKey(j)
      BY <2>1, <2>2, <2>5 DEF KeyOfOwner
    <3>2. QED
      BY <2>1, <3>1, PlainKey
  <2>6. QED
    BY <2>2, <2>4, <2>5
<1>4. QED
  BY <1>1, <1>2, <1>3, TypeCorrect, PTL DEF Spec

\* What a view shows of a shared entry, before and after a delta is routed.
LEMMA RoutedIsSeen ==
    ASSUME TypeOK, NEW id \in SessionId, NEW d \in StateMap, RouteShared(id, d),
           NEW o \in Objects, owner'[o] = owner[o],
           NEW k \in StateKey, k.scope \in {"app", "user"},
           ~Hides(o, k), ~Hides(o, k)'
    PROVE  LET x == IF SameEntry(id, owner[o], k) THEN d[k] ELSE Absent
           IN mergeStatesForSession(o)'[k] =
                IF x = Absent THEN mergeStatesForSession(o)[k]
                ELSE IF x = Tombstone THEN Absent ELSE x
<1> DEFINE a == owner[o].app
           u == owner[o].user
<1>1. /\ id.app \in Apps /\ id.user \in Users /\ a \in Apps /\ u \in Users
      /\ k.name \in Names
  BY DEF TypeOK, SessionId, StateKey
<1>2. /\ ScopePart(d, "app")[k.name] = d[[scope |-> "app", name |-> k.name]]
      /\ ScopePart(d, "user")[k.name] = d[[scope |-> "user", name |-> k.name]]
  BY <1>1 DEF ScopePart
<1>3. appState'[a][k.name] =
        IF a = id.app /\ ScopePart(d, "app")[k.name] # Absent
        THEN ScopePart(d, "app")[k.name] ELSE appState[a][k.name]
  <2>1. DOMAIN appState[a] = Names
    BY <1>1 DEF TypeOK, SharedMap
  <2>2. CASE a = id.app
    BY <1>1, <2>1, <2>2 DEF RouteShared, TypeOK, Overlay
  <2>3. CASE a # id.app
    BY <1>1, <2>3 DEF RouteShared, TypeOK
  <2>4. QED
    BY <2>2, <2>3
<1>4. userState'[a][u][k.name] =
        IF a = id.app /\ u = id.user /\ ScopePart(d, "user")[k.name] # Absent
        THEN ScopePart(d, "user")[k.name] ELSE userState[a][u][k.name]
  <2>1. DOMAIN userState[a][u] = Names
    BY <1>1 DEF TypeOK, SharedMap
  <2>2. CASE a = id.app /\ u = id.user
    <3>1. userState'[a][u] = Overlay(userState[a][u], ScopePart(d, "user"))
      BY <1>1, <2>2 DEF RouteShared, TypeOK
    <3>2. QED
      BY <1>1, <2>1, <2>2, <3>1 DEF Overlay
  <2>3. CASE ~(a = id.app /\ u = id.user)
    <3>1. userState'[a][u] = userState[a][u]
      BY <1>1, <2>3 DEF RouteShared, TypeOK
    <3>2. QED
      BY <2>3, <3>1
  <2>4. QED
    BY <2>2, <2>3
<1>5. CASE k.scope = "app"
  <2>1. d[k] = ScopePart(d, "app")[k.name] /\ k.scope # "user"
    BY <1>2, <1>5 DEF StateKey
  <2>2. /\ mergeStatesForSession(o)[k] =
             IF appState[a][k.name] = Tombstone THEN Absent ELSE appState[a][k.name]
        /\ mergeStatesForSession(o)'[k] =
             IF appState'[a][k.name] = Tombstone THEN Absent ELSE appState'[a][k.name]
    BY <1>5 DEF mergeStatesForSession, MergedView, Hides
  <2>3. QED
    BY <1>3, <1>5, <2>1, <2>2 DEF SameEntry
<1>6. CASE k.scope = "user"
  <2>1. d[k] = ScopePart(d, "user")[k.name] /\ k.scope # "app"
    BY <1>2, <1>6 DEF StateKey
  <2>2. /\ mergeStatesForSession(o)[k] =
             IF userState[a][u][k.name] = Tombstone THEN Absent ELSE userState[a][u][k.name]
        /\ mergeStatesForSession(o)'[k] =
             IF userState'[a][u][k.name] = Tombstone THEN Absent ELSE userState'[a][u][k.name]
    BY <1>6 DEF mergeStatesForSession, MergedView, Hides
  <2>3. QED
    BY <1>4, <1>6, <2>1, <2>2 DEF SameEntry
<1>7. QED
  BY <1>5, <1>6

\* What a session shows of a shared key, it shows of the last delta routed to its
\* app or user, whatever copies its local state holds.
THEOREM SharedViewsAlwaysFollow == Spec => SharedViewsFollow
<1> DEFINE News(o, k) == {d[2][k] : d \in {e \in Routed : SameEntry(owner'[e[1]], owner[o], k)}}
           Follows(o, k) ==
               IF News(o, k) \subseteq {Absent}
               THEN mergeStatesForSession(o)'[k] = mergeStatesForSession(o)[k]
               ELSE \A x \in News(o, k) : mergeStatesForSession(o)'[k] =
                        IF x = Tombstone THEN Absent ELSE x
<1>1. ASSUME TypeOK, [Next]_svcVars, NEW o \in alloc, NEW k \in StateKey,
             k.scope \in {"app", "user"}, ~Hides(o, k), ~Hides(o, k)'
      PROVE  Follows(o, k)
  <2>1. o \in Objects
    BY <1>1 DEF TypeOK
  <2>2. ASSUME NEW p \in Objects, NEW d \in StateMap, NEW e,
               RouteShared(owner'[p], d), owner'[o] = owner[o], owner'[p] \in SessionId,
               Routed = {<<p, e>>}, e[k] = d[k]
        PROVE  Follows(o, k)
    <3>1. News(o, k) = IF SameEntry(owner'[p], owner[o], k) THEN {d[k]} ELSE {}
      <4>1. <<p, e>>[1] = p /\ <<p, e>>[2] = e
        OBVIOUS
      <4>2. \A f : f \in Routed <=> f = <<p, e>>
        BY <2>2
      <4>3. CASE SameEntry(owner'[p], owner[o], k)
        <5>1. {f \in Routed : SameEntry(owner'[f[1]], owner[o], k)} = {<<p, e>>}
          BY <4>1, <4>2, <4>3
        <5>2. QED
          BY <2>2, <4>1, <4>3, <5>1
      <4>4. CASE ~SameEntry(owner'[p], owner[o], k)
        <5>1. {f \in Routed : SameEntry(owner'[f[1]], owner[o], k)} = {}
          BY <4>1, <4>2, <4>4
        <5>2. QED
          BY <4>4, <5>1
      <4>5. QED
        BY <4>3, <4>4
    <3>2. LET x == IF SameEntry(owner'[p], owner[o], k) THEN d[k] ELSE Absent
          IN mergeStatesForSession(o)'[k] =
                IF x = Absent THEN mergeStatesForSession(o)[k]
                ELSE IF x = Tombstone THEN Absent ELSE x
      BY <1>1, <2>1, <2>2, RoutedIsSeen
    <3> HIDE DEF News
    <3>3. QED
      BY <3>1, <3>2
  <2>3. ASSUME NEW id \in SessionId, NEW initial \in InitialStates, Create(id, initial)
        PROVE  Follows(o, k)
    <3>1. PICK p \in Objects \ alloc :
              /\ alloc' = alloc \cup {p}
              /\ owner' = [owner EXCEPT ![p] = id]
              /\ state' = [state EXCEPT ![p] = TrimTemp(initial)]
      BY <2>3 DEF Create
    <3>2. owner'[p] = id /\ owner'[o] = owner[o] /\ state'[p] = TrimTemp(initial)
      BY <1>1, <3>1 DEF TypeOK
    <3>3. pending' = pending /\ alloc' \ alloc = {p}
      BY <2>3, <3>1 DEF Create
    <3>4. Routed = {<<p, TrimTemp(initial)>>}
      BY <3>2, <3>3 DEF Routed
    <3>5. TrimTemp(initial)[k] = initial[k] /\ initial \in StateMap
      BY <1>1, InputsAreEvents DEF TrimTemp
    <3>6. RouteShared(owner'[p], initial)
      BY <2>3, <3>2 DEF Create
    <3>7. QED
      BY <2>2, <3>1, <3>2, <3>4, <3>5, <3>6
  <2>4. ASSUME NEW p \in Objects, NEW ev \in Inputs, AppendBegin(p, ev)
        PROVE  Follows(o, k)
    <3>1. /\ pending = NoAppend /\ pending' = [obj |-> p, ev |-> ev, phase |->
                 IF ev.delta = EmptyState THEN "trimmed" ELSE "applied"]
          /\ RouteShared(owner[p], ev.delta) /\ owner' = owner
      BY <2>4 DEF AppendBegin
    <3>2. ev \in Event /\ ev.delta \in StateMap
      BY InputsAreEvents DEF Event
    <3>3. pending' # NoAppend
      BY <3>1, <3>2, NilsDistinct
    <3>4. Routed = {<<p, ev.delta>>}
      BY <3>1, <3>3 DEF Routed
    <3>5. owner'[p] \in SessionId
      BY <1>1, <3>1 DEF TypeOK
    <3>6. QED
      BY <2>2, <3>1, <3>2, <3>4, <3>5
  <2>5. ASSUME UNCHANGED <<alloc, owner, appState, userState>>,
               pending = NoAppend => pending' = NoAppend
        PROVE  Follows(o, k)
    <3>1. Routed = {}
      BY <2>5 DEF Routed
    <3>2. News(o, k) = {}
      BY <3>1
    <3>3. mergeStatesForSession(o)'[k] = mergeStatesForSession(o)[k]
      <4>1. CASE k.scope = "app"
        BY <1>1, <2>5, <4>1 DEF mergeStatesForSession, MergedView, Hides
      <4>2. CASE k.scope = "user"
        BY <1>1, <2>5, <4>2 DEF mergeStatesForSession, MergedView, Hides
      <4>3. QED
        BY <1>1, <4>1, <4>2
    <3> HIDE DEF News
    <3>4. QED
      BY <3>2, <3>3
  <2>6. QED
    BY <1>1, <2>3, <2>4, <2>5
       DEF Next, svcVars, DeleteSession, SetState, DeleteState, AppendTrim, AppendRecord
<1>2. TypeOK /\ [Next]_svcVars =>
        [\A o \in alloc, k \in StateKey :
            k.scope \in {"app", "user"} /\ ~Hides(o, k) /\ ~Hides(o, k)' => Follows(o, k)]_svcVars
  BY <1>1
<1>3. QED
  BY <1>2, TypeCorrect, PTL DEF Spec, SharedViewsFollow

-----------------------------------------------------------------------------
(* The refinement.  AppendBegin is the step at which an append takes       *)
(* effect; AppendTrim and AppendRecord change nothing the abstract store   *)
(* sees, because the mapping trims the state and completes the history.    *)

LEMMA InitRefines == Init => Atomic!AtomicInit
BY DEF Init, Atomic!AtomicInit, TrimTemp, EmptyState, Atomic!EmptyState,
       Atomic!EmptyShared, EmptyShared, HistoryOf, Atomic!StateKey, StateKey,
       Atomic!Scopes, Scopes

\* RouteShared is the abstract update of the shared maps, with or without the
\* temp keys of the delta.
LEMMA SharedRefines ==
    ASSUME TypeOK, NEW id \in SessionId, NEW d \in StateMap, RouteShared(id, d)
    PROVE  Atomic!Shared(id, TrimTemp(d))
<1>1. id.app \in Apps /\ id.user \in Users
  BY DEF SessionId
<1>2. /\ ScopePart(TrimTemp(d), "app") = ScopePart(d, "app")
      /\ ScopePart(TrimTemp(d), "user") = ScopePart(d, "user")
  BY ScopePartTrim
<1>3. \A m \in Names : /\ TrimTemp(d)[[scope |-> "app", name |-> m]] = ScopePart(d, "app")[m]
                       /\ TrimTemp(d)[[scope |-> "user", name |-> m]] = ScopePart(d, "user")[m]
  BY <1>2 DEF ScopePart
<1>4. appState' = [a \in DOMAIN appState |-> [m \in Names |->
            IF a = id.app
            THEN Atomic!After(appState[a][m], TrimTemp(d)[[scope |-> "app", name |-> m]])
            ELSE appState[a][m]]]
  <2>1. \A a \in Apps : DOMAIN appState[a] = Names /\ appState[a] = [m \in Names |-> appState[a][m]]
    BY DEF TypeOK, SharedMap
  <2>2. Overlay(appState[id.app], ScopePart(d, "app")) =
            [m \in Names |-> Atomic!After(appState[id.app][m], ScopePart(d, "app")[m])]
    BY <1>1, <2>1 DEF Overlay, Atomic!After
  <2>3. QED
    BY <1>1, <1>3, <2>1, <2>2 DEF RouteShared, TypeOK
<1>5. userState' = [a \in DOMAIN userState |-> [u \in DOMAIN userState[a] |-> [m \in Names |->
            IF a = id.app /\ u = id.user
            THEN Atomic!After(userState[a][u][m], TrimTemp(d)[[scope |-> "user", name |-> m]])
            ELSE userState[a][u][m]]]]
  <2>1. \A a \in Apps, u \in Users :
            /\ DOMAIN userState[a][u] = Names
            /\ userState[a][u] = [m \in Names |-> userState[a][u][m]]
    BY DEF TypeOK, SharedMap
  <2>2. Overlay(userState[id.app][id.user], ScopePart(d, "user")) =
            [m \in Names |-> Atomic!After(userState[id.app][id.user][m], ScopePart(d, "user")[m])]
    BY <1>1, <2>1 DEF Overlay, Atomic!After
  <2>3. DOMAIN userState = Apps /\ \A a \in Apps : DOMAIN userState[a] = Users
    BY DEF TypeOK
  <2> DEFINE Line(a, u) == [m \in Names |->
            IF a = id.app /\ u = id.user
            THEN Atomic!After(userState[a][u][m], TrimTemp(d)[[scope |-> "user", name |-> m]])
            ELSE userState[a][u][m]]
  <2>4. \A a \in Apps, u \in Users : userState'[a][u] = Line(a, u)
    <3>1. SUFFICES ASSUME NEW a \in Apps, NEW u \in Users
          PROVE  userState'[a][u] = Line(a, u)
      OBVIOUS
    <3>2. CASE a = id.app /\ u = id.user
      <4>1. userState'[a][u] = Overlay(userState[a][u], ScopePart(d, "user"))
        BY <1>1, <3>2 DEF RouteShared, TypeOK
      <4>2. QED
        BY <1>3, <2>2, <3>2, <4>1
    <3>3. CASE ~(a = id.app /\ u = id.user)
      <4>1. userState'[a][u] = userState[a][u]
        BY <1>1, <3>1, <3>3 DEF RouteShared, TypeOK
      <4>2. Line(a, u) = [m \in Names |-> userState[a][u][m]]
        BY <3>3
      <4>3. QED
        BY <2>1, <4>1, <4>2
    <3>4. QED
      BY <3>2, <3>3
  <2>5. userState' \in [Apps -> [Users -> SharedMap]]
    BY RouteSharedType
  <2>6. userState' = [a \in Apps |-> [u \in Users |-> Line(a, u)]]
    <3> HIDE DEF Line
    <3>1. QED
      BY <2>4, <2>5
  <2>7. userState' = [a \in DOMAIN userState |-> [u \in DOMAIN userState[a] |-> Line(a, u)]]
    <3> HIDE DEF Line
    <3>1. QED
      BY <2>3, <2>6
  <2>8. QED
    BY <2>7
<1>6. QED
  BY <1>4, <1>5 DEF Atomic!Shared

\* The two copies of SessionState, the service's own and the abstract store's.
LEMMA SameKeys == Atomic!StateKey = StateKey
BY DEF Atomic!StateKey, StateKey, Atomic!Scopes, Scopes

LEMMA CreateRefines ==
    ASSUME TypeOK, NEW id \in SessionId, NEW initial \in InitialStates, Create(id, initial)
    PROVE  Atomic!CreateSession(id, TrimTemp(initial))
<1>1. initial \in StateMap
  BY InputsAreEvents
<1>2. Atomic!Shared(id, TrimTemp(initial))
  BY <1>1, SharedRefines DEF Create
<1>3. PICK o \in Objects \ alloc :
        /\ alloc' = alloc \cup {o}
        /\ owner' = [owner EXCEPT ![o] = id]
        /\ state' = [state EXCEPT ![o] = TrimTemp(initial)]
        /\ sessions' = [sessions EXCEPT ![sessionKey(id)] = o]
  BY DEF Create
<1>4. [p \in Objects |-> TrimTemp(state'[p])] =
        [[p \in Objects |-> TrimTemp(state[p])] EXCEPT ![o] = TrimTemp(initial)]
  <2>1. \A p \in Objects :
            TrimTemp(state'[p]) = IF p = o THEN TrimTemp(initial) ELSE TrimTemp(state[p])
    BY <1>3, TrimTempIdempotent DEF TypeOK
  <2>2. QED
    BY <1>3, <2>1
<1>5. [p \in Objects |-> HistoryOf(p)'] = [p \in Objects |-> HistoryOf(p)]
  BY DEF Create, HistoryOf
<1>6. sessions[sessionKey(id)] = NoObject
  BY DEF Create, Lookup
<1>7. QED
  BY <1>2, <1>3, <1>4, <1>5, <1>6 DEF Atomic!CreateSession

LEMMA DeleteRefines ==
    ASSUME NEW id \in SessionId, DeleteSession(id)
    PROVE  Atomic!ForgetSession(id)
BY DEF DeleteSession, Atomic!ForgetSession, HistoryOf

\* A write of a durable key is an abstract write; a write of a temp key is not
\* seen.
LEMMA WriteRefines ==
    ASSUME TypeOK, NEW o \in Objects, NEW key \in StateKey, NEW x,
           state' = [state EXCEPT ![o][key] = x], o \in alloc,
           UNCHANGED <<sessions, alloc, owner, events, appState, userState, pending>>
    PROVE  IF key.scope = "temp" THEN UNCHANGED Atomic!atomicVars
                                 ELSE Atomic!WriteKey(o, key, x)
<1>1. [p \in Objects |-> HistoryOf(p)'] = [p \in Objects |-> HistoryOf(p)]
  BY DEF HistoryOf
<1>2. \A p \in Objects : state[p] \in StateMap
  BY DEF TypeOK
<1>3. \A p \in Objects : p # o => state'[p] = state[p]
  BY DEF TypeOK
<1>4. state'[o] = [state[o] EXCEPT ![key] = x]
  BY DEF TypeOK
<1>5. CASE key.scope = "temp"
  <2>1. TrimTemp(state'[o]) = TrimTemp(state[o])
    BY <1>2, <1>4, <1>5 DEF TrimTemp, StateMap
  <2>2. [p \in Objects |-> TrimTemp(state'[p])] = [p \in Objects |-> TrimTemp(state[p])]
    BY <1>3, <2>1
  <2>3. QED
    BY <1>1, <1>5, <2>2 DEF Atomic!atomicVars
<1>6. CASE key.scope # "temp"
  <2>1. TrimTemp(state'[o]) = [TrimTemp(state[o]) EXCEPT ![key] = x]
    BY <1>2, <1>4, <1>6 DEF TrimTemp, StateMap
  <2>2. [p \in Objects |-> TrimTemp(state'[p])] =
            [[p \in Objects |-> TrimTemp(state[p])] EXCEPT ![o][key] = x]
    <3> DEFINE dur == [p \in Objects |-> TrimTemp(state[p])]
    <3>1. [dur EXCEPT ![o][key] = x] =
            [p \in Objects |-> IF p = o THEN [TrimTemp(state[o]) EXCEPT ![key] = x]
                                        ELSE TrimTemp(state[p])]
      OBVIOUS
    <3>2. \A p \in Objects : TrimTemp(state'[p]) =
            IF p = o THEN [TrimTemp(state[o]) EXCEPT ![key] = x] ELSE TrimTemp(state[p])
      BY <1>3, <2>1
    <3>3. QED
      BY <3>1, <3>2
  <2>3. QED
    BY <1>1, <1>6, <2>2 DEF Atomic!WriteKey
<1>7. QED
  BY <1>5, <1>6

LEMMA AppendBeginRefines ==
    ASSUME TypeOK, NEW o \in Objects, NEW ev \in Inputs, AppendBegin(o, ev)
    PROVE  Atomic!AppendDurable(o, Persisted(ev))
<1>1. ev \in Event /\ ev.delta \in StateMap
  BY InputsAreEvents, EventFields
<1>2. owner[o] \in SessionId /\ state[o] \in StateMap
  BY DEF TypeOK
<1>3. Persisted(ev).delta = TrimTemp(ev.delta)
  BY <1>1 DEF Persisted, Event
<1>4. Atomic!Shared(owner[o], Persisted(ev).delta)
  BY <1>1, <1>2, <1>3, SharedRefines DEF AppendBegin
<1>5. [p \in Objects |-> HistoryOf(p)'] =
        [[p \in Objects |-> HistoryOf(p)] EXCEPT ![o] = Append(@, Persisted(ev))]
  <2>1. pending = NoAppend /\ events' = events /\ pending'.obj = o /\ pending'.ev = ev
    BY DEF AppendBegin
  <2>2. pending' # NoAppend
    BY <1>1, NilsDistinct DEF AppendBegin
  <2>3. \A p \in Objects : HistoryOf(p)' =
            IF p = o THEN Append(HistoryOf(p), Persisted(ev)) ELSE HistoryOf(p)
    BY <2>1, <2>2 DEF HistoryOf, Persisted
  <2>4. QED
    BY <2>3
<1>6. [p \in Objects |-> TrimTemp(state'[p])] =
        [[p \in Objects |-> TrimTemp(state[p])] EXCEPT
            ![o] = [k \in StateKey |->
                      Atomic!After(TrimTemp(state[o])[k], Persisted(ev).delta[k])]]
  <2>1. state' = [state EXCEPT ![o] = Overlay(state[o], ev.delta)]
    BY DEF AppendBegin
  <2>2. Overlay(TrimTemp(state[o]), TrimTemp(ev.delta)) =
            [k \in StateKey |-> Atomic!After(TrimTemp(state[o])[k], Persisted(ev).delta[k])]
    BY <1>3 DEF Overlay, Atomic!After, TrimTemp
  <2>3. TrimTemp(state'[o]) =
            [k \in StateKey |-> Atomic!After(TrimTemp(state[o])[k], Persisted(ev).delta[k])]
    BY <1>1, <1>2, <2>1, <2>2, TrimTempOverlay DEF TypeOK
  <2>4. \A p \in Objects : p # o => state'[p] = state[p]
    BY <2>1 DEF TypeOK
  <2>5. QED
    BY <2>3, <2>4
<1>7. o \in alloc /\ sessions[sessionKey(owner[o])] # NoObject
  BY DEF AppendBegin, Lookup
<1>8. UNCHANGED <<sessions, alloc, owner>>
  BY DEF AppendBegin
<1>9. QED
  BY <1>4, <1>5, <1>6, <1>7, <1>8, SameKeys DEF Atomic!AppendDurable

\* The later critical sections of an append are invisible.
LEMMA AppendTrimRefines ==
    ASSUME TypeOK, AppendTrim
    PROVE  UNCHANGED Atomic!atomicVars
<1>1. /\ pending \in Pending /\ pending.obj \in Objects /\ pending.ev \in Event
      /\ pending # NoAppend
  BY PendingFields DEF AppendTrim
<1>2. /\ pending'.obj = pending.obj
      /\ pending'.ev = Persisted(pending.ev)
      /\ pending' \in Pending
  <2>1. TrimTemp(pending.ev.delta) \in StateMap
    BY <1>1, EventFields, TrimTempType
  <2>2. QED
    BY <1>1, <2>1 DEF AppendTrim, Persisted, Pending, Event
<1>3. Persisted(pending'.ev) = Persisted(pending.ev)
  BY <1>1, <1>2, TrimTempIdempotent DEF Persisted, Event
<1>4. [p \in Objects |-> HistoryOf(p)'] = [p \in Objects |-> HistoryOf(p)]
  <2>1. pending' # NoAppend
    BY <1>2, NilsDistinct DEF Pending
  <2>2. events' = events
    BY DEF AppendTrim
  <2>3. \A p \in Objects : HistoryOf(p)' = HistoryOf(p)
    BY <1>1, <1>2, <1>3, <2>1, <2>2 DEF HistoryOf, Persisted
  <2>4. QED
    BY <2>3
<1>5. [p \in Objects |-> TrimTemp(state'[p])] = [p \in Objects |-> TrimTemp(state[p])]
  <2>1. \A p \in Objects : TrimTemp(state'[p]) = TrimTemp(state[p])
    BY <1>1, TrimTempIdempotent DEF AppendTrim, TypeOK
  <2>2. QED
    BY <2>1
<1>6. QED
  BY <1>4, <1>5 DEF AppendTrim, Atomic!atomicVars

LEMMA AppendRecordRefines ==
    ASSUME TypeOK, DurableInv, AppendRecord
    PROVE  UNCHANGED Atomic!atomicVars
<1>1. pending.obj \in Objects /\ pending # NoAppend
  BY PendingFields DEF AppendRecord
<1>2. Persisted(pending.ev) = pending.ev
  BY DEF AppendRecord, DurableInv, PendingEventDurable
<1>3. \A p \in Objects : HistoryOf(p)' = HistoryOf(p)
  <2>1. /\ pending' = NoAppend
        /\ events' = [events EXCEPT ![pending.obj] = Append(@, pending.ev)]
    BY DEF AppendRecord
  <2>2. \A p \in Objects : HistoryOf(p)' = events'[p]
    BY <2>1 DEF HistoryOf
  <2>3. \A p \in Objects : HistoryOf(p) =
            IF pending.obj = p THEN Append(events[p], pending.ev) ELSE events[p]
    BY <1>1, <1>2 DEF HistoryOf
  <2>4. QED
    BY <1>1, <2>1, <2>2, <2>3 DEF TypeOK
<1>4. QED
  BY <1>3 DEF AppendRecord, Atomic!atomicVars

\* Each step of the service is a step of the atomic store or leaves it alone.
LEMMA StepRefines ==
    TypeOK /\ DurableInv /\ [Next]_svcVars => [Atomic!AtomicNext]_(Atomic!atomicVars)
<1> SUFFICES ASSUME TypeOK, DurableInv, [Next]_svcVars
             PROVE  Atomic!AtomicNext \/ UNCHANGED Atomic!atomicVars
  OBVIOUS
<1>1. ASSUME NEW id \in SessionId, NEW initial \in InitialStates, Create(id, initial)
      PROVE  Atomic!AtomicNext
  BY <1>1, CreateRefines DEF Atomic!AtomicNext
<1>2. ASSUME NEW id \in SessionId, DeleteSession(id)
      PROVE  Atomic!AtomicNext
  BY <1>2, DeleteRefines DEF Atomic!AtomicNext
<1>3. ASSUME NEW o \in Objects, NEW w \in Writes, SetState(o, w[1], w[2])
      PROVE  Atomic!AtomicNext \/ UNCHANGED Atomic!atomicVars
  <2>1. w[1] \in StateKey
    BY InputsAreEvents
  <2>2. IF w[1].scope = "temp" THEN UNCHANGED Atomic!atomicVars
                               ELSE Atomic!WriteKey(o, w[1], w[2])
    BY <1>3, <2>1, WriteRefines DEF SetState
  <2>3. QED
    BY <2>2 DEF Atomic!AtomicNext
<1>4. ASSUME NEW o \in Objects, NEW w \in Writes, DeleteState(o, w[1])
      PROVE  Atomic!AtomicNext \/ UNCHANGED Atomic!atomicVars
  <2>1. w[1] \in StateKey
    BY InputsAreEvents
  <2>2. IF w[1].scope = "temp" THEN UNCHANGED Atomic!atomicVars
                               ELSE Atomic!WriteKey(o, w[1], Absent)
    BY <1>4, <2>1, WriteRefines DEF DeleteState
  <2>3. QED
    BY <2>2 DEF Atomic!AtomicNext
<1>5. ASSUME NEW o \in Objects, NEW ev \in Inputs, AppendBegin(o, ev)
      PROVE  Atomic!AtomicNext
  <2>1. Atomic!AppendDurable(o, Persisted(ev))
    BY <1>5, AppendBeginRefines
  <2>2. ev \in {e \in Inputs : ~e.partial}
    BY <1>5 DEF AppendBegin
  <2>3. QED
    BY <2>1, <2>2 DEF Atomic!AtomicNext
<1>6. ASSUME AppendTrim
      PROVE  UNCHANGED Atomic!atomicVars
  BY <1>6, AppendTrimRefines
<1>7. ASSUME AppendRecord
      PROVE  UNCHANGED Atomic!atomicVars
  BY <1>7, AppendRecordRefines
<1>8. CASE UNCHANGED svcVars
  BY <1>8 DEF svcVars, Atomic!atomicVars, HistoryOf
<1>9. QED
  BY <1>1, <1>2, <1>3, <1>4, <1>5, <1>6, <1>7, <1>8 DEF Next

\* The service implements the atomic session store: concurrent appends,
\* write-throughs, creations and deletions have the effect of some sequence of
\* whole operations on history, local, app and user state.
THEOREM ServiceIsAtomic == Spec => AppendsAreAtomic
<1>1. Init => Atomic!AtomicInit
  BY InitRefines
<1>2. Init => DurableInv
  BY DEF Init, DurableInv, PersistedEventsAreDurable, PendingEventDurable
<1>3. TypeOK /\ DurableInv /\ [Next]_svcVars => DurableInv'
  BY NextDurableInv
<1>4. TypeOK /\ DurableInv /\ [Next]_svcVars => [Atomic!AtomicNext]_(Atomic!atomicVars)
  BY StepRefines
<1>5. QED
  BY <1>1, <1>2, <1>3, <1>4, TypeCorrect, PTL
     DEF Spec, AppendsAreAtomic, Atomic!AtomicSpec

(***************************************************************************)
(* Part 2: the runner.                                                     *)
(***************************************************************************)

-----------------------------------------------------------------------------
(* The inductive invariant.                                                *)

Unnumbered == {"idle", "get", "getAgain", "create", "count"}
Numbered == {"user", "userAppend", "route", "execute", "persist", "persistAppend"}
Replying == {"persist", "persistAppend", "done"}

\* The bound on histories counts the append in progress.
HistoryBounded ==
    /\ \A o \in Objects : Len(events[o]) <= MaxEvents
    /\ pending # NoAppend => Len(events[pending.obj]) < MaxEvents

\* What one call knows at each of its steps.
CallInv(r) ==
    /\ pc[r] \in Unnumbered => ordinal[r] = 0
    /\ pc[r] \in Numbered => ordinal[r] # 0
    /\ pc[r] = "count" => sess[r] \in Objects
    /\ ordinal[r] # 0 =>
        /\ sess[r] \in Objects
        /\ ordinal[r] <= Len(events[sess[r]]) + 1
    /\ pc[r] \notin Replying => replies[r] = <<>>
    /\ \A k \in DOMAIN replies[r] :
        /\ replies[r][k].tag \in Tag
        /\ replies[r][k].tag.run = r
        /\ replies[r][k].tag.inv = ordinal[r]
    /\ pc[r] = "persistAppend" => at[r] <= Len(replies[r])
    /\ pc[r] # "done" => result[r] = "none"

\* An event whose place in a history is i, or will be.
EventInv(ev, i) ==
    /\ ev.tag \in Tag
    /\ ev.tag.inv <= i
    /\ ev.tag.seq > 0 =>
        /\ pc[ev.tag.run] \in Replying
        /\ result[ev.tag.run] # "agentError"

HistoryInv ==
    \A o \in Objects : \A i \in DOMAIN events[o] : EventInv(events[o][i], i)

PendingInv ==
    pending # NoAppend => EventInv(pending.ev, Len(events[pending.obj]) + 1)

RunnerInv ==
    /\ RunnerTypeOK
    /\ HistoryBounded
    /\ \A r \in Runs : CallInv(r)
    /\ HistoryInv
    /\ PendingInv

-----------------------------------------------------------------------------
(* The events of a call.                                                   *)

LEMMA UserEventType ==
    ASSUME RunnerTypeOK, NEW r \in Runs, ordinal[r] # 0
    PROVE  UserEvent(r) \in Event /\ UserEvent(r).tag \in Tag
<1>1. ordinal[r] \in 1 .. (MaxEvents + 1) /\ MaxEvents \in Nat
  BY InputsAreEvents DEF RunnerTypeOK
<1>2. UserEvent(r).tag \in Tag
  BY <1>1 DEF UserEvent, Tag
<1>3. User \in Authors /\ Tag \subseteq Tags
  BY RunnerConstants
<1>4. QED
  BY <1>2, <1>3, EmptyStateType DEF UserEvent, Event

LEMMA RepliesType ==
    ASSUME RunnerTypeOK, NEW r \in Runs, ordinal[r] # 0,
           NEW shape \in Shapes, NEW author \in ReplyAuthors
    PROVE  /\ RepliesOf(r, shape, author) \in Seq(Event)
           /\ \A k \in DOMAIN RepliesOf(r, shape, author) :
                LET ev == RepliesOf(r, shape, author)[k] IN
                /\ ev.tag \in Tag
                /\ ev.tag.run = r
                /\ ev.tag.inv = ordinal[r]
<1> DEFINE evs == RepliesOf(r, shape, author)
<1>1. ordinal[r] \in 1 .. (MaxEvents + 1) /\ MaxEvents \in Nat
  BY InputsAreEvents DEF RunnerTypeOK
<1>2. shape \in Seq(ReplyKinds) /\ Len(shape) <= MaxEvents
  BY RunnerConstants
<1>3. DOMAIN evs = 1 .. Len(shape) /\ Len(shape) \in Nat
  BY <1>2 DEF RepliesOf
<1>4. author \in Authors /\ Tag \subseteq Tags
  BY RunnerConstants
<1>5. carried[r] \in StateMap
  BY DEF RunnerTypeOK
<1>6. ASSUME NEW k \in 1 .. Len(shape)
      PROVE  /\ evs[k] \in Event
             /\ evs[k].tag \in Tag
             /\ evs[k].tag.run = r
             /\ evs[k].tag.inv = ordinal[r]
  <2> DEFINE tag == [run |-> r, inv |-> ordinal[r], seq |-> k]
             delta == IF shape[k] = "carry" THEN carried[r] ELSE EmptyState
  <2>1. tag \in Tag
    BY <1>1, <1>2 DEF Tag
  <2>2. delta \in StateMap
    BY <1>5, EmptyStateType
  <2>3. evs[k] = [tag |-> tag, author |-> author,
                  partial |-> shape[k] = "chunk", delta |-> delta]
    BY <1>2 DEF RepliesOf
  <2>4. (shape[k] = "chunk") \in BOOLEAN
    OBVIOUS
  <2> HIDE DEF tag, delta
  <2>5. evs[k] \in Event
    BY <2>1, <2>2, <2>3, <2>4, <1>4 DEF Event
  <2>6. QED
    BY <2>1, <2>3, <2>5 DEF tag
<1> HIDE DEF evs
<1>7. evs \in Seq(Event)
  <2>1. evs = [k \in 1 .. Len(shape) |-> evs[k]]
    BY <1>2 DEF evs, RepliesOf
  <2>2. QED
    BY <1>3, <1>6, <2>1
<1>8. QED
  BY <1>3, <1>6, <1>7 DEF evs

-----------------------------------------------------------------------------
(* The last index of a set of indices.                                     *)

LEMMA LastExists ==
    ASSUME NEW n \in Nat, NEW S, S \subseteq 1 .. n, S # {}
    PROVE  \E i \in S : \A j \in S : j <= i
<1> DEFINE less == {ss \in Nat \X Nat : ss[1] < ss[2]}
           T == {n - i : i \in S}
<1>1. IsWellFoundedOn(less, Nat)
  BY NatLessThanWellFounded, Zenon DEF OpToRel
<1>2. T \subseteq Nat /\ T # {}
  <2>1. \A i \in S : i \in 1 .. n
    OBVIOUS
  <2>2. \A i \in 1 .. n : n - i \in Nat
    OBVIOUS
  <2>3. T \subseteq Nat
    BY <2>1, <2>2
  <2>4. PICK k \in S : TRUE
    OBVIOUS
  <2>5. n - k \in T
    OBVIOUS
  <2>6. QED
    BY <2>3, <2>5
<1>3. PICK x \in T : \A y \in T : <<y, x>> \notin less
  <2> HIDE DEF less, T
  <2>1. QED
    BY <1>1, <1>2, WFMin, Zenon
<1>4. PICK i \in S : x = n - i
  BY <1>3
<1>5. ASSUME NEW j \in S
      PROVE  j <= i
  <2>1. n - j \in T /\ i \in Int /\ j \in Int
    OBVIOUS
  <2>2. <<n - j, x>> \notin less
    BY <1>3, <2>1
  <2>3. ~(n - j < x)
    BY <1>2, <2>1, <2>2
  <2>4. QED
    BY <1>4, <2>1, <2>3
<1>6. QED
  BY <1>5

-----------------------------------------------------------------------------
(* Type correctness.                                                       *)

LEMMA LookupType ==
    ASSUME RunnerTypeOK, NEW r \in Runs
    PROVE  Lookup(target[r]) \in Objects \cup {NoObject}
<1>1. sessionKey(target[r]) \in Keys
  BY KeyType DEF RunnerTypeOK
<1>2. QED
  BY <1>1 DEF Lookup, RunnerTypeOK, TypeOK

\* A call holds a session from the count on.
LEMMA HoldsSession ==
    ASSUME RunnerInv, NEW r \in Runs, pc[r] \in Numbered
    PROVE  /\ sess[r] \in Objects
           /\ ordinal[r] # 0
BY DEF RunnerInv, CallInv, Numbered

LEMMA InitRunnerTypeOK == RunnerInit => RunnerTypeOK
<1> SUFFICES ASSUME RunnerInit PROVE RunnerTypeOK
  OBVIOUS
<1>1. TypeOK /\ (CHOOSE id \in SessionId : TRUE) \in SessionId
  <2>1. TypeOK
    BY InitTypeOK DEF RunnerInit
  <2>2. \E id \in SessionId : TRUE
    <3>1. PICK a \in Apps, u \in Users, s \in Sids : TRUE
      BY IdsNonEmpty
    <3>2. [app |-> a, user |-> u, sid |-> s] \in SessionId
      BY <3>1 DEF SessionId
    <3>3. QED
      BY <3>2
  <2>3. QED
    BY <2>1, <2>2
<1>2. MaxEvents \in Nat /\ Root \in Agents
  BY InputsAreEvents, RunnerConstants
<1>3. QED
  BY <1>1, <1>2, EmptyStateType DEF RunnerInit, RunnerTypeOK, Steps

LEMMA GetSessionTypeOK ==
    ASSUME RunnerInv, NEW r \in Runs, NEW from \in Steps, NEW missed \in Steps,
           GetSession(r, from, missed)
    PROVE  RunnerTypeOK'
<1>1. TypeOK'
  BY DEF GetSession, svcVars, RunnerInv, RunnerTypeOK, TypeOK
<1>2. Lookup(target[r]) \in Objects \cup {NoObject}
  BY LookupType DEF RunnerInv
<1>3. QED
  BY <1>1, <1>2 DEF GetSession, Goto, RunnerInv, RunnerTypeOK, Steps

LEMMA CreateSessionTypeOK ==
    ASSUME RunnerInv, NEW r \in Runs, CreateSession(r)
    PROVE  RunnerTypeOK'
<1>1. TypeOK' /\ target[r] \in SessionId
  BY CreateTypeOK, EmptyStateType DEF CreateSession, RunnerInv, RunnerTypeOK
<1>2. sessions'[sessionKey(target[r])] \in Objects \cup {NoObject}
  BY <1>1, KeyType DEF TypeOK
<1>3. QED
  BY <1>1, <1>2 DEF CreateSession, Goto, RunnerInv, RunnerTypeOK, Steps

LEMMA CountEventsTypeOK ==
    ASSUME RunnerInv, NEW r \in Runs, CountEvents(r)
    PROVE  RunnerTypeOK'
<1>1. sess[r] \in Objects
  BY DEF CountEvents, Goto, RunnerInv, CallInv
<1>2. events[sess[r]] \in Seq(Event) /\ MaxEvents \in Nat
  BY <1>1, InputsAreEvents DEF RunnerInv, RunnerTypeOK, TypeOK
<1>3. Len(events[sess[r]]) + 1 \in 0 .. (MaxEvents + 1)
  BY <1>1, <1>2 DEF RunnerInv, HistoryBounded
<1>4. QED
  BY <1>3 DEF CountEvents, Goto, svcVars, RunnerInv, RunnerTypeOK, TypeOK, Steps

LEMMA FindAgentToRunType ==
    ASSUME NEW history \in Seq(Event)
    PROVE  FindAgentToRun(history) \in Agents
<1> DEFINE found == {i \in DOMAIN history :
                        /\ history[i].author \in Agents
                        /\ TransferableAcrossTree(history[i].author)}
<1>1. CASE found = {}
  BY <1>1, RunnerConstants DEF FindAgentToRun
<1>2. CASE found # {}
  <2>1. found \subseteq 1 .. Len(history) /\ Len(history) \in Nat
    OBVIOUS
  <2>2. \E i \in found : \A j \in found : j <= i
    <3> HIDE DEF found
    <3>1. QED
      BY <1>2, <2>1, LastExists
  <2>3. (CHOOSE i \in found : \A j \in found : j <= i) \in found
    BY <2>2
  <2>4. QED
    BY <1>2, <2>3 DEF FindAgentToRun
<1>3. QED
  BY <1>1, <1>2

LEMMA RouteTypeOK ==
    ASSUME RunnerInv, NEW r \in Runs, Route(r)
    PROVE  RunnerTypeOK'
<1> DEFINE found == FindAgentToRun(events[sess[r]])
<1>1. sess[r] \in Objects
  BY HoldsSession DEF Route, Goto, Numbered
<1>2. events[sess[r]] \in Seq(Event)
  BY <1>1 DEF RunnerInv, RunnerTypeOK, TypeOK
<1>3. found \in Agents
  BY <1>2, FindAgentToRunType
<1>4. (IF found \in Executable THEN found ELSE Root) \in Agents
  BY <1>3, RunnerConstants
<1>5. QED
  BY <1>4 DEF Route, Goto, svcVars, RunnerInv, RunnerTypeOK, TypeOK, Steps

LEMMA AgentReturnsTypeOK ==
    ASSUME RunnerInv, NEW r \in Runs, AgentReturns(r)
    PROVE  RunnerTypeOK'
<1>1. ordinal[r] # 0
  BY HoldsSession DEF AgentReturns, Goto, Numbered
<1>2. PICK shape \in Shapes, author \in ReplyAuthors :
            replies' = [replies EXCEPT ![r] = RepliesOf(r, shape, author)]
  BY DEF AgentReturns
<1>3. replies' \in [Runs -> Seq(Event)]
  BY <1>1, <1>2, RepliesType DEF RunnerInv, RunnerTypeOK
<1>4. QED
  BY <1>3 DEF AgentReturns, Goto, svcVars, RunnerInv, RunnerTypeOK, TypeOK, Steps

LEMMA AgentWritesTypeOK ==
    ASSUME RunnerInv, NEW r \in Runs, NEW w \in Writes,
           AgentSets(r, w[1], w[2]) \/ AgentDeletes(r, w[1])
    PROVE  RunnerTypeOK'
<1>1. sess[r] \in Objects
  BY HoldsSession DEF AgentSets, AgentDeletes, Numbered
<1>2. TypeOK'
  BY <1>1, SetStateTypeOK, DeleteStateTypeOK
     DEF AgentSets, AgentDeletes, RunnerInv, RunnerTypeOK
<1>3. w[1] \in StateKey /\ w[2] \in Stored /\ Tombstone \in Stored
  BY InputsAreEvents DEF Stored
<1>4. carried' \in [Runs -> StateMap]
  <2>1. PICK x \in Stored : carried' = [carried EXCEPT ![r] = [carried[r] EXCEPT ![w[1]] = x]]
    BY <1>3 DEF AgentSets, AgentDeletes
  <2>2. [carried[r] EXCEPT ![w[1]] = x] \in StateMap
    BY <1>3 DEF RunnerInv, RunnerTypeOK, StateMap
  <2>3. QED
    BY <2>1, <2>2 DEF RunnerInv, RunnerTypeOK
<1>5. QED
  BY <1>2, <1>4 DEF AgentSets, AgentDeletes, RunnerInv, RunnerTypeOK

LEMMA AppendUserTypeOK ==
    ASSUME RunnerInv, NEW r \in Runs, AppendUserBegin(r) \/ AppendUserEnd(r)
    PROVE  RunnerTypeOK'
<1>1. CASE AppendUserBegin(r)
  <2>1. sess[r] \in Objects /\ ordinal[r] # 0
    BY <1>1, HoldsSession DEF AppendUserBegin, Goto, Numbered
  <2>2. TypeOK'
    BY <1>1, <2>1, UserEventType, AppendBeginTypeOK
       DEF AppendUserBegin, RunnerInv, RunnerTypeOK
  <2>3. QED
    BY <1>1, <2>2 DEF AppendUserBegin, Goto, RunnerInv, RunnerTypeOK, Steps
<1>2. CASE AppendUserEnd(r)
  <2>1. TypeOK'
    BY <1>2, AppendRecordTypeOK DEF AppendUserEnd, RunnerInv, RunnerTypeOK
  <2>2. QED
    BY <1>2, <2>1 DEF AppendUserEnd, Goto, RunnerInv, RunnerTypeOK, Steps
<1>3. QED
  BY <1>1, <1>2

LEMMA PersistTypeOK ==
    ASSUME RunnerInv, NEW r \in Runs,
           PersistBegin(r) \/ PersistTrim(r) \/ PersistEnd(r)
    PROVE  RunnerTypeOK'
<1>1. replies[r] \in Seq(Event) /\ at[r] \in Nat \ {0}
  BY DEF RunnerInv, RunnerTypeOK
<1>2. CASE PersistBegin(r)
  <2>1. sess[r] \in Objects
    BY <1>2, HoldsSession DEF PersistBegin, Goto, Numbered
  <2>2. replies[r][at[r]] \in Event
    BY <1>1, <1>2 DEF PersistBegin
  <2>3. TypeOK'
    BY <1>2, <2>1, <2>2, AppendBeginTypeOK DEF PersistBegin, RunnerInv, RunnerTypeOK
  <2>4. QED
    BY <1>2, <2>3 DEF PersistBegin, Goto, RunnerInv, RunnerTypeOK, Steps
<1>3. CASE PersistTrim(r)
  <2>1. TypeOK'
    BY <1>3, AppendTrimTypeOK DEF PersistTrim, RunnerInv, RunnerTypeOK
  <2>2. at[r] \in 1 .. Len(replies[r])
    BY <1>1, <1>3 DEF PersistTrim, RunnerInv, CallInv
  <2>3. replies[r][at[r]] \in Event
    BY <1>1, <2>2
  <2>4. [replies[r][at[r]] EXCEPT !.delta = TrimTemp(@)] \in Event
    BY <2>3, EventFields, TrimTempType DEF Event
  <2>5. replies' = [replies EXCEPT ![r] = [replies[r] EXCEPT ![at[r]] =
                        [replies[r][at[r]] EXCEPT !.delta = TrimTemp(@)]]]
    BY <1>3 DEF PersistTrim, RunnerInv, RunnerTypeOK
  <2>6. replies' \in [Runs -> Seq(Event)]
    BY <1>1, <2>2, <2>4, <2>5 DEF RunnerInv, RunnerTypeOK
  <2>7. QED
    BY <1>3, <2>1, <2>6 DEF PersistTrim, RunnerInv, RunnerTypeOK
<1>4. CASE PersistEnd(r)
  <2>1. TypeOK'
    BY <1>4, AppendRecordTypeOK DEF PersistEnd, RunnerInv, RunnerTypeOK
  <2>2. QED
    BY <1>1, <1>4, <2>1 DEF PersistEnd, Goto, RunnerInv, RunnerTypeOK, Steps
<1>5. QED
  BY <1>2, <1>3, <1>4

\* The steps that leave the service alone and set at most the program counter,
\* the arguments, the loop index and the result.
LEMMA ControlTypeOK ==
    ASSUME RunnerInv, NEW r \in Runs,
           \/ \E id \in SessionId : Call(r, id)
           \/ CreateFails(r)
           \/ AgentFails(r)
           \/ SkipPartial(r)
           \/ Return(r)
    PROVE  RunnerTypeOK'
<1>1. TypeOK'
  BY DEF Call, CreateFails, AgentFails, SkipPartial, Return, svcVars,
         RunnerInv, RunnerTypeOK, TypeOK
<1>2. target' \in [Runs -> SessionId]
  BY DEF Call, CreateFails, AgentFails, SkipPartial, Return, RunnerInv, RunnerTypeOK
<1>3. at' \in [Runs -> Nat \ {0}]
  BY DEF Call, CreateFails, AgentFails, SkipPartial, Return, RunnerInv, RunnerTypeOK
<1>4. QED
  BY <1>1, <1>2, <1>3 DEF Call, CreateFails, AgentFails, SkipPartial, Return, Goto,
         RunnerInv, RunnerTypeOK, Steps

LEMMA NextRunnerTypeOK ==
    ASSUME RunnerInv, [RunnerNext]_vars
    PROVE  RunnerTypeOK'
<1>1. CASE UNCHANGED vars
  BY <1>1 DEF vars, svcVars, runVars, RunnerInv, RunnerTypeOK, TypeOK
<1>2. ASSUME NEW r \in Runs, Step(r)
      PROVE  RunnerTypeOK'
  BY <1>2, GetSessionTypeOK, CreateSessionTypeOK, ControlTypeOK, CountEventsTypeOK,
     AppendUserTypeOK, RouteTypeOK, AgentReturnsTypeOK, PersistTypeOK DEF Step, Steps
<1>3. ASSUME NEW r \in Runs, NEW id \in SessionId, Call(r, id)
      PROVE  RunnerTypeOK'
  BY <1>3, ControlTypeOK
<1>4. ASSUME NEW r \in Runs, NEW w \in Writes,
             AgentSets(r, w[1], w[2]) \/ AgentDeletes(r, w[1])
      PROVE  RunnerTypeOK'
  BY <1>4, AgentWritesTypeOK
<1>5. QED
  BY <1>1, <1>2, <1>3, <1>4 DEF RunnerNext, AllReturned

-----------------------------------------------------------------------------
(* The histories and the append in progress.                               *)

\* A call that is handing out replies goes on doing so, and does not fail.
LEMMA ReplyingStable ==
    ASSUME RunnerInv, [RunnerNext]_vars, NEW q \in Runs,
           pc[q] \in Replying, result[q] # "agentError"
    PROVE  pc'[q] \in Replying /\ result'[q] # "agentError"
<1> USE DEF Goto, Replying
<1>0. /\ pc \in [Runs -> Steps]
      /\ result \in [Runs -> {"none", "ok", "createError", "agentError"}]
  BY DEF RunnerInv, RunnerTypeOK
<1>1. CASE UNCHANGED vars
  BY <1>1 DEF vars, runVars
<1>2. ASSUME NEW r \in Runs, Step(r)
      PROVE  pc'[q] \in Replying /\ result'[q] # "agentError"
  BY <1>0, <1>2
     DEF Step, GetSession, CreateSession, CreateFails, CountEvents, AppendUserBegin,
         AppendUserEnd, Route, AgentReturns, AgentFails, SkipPartial, PersistBegin,
         PersistTrim, PersistEnd, Return
<1>3. ASSUME NEW r \in Runs, NEW id \in SessionId, Call(r, id)
      PROVE  pc'[q] \in Replying /\ result'[q] # "agentError"
  BY <1>0, <1>3 DEF Call
<1>4. ASSUME NEW r \in Runs, NEW w \in Writes,
             AgentSets(r, w[1], w[2]) \/ AgentDeletes(r, w[1])
      PROVE  pc'[q] \in Replying /\ result'[q] # "agentError"
  BY <1>0, <1>4 DEF AgentSets, AgentDeletes
<1>5. QED
  BY <1>1, <1>2, <1>3, <1>4 DEF RunnerNext, AllReturned

\* EventInv after the step.
NextEventInv(ev, i) ==
    /\ ev.tag \in Tag
    /\ ev.tag.inv <= i
    /\ ev.tag.seq > 0 =>
        /\ pc'[ev.tag.run] \in Replying
        /\ result'[ev.tag.run] # "agentError"

LEMMA EventInvStable ==
    ASSUME RunnerInv, [RunnerNext]_vars, NEW ev, NEW i, EventInv(ev, i)
    PROVE  NextEventInv(ev, i)
<1>1. ev.tag.run \in Runs
  BY DEF EventInv, Tag
<1>2. QED
  BY <1>1, ReplyingStable DEF EventInv, NextEventInv

HistoriesInv == HistoryBounded /\ HistoryInv /\ PendingInv

LEMMA QuietHistories ==
    ASSUME RunnerInv, [RunnerNext]_vars, UNCHANGED <<events, pending>>
    PROVE  HistoriesInv'
<1>1. HistoryBounded'
  BY DEF RunnerInv, HistoryBounded
<1>2. HistoryInv'
  BY EventInvStable DEF RunnerInv, HistoryInv, EventInv, NextEventInv
<1>3. PendingInv'
  BY EventInvStable DEF RunnerInv, PendingInv, EventInv, NextEventInv
<1>4. QED
  BY <1>1, <1>2, <1>3 DEF HistoriesInv

LEMMA BeginHistories ==
    ASSUME RunnerInv, [RunnerNext]_vars, NEW o \in Objects, NEW ev \in Event,
           AppendBegin(o, ev), NextEventInv(ev, Len(events[o]) + 1)
    PROVE  HistoriesInv'
<1>1. events' = events /\ pending'.obj = o /\ pending'.ev = ev /\ Len(events[o]) < MaxEvents
  BY DEF AppendBegin
<1>2. HistoryBounded'
  BY <1>1 DEF RunnerInv, HistoryBounded
<1>3. HistoryInv'
  BY <1>1, EventInvStable DEF RunnerInv, HistoryInv, EventInv, NextEventInv
<1>4. PendingInv'
  BY <1>1 DEF PendingInv, EventInv, NextEventInv
<1>5. QED
  BY <1>2, <1>3, <1>4 DEF HistoriesInv

LEMMA TrimHistories ==
    ASSUME RunnerInv, [RunnerNext]_vars, AppendTrim
    PROVE  HistoriesInv'
<1>1. /\ pending \in Pending /\ pending.ev \in Event
  BY PendingFields DEF RunnerInv, RunnerTypeOK, AppendTrim
<1>2. /\ events' = events /\ pending'.obj = pending.obj
      /\ pending'.ev.tag = pending.ev.tag
  BY <1>1 DEF AppendTrim, Pending, Event
<1>3. HistoryBounded'
  BY <1>2 DEF RunnerInv, HistoryBounded, AppendTrim
<1>4. HistoryInv'
  BY <1>2, EventInvStable DEF RunnerInv, HistoryInv, EventInv, NextEventInv
<1>5. NextEventInv(pending.ev, Len(events[pending.obj]) + 1)
  BY EventInvStable DEF RunnerInv, PendingInv, AppendTrim
<1>6. PendingInv'
  BY <1>2, <1>5 DEF PendingInv, EventInv, NextEventInv
<1>7. QED
  BY <1>3, <1>4, <1>6 DEF HistoriesInv

LEMMA RecordHistories ==
    ASSUME RunnerInv, [RunnerNext]_vars, AppendRecord
    PROVE  HistoriesInv'
<1> DEFINE b == pending.obj
<1>1. b \in Objects /\ pending.ev \in Event /\ pending # NoAppend
  BY PendingFields DEF RunnerInv, RunnerTypeOK, AppendRecord
<1>2. /\ events \in [Objects -> Seq(Event)]
      /\ events' = [events EXCEPT ![b] = Append(events[b], pending.ev)]
      /\ pending' = NoAppend
      /\ MaxEvents \in Nat
  BY InputsAreEvents DEF AppendRecord, RunnerInv, RunnerTypeOK, TypeOK
<1>3. Len(events[b]) < MaxEvents
  BY <1>1 DEF RunnerInv, HistoryBounded
<1>4. HistoryBounded'
  BY <1>1, <1>2, <1>3 DEF RunnerInv, HistoryBounded
<1>5. NextEventInv(pending.ev, Len(events[b]) + 1)
  BY <1>1, EventInvStable DEF RunnerInv, PendingInv
<1>6. ASSUME NEW o \in Objects, NEW i \in DOMAIN events'[o]
      PROVE  NextEventInv(events'[o][i], i)
  <2>1. CASE i \in DOMAIN events[o]
    <3>1. events'[o][i] = events[o][i]
      BY <1>1, <1>2, <2>1
    <3>2. EventInv(events[o][i], i)
      BY <2>1 DEF RunnerInv, HistoryInv
    <3>3. QED
      BY <3>1, <3>2, EventInvStable
  <2>2. CASE i \notin DOMAIN events[o]
    <3>1. o = b /\ i = Len(events[b]) + 1 /\ events'[o][i] = pending.ev
      BY <1>1, <1>2, <2>2
    <3>2. QED
      BY <3>1, <1>5
  <2>3. QED
    BY <2>1, <2>2
<1>7. HistoryInv'
  BY <1>6 DEF HistoryInv, EventInv, NextEventInv
<1>8. PendingInv'
  BY <1>2 DEF PendingInv
<1>9. QED
  BY <1>4, <1>7, <1>8 DEF HistoriesInv

LEMMA NextHistories ==
    ASSUME RunnerInv, [RunnerNext]_vars
    PROVE  HistoriesInv'
<1>1. CASE UNCHANGED vars
  BY <1>1, QuietHistories DEF vars, svcVars
<1>2. ASSUME NEW r \in Runs, AppendUserBegin(r)
      PROVE  HistoriesInv'
  <2>1. sess[r] \in Objects /\ ordinal[r] # 0
    BY <1>2, HoldsSession DEF AppendUserBegin, Goto, Numbered
  <2>2. UserEvent(r) \in Event /\ UserEvent(r).tag \in Tag
    BY <2>1, UserEventType DEF RunnerInv
  <2>3. ordinal[r] <= Len(events[sess[r]]) + 1
    BY <2>1 DEF RunnerInv, CallInv
  <2>4. NextEventInv(UserEvent(r), Len(events[sess[r]]) + 1)
    BY <2>2, <2>3 DEF NextEventInv, UserEvent
  <2>5. AppendBegin(sess[r], UserEvent(r))
    BY <1>2 DEF AppendUserBegin
  <2>6. QED
    BY <2>1, <2>2, <2>4, <2>5, BeginHistories
<1>3. ASSUME NEW r \in Runs, PersistBegin(r)
      PROVE  HistoriesInv'
  <2> DEFINE ev == replies[r][at[r]]
  <2>1. sess[r] \in Objects /\ ordinal[r] # 0
    BY <1>3, HoldsSession DEF PersistBegin, Goto, Numbered
  <2>2. /\ replies[r] \in Seq(Event) /\ at[r] \in 1 .. Len(replies[r])
        /\ pc \in [Runs -> Steps]
    BY <1>3 DEF PersistBegin, RunnerInv, RunnerTypeOK
  <2>3. ev \in Event
    BY <2>2
  <2>4. ev.tag \in Tag /\ ev.tag.run = r /\ ev.tag.inv = ordinal[r]
    BY <2>2 DEF RunnerInv, CallInv
  <2>5. ordinal[r] <= Len(events[sess[r]]) + 1 /\ result[r] = "none"
    BY <1>3, <2>1 DEF RunnerInv, CallInv, PersistBegin, Goto
  <2>6. pc'[r] = "persistAppend" /\ result'[r] = "none"
    BY <1>3, <2>2, <2>5 DEF PersistBegin, Goto
  <2>7. NextEventInv(ev, Len(events[sess[r]]) + 1)
    BY <2>4, <2>5, <2>6 DEF NextEventInv, Replying
  <2>8. AppendBegin(sess[r], ev)
    BY <1>3 DEF PersistBegin
  <2>9. QED
    BY <2>1, <2>3, <2>7, <2>8, BeginHistories
<1>4. ASSUME NEW r \in Runs, PersistTrim(r)
      PROVE  HistoriesInv'
  BY <1>4, TrimHistories DEF PersistTrim
<1>5. ASSUME NEW r \in Runs, AppendUserEnd(r) \/ PersistEnd(r)
      PROVE  HistoriesInv'
  BY <1>5, RecordHistories DEF AppendUserEnd, PersistEnd
<1>6. ASSUME NEW r \in Runs,
             \/ GetSession(r, "get", "getAgain")
             \/ GetSession(r, "getAgain", "create")
             \/ CreateSession(r)
             \/ CreateFails(r)
             \/ CountEvents(r)
             \/ Route(r)
             \/ AgentReturns(r)
             \/ AgentFails(r)
             \/ SkipPartial(r)
             \/ Return(r)
      PROVE  HistoriesInv'
  <2>1. UNCHANGED <<events, pending>>
    BY <1>6 DEF GetSession, CreateSession, Create, CreateFails, CountEvents, Route,
       AgentReturns, AgentFails, SkipPartial, Return, svcVars
  <2>2. QED
    BY <2>1, QuietHistories
<1>7. ASSUME NEW r \in Runs, NEW id \in SessionId, Call(r, id)
      PROVE  HistoriesInv'
  BY <1>7, QuietHistories DEF Call, svcVars
<1>8. ASSUME NEW r \in Runs, NEW w \in Writes,
             AgentSets(r, w[1], w[2]) \/ AgentDeletes(r, w[1])
      PROVE  HistoriesInv'
  BY <1>8, QuietHistories DEF AgentSets, AgentDeletes, SetState, DeleteState
<1>9. QED
  BY <1>1, <1>2, <1>3, <1>4, <1>5, <1>6, <1>7, <1>8 DEF RunnerNext, AllReturned, Step

-----------------------------------------------------------------------------
(* What the calls know.                                                    *)

\* Histories only grow.
LEMMA HistoriesGrow ==
    ASSUME RunnerInv, [RunnerNext]_vars, NEW o \in Objects
    PROVE  /\ Len(events[o]) \in Nat
           /\ Len(events'[o]) \in Nat
           /\ Len(events[o]) <= Len(events'[o])
<1>1. events[o] \in Seq(Event)
  BY DEF RunnerInv, RunnerTypeOK, TypeOK
<1>2. CASE AppendRecord
  <2>1. pending.obj \in Objects /\ pending.ev \in Event
    BY <1>2, PendingFields DEF RunnerInv, RunnerTypeOK, AppendRecord
  <2>2. events'[o] = events[o] \/ events'[o] = Append(events[o], pending.ev)
    BY <1>2 DEF AppendRecord, RunnerInv, RunnerTypeOK, TypeOK
  <2>3. QED
    BY <1>1, <2>1, <2>2
<1>3. CASE events' = events
  BY <1>1, <1>3
<1>4. AppendRecord \/ events' = events
  BY DEF RunnerNext, AllReturned, Step, vars, svcVars, Call, AgentSets, AgentDeletes,
     SetState, DeleteState, GetSession, CreateSession, Create, CreateFails, CountEvents,
     AppendUserBegin, AppendUserEnd, AppendBegin, Route, AgentReturns, AgentFails,
     SkipPartial, PersistBegin, PersistTrim, AppendTrim, PersistEnd, Return
<1>5. QED
  BY <1>2, <1>3, <1>4

\* A call keeps what it knows while others move.
LEMMA OtherCallInv ==
    ASSUME RunnerInv, [RunnerNext]_vars, NEW q \in Runs,
           pc'[q] = pc[q], ordinal'[q] = ordinal[q], sess'[q] = sess[q],
           replies'[q] = replies[q], at'[q] = at[q], result'[q] = result[q]
    PROVE  CallInv(q)'
<1>1. CallInv(q) /\ ordinal[q] \in Nat
  BY InputsAreEvents DEF RunnerInv, RunnerTypeOK
<1>2. sess[q] \in Objects => Len(events[sess[q]]) <= Len(events'[sess[q]])
                             /\ Len(events[sess[q]]) \in Nat
                             /\ Len(events'[sess[q]]) \in Nat
  BY HistoriesGrow
<1>3. ordinal[q] # 0 => ordinal[q] <= Len(events'[sess[q]]) + 1
  BY <1>1, <1>2 DEF CallInv
<1>4. QED
  BY <1>1, <1>3 DEF CallInv

\* The step of a call before it has numbered its invocation.
LEMMA EarlyCallInv ==
    ASSUME RunnerInv, NEW r \in Runs,
           \/ \E id \in SessionId : Call(r, id)
           \/ GetSession(r, "get", "getAgain")
           \/ GetSession(r, "getAgain", "create")
           \/ CreateSession(r)
           \/ CreateFails(r)
    PROVE  CallInv(r)'
<1> USE DEF Goto, Replying, Unnumbered, Numbered
<1>1. CallInv(r) /\ RunnerTypeOK /\ Lookup(target[r]) \in Objects \cup {NoObject}
  BY LookupType DEF RunnerInv
<1>2. ASSUME NEW id \in SessionId, Call(r, id)
      PROVE  CallInv(r)'
  BY <1>1, <1>2 DEF Call, CallInv, RunnerTypeOK
<1>3. ASSUME GetSession(r, "get", "getAgain") \/ GetSession(r, "getAgain", "create")
      PROVE  CallInv(r)'
  BY <1>1, <1>3 DEF GetSession, CallInv, RunnerTypeOK, svcVars
<1>4. ASSUME CreateSession(r)
      PROVE  CallInv(r)'
  <2>1. target[r] \in SessionId /\ sessionKey(target[r]) \in Keys
    BY <1>1, KeyType DEF RunnerTypeOK
  <2>2. sess'[r] \in Objects
    BY <1>1, <1>4, <2>1 DEF CreateSession, Create, RunnerTypeOK, TypeOK
  <2>3. /\ pc[r] = "create" /\ pc'[r] = "count" /\ ordinal'[r] = ordinal[r]
        /\ replies' = replies /\ result' = result
    BY <1>1, <1>4 DEF CreateSession, RunnerTypeOK
  <2>4. QED
    BY <1>1, <2>2, <2>3 DEF CallInv
<1>5. ASSUME CreateFails(r)
      PROVE  CallInv(r)'
  BY <1>1, <1>5 DEF CreateFails, CallInv, RunnerTypeOK, svcVars
<1>6. QED
  BY <1>2, <1>3, <1>4, <1>5

\* The steps from the count to the agent's answer.
LEMMA MiddleCallInv ==
    ASSUME RunnerInv, [RunnerNext]_vars, NEW r \in Runs,
           \/ CountEvents(r)
           \/ AppendUserBegin(r)
           \/ AppendUserEnd(r)
           \/ Route(r)
           \/ AgentReturns(r)
           \/ AgentFails(r)
    PROVE  CallInv(r)'
<1> USE DEF Goto, Replying, Unnumbered, Numbered
<1>1. CallInv(r) /\ RunnerTypeOK /\ ordinal[r] \in Nat
  BY InputsAreEvents DEF RunnerInv, RunnerTypeOK
<1>2. sess[r] \in Objects => Len(events[sess[r]]) <= Len(events'[sess[r]])
                             /\ Len(events[sess[r]]) \in Nat
                             /\ Len(events'[sess[r]]) \in Nat
  BY HistoriesGrow
<1>3. ordinal[r] # 0 => ordinal[r] <= Len(events'[sess[r]]) + 1
  BY <1>1, <1>2 DEF CallInv
<1>4. ASSUME CountEvents(r)
      PROVE  CallInv(r)'
  <2>1. /\ pc[r] = "count" /\ pc'[r] = "user" /\ sess'[r] = sess[r]
        /\ replies'[r] = replies[r] /\ result'[r] = result[r] /\ events' = events
        /\ ordinal'[r] = Len(events[sess[r]]) + 1
    BY <1>1, <1>4 DEF CountEvents, svcVars, RunnerTypeOK
  <2>2. replies[r] = <<>> /\ sess[r] \in Objects /\ result[r] = "none"
    BY <1>1, <2>1 DEF CallInv
  <2>3. ordinal'[r] # 0 /\ ordinal'[r] <= Len(events'[sess'[r]]) + 1
    BY <1>2, <2>1, <2>2
  <2>4. QED
    BY <2>1, <2>2, <2>3 DEF CallInv
<1>5. ASSUME AppendUserBegin(r) \/ AppendUserEnd(r) \/ Route(r)
      PROVE  CallInv(r)'
  <2>1. /\ pc[r] \in {"user", "userAppend", "route"}
        /\ pc'[r] \in {"userAppend", "route", "execute"}
        /\ UNCHANGED <<sess, ordinal, replies, at, result>>
    BY <1>1, <1>5 DEF AppendUserBegin, AppendUserEnd, Route, RunnerTypeOK
  <2>2. QED
    BY <1>1, <1>3, <2>1 DEF CallInv
<1>6. ASSUME AgentReturns(r)
      PROVE  CallInv(r)'
  <2>1. /\ pc[r] = "execute" /\ pc'[r] = "persist"
        /\ UNCHANGED <<sess, ordinal, at, result>>
    BY <1>1, <1>6 DEF AgentReturns, RunnerTypeOK
  <2>2. PICK shape \in Shapes, author \in ReplyAuthors :
              replies' = [replies EXCEPT ![r] = RepliesOf(r, shape, author)]
    BY <1>6 DEF AgentReturns
  <2>3. replies'[r] = RepliesOf(r, shape, author)
    BY <1>1, <2>2 DEF RunnerTypeOK
  <2>4. ordinal[r] # 0
    BY <1>1, <2>1 DEF CallInv
  <2>5. \A k \in DOMAIN replies'[r] :
          /\ replies'[r][k].tag \in Tag
          /\ replies'[r][k].tag.run = r
          /\ replies'[r][k].tag.inv = ordinal[r]
    BY <1>1, <2>3, <2>4, RepliesType
  <2>6. QED
    BY <1>1, <1>3, <2>1, <2>5 DEF CallInv
<1>7. ASSUME AgentFails(r)
      PROVE  CallInv(r)'
  <2>1. /\ pc[r] = "execute" /\ pc'[r] = "done"
        /\ UNCHANGED <<sess, ordinal, at, replies>>
    BY <1>1, <1>7 DEF AgentFails, RunnerTypeOK
  <2>2. QED
    BY <1>1, <1>3, <2>1 DEF CallInv
<1>8. QED
  BY <1>4, <1>5, <1>6, <1>7

\* The steps of the persisting loop.
LEMMA LateCallInv ==
    ASSUME RunnerInv, [RunnerNext]_vars, NEW r \in Runs,
           \/ SkipPartial(r)
           \/ PersistBegin(r)
           \/ PersistTrim(r)
           \/ PersistEnd(r)
           \/ Return(r)
    PROVE  CallInv(r)'
<1> USE DEF Goto, Replying, Unnumbered, Numbered
<1>1. CallInv(r) /\ RunnerTypeOK /\ ordinal[r] \in Nat
  BY InputsAreEvents DEF RunnerInv, RunnerTypeOK
<1>2. sess[r] \in Objects => Len(events[sess[r]]) <= Len(events'[sess[r]])
                             /\ Len(events[sess[r]]) \in Nat
                             /\ Len(events'[sess[r]]) \in Nat
  BY HistoriesGrow
<1>3. ordinal[r] # 0 => ordinal[r] <= Len(events'[sess[r]]) + 1
  BY <1>1, <1>2 DEF CallInv
<1>4. ASSUME SkipPartial(r) \/ PersistEnd(r) \/ Return(r)
      PROVE  CallInv(r)'
  <2>1. /\ pc[r] \in {"persist", "persistAppend"} /\ pc'[r] \in {"persist", "done"}
        /\ pc'[r] # "done" => result'[r] = result[r]
        /\ UNCHANGED <<sess, ordinal, replies>>
    BY <1>1, <1>4 DEF SkipPartial, PersistEnd, Return, RunnerTypeOK
  <2>2. QED
    BY <1>1, <1>3, <2>1 DEF CallInv
<1>5. ASSUME PersistBegin(r)
      PROVE  CallInv(r)'
  <2>1. /\ pc[r] = "persist" /\ pc'[r] = "persistAppend" /\ at[r] <= Len(replies[r])
        /\ UNCHANGED <<sess, ordinal, replies, at, result>>
    BY <1>1, <1>5 DEF PersistBegin, RunnerTypeOK
  <2>2. QED
    BY <1>1, <1>3, <2>1 DEF CallInv
<1>6. ASSUME PersistTrim(r)
      PROVE  CallInv(r)'
  <2>1. /\ pc[r] = "persistAppend" /\ pc' = pc
        /\ UNCHANGED <<sess, ordinal, at, result>>
    BY <1>6 DEF PersistTrim
  <2>2. replies[r] \in Seq(Event) /\ at[r] \in 1 .. Len(replies[r])
    BY <1>1, <2>1 DEF CallInv, RunnerTypeOK
  <2>3. replies'[r] = [replies[r] EXCEPT ![at[r]] =
                          [replies[r][at[r]] EXCEPT !.delta = TrimTemp(@)]]
    BY <1>1, <1>6 DEF PersistTrim, RunnerTypeOK
  <2>4. replies[r][at[r]] \in Event
    BY <2>2
  <2>5. /\ DOMAIN replies'[r] = DOMAIN replies[r]
        /\ Len(replies'[r]) = Len(replies[r])
    BY <2>2, <2>3
  <2>6. \A k \in DOMAIN replies[r] : replies'[r][k].tag = replies[r][k].tag
    BY <2>2, <2>3, <2>4 DEF Event
  <2>7. QED
    BY <1>1, <1>3, <2>1, <2>5, <2>6 DEF CallInv
<1>7. QED
  BY <1>4, <1>5, <1>6

LEMMA NextCallInv ==
    ASSUME RunnerInv, [RunnerNext]_vars, NEW q \in Runs
    PROVE  CallInv(q)'
<1>1. CASE UNCHANGED vars
  BY <1>1, OtherCallInv DEF vars, runVars
<1>2. ASSUME NEW r \in Runs, Step(r) \/ (\E id \in SessionId : Call(r, id))
      PROVE  CallInv(q)'
  <2>1. CASE q = r
    BY <1>2, <2>1, EarlyCallInv, MiddleCallInv, LateCallInv DEF Step
  <2>2. CASE q # r
    <3>1. /\ pc'[q] = pc[q] /\ ordinal'[q] = ordinal[q] /\ sess'[q] = sess[q]
          /\ replies'[q] = replies[q] /\ at'[q] = at[q] /\ result'[q] = result[q]
      BY <1>2, <2>2
         DEF Goto, Step, Call, GetSession, CreateSession, CreateFails, CountEvents,
             AppendUserBegin, AppendUserEnd, Route, AgentReturns, AgentFails,
             SkipPartial, PersistBegin, PersistTrim, PersistEnd, Return,
             RunnerInv, RunnerTypeOK
    <3>2. QED
      BY <3>1, OtherCallInv
  <2>3. QED
    BY <2>1, <2>2
<1>3. ASSUME NEW r \in Runs, NEW w \in Writes,
             AgentSets(r, w[1], w[2]) \/ AgentDeletes(r, w[1])
      PROVE  CallInv(q)'
  BY <1>3, OtherCallInv DEF AgentSets, AgentDeletes
<1>4. QED
  BY <1>1, <1>2, <1>3 DEF RunnerNext, AllReturned

-----------------------------------------------------------------------------
(* The theorems.                                                           *)

LEMMA InitRunnerInv == RunnerInit => RunnerInv
<1> SUFFICES ASSUME RunnerInit PROVE RunnerInv
  OBVIOUS
<1>1. MaxEvents \in Nat
  BY InputsAreEvents
<1>2. HistoryBounded /\ HistoryInv /\ PendingInv
  BY <1>1 DEF RunnerInit, Init, HistoryBounded, HistoryInv, PendingInv
<1>3. ASSUME NEW r \in Runs
      PROVE  CallInv(r)
  BY DEF RunnerInit, CallInv, Unnumbered, Numbered, Replying
<1>4. QED
  BY <1>2, <1>3, InitRunnerTypeOK DEF RunnerInv

LEMMA NextRunnerInv == RunnerInv /\ [RunnerNext]_vars => RunnerInv'
<1> SUFFICES ASSUME RunnerInv, [RunnerNext]_vars PROVE RunnerInv'
  OBVIOUS
<1>1. RunnerTypeOK'
  BY NextRunnerTypeOK
<1>2. HistoriesInv'
  BY NextHistories
<1>3. \A q \in Runs : CallInv(q)'
  BY NextCallInv
<1>4. QED
  BY <1>1, <1>2, <1>3 DEF RunnerInv, HistoriesInv

\* The inductive invariant holds of every behaviour of the runner.
THEOREM RunnerInvariant == RunnerSpec => []RunnerInv
<1>1. QED
  BY InitRunnerInv, NextRunnerInv, PTL DEF RunnerSpec

\* Calls, handles, histories and the lock of the service keep their types,
\* whatever the number of concurrent calls (runner.go:124).
THEOREM RunnerTypeCorrect == RunnerSpec => []RunnerTypeOK
<1>1. RunnerInv => RunnerTypeOK
  BY DEF RunnerInv
<1>2. QED
  BY <1>1, RunnerInvariant, PTL

\* A call that numbers its invocation finds the number on no event that is there
\* already (runner.go:133).
THEOREM InvocationsAreFresh == RunnerSpec => FreshInvocation
<1> DEFINE Fresh == \A r \in Runs : ordinal'[r] # ordinal[r] =>
                        \A i \in DOMAIN events[sess[r]] :
                            events[sess[r]][i].tag.inv # ordinal'[r]
<1>1. RunnerInv /\ [RunnerNext]_vars => [Fresh]_vars
  <2> SUFFICES ASSUME RunnerInv, [RunnerNext]_vars,
                      NEW r \in Runs, ordinal'[r] # ordinal[r],
                      NEW i \in DOMAIN events[sess[r]]
               PROVE  events[sess[r]][i].tag.inv # ordinal'[r]
    OBVIOUS
  <2>1. CountEvents(r)
    BY DEF RunnerNext, AllReturned, Step, vars, runVars, Call, AgentSets, AgentDeletes,
       GetSession, CreateSession, CreateFails, CountEvents, AppendUserBegin,
       AppendUserEnd, Route, AgentReturns, AgentFails, SkipPartial, PersistBegin,
       PersistTrim, PersistEnd, Return, RunnerInv, RunnerTypeOK
  <2>2. sess[r] \in Objects
    BY <2>1 DEF CountEvents, Goto, RunnerInv, CallInv
  <2>3. events[sess[r]] \in Seq(Event)
    BY <2>2 DEF RunnerInv, RunnerTypeOK, TypeOK
  <2>4. ordinal'[r] = Len(events[sess[r]]) + 1
    BY <2>1 DEF CountEvents, RunnerInv, RunnerTypeOK
  <2>5. EventInv(events[sess[r]][i], i)
    BY <2>2 DEF RunnerInv, HistoryInv
  <2>6. events[sess[r]][i].tag.inv \in Nat /\ events[sess[r]][i].tag.inv <= i
    BY <2>5, InputsAreEvents DEF EventInv, Tag
  <2>7. QED
    BY <2>3, <2>4, <2>6
<1>2. QED
  BY <1>1, RunnerInvariant, PTL DEF RunnerSpec, FreshInvocation

\* A call whose agent failed has put no part of an answer into any history
\* (runner.go:172).
THEOREM FailuresLeaveNoReply == RunnerSpec => []FailedCallLeavesNoReply
<1>1. RunnerInv => FailedCallLeavesNoReply
  BY DEF RunnerInv, HistoryInv, EventInv, FailedCallLeavesNoReply
<1>2. QED
  BY <1>1, RunnerInvariant, PTL

-----------------------------------------------------------------------------
(* What the calls have put into the histories, and where.                  *)

Appending == {"userAppend", "persistAppend"}
Asked == {"route", "execute", "persist", "persistAppend"}

\* No session is lost: each is still stored under its own id.
SessionsKept == \A o \in alloc : Lookup(owner[o]) = o

\* A call's handle is of the session stored under its target, and it routes
\* only once it holds one.
HandleInv(r) ==
    /\ pc[r] = "idle" => sess[r] = NoObject
    /\ sess[r] # NoObject => sess[r] = Lookup(target[r])
    /\ pc[r] \in Unnumbered => agent[r] = Root
    /\ agent[r] # Root => sess[r] \in Objects

\* The append in progress is the one that a call waits for.
AppendOf(r) ==
    /\ pending # NoAppend
    /\ pending.obj = sess[r]
    /\ ~pending.ev.partial
    /\ pending.ev.tag.run = r
    /\ pc[r] = "userAppend" => pending.ev.tag.seq = 0 /\ pending.ev.author = User
    /\ pc[r] = "persistAppend" => pending.ev = replies[r][at[r]]

AppendInv ==
    /\ \A r \in Runs : pc[r] \in Appending => AppendOf(r)
    /\ pending # NoAppend => pc[pending.ev.tag.run] \in Appending

\* The place in its invocation of the next event that a call appends at a step, with
\* the index k of its loop.
NextSeq(step, k) ==
    CASE step \in Unnumbered \cup {"user", "userAppend"} -> 0
      [] step \in {"route", "execute"} -> 1
      [] OTHER -> k

\* All events of a call come before the next one.
PlacesInv ==
    \A o \in Objects : \A i \in DOMAIN events[o] :
        /\ ~events[o][i].partial
        /\ LET r == events[o][i].tag.run
           IN events[o][i].tag.seq < NextSeq(pc[r], at[r])

\* The message of a call and the finished events before `at` are in the history
\* of its session.
ProgressInv(r) ==
    /\ pc[r] \notin Replying => at[r] = 1
    /\ \A k \in DOMAIN replies[r] : replies[r][k].tag.seq = k
    /\ pc[r] \in Asked =>
        \E i \in DOMAIN events[sess[r]] :
            events[sess[r]][i].tag.run = r /\ events[sess[r]][i].author = User
    /\ \A k \in DOMAIN replies[r] : k < at[r] /\ ~replies[r][k].partial =>
        \E i \in DOMAIN events[sess[r]] : events[sess[r]][i] = replies[r][k]
    /\ result[r] = "ok" => pc[r] = "done" /\ at[r] > Len(replies[r])

\* InvocationOrder of one event.
OrderAt(history, j) ==
    LET ev == history[j] IN
    /\ \A i \in 1 .. (j - 1) :
            history[i].tag.run = ev.tag.run => history[i].tag.seq < ev.tag.seq
    /\ ev.tag.seq > 0 => \E i \in 1 .. (j - 1) :
            history[i].tag.run = ev.tag.run /\ history[i].author = User

OrderInv ==
    /\ RunnerInv
    /\ SessionsKept
    /\ \A r \in Runs : HandleInv(r) /\ ProgressInv(r)
    /\ AppendInv
    /\ PlacesInv
    /\ InvocationOrder

-----------------------------------------------------------------------------
(* What the steps leave alone.                                             *)

\* A step of one call, or a write of its agent.
MoveOf(r) ==
    \/ \E id \in SessionId : Call(r, id)
    \/ \E w \in Writes : AgentSets(r, w[1], w[2])
    \/ \E w \in Writes : AgentDeletes(r, w[1])
    \/ Step(r)

LEMMA OthersStay ==
    ASSUME RunnerTypeOK, NEW r \in Runs, MoveOf(r), NEW q \in Runs, q # r
    PROVE  /\ pc'[q] = pc[q] /\ target'[q] = target[q] /\ sess'[q] = sess[q]
           /\ agent'[q] = agent[q] /\ replies'[q] = replies[q]
           /\ at'[q] = at[q] /\ result'[q] = result[q]
BY DEF MoveOf, Goto, Step, Call, AgentSets, AgentDeletes, GetSession, CreateSession,
       CreateFails, CountEvents, AppendUserBegin, AppendUserEnd, Route, AgentReturns,
       AgentFails, SkipPartial, PersistBegin, PersistTrim, PersistEnd, Return, RunnerTypeOK

\* Creations are the only steps that change what is stored where.
LEMMA StoredStays ==
    ASSUME [RunnerNext]_vars, \A r \in Runs : ~CreateSession(r)
    PROVE  UNCHANGED <<sessions, alloc, owner>>
BY DEF RunnerNext, AllReturned, Step, vars, svcVars, Call, AgentSets, AgentDeletes,
       SetState, DeleteState, GetSession, CreateFails, CountEvents,
       AppendUserBegin, AppendUserEnd, AppendBegin, AppendRecord, Route, AgentReturns,
       AgentFails, SkipPartial, PersistBegin, PersistTrim, AppendTrim, PersistEnd, Return

LEMMA CreatedSession ==
    ASSUME RunnerTypeOK, SessionsKept, NEW r \in Runs, CreateSession(r)
    PROVE  \E o \in Objects \ alloc :
              /\ Lookup(target[r]) = NoObject /\ Lookup(target[r])' = o
              /\ sess' = [sess EXCEPT ![r] = o]
              /\ alloc' = alloc \cup {o}
              /\ owner' = [owner EXCEPT ![o] = target[r]]
              /\ \A id \in SessionId : Lookup(id) # NoObject => Lookup(id)' = Lookup(id)
              /\ target' = target
<1>1. PICK o \in Objects \ alloc :
        /\ alloc' = alloc \cup {o}
        /\ owner' = [owner EXCEPT ![o] = target[r]]
        /\ sessions' = [sessions EXCEPT ![sessionKey(target[r])] = o]
  BY DEF CreateSession, Create
<1>2. /\ Lookup(target[r]) = NoObject /\ target' = target
      /\ sess' = [sess EXCEPT ![r] = sessions'[sessionKey(target[r])]]
  BY DEF CreateSession, Create
<1>3. target[r] \in SessionId /\ sessions \in [Keys -> Objects \cup {NoObject}]
  BY DEF RunnerTypeOK, TypeOK
<1>4. sessions'[sessionKey(target[r])] = o
  BY <1>1, <1>3, KeyType
<1>5. ASSUME NEW id \in SessionId, Lookup(id) # NoObject
      PROVE  sessions'[sessionKey(id)] = sessions[sessionKey(id)]
  <2>1. sessionKey(id) # sessionKey(target[r])
    BY <1>2, <1>5 DEF Lookup
  <2>2. QED
    BY <1>1, <1>3, <2>1, KeyType
<1>6. QED
  BY <1>1, <1>2, <1>4, <1>5 DEF Lookup

\* Whatever is stored under an id stays there.
LEMMA LookupStays ==
    ASSUME RunnerTypeOK, SessionsKept, [RunnerNext]_vars,
           NEW id \in SessionId, Lookup(id) # NoObject
    PROVE  Lookup(id)' = Lookup(id)
<1>1. CASE \E r \in Runs : CreateSession(r)
  BY <1>1, CreatedSession
<1>2. CASE \A r \in Runs : ~CreateSession(r)
  BY <1>2, StoredStays DEF Lookup
<1>3. QED
  BY <1>1, <1>2

\* Histories keep what they have, and grow by the append in progress.
LEMMA HistoriesKeep ==
    ASSUME RunnerInv, [RunnerNext]_vars, NEW o \in Objects
    PROVE  /\ events[o] \in Seq(Event) /\ events'[o] \in Seq(Event)
           /\ \A i \in DOMAIN events[o] :
                i \in DOMAIN events'[o] /\ events'[o][i] = events[o][i]
           /\ \A i \in DOMAIN events'[o] : i \notin DOMAIN events[o] =>
                /\ AppendRecord /\ o = pending.obj /\ events'[o][i] = pending.ev
                /\ i = Len(events[o]) + 1
<1>1. events[o] \in Seq(Event)
  BY DEF RunnerInv, RunnerTypeOK, TypeOK
<1>2. CASE AppendRecord
  <2>1. pending.obj \in Objects /\ pending.ev \in Event
    BY <1>2, PendingFields DEF RunnerInv, RunnerTypeOK, AppendRecord
  <2>2. CASE o = pending.obj
    <3>1. events'[o] = Append(events[o], pending.ev)
      BY <1>2, <2>1, <2>2 DEF AppendRecord, RunnerInv, RunnerTypeOK, TypeOK
    <3>2. QED
      BY <1>1, <1>2, <2>1, <2>2, <3>1
  <2>3. CASE o # pending.obj
    <3>1. events'[o] = events[o]
      BY <1>2, <2>3 DEF AppendRecord, RunnerInv, RunnerTypeOK, TypeOK
    <3>2. QED
      BY <1>1, <3>1
  <2>4. QED
    BY <2>2, <2>3
<1>3. CASE events' = events
  BY <1>1, <1>3
<1>4. AppendRecord \/ events' = events
  BY DEF RunnerNext, AllReturned, Step, vars, svcVars, Call, AgentSets, AgentDeletes,
     SetState, DeleteState, GetSession, CreateSession, Create, CreateFails, CountEvents,
     AppendUserBegin, AppendUserEnd, AppendBegin, Route, AgentReturns, AgentFails,
     SkipPartial, PersistBegin, PersistTrim, AppendTrim, PersistEnd, Return
<1>5. QED
  BY <1>2, <1>3, <1>4

-----------------------------------------------------------------------------
(* Sessions and handles.                                                   *)

LEMMA NextSessionsKept ==
    ASSUME RunnerTypeOK, SessionsKept, [RunnerNext]_vars
    PROVE  SessionsKept'
<1>1. alloc \subseteq Objects /\ owner \in [Objects -> SessionId]
      /\ target \in [Runs -> SessionId]
  BY DEF RunnerTypeOK, TypeOK
<1>2. CASE \A r \in Runs : ~CreateSession(r)
  BY <1>2, StoredStays DEF SessionsKept, Lookup
<1>3. ASSUME NEW r \in Runs, CreateSession(r)
      PROVE  SessionsKept'
  <2>1. PICK o \in Objects \ alloc :
          /\ Lookup(target[r])' = o
          /\ alloc' = alloc \cup {o}
          /\ owner' = [owner EXCEPT ![o] = target[r]]
          /\ \A id \in SessionId : Lookup(id) # NoObject => Lookup(id)' = Lookup(id)
          /\ target' = target
    BY <1>3, CreatedSession
  <2>2. sessions'[sessionKey(target[r])] = o
    BY <2>1 DEF Lookup
  <2>3. ASSUME NEW p \in alloc'
        PROVE  sessions'[sessionKey(owner'[p])] = p
    <3>1. CASE p = o
      BY <1>1, <2>1, <2>2, <3>1
    <3>2. CASE p \in alloc
      <4>1. owner'[p] = owner[p] /\ owner[p] \in SessionId /\ p # NoObject
        BY <1>1, <2>1, <3>2, NilsDistinct
      <4>2. Lookup(owner[p]) = p
        BY <3>2 DEF SessionsKept
      <4>3. Lookup(owner[p])' = sessions'[sessionKey(owner'[p])]
        BY <4>1 DEF Lookup
      <4>4. sessions'[sessionKey(owner[p])] = sessions[sessionKey(owner[p])]
        BY <2>1, <4>1, <4>2 DEF Lookup
      <4>5. QED
        BY <4>1, <4>2, <4>4 DEF Lookup
    <3>3. QED
      BY <2>1, <3>1, <3>2
  <2>4. QED
    BY <2>3 DEF SessionsKept, Lookup
<1>4. QED
  BY <1>2, <1>3

LEMMA NextHandle ==
    ASSUME RunnerInv, SessionsKept, \A r \in Runs : HandleInv(r),
           [RunnerNext]_vars, NEW q \in Runs
    PROVE  HandleInv(q)'
<1>0. /\ HandleInv(q) /\ target[q] \in SessionId
      /\ pc \in [Runs -> Steps] /\ sess \in [Runs -> Objects \cup {NoObject}]
      /\ target \in [Runs -> SessionId] /\ agent \in [Runs -> Agents]
  BY DEF RunnerInv, RunnerTypeOK
<1>1. ASSUME sess'[q] = sess[q], target'[q] = target[q], agent'[q] = agent[q],
             pc'[q] \in Unnumbered => pc[q] \in Unnumbered,
             pc'[q] = "idle" => pc[q] = "idle"
      PROVE  HandleInv(q)'
  <2>1. sess[q] # NoObject => sessions'[sessionKey(target[q])] = sess[q]
    BY <1>0, LookupStays DEF HandleInv, Lookup, RunnerInv
  <2>2. QED
    BY <1>0, <1>1, <2>1 DEF HandleInv, Lookup
<1>2. CASE UNCHANGED vars
  BY <1>1, <1>2 DEF vars, runVars
<1>3. ASSUME NEW r \in Runs, MoveOf(r)
      PROVE  HandleInv(q)'
  <2>1. CASE r # q
    BY <1>1, <1>3, <2>1, OthersStay DEF RunnerInv
  <2>2. ASSUME r = q, \E id \in SessionId : Call(q, id)
        PROVE  HandleInv(q)'
    BY <1>0, <2>2 DEF Call, Goto, HandleInv, Unnumbered
  <2>3. ASSUME r = q, GetSession(q, "get", "getAgain") \/ GetSession(q, "getAgain", "create")
        PROVE  HandleInv(q)'
    BY <1>0, <2>3 DEF GetSession, Goto, HandleInv, Unnumbered, Lookup, svcVars
  <2>4. ASSUME r = q, CreateSession(q)
        PROVE  HandleInv(q)'
    <3>1. PICK o \in Objects \ alloc :
            /\ Lookup(target[q])' = o /\ target' = target
            /\ sess' = [sess EXCEPT ![q] = o]
      BY <2>4, CreatedSession DEF RunnerInv
    <3>2. pc'[q] = "count" /\ pc[q] = "create" /\ agent' = agent
      BY <1>0, <2>4 DEF CreateSession, Goto
    <3>3. sess'[q] = o
      BY <1>0, <3>1
    <3>4. sess'[q] = Lookup(target[q])'
      BY <3>1, <3>3
    <3>5. QED
      BY <1>0, <3>1, <3>2, <3>4 DEF HandleInv, Unnumbered, Lookup
  <2>5. ASSUME r = q, Route(q)
        PROVE  HandleInv(q)'
    <3>1. pc[q] = "route" /\ pc'[q] = "execute" /\ UNCHANGED <<svcVars, target, sess>>
      BY <1>0, <2>5 DEF Route, Goto
    <3>2. sess[q] \in Objects
      BY <3>1, HoldsSession DEF Numbered
    <3>3. QED
      BY <1>0, <3>1, <3>2 DEF HandleInv, Unnumbered, Lookup, svcVars
  <2>6. ASSUME r = q,
               \/ CreateFails(q) \/ CountEvents(q) \/ AppendUserBegin(q) \/ AppendUserEnd(q)
               \/ AgentReturns(q) \/ AgentFails(q) \/ SkipPartial(q) \/ PersistBegin(q)
               \/ PersistTrim(q) \/ PersistEnd(q) \/ Return(q)
               \/ \E w \in Writes : AgentSets(q, w[1], w[2]) \/ AgentDeletes(q, w[1])
        PROVE  HandleInv(q)'
    <3>1. /\ sess' = sess /\ target' = target /\ agent' = agent
          /\ pc'[q] \in Unnumbered => pc[q] \in Unnumbered
          /\ pc'[q] = "idle" => pc[q] = "idle"
      BY <1>0, <2>6
         DEF Goto, Unnumbered, AgentSets, AgentDeletes, CreateFails, CountEvents,
             AppendUserBegin, AppendUserEnd, AgentReturns, AgentFails, SkipPartial,
             PersistBegin, PersistTrim, PersistEnd, Return
    <3>2. QED
      BY <1>1, <3>1
  <2>7. QED
    BY <1>3, <2>1, <2>2, <2>3, <2>4, <2>5, <2>6 DEF MoveOf, Step
<1>4. QED
  BY <1>2, <1>3 DEF RunnerNext, AllReturned, MoveOf

-----------------------------------------------------------------------------
(* The append in progress.                                                 *)

\* What a step does to the append in progress: nothing, begin, trim or end it.
LEMMA AppendMoves ==
    ASSUME RunnerTypeOK, NEW r \in Runs, MoveOf(r)
    PROVE  \/ /\ pending' = pending /\ pc[r] \notin Appending /\ pc'[r] \notin Appending
              /\ events' = events
           \/ AppendUserBegin(r) \/ PersistBegin(r)
           \/ PersistTrim(r)
           \/ AppendUserEnd(r) \/ PersistEnd(r)
<1>1. pc \in [Runs -> Steps]
  BY DEF RunnerTypeOK
<1>2. ASSUME \/ \E id \in SessionId : Call(r, id)
             \/ \E w \in Writes : AgentSets(r, w[1], w[2]) \/ AgentDeletes(r, w[1])
             \/ GetSession(r, "get", "getAgain")
             \/ GetSession(r, "getAgain", "create")
             \/ CreateSession(r) \/ CreateFails(r) \/ CountEvents(r) \/ Route(r)
             \/ AgentReturns(r) \/ AgentFails(r) \/ SkipPartial(r) \/ Return(r)
      PROVE  /\ pending' = pending /\ pc[r] \notin Appending /\ pc'[r] \notin Appending
             /\ events' = events
  BY <1>1, <1>2
     DEF Call, AgentSets, AgentDeletes, SetState, DeleteState, GetSession, CreateSession,
         Create, CreateFails, CountEvents, Route, AgentReturns, AgentFails, SkipPartial,
         Return, Goto, svcVars, Appending
<1>3. QED
  BY <1>2 DEF MoveOf, Step

LEMMA BegunAppend ==
    ASSUME NEW o \in Objects, NEW ev \in Event, AppendBegin(o, ev)
    PROVE  /\ pending = NoAppend /\ pending' # NoAppend /\ ~ev.partial
           /\ pending'.obj = o /\ pending'.ev = ev /\ events' = events
BY NilsDistinct DEF AppendBegin

LEMMA NextAppend ==
    ASSUME RunnerInv, AppendInv, \A r \in Runs : ProgressInv(r), [RunnerNext]_vars
    PROVE  AppendInv'
<1>0. /\ RunnerTypeOK /\ pc \in [Runs -> Steps] /\ at \in [Runs -> Nat \ {0}]
      /\ replies \in [Runs -> Seq(Event)]
  BY DEF RunnerInv, RunnerTypeOK
<1>1. CASE UNCHANGED vars
  BY <1>1 DEF vars, runVars, svcVars, AppendInv, AppendOf
<1>2. ASSUME NEW r \in Runs, MoveOf(r)
      PROVE  AppendInv'
  <2>1. \A q \in Runs : q # r => /\ pc'[q] = pc[q] /\ sess'[q] = sess[q]
                                  /\ replies'[q] = replies[q] /\ at'[q] = at[q]
    BY <1>0, <1>2, OthersStay
  <2>2. CASE pending' = pending /\ pc[r] \notin Appending /\ pc'[r] \notin Appending
    <3>1. ASSUME NEW q \in Runs, pc'[q] \in Appending
          PROVE  AppendOf(q)'
      BY <2>1, <2>2, <3>1 DEF AppendInv, AppendOf
    <3>2. ASSUME pending' # NoAppend
          PROVE  pc'[pending'.ev.tag.run] \in Appending
      <4>1. pending.ev.tag.run \in Runs
        BY <2>2, <3>2 DEF RunnerInv, PendingInv, EventInv, Tag
      <4>2. QED
        BY <2>1, <2>2, <3>2, <4>1 DEF AppendInv
    <3>3. QED
      BY <3>1, <3>2 DEF AppendInv
  <2>3. CASE AppendUserBegin(r)
    <3>0. sess[r] \in Objects /\ UserEvent(r) \in Event
      BY <1>0, <2>3, HoldsSession, UserEventType DEF AppendUserBegin, Goto, Numbered
    <3>1. /\ pending = NoAppend /\ pending' # NoAppend
          /\ pending'.obj = sess[r] /\ pending'.ev = UserEvent(r)
          /\ pc'[r] = "userAppend" /\ sess' = sess
      <4>1. AppendBegin(sess[r], UserEvent(r)) /\ pc'[r] = "userAppend" /\ sess' = sess
        BY <1>0, <2>3 DEF AppendUserBegin, Goto
      <4>2. QED
        BY <3>0, <4>1, BegunAppend
    <3>2. /\ UserEvent(r).tag.run = r /\ UserEvent(r).tag.seq = 0
          /\ UserEvent(r).author = User /\ ~UserEvent(r).partial
      BY DEF UserEvent
    <3>3. \A q \in Runs : pc'[q] \in Appending => q = r
      BY <2>1, <3>1 DEF AppendInv, AppendOf
    <3>4. AppendOf(r)'
      BY <3>1, <3>2 DEF AppendOf
    <3>5. QED
      BY <3>1, <3>2, <3>3, <3>4 DEF AppendInv, Appending
  <2>4. CASE PersistBegin(r)
    <3>0. /\ sess[r] \in Objects /\ replies[r][at[r]] \in Event
          /\ at[r] \in DOMAIN replies[r]
      BY <1>0, <2>4, HoldsSession DEF PersistBegin, Goto, Numbered
    <3>1. /\ pending = NoAppend /\ pending' # NoAppend
          /\ pending'.obj = sess[r] /\ pending'.ev = replies[r][at[r]]
          /\ ~replies[r][at[r]].partial /\ at[r] \in DOMAIN replies[r]
          /\ pc'[r] = "persistAppend" /\ sess' = sess /\ replies' = replies /\ at' = at
      <4>1. /\ AppendBegin(sess[r], replies[r][at[r]]) /\ pc'[r] = "persistAppend"
            /\ sess' = sess /\ replies' = replies /\ at' = at
        BY <1>0, <2>4 DEF PersistBegin, Goto
      <4>2. QED
        BY <3>0, <4>1, BegunAppend
    <3>2. replies[r][at[r]].tag.run = r
      BY <3>1 DEF RunnerInv, CallInv
    <3>3. \A q \in Runs : pc'[q] \in Appending => q = r
      BY <2>1, <3>1 DEF AppendInv, AppendOf
    <3>4. AppendOf(r)'
      BY <3>1, <3>2 DEF AppendOf
    <3>5. QED
      BY <3>1, <3>2, <3>3, <3>4 DEF AppendInv, Appending
  <2>5. CASE PersistTrim(r)
    <3>1. /\ pc[r] = "persistAppend" /\ pc' = pc /\ sess' = sess /\ at' = at
          /\ AppendTrim
      BY <2>5 DEF PersistTrim
    <3>2. AppendOf(r) /\ pending \in Pending /\ pending.ev \in Event
      BY <1>0, <3>1, PendingFields DEF AppendInv, Appending, AppendTrim, RunnerTypeOK
    <3>3. at[r] \in DOMAIN replies[r] /\ replies[r] \in Seq(Event)
      BY <1>0, <3>1 DEF RunnerInv, CallInv
    <3>4. /\ pending' # NoAppend /\ pending'.obj = pending.obj
          /\ pending'.ev = [pending.ev EXCEPT !.delta = TrimTemp(@)]
          /\ pending'.ev.tag = pending.ev.tag /\ pending'.ev.partial = pending.ev.partial
      <4>1. [pending.ev EXCEPT !.delta = TrimTemp(@)] \in Event
        BY <3>2, EventFields, TrimTempType DEF Event
      <4>2. pending' = [pending EXCEPT !.ev = [pending.ev EXCEPT !.delta = TrimTemp(@)],
                                       !.phase = "trimmed"]
        BY <3>1, <3>2 DEF AppendTrim, Pending, Event
      <4>3. pending' \in Pending
        BY <3>2, <4>1, <4>2 DEF Pending
      <4>4. QED
        BY <3>2, <4>2, <4>3, NilsDistinct DEF Pending, Event
    <3>5. replies'[r][at[r]] = [replies[r][at[r]] EXCEPT !.delta = TrimTemp(@)]
      <4>1. replies'[r] = [replies[r] EXCEPT ![at[r]] =
                              [replies[r][at[r]] EXCEPT !.delta = TrimTemp(@)]]
        BY <1>0, <2>5 DEF PersistTrim
      <4>2. QED
        BY <3>3, <4>1
    <3>6. pending'.ev = replies'[r][at[r]]
      BY <3>1, <3>2, <3>4, <3>5 DEF AppendOf
    <3>7. AppendOf(r)'
      BY <3>1, <3>2, <3>4, <3>6 DEF AppendOf
    <3>8. \A q \in Runs : pc'[q] \in Appending => q = r
      BY <3>1, <3>2 DEF AppendInv, AppendOf
    <3>9. QED
      BY <3>1, <3>2, <3>4, <3>7, <3>8 DEF AppendInv, AppendOf, Appending
  <2>6. CASE AppendUserEnd(r) \/ PersistEnd(r)
    <3>1. pending' = NoAppend /\ pc[r] \in Appending /\ pc'[r] \notin Appending
      BY <1>0, <2>6 DEF AppendUserEnd, PersistEnd, AppendRecord, Goto, Appending
    <3>2. \A q \in Runs : pc[q] \in Appending => q = r
      BY <3>1 DEF AppendInv, AppendOf
    <3>3. \A q \in Runs : pc'[q] \notin Appending
      BY <2>1, <3>1, <3>2
    <3>4. QED
      BY <3>1, <3>3 DEF AppendInv
  <2>7. QED
    BY <1>0, <1>2, <2>2, <2>3, <2>4, <2>5, <2>6, AppendMoves
<1>3. QED
  BY <1>1, <1>2 DEF RunnerNext, AllReturned, MoveOf

-----------------------------------------------------------------------------
(* Places and progress.                                                    *)

\* The next place of a call never goes back.
LEMMA NextSeqGrows ==
    ASSUME RunnerInv, \A r \in Runs : ProgressInv(r), [RunnerNext]_vars, NEW q \in Runs
    PROVE  /\ NextSeq(pc[q], at[q]) \in Nat /\ NextSeq(pc'[q], at'[q]) \in Nat
           /\ NextSeq(pc[q], at[q]) <= NextSeq(pc'[q], at'[q])
<1>0. /\ pc \in [Runs -> Steps] /\ at \in [Runs -> Nat \ {0}]
      /\ pc[q] \notin Replying => at[q] = 1
  BY DEF RunnerInv, RunnerTypeOK, ProgressInv
<1>1. NextSeq(pc[q], at[q]) \in Nat
  BY <1>0 DEF NextSeq
<1>2. CASE pc'[q] = pc[q] /\ at'[q] = at[q]
  BY <1>1, <1>2 DEF NextSeq
<1>3. CASE UNCHANGED vars
  BY <1>2, <1>3 DEF vars, runVars
<1>4. ASSUME NEW r \in Runs, MoveOf(r)
      PROVE  /\ NextSeq(pc'[q], at'[q]) \in Nat
             /\ NextSeq(pc[q], at[q]) <= NextSeq(pc'[q], at'[q])
  <2>1. CASE r # q
    BY <1>2, <1>1, <1>4, <2>1, OthersStay DEF RunnerInv
  <2>2. CASE r = q
    <3>1. ASSUME \/ \E id \in SessionId : Call(r, id)
                 \/ \E w \in Writes : AgentSets(r, w[1], w[2]) \/ AgentDeletes(r, w[1])
                 \/ GetSession(r, "get", "getAgain")
                 \/ GetSession(r, "getAgain", "create")
                 \/ CreateSession(r) \/ CountEvents(r) \/ AppendUserBegin(r) \/ Route(r)
                 \/ PersistBegin(r) \/ PersistTrim(r)
          PROVE  /\ NextSeq(pc'[q], at'[q]) \in Nat
                 /\ NextSeq(pc[q], at[q]) <= NextSeq(pc'[q], at'[q])
      <4>1. /\ at' = at
            /\ \/ pc'[q] = pc[q]
               \/ {pc[q], pc'[q]} \subseteq Unnumbered \cup {"user", "userAppend"}
               \/ {pc[q], pc'[q]} \subseteq {"route", "execute"}
               \/ {pc[q], pc'[q]} \subseteq {"persist", "persistAppend"}
        BY <1>0, <2>2, <3>1
           DEF Call, AgentSets, AgentDeletes, GetSession, CreateSession, CountEvents,
               AppendUserBegin, Route, PersistBegin, PersistTrim, Goto, Unnumbered
      <4>2. QED
        BY <1>0, <4>1 DEF NextSeq, Unnumbered
    <3>2. ASSUME CreateFails(r) \/ AppendUserEnd(r)
          PROVE  /\ NextSeq(pc'[q], at'[q]) \in Nat
                 /\ NextSeq(pc[q], at[q]) <= NextSeq(pc'[q], at'[q])
      <4>1. /\ at' = at /\ pc[q] \in {"create", "userAppend"} /\ pc'[q] \in {"done", "route"}
        BY <1>0, <2>2, <3>2 DEF CreateFails, AppendUserEnd, Goto
      <4>2. QED
        BY <1>0, <4>1 DEF NextSeq, Unnumbered
    <3>3. ASSUME AgentReturns(r) \/ AgentFails(r)
          PROVE  /\ NextSeq(pc'[q], at'[q]) \in Nat
                 /\ NextSeq(pc[q], at[q]) <= NextSeq(pc'[q], at'[q])
      <4>1. /\ at' = at /\ pc[q] = "execute" /\ pc'[q] \in {"done", "persist"}
        BY <1>0, <2>2, <3>3 DEF AgentReturns, AgentFails, Goto
      <4>2. QED
        BY <1>0, <4>1 DEF NextSeq, Unnumbered, Replying
    <3>4. ASSUME SkipPartial(r) \/ PersistEnd(r) \/ Return(r)
          PROVE  /\ NextSeq(pc'[q], at'[q]) \in Nat
                 /\ NextSeq(pc[q], at[q]) <= NextSeq(pc'[q], at'[q])
      <4>1. /\ pc[q] \in {"persist", "persistAppend"} /\ pc'[q] \in {"done", "persist"}
            /\ at'[q] \in {at[q], at[q] + 1}
        BY <1>0, <2>2, <3>4 DEF SkipPartial, PersistEnd, Return, Goto
      <4>2. QED
        BY <1>0, <4>1 DEF NextSeq, Unnumbered
    <3>5. QED
      BY <1>4, <2>2, <3>1, <3>2, <3>3, <3>4 DEF MoveOf, Step
  <2>3. QED
    BY <2>1, <2>2
<1>5. QED
  BY <1>1, <1>3, <1>4 DEF RunnerNext, AllReturned, MoveOf

\* The event that is recorded is the next one of its call.
LEMMA RecordedIsNext ==
    ASSUME RunnerInv, AppendInv, \A r \in Runs : ProgressInv(r), [RunnerNext]_vars,
           AppendRecord
    PROVE  \E r \in Runs :
              /\ AppendUserEnd(r) \/ PersistEnd(r)
              /\ pending.ev.tag.run = r /\ pending.obj = sess[r] /\ sess[r] \in Objects
              /\ pending.ev.tag.seq = NextSeq(pc[r], at[r])
              /\ NextSeq(pc[r], at[r]) < NextSeq(pc'[r], at'[r])
              /\ ~pending.ev.partial
              /\ pc[r] = "userAppend" => pending.ev.author = User
              /\ pc[r] = "persistAppend" =>
                    at[r] \in DOMAIN replies[r] /\ pending.ev = replies[r][at[r]]
<1>0. /\ RunnerTypeOK /\ pc \in [Runs -> Steps] /\ at \in [Runs -> Nat \ {0}]
      /\ replies \in [Runs -> Seq(Event)]
  BY DEF RunnerInv, RunnerTypeOK
<1>1. pending # NoAppend /\ pending' = NoAppend
  BY DEF AppendRecord
<1>2. PICK r \in Runs : AppendUserEnd(r) \/ PersistEnd(r)
  <2>1. ~ UNCHANGED vars
    BY <1>1 DEF vars, svcVars
  <2>2. PICK r \in Runs : MoveOf(r)
    BY <1>1, <2>1 DEF RunnerNext, AllReturned, MoveOf
  <2>3. AppendUserBegin(r) => FALSE
    BY <1>1 DEF AppendUserBegin, AppendBegin
  <2>4. PersistBegin(r) => FALSE
    BY <1>1 DEF PersistBegin, AppendBegin
  <2>5. PersistTrim(r) => FALSE
    BY DEF PersistTrim, AppendTrim, AppendRecord
  <2>6. QED
    BY <1>0, <1>1, <2>2, <2>3, <2>4, <2>5, AppendMoves
<1>3. /\ pc[r] = "userAppend" \/ pc[r] = "persistAppend"
      /\ pc[r] = "userAppend" => pc'[r] = "route" /\ at' = at
      /\ pc[r] = "persistAppend" => pc'[r] = "persist" /\ at'[r] = at[r] + 1
  BY <1>0, <1>2 DEF AppendUserEnd, PersistEnd, Goto
<1>4. AppendOf(r)
  BY <1>3 DEF AppendInv, Appending
<1>5. sess[r] \in Objects
  BY <1>3, HoldsSession DEF Numbered
<1>6. CASE pc[r] = "userAppend"
  <2>1. NextSeq(pc[r], at[r]) = 0 /\ NextSeq(pc'[r], at'[r]) = 1
    BY <1>3, <1>6 DEF NextSeq
  <2>2. QED
    BY <1>2, <1>4, <1>5, <1>6, <2>1 DEF AppendOf
<1>7. CASE pc[r] = "persistAppend"
  <2>1. NextSeq(pc[r], at[r]) = at[r] /\ NextSeq(pc'[r], at'[r]) = at[r] + 1
    BY <1>3, <1>7 DEF NextSeq, Unnumbered
  <2>2. at[r] \in DOMAIN replies[r]
    BY <1>0, <1>7 DEF RunnerInv, CallInv
  <2>3. pending.ev = replies[r][at[r]] /\ pending.ev.tag.seq = at[r]
    BY <1>4, <1>7, <2>2 DEF AppendOf, ProgressInv
  <2>4. at[r] < at[r] + 1
    BY <1>0
  <2>5. QED
    BY <1>2, <1>4, <1>5, <1>7, <2>1, <2>2, <2>3, <2>4 DEF AppendOf
<1>8. QED
  BY <1>3, <1>6, <1>7

LEMMA NextPlaces ==
    ASSUME RunnerInv, AppendInv, \A r \in Runs : ProgressInv(r), PlacesInv, [RunnerNext]_vars
    PROVE  PlacesInv'
<1> DEFINE Placed(ev) == ~ev.partial /\ ev.tag.seq < NextSeq(pc'[ev.tag.run], at'[ev.tag.run])
<1> SUFFICES ASSUME NEW o \in Objects, NEW i \in DOMAIN events'[o]
             PROVE  Placed(events'[o][i])
  BY DEF PlacesInv
<1>1. CASE i \in DOMAIN events[o]
  <2> DEFINE ev == events[o][i]
  <2>1. events'[o][i] = ev
    BY <1>1, HistoriesKeep
  <2>2. ev.tag.run \in Runs /\ ev.tag.seq \in Nat
    BY <1>1, InputsAreEvents DEF RunnerInv, HistoryInv, EventInv, Tag
  <2>3. ~ev.partial /\ ev.tag.seq < NextSeq(pc[ev.tag.run], at[ev.tag.run])
    BY <1>1 DEF PlacesInv
  <2> HIDE DEF ev
  <2>4. ev.tag.seq < NextSeq(pc'[ev.tag.run], at'[ev.tag.run])
    BY <2>2, <2>3, NextSeqGrows
  <2>5. QED
    BY <2>1, <2>3, <2>4
<1>2. CASE i \notin DOMAIN events[o]
  <2>1. AppendRecord /\ events'[o][i] = pending.ev
    BY <1>2, HistoriesKeep
  <2>2. PICK r \in Runs : /\ pending.ev.tag.run = r
                          /\ pending.ev.tag.seq = NextSeq(pc[r], at[r])
                          /\ NextSeq(pc[r], at[r]) < NextSeq(pc'[r], at'[r])
                          /\ ~pending.ev.partial
    BY <2>1, RecordedIsNext
  <2>3. QED
    BY <2>1, <2>2
<1>3. QED
  BY <1>1, <1>2

LEMMA NextOrder ==
    ASSUME OrderInv, [RunnerNext]_vars
    PROVE  InvocationOrder'
<1> SUFFICES ASSUME NEW o \in Objects, NEW j \in DOMAIN events'[o]
             PROVE  OrderAt(events'[o], j)
  BY DEF InvocationOrder, OrderAt
<1>1. /\ events[o] \in Seq(Event) /\ events'[o] \in Seq(Event)
      /\ \A i \in DOMAIN events[o] :
            i \in DOMAIN events'[o] /\ events'[o][i] = events[o][i]
      /\ \A i \in DOMAIN events'[o] : i \notin DOMAIN events[o] =>
            /\ AppendRecord /\ o = pending.obj /\ events'[o][i] = pending.ev
            /\ i = Len(events[o]) + 1
  BY HistoriesKeep DEF OrderInv
<1>2. CASE j \in DOMAIN events[o]
  <2>1. OrderAt(events[o], j)
    BY <1>2 DEF OrderInv, InvocationOrder, OrderAt
  <2>2. \A i \in 1 .. (j - 1) : i \in DOMAIN events[o]
    BY <1>1, <1>2
  <2>3. QED
    BY <1>1, <1>2, <2>1, <2>2 DEF OrderAt
<1>3. CASE j \notin DOMAIN events[o]
  <2>1. /\ AppendRecord /\ o = pending.obj /\ events'[o][j] = pending.ev
        /\ j = Len(events[o]) + 1
    BY <1>1, <1>3
  <2>2. PICK r \in Runs :
          /\ pending.ev.tag.run = r /\ pending.obj = sess[r]
          /\ pending.ev.tag.seq = NextSeq(pc[r], at[r])
          /\ pc[r] \in {"userAppend", "persistAppend"}
    <3>1. RunnerInv /\ AppendInv /\ \A r \in Runs : ProgressInv(r)
      BY DEF OrderInv
    <3>2. PICK r \in Runs :
            /\ AppendUserEnd(r) \/ PersistEnd(r)
            /\ pending.ev.tag.run = r /\ pending.obj = sess[r]
            /\ pending.ev.tag.seq = NextSeq(pc[r], at[r])
      BY <2>1, <3>1, RecordedIsNext
    <3>3. QED
      BY <3>2 DEF AppendUserEnd, PersistEnd, Goto
  <2>3. /\ \A i \in 1 .. (j - 1) : i \in DOMAIN events[o] /\ events'[o][i] = events[o][i]
        /\ 1 .. (j - 1) = DOMAIN events[o]
    BY <1>1, <2>1
  <2>4. ASSUME NEW i \in DOMAIN events[o], events[o][i].tag.run = r
        PROVE  events[o][i].tag.seq < pending.ev.tag.seq
    BY <2>2, <2>4 DEF OrderInv, PlacesInv
  <2>5. ASSUME pending.ev.tag.seq > 0
        PROVE  \E i \in DOMAIN events[o] :
                  events[o][i].tag.run = r /\ events[o][i].author = User
    <3>1. pc[r] # "userAppend"
      BY <2>2, <2>5 DEF NextSeq
    <3>2. pc[r] \in Asked /\ o = sess[r]
      BY <2>1, <2>2, <3>1 DEF Asked
    <3>3. QED
      BY <3>2 DEF OrderInv, ProgressInv
  <2>6. QED
    BY <2>1, <2>2, <2>3, <2>4, <2>5 DEF OrderAt
<1>4. QED
  BY <1>2, <1>3

\* A call keeps its progress while others move.
LEMMA ProgressStays ==
    ASSUME RunnerInv, [RunnerNext]_vars, NEW q \in Runs, ProgressInv(q),
           sess'[q] = sess[q], replies'[q] = replies[q], at'[q] = at[q],
           result'[q] = result[q],
           pc'[q] \notin Replying => pc[q] \notin Replying,
           pc'[q] \in Asked => pc[q] \in Asked,
           pc[q] = "done" => pc'[q] = "done",
           sess[q] \in Objects \/ replies[q] = <<>>
    PROVE  ProgressInv(q)'
<1>1. pc[q] \in Asked => sess[q] \in Objects
  BY HoldsSession DEF Asked, Numbered
<1>2. ASSUME sess[q] \in Objects
      PROVE  \A i \in DOMAIN events[sess[q]] :
                i \in DOMAIN events'[sess[q]] /\ events'[sess[q]][i] = events[sess[q]][i]
  BY <1>2, HistoriesKeep
<1>3. pc'[q] \in Asked => \E i \in DOMAIN events'[sess'[q]] :
          events'[sess'[q]][i].tag.run = q /\ events'[sess'[q]][i].author = User
  BY <1>1, <1>2 DEF ProgressInv
<1>4. \A k \in DOMAIN replies'[q] : k < at'[q] /\ ~replies'[q][k].partial =>
          \E i \in DOMAIN events'[sess'[q]] : events'[sess'[q]][i] = replies'[q][k]
  BY <1>2 DEF ProgressInv
<1>5. QED
  BY <1>3, <1>4 DEF ProgressInv

\* The recorded event is in its history.
LEMMA RecordedThere ==
    ASSUME RunnerInv, AppendRecord
    PROVE  \E i \in DOMAIN events'[pending.obj] : events'[pending.obj][i] = pending.ev
<1>1. pending.obj \in Objects /\ pending.ev \in Event
  BY PendingFields DEF RunnerInv, RunnerTypeOK, AppendRecord
<1>2. events'[pending.obj] = Append(events[pending.obj], pending.ev)
  BY <1>1 DEF AppendRecord, RunnerInv, RunnerTypeOK, TypeOK
<1>3. events[pending.obj] \in Seq(Event)
  BY <1>1 DEF RunnerInv, RunnerTypeOK, TypeOK
<1>4. Len(events[pending.obj]) + 1 \in DOMAIN events'[pending.obj]
  BY <1>1, <1>2, <1>3
<1>5. events'[pending.obj][Len(events[pending.obj]) + 1] = pending.ev
  BY <1>1, <1>2, <1>3
<1>6. QED
  BY <1>4, <1>5

\* The trim changes no more than the delta of the event that is appended.
LEMMA TrimmedReplies ==
    ASSUME RunnerInv, NEW r \in Runs, PersistTrim(r)
    PROVE  /\ DOMAIN replies'[r] = DOMAIN replies[r]
           /\ \A k \in DOMAIN replies[r] :
                /\ replies'[r][k].tag = replies[r][k].tag
                /\ replies'[r][k].partial = replies[r][k].partial
                /\ k # at[r] => replies'[r][k] = replies[r][k]
<1>1. replies \in [Runs -> Seq(Event)] /\ at[r] \in DOMAIN replies[r]
  BY DEF RunnerInv, RunnerTypeOK, CallInv, PersistTrim
<1>2. replies'[r] = [replies[r] EXCEPT ![at[r]] =
                        [replies[r][at[r]] EXCEPT !.delta = TrimTemp(@)]]
  BY <1>1 DEF PersistTrim
<1>3. replies[r][at[r]] \in Event
  BY <1>1
<1>4. QED
  BY <1>1, <1>2, <1>3 DEF Event

LEMMA NextProgress ==
    ASSUME RunnerInv, AppendInv, \A r \in Runs : HandleInv(r) /\ ProgressInv(r),
           [RunnerNext]_vars, NEW q \in Runs
    PROVE  ProgressInv(q)'
<1>0. /\ pc \in [Runs -> Steps] /\ at \in [Runs -> Nat \ {0}] /\ ProgressInv(q)
      /\ sess \in [Runs -> Objects \cup {NoObject}]
      /\ replies \in [Runs -> Seq(Event)]
      /\ result \in [Runs -> {"none", "ok", "createError", "agentError"}]
      /\ CallInv(q) /\ RunnerTypeOK
  BY DEF RunnerInv, RunnerTypeOK
<1>1. sess[q] \in Objects \/ replies[q] = <<>>
  <2>1. CASE ordinal[q] # 0
    BY <1>0, <2>1 DEF CallInv
  <2>2. CASE ordinal[q] = 0
    <3>1. \A k \in DOMAIN replies[q] : FALSE
      BY <1>0, <2>2, InputsAreEvents DEF CallInv, Tag
    <3>2. Len(replies[q]) = 0 \/ 1 \in DOMAIN replies[q]
      BY <1>0
    <3>3. QED
      BY <1>0, <3>1, <3>2, EmptySeq
  <2>3. QED
    BY <2>1, <2>2
<1>2. CASE UNCHANGED vars
  BY <1>0, <1>1, <1>2, ProgressStays DEF vars, runVars
<1>3. ASSUME NEW r \in Runs, MoveOf(r)
      PROVE  ProgressInv(q)'
  <2>1. CASE r # q
    BY <1>0, <1>1, <1>3, <2>1, OthersStay, ProgressStays
  <2>2. ASSUME r = q,
               \/ \E id \in SessionId : Call(q, id)
               \/ \E w \in Writes : AgentSets(q, w[1], w[2]) \/ AgentDeletes(q, w[1])
               \/ CountEvents(q) \/ AppendUserBegin(q) \/ Route(q) \/ PersistBegin(q)
        PROVE  ProgressInv(q)'
    <3>1. /\ sess' = sess /\ replies' = replies /\ at' = at /\ result' = result
          /\ pc'[q] \notin Replying => pc[q] \notin Replying
          /\ pc'[q] \in Asked => pc[q] \in Asked
          /\ pc[q] # "done"
      BY <1>0, <2>2
         DEF Goto, Replying, Asked, Call, AgentSets, AgentDeletes, CountEvents,
             AppendUserBegin, Route, PersistBegin
    <3>2. QED
      BY <1>0, <1>1, <3>1, ProgressStays
  <2>3. ASSUME r = q,
               \/ GetSession(q, "get", "getAgain") \/ GetSession(q, "getAgain", "create")
               \/ CreateSession(q)
        PROVE  ProgressInv(q)'
    <3>1. /\ pc[q] \in {"get", "getAgain", "create"}
          /\ pc'[q] \in {"getAgain", "create", "count"}
          /\ replies' = replies /\ at' = at /\ result' = result
      BY <1>0, <2>3 DEF Goto, GetSession, CreateSession
    <3>2. replies[q] = <<>> /\ result[q] = "none" /\ at[q] = 1
      BY <1>0, <3>1 DEF CallInv, Replying, ProgressInv
    <3>3. QED
      BY <3>1, <3>2 DEF ProgressInv, Asked, Replying
  <2>4. ASSUME r = q, CreateFails(q) \/ AgentFails(q)
        PROVE  ProgressInv(q)'
    <3>1. /\ pc[q] \in {"create", "execute"} /\ pc'[q] = "done"
          /\ replies' = replies /\ at' = at /\ result'[q] # "ok"
      BY <1>0, <2>4 DEF Goto, CreateFails, AgentFails
    <3>2. replies[q] = <<>>
      BY <1>0, <3>1 DEF CallInv, Replying
    <3>3. QED
      BY <3>1, <3>2 DEF ProgressInv, Asked, Replying
  <2>5. ASSUME r = q, AppendUserEnd(q)
        PROVE  ProgressInv(q)'
    <3>1. /\ pc[q] = "userAppend" /\ pc'[q] = "route" /\ AppendRecord
          /\ replies' = replies /\ at' = at /\ result' = result /\ sess' = sess
      BY <1>0, <2>5 DEF Goto, AppendUserEnd
    <3>2. replies[q] = <<>> /\ result[q] = "none" /\ at[q] = 1
      BY <1>0, <3>1 DEF CallInv, Replying, ProgressInv
    <3>3. /\ pending.obj = sess[q] /\ pending.ev.tag.run = q /\ pending.ev.author = User
      BY <3>1 DEF AppendInv, AppendOf, Appending
    <3>4. \E i \in DOMAIN events'[sess'[q]] :
              events'[sess'[q]][i].tag.run = q /\ events'[sess'[q]][i].author = User
      BY <3>1, <3>3, RecordedThere
    <3>5. QED
      BY <3>1, <3>2, <3>4 DEF ProgressInv, Replying
  <2>6. ASSUME r = q, AgentReturns(q)
        PROVE  ProgressInv(q)'
    <3>1. PICK shape \in Shapes, author \in ReplyAuthors :
              replies' = [replies EXCEPT ![q] = RepliesOf(q, shape, author)]
      BY <2>6 DEF AgentReturns
    <3>2. /\ pc[q] = "execute" /\ pc'[q] = "persist" /\ at' = at /\ result' = result
          /\ sess' = sess /\ events' = events
      BY <1>0, <2>6 DEF AgentReturns, Goto, svcVars
    <3>3. result[q] = "none" /\ at[q] = 1
      BY <1>0, <3>2 DEF CallInv, Replying, ProgressInv
    <3>4. replies'[q] = RepliesOf(q, shape, author)
      BY <1>0, <3>1
    <3>5. /\ \A k \in DOMAIN replies'[q] : replies'[q][k].tag.seq = k
          /\ DOMAIN replies'[q] \subseteq Nat \ {0}
      BY <3>4, RunnerConstants DEF RepliesOf
    <3>6. \A k \in DOMAIN replies'[q] : ~ (k < at'[q])
      BY <3>2, <3>3, <3>5
    <3>7. \E i \in DOMAIN events'[sess'[q]] :
              events'[sess'[q]][i].tag.run = q /\ events'[sess'[q]][i].author = User
      BY <1>0, <3>2 DEF ProgressInv, Asked
    <3>8. QED
      BY <3>2, <3>3, <3>5, <3>6, <3>7 DEF ProgressInv, Replying
  <2>7. ASSUME r = q, SkipPartial(q)
        PROVE  ProgressInv(q)'
    <3>1. /\ pc[q] = "persist" /\ pc'[q] = "persist" /\ at'[q] = at[q] + 1
          /\ result' = result /\ sess' = sess /\ events' = events /\ replies' = replies
          /\ replies[q][at[q]].partial
      BY <1>0, <2>7 DEF SkipPartial, svcVars
    <3>2. result[q] = "none" /\ DOMAIN replies[q] \subseteq Nat /\ at[q] \in Nat
      BY <1>0, <3>1 DEF CallInv
    <3>3. ASSUME NEW k \in DOMAIN replies[q], k < at'[q], ~replies[q][k].partial
          PROVE  k < at[q]
      BY <3>1, <3>2, <3>3
    <3>4. QED
      BY <1>0, <3>1, <3>2, <3>3 DEF ProgressInv, Replying, Asked
  <2>8. ASSUME r = q, PersistTrim(q)
        PROVE  ProgressInv(q)'
    <3>1. /\ pc[q] = "persistAppend" /\ pc' = pc /\ at' = at
          /\ result' = result /\ sess' = sess /\ events' = events
      BY <2>8 DEF PersistTrim, AppendTrim
    <3>2. result[q] = "none" /\ DOMAIN replies[q] \subseteq Nat /\ at[q] \in Nat
      BY <1>0, <3>1 DEF CallInv
    <3>3. /\ DOMAIN replies'[q] = DOMAIN replies[q]
          /\ \A k \in DOMAIN replies[q] :
                /\ replies'[q][k].tag = replies[q][k].tag
                /\ replies'[q][k].partial = replies[q][k].partial
                /\ k # at[q] => replies'[q][k] = replies[q][k]
      BY <2>8, TrimmedReplies
    <3>4. \A k \in DOMAIN replies[q] : k < at[q] => k # at[q]
      BY <3>2
    <3>5. \A k \in DOMAIN replies'[q] : replies'[q][k].tag.seq = k
      BY <1>0, <3>3 DEF ProgressInv
    <3>6. ASSUME NEW k \in DOMAIN replies'[q], k < at'[q], ~replies'[q][k].partial
          PROVE  \E i \in DOMAIN events'[sess'[q]] : events'[sess'[q]][i] = replies'[q][k]
      <4>1. k \in DOMAIN replies[q] /\ k < at[q] /\ ~replies[q][k].partial
            /\ replies'[q][k] = replies[q][k]
        BY <3>1, <3>3, <3>4, <3>6
      <4>2. QED
        BY <1>0, <3>1, <4>1 DEF ProgressInv
    <3>7. \E i \in DOMAIN events'[sess'[q]] :
              events'[sess'[q]][i].tag.run = q /\ events'[sess'[q]][i].author = User
      BY <1>0, <3>1 DEF ProgressInv, Asked
    <3>8. QED
      BY <3>1, <3>2, <3>5, <3>6, <3>7 DEF ProgressInv, Replying
  <2>9. ASSUME r = q, PersistEnd(q)
        PROVE  ProgressInv(q)'
    <3>1. /\ pc[q] = "persistAppend" /\ pc'[q] = "persist" /\ at'[q] = at[q] + 1
          /\ result' = result /\ sess' = sess /\ replies' = replies /\ AppendRecord
      BY <1>0, <2>9 DEF PersistEnd, Goto
    <3>2. /\ result[q] = "none" /\ DOMAIN replies[q] \subseteq Nat /\ at[q] \in Nat
          /\ sess[q] \in Objects
      BY <1>0, <3>1, HoldsSession DEF CallInv, Numbered
    <3>3. pending.obj = sess[q] /\ pending.ev = replies[q][at[q]]
      BY <3>1 DEF AppendInv, AppendOf, Appending
    <3>4. \A i \in DOMAIN events[sess[q]] :
              i \in DOMAIN events'[sess[q]] /\ events'[sess[q]][i] = events[sess[q]][i]
      BY <3>2, HistoriesKeep
    <3>5. \E i \in DOMAIN events'[sess[q]] : events'[sess[q]][i] = replies[q][at[q]]
      BY <3>1, <3>3, RecordedThere
    <3>6. ASSUME NEW k \in DOMAIN replies[q], k < at'[q], ~replies[q][k].partial
          PROVE  \E i \in DOMAIN events'[sess[q]] : events'[sess[q]][i] = replies[q][k]
      <4>1. CASE k = at[q]
        BY <3>5, <4>1
      <4>2. CASE k < at[q]
        <5>1. PICK i \in DOMAIN events[sess[q]] : events[sess[q]][i] = replies[q][k]
          BY <1>0, <3>6, <4>2 DEF ProgressInv
        <5>2. QED
          BY <3>4, <5>1
      <4>3. k \in Nat /\ k <= at[q]
        BY <3>1, <3>2, <3>6
      <4>4. QED
        BY <3>2, <4>1, <4>2, <4>3
    <3>7. \E i \in DOMAIN events'[sess[q]] :
              events'[sess[q]][i].tag.run = q /\ events'[sess[q]][i].author = User
      <4>1. PICK i \in DOMAIN events[sess[q]] :
                events[sess[q]][i].tag.run = q /\ events[sess[q]][i].author = User
        BY <1>0, <3>1 DEF ProgressInv, Asked
      <4>2. QED
        BY <3>4, <4>1
    <3>8. QED
      BY <1>0, <3>1, <3>2, <3>6, <3>7 DEF ProgressInv, Replying
  <2>10. ASSUME r = q, Return(q)
         PROVE  ProgressInv(q)'
    <3>1. /\ pc[q] = "persist" /\ pc'[q] = "done" /\ at' = at /\ at[q] > Len(replies[q])
          /\ sess' = sess /\ events' = events /\ replies' = replies
      BY <1>0, <2>10 DEF Return, Goto, svcVars
    <3>2. QED
      BY <1>0, <3>1 DEF ProgressInv, Replying, Asked
  <2>11. QED
    BY <1>3, <2>1, <2>2, <2>3, <2>4, <2>5, <2>6, <2>7, <2>8, <2>9, <2>10 DEF MoveOf, Step
<1>4. QED
  BY <1>2, <1>3 DEF RunnerNext, AllReturned, MoveOf

-----------------------------------------------------------------------------
(* The theorems about what the calls leave in the histories.               *)

LEMMA InitOrderInv == RunnerInit => OrderInv
<1> SUFFICES ASSUME RunnerInit PROVE OrderInv
  OBVIOUS
<1>1. RunnerInv
  BY InitRunnerInv
<1>2. SessionsKept /\ InvocationOrder /\ PlacesInv
  BY DEF RunnerInit, Init, SessionsKept, InvocationOrder, PlacesInv
<1>3. \A r \in Runs : HandleInv(r) /\ ProgressInv(r)
  BY NilsDistinct
     DEF RunnerInit, HandleInv, ProgressInv, Asked, Replying, Unnumbered
<1>4. AppendInv
  BY DEF RunnerInit, Init, AppendInv, Appending
<1>5. QED
  BY <1>1, <1>2, <1>3, <1>4 DEF OrderInv

LEMMA NextOrderInv == OrderInv /\ [RunnerNext]_vars => OrderInv'
<1> SUFFICES ASSUME OrderInv, [RunnerNext]_vars PROVE OrderInv'
  OBVIOUS
<1>0. /\ RunnerInv /\ RunnerTypeOK /\ SessionsKept /\ AppendInv /\ PlacesInv
      /\ \A r \in Runs : HandleInv(r)
      /\ \A r \in Runs : ProgressInv(r)
      /\ \A r \in Runs : HandleInv(r) /\ ProgressInv(r)
  BY DEF OrderInv, RunnerInv
<1>1. RunnerInv'
  BY <1>0, NextRunnerInv
<1>2. SessionsKept'
  BY <1>0, NextSessionsKept
<1>3. \A r \in Runs : HandleInv(r)'
  BY <1>0, NextHandle
<1>4. \A r \in Runs : ProgressInv(r)'
  BY <1>0, NextProgress
<1>5. AppendInv'
  BY <1>0, NextAppend
<1>6. PlacesInv'
  BY <1>0, NextPlaces
<1>7. InvocationOrder'
  BY NextOrder
<1>8. QED
  BY <1>1, <1>2, <1>3, <1>4, <1>5, <1>6, <1>7 DEF OrderInv

\* The strengthening under which the order is inductive: what each handle is
\* of, who waits for the append in progress, and what each call has appended so far.
THEOREM OrderInvariant == RunnerSpec => []OrderInv
<1>1. QED
  BY InitOrderInv, NextOrderInv, PTL DEF RunnerSpec

\* Calls that race to create a session end up with the one that the service stores
\* (session.go:429, runner.go:126).
THEOREM OneSessionAlways == RunnerSpec => []OneSessionPerId
<1>1. OrderInv => OneSessionPerId
  BY DEF OrderInv, OneSessionPerId, SessionsKept, HandleInv
<1>2. QED
  BY <1>1, OrderInvariant, PTL

\* What a call that succeeded returned is in the stored history once, without the chunks.
LEMMA PersistedOnce ==
    ASSUME OrderInv, NEW r \in Runs, result[r] = "ok", NEW k \in DOMAIN replies[r]
    PROVE  LET history == events[Lookup(target[r])] IN
           Cardinality({i \in DOMAIN history : history[i] = replies[r][k]})
               = IF replies[r][k].partial THEN 0 ELSE 1
<1> DEFINE history == events[sess[r]]
           ev == replies[r][k]
           places == {i \in DOMAIN history : history[i] = ev}
<1>1. /\ CallInv(r) /\ HandleInv(r) /\ ProgressInv(r) /\ replies[r] \in Seq(Event)
      /\ events \in [Objects -> Seq(Event)] /\ at[r] \in Nat
  BY DEF OrderInv, RunnerInv, RunnerTypeOK, TypeOK
<1>2. ev.tag \in Tag /\ ev.tag.run = r /\ ordinal[r] # 0
  BY <1>1, InputsAreEvents DEF CallInv, Tag
<1>3. sess[r] \in Objects /\ sess[r] = Lookup(target[r])
  BY <1>1, <1>2, NilsDistinct DEF CallInv, HandleInv
<1>4. history \in Seq(Event)
  BY <1>1, <1>3
<1>5. CASE ev.partial
  <2>1. places = {}
    BY <1>3, <1>5 DEF OrderInv, PlacesInv
  <2>2. QED
    BY <1>3, <1>5, <2>1, FS_EmptySet
<1>6. CASE ~ev.partial
  <2>1. k < at[r]
    BY <1>1 DEF ProgressInv
  <2>2. PICK i \in DOMAIN history : history[i] = ev
    BY <1>1, <1>6, <2>1 DEF ProgressInv
  <2>3. ASSUME NEW j \in places
        PROVE  j = i
    <3>1. \A m, n \in DOMAIN history :
              m < n /\ history[m].tag.run = history[n].tag.run
                => history[m].tag.seq < history[n].tag.seq
      BY <1>3, <1>4 DEF OrderInv, InvocationOrder
    <3>2. ev.tag.seq \in Nat
      BY <1>2, InputsAreEvents DEF Tag
    <3>3. i \in Nat /\ j \in Nat /\ j \in DOMAIN history /\ history[j] = ev
      BY <1>4
    <3>4. ~(i < j) /\ ~(j < i)
      BY <2>2, <3>1, <3>2, <3>3
    <3>5. QED
      BY <3>3, <3>4
  <2>4. places = {i}
    BY <2>2, <2>3
  <2> HIDE DEF places
  <2>5. Cardinality(places) = 1
    BY <2>4, FS_Singleton
  <2>6. QED
    BY <1>3, <1>6, <2>5 DEF places
<1>7. QED
  BY <1>5, <1>6

\* What calls on one session put into its history is in order, and what a call that
\* succeeded returned is there once (runner.go:165-184).
THEOREM CallsAlwaysPersistInOrder == RunnerSpec => []CallsPersistInOrder
<1>1. OrderInv => CallsPersistInOrder
  <2>1. OrderInv => InvocationOrder
    BY DEF OrderInv
  <2>2. OrderInv => SuccessIsPersisted
    BY PersistedOnce DEF SuccessIsPersisted
  <2>3. QED
    BY <2>1, <2>2 DEF CallsPersistInOrder
<1>2. QED
  BY <1>1, OrderInvariant, PTL

(***************************************************************************)
(* Part 3: the memory.  What it holds of a session is a past of its        *)
(* history, searches find all of it and nothing else, and an ingestion     *)
(* that no other one overtook forgets nothing.                             *)
(***************************************************************************)

\* An ingestion in progress has read a past of its session.
HoldsAPast(r) ==
    /\ r = [obj |-> r.obj, values |-> r.values, overtaken |-> r.overtaken]
    /\ r.obj \in alloc
    /\ \E n \in 0..Len(events[r.obj]) : r.values = Entries(Past(r.obj, n))

Functions ==
    /\ memory = [id \in SessionId |-> memory[id]]
    /\ source = [id \in SessionId |-> source[id]]
    /\ ingests = [c \in Ingests |-> ingests[c]]

IngestsHoldPasts == \A c \in Ingests : ingests[c] # Idle => HoldsAPast(ingests[c])

MemoryInv == TypeOK /\ Functions /\ IngestsHoldPasts /\ MemoryIsAPast

\* Sources and flags of the calls are what the types say.
CallTypes ==
    /\ source \in [SessionId -> Objects \cup {NoObject}]
    /\ \A c \in Ingests : ingests[c].overtaken \in BOOLEAN

\* A call that no other one overtook has read all that is stored of its session.
SnapshotsAreNewer ==
    \A c \in Ingests :
        ingests[c] # Idle /\ ~ingests[c].overtaken
            /\ source[owner[ingests[c].obj]] = ingests[c].obj
        => IsPrefix(memory[owner[ingests[c].obj]], ingests[c].values)

-----------------------------------------------------------------------------

\* The service only adds to a history, and a session object stays whose it is.
LEMMA PastStays ==
    ASSUME TypeOK, [Next]_svcVars, NEW o \in alloc
    PROVE  /\ o \in alloc' /\ owner'[o] = owner[o]
           /\ \A n \in 0..Len(events[o]) :
                 /\ n \in 0..Len(events'[o])
                 /\ SubSeq(events'[o], 1, n) = SubSeq(events[o], 1, n)
<1>0. events[o] \in Seq(Event) /\ o \in Objects
    BY DEF TypeOK
<1>1. ASSUME o \in alloc', owner'[o] = owner[o], events' = events
      PROVE  /\ o \in alloc' /\ owner'[o] = owner[o]
             /\ \A n \in 0..Len(events[o]) :
                   /\ n \in 0..Len(events'[o])
                   /\ SubSeq(events'[o], 1, n) = SubSeq(events[o], 1, n)
    BY <1>1, Zenon
<1>2. ASSUME NEW id \in SessionId, NEW initial, Create(id, initial)
      PROVE  o \in alloc' /\ owner'[o] = owner[o] /\ events' = events
    BY <1>2 DEF Create, TypeOK
<1>3. ASSUME \/ \E id \in SessionId : DeleteSession(id)
             \/ \E p \in Objects, w \in Writes : SetState(p, w[1], w[2]) \/ DeleteState(p, w[1])
             \/ \E p \in Objects, ev \in Inputs : AppendBegin(p, ev)
             \/ AppendTrim
             \/ UNCHANGED svcVars
      PROVE  o \in alloc' /\ owner'[o] = owner[o] /\ events' = events
    <2>1. alloc' = alloc /\ owner' = owner /\ events' = events
        BY <1>3, Zenon
           DEF DeleteSession, SetState, DeleteState, AppendBegin, AppendTrim, svcVars
    <2> QED
        BY <2>1, Zenon
<1>4. ASSUME AppendRecord
      PROVE  /\ o \in alloc' /\ owner'[o] = owner[o]
             /\ \A n \in 0..Len(events[o]) :
                   /\ n \in 0..Len(events'[o])
                   /\ SubSeq(events'[o], 1, n) = SubSeq(events[o], 1, n)
    <2>1. alloc' = alloc /\ owner' = owner
        BY <1>4, Zenon DEF AppendRecord
    <2>2. pending.obj \in Objects /\ pending.ev \in Event
        BY <1>4, PendingFields DEF AppendRecord
    <2>3. CASE o = pending.obj
        <3>1. events'[o] = Append(events[o], pending.ev)
            BY <1>0, <1>4, <2>3 DEF AppendRecord, TypeOK
        <3> DEFINE more == Append(events[o], pending.ev)
        <3>2. /\ more \in Seq(Event) /\ Len(more) = Len(events[o]) + 1
              /\ Len(events[o]) \in Nat
              /\ \A i \in 1..Len(events[o]) : more[i] = events[o][i]
            BY <1>0, <2>2
        <3> HIDE DEF more
        <3>3. ASSUME NEW n \in 0..Len(events[o])
              PROVE  n \in 0..Len(more) /\ SubSeq(more, 1, n) = SubSeq(events[o], 1, n)
            <4>1. n \in Nat /\ n <= Len(events[o]) /\ n <= Len(more)
                BY <3>2, <3>3
            <4>2. /\ SubSeq(more, 1, n) = [i \in 1..n |-> more[i]]
                  /\ SubSeq(events[o], 1, n) = [i \in 1..n |-> events[o][i]]
                BY <1>0, <3>2, <4>1
            <4>3. \A i \in 1..n : more[i] = events[o][i]
                BY <3>2, <4>1
            <4> QED
                BY <4>1, <4>2, <4>3
        <3> QED
            BY <2>1, <3>1, <3>3, Zenon DEF more
    <2>4. CASE o # pending.obj
        <3>1. events'[o] = events[o]
            BY <1>0, <1>4, <2>4 DEF AppendRecord, TypeOK
        <3> QED
            BY <2>1, <3>1, Zenon
    <2> QED
        BY <2>3, <2>4
<1> QED
    BY <1>1, <1>2, <1>3, <1>4, Zenon DEF Next

LEMMA WholePast ==
    ASSUME TypeOK, NEW o \in Objects
    PROVE  Len(events[o]) \in Nat /\ Past(o, Len(events[o])) = events[o]
<1>1. events[o] \in Seq(Event)
    BY DEF TypeOK
<1>2. SubSeq(events[o], 1, Len(events[o])) = events[o]
    BY <1>1
<1> QED
    BY <1>1, <1>2 DEF Past

-----------------------------------------------------------------------------
(***************************************************************************)
(* The steps                                                               *)
(***************************************************************************)

\* What a step of the service leaves of the pasts that are held or stored.
LEMMA ServiceStep ==
    ASSUME MemoryInv, [Next]_svcVars, UNCHANGED memoryVars
    PROVE  MemoryInv'
<1>0. TypeOK /\ Functions /\ IngestsHoldPasts /\ MemoryIsAPast
    BY Zenon DEF MemoryInv
<1>1. TypeOK'
    BY <1>0, NextTypeOK, Zenon
<1>2. memory' = memory /\ ingests' = ingests /\ source' = source
    BY Zenon DEF memoryVars
<1>3. Functions'
    BY <1>0, <1>2, Zenon DEF Functions
<1>4. IngestsHoldPasts'
    <2> SUFFICES ASSUME NEW c \in Ingests, ingests[c] # Idle PROVE HoldsAPast(ingests[c])'
        BY <1>2, Zenon DEF IngestsHoldPasts
    <2> DEFINE r == ingests[c]
    <2>1. HoldsAPast(r)
        BY <1>0, Zenon DEF IngestsHoldPasts
    <2>2. r.obj \in alloc
        BY <2>1, Zenon DEF HoldsAPast
    <2>3. PICK n \in 0..Len(events[r.obj]) : r.values = Entries(Past(r.obj, n))
        BY <2>1, Zenon DEF HoldsAPast
    <2>4. /\ r.obj \in alloc' /\ n \in 0..Len(events'[r.obj])
          /\ SubSeq(events'[r.obj], 1, n) = SubSeq(events[r.obj], 1, n)
        BY <1>0, <2>2, PastStays, Zenon
    <2>5. r.values = Entries(SubSeq(events'[r.obj], 1, n))
        BY <2>3, <2>4, Zenon DEF Past
    <2>6. r = [obj |-> r.obj, values |-> r.values, overtaken |-> r.overtaken]
        BY <2>1, Zenon DEF HoldsAPast
    <2>7. r' = r
        BY <1>2, Zenon
    <2> HIDE DEF r
    <2>8. HoldsAPast(r)'
        BY <2>4, <2>5, <2>6, <2>7, Zenon DEF HoldsAPast, Past
    <2> QED
        BY <2>8, Zenon DEF r
<1>5. MemoryIsAPast'
    <2> SUFFICES ASSUME NEW id \in SessionId, memory[id] # <<>>
                 PROVE  /\ source[id] \in alloc' /\ owner'[source[id]] = id
                        /\ \E n \in 0..Len(events'[source[id]]) :
                              memory[id] = Entries(SubSeq(events'[source[id]], 1, n))
        BY <1>2, Zenon DEF MemoryIsAPast, Past
    <2>1. source[id] \in alloc /\ owner[source[id]] = id
        BY <1>0, Zenon DEF MemoryIsAPast
    <2>2. PICK n \in 0..Len(events[source[id]]) : memory[id] = Entries(Past(source[id], n))
        BY <1>0, Zenon DEF MemoryIsAPast
    <2>3. /\ source[id] \in alloc' /\ owner'[source[id]] = owner[source[id]]
          /\ n \in 0..Len(events'[source[id]])
          /\ SubSeq(events'[source[id]], 1, n) = SubSeq(events[source[id]], 1, n)
        BY <1>0, <2>1, PastStays, Zenon
    <2> QED
        BY <2>1, <2>2, <2>3, Zenon DEF Past
<1> QED
    BY <1>1, <1>3, <1>4, <1>5, Zenon DEF MemoryInv

\* The steps of the memory do not touch the sessions.
LEMMA ServiceStays ==
    ASSUME UNCHANGED svcVars, TypeOK
    PROVE  TypeOK' /\ alloc' = alloc /\ owner' = owner /\ events' = events
BY DEF svcVars, TypeOK

LEMMA ReadStep ==
    ASSUME MemoryInv, NEW c \in Ingests, NEW o \in Objects, ReadSession(c, o)
    PROVE  MemoryInv'
<1>0. TypeOK /\ Functions /\ IngestsHoldPasts /\ MemoryIsAPast
    BY Zenon DEF MemoryInv
<1> DEFINE r == [obj |-> o, values |-> Entries(events[o]), overtaken |-> FALSE]
<1>1. /\ o \in alloc /\ ingests' = [ingests EXCEPT ![c] = r]
      /\ UNCHANGED svcVars /\ memory' = memory /\ source' = source
    BY Zenon DEF ReadSession
<1>2. TypeOK' /\ alloc' = alloc /\ owner' = owner /\ events' = events
    BY <1>0, <1>1, ServiceStays, Zenon
<1>3. Len(events[o]) \in Nat /\ Past(o, Len(events[o])) = events[o]
    BY <1>0, WholePast, Zenon
<1>4. HoldsAPast(r)
    <2>1. r.obj = o /\ r.values = Entries(events[o]) /\ r.overtaken = FALSE
        OBVIOUS
    <2>2. Len(events[o]) \in 0..Len(events[o])
        BY <1>3
    <2> QED
        BY <1>1, <1>3, <2>1, <2>2, Zenon DEF HoldsAPast
<1> HIDE DEF r
<1>5. ingests'[c] = r /\ \A d \in Ingests : d # c => ingests'[d] = ingests[d]
    BY <1>0, <1>1 DEF Functions
<1>6. Functions'
    BY <1>0, <1>1 DEF Functions
<1>7. IngestsHoldPasts'
    <2>1. ASSUME NEW d \in Ingests, ingests'[d] # Idle PROVE HoldsAPast(ingests'[d])
        BY <1>0, <1>4, <1>5, <2>1, Zenon DEF IngestsHoldPasts
    <2>2. ASSUME NEW d \in Ingests, ingests'[d] # Idle PROVE HoldsAPast(ingests[d])'
        BY <1>2, <2>1, <2>2, Zenon DEF HoldsAPast, Past
    <2> QED
        BY <2>2, Zenon DEF IngestsHoldPasts
<1>8. MemoryIsAPast'
    BY <1>0, <1>1, <1>2, Zenon DEF MemoryIsAPast, Past
<1> QED
    BY <1>2, <1>6, <1>7, <1>8, Zenon DEF MemoryInv

\* Clearing a cleared flag changes nothing.
LEMMA ClearedTwice ==
    ASSUME NEW obj, NEW values
    PROVE  LET r == [obj |-> obj, values |-> values, overtaken |-> FALSE]
           IN  [r EXCEPT !.overtaken = FALSE] = r
<1>1. ASSUME NEW flag, NEW r, r = [obj |-> obj, values |-> values, overtaken |-> flag],
             NEW s, s = [r EXCEPT !.overtaken = flag]
      PROVE  s = [obj |-> obj, values |-> values, overtaken |-> flag]
    BY <1>1
<1> QED
    BY <1>1, Zenon

LEMMA StoreStep ==
    ASSUME MemoryInv, NEW c \in Ingests, StoreEntries(c)
    PROVE  MemoryInv'
<1>0. TypeOK /\ Functions /\ IngestsHoldPasts /\ MemoryIsAPast
    BY Zenon DEF MemoryInv
<1> DEFINE r == ingests[c]
           id == owner[r.obj]
<1>1. /\ r # Idle /\ UNCHANGED svcVars
      /\ memory' = [memory EXCEPT ![id] = r.values]
      /\ source' = [source EXCEPT ![id] = r.obj]
      /\ ingests' = [d \in Ingests |->
                        IF d = c THEN Idle
                        ELSE [ingests[d] EXCEPT !.overtaken =
                                 ingests[d].overtaken \/ Overtakes(c, d)]]
    BY Zenon DEF StoreEntries
<1>2. TypeOK' /\ alloc' = alloc /\ owner' = owner /\ events' = events
    BY <1>0, <1>1, ServiceStays, Zenon
<1>3. HoldsAPast(r)
    BY <1>0, <1>1, Zenon DEF IngestsHoldPasts
<1>4. r.obj \in alloc /\ \E n \in 0..Len(events[r.obj]) : r.values = Entries(Past(r.obj, n))
    BY <1>3, Zenon DEF HoldsAPast
<1>5. id \in SessionId
    BY <1>0, <1>4 DEF TypeOK
<1> HIDE DEF id
<1>6. Functions'
    BY <1>0, <1>1 DEF Functions
<1>7. /\ memory'[id] = r.values /\ source'[id] = r.obj
      /\ \A i \in SessionId : i # id => memory'[i] = memory[i] /\ source'[i] = source[i]
    BY <1>0, <1>1, <1>5 DEF Functions
<1>8. MemoryIsAPast'
    <2> SUFFICES ASSUME NEW i \in SessionId, memory'[i] # <<>>
                 PROVE  /\ source'[i] \in alloc /\ owner[source'[i]] = i
                        /\ \E n \in 0..Len(events[source'[i]]) :
                              memory'[i] = Entries(SubSeq(events[source'[i]], 1, n))
        BY <1>2, Zenon DEF MemoryIsAPast, Past
    <2>1. CASE i = id
        BY <1>4, <1>7, <2>1, Zenon DEF id, Past
    <2>2. CASE i # id
        BY <1>0, <1>7, <2>2, Zenon DEF MemoryIsAPast, Past
    <2> QED
        BY <2>1, <2>2
<1>9. IngestsHoldPasts'
    <2> SUFFICES ASSUME NEW d \in Ingests, ingests'[d] # Idle PROVE HoldsAPast(ingests[d])'
        BY Zenon DEF IngestsHoldPasts
    <2>1. d # c
        BY <1>1, Zenon
    <2> DEFINE over == ingests[d].overtaken \/ Overtakes(c, d)
    <2>2. ingests'[d] = [ingests[d] EXCEPT !.overtaken = over]
        BY <1>1, <2>1, Zenon
    <2>3. ingests[d] # Idle
        <3> SUFFICES ASSUME ingests[d] = Idle PROVE FALSE
            OBVIOUS
        <3>1. ~Overtakes(c, d)
            BY Zenon DEF Overtakes
        <3>2. ingests[d].overtaken = FALSE
            BY DEF Idle
        <3>3. over = FALSE
            BY <3>1, <3>2, Zenon
        <3> HIDE DEF over
        <3>4. ingests'[d] = [Idle EXCEPT !.overtaken = FALSE]
            BY <2>2, <3>3, Zenon
        <3>5. [Idle EXCEPT !.overtaken = FALSE] = Idle
            BY ClearedTwice, Zenon DEF Idle
        <3> QED
            BY <3>4, <3>5, Zenon
    <2>4. HoldsAPast(ingests[d])
        BY <1>0, <2>3, Zenon DEF IngestsHoldPasts
    <2> HIDE DEF over
    <2>5. PICK obj, values, overtaken :
             ingests[d] = [obj |-> obj, values |-> values, overtaken |-> overtaken]
        BY <2>4, Zenon DEF HoldsAPast
    <2>6. ingests'[d] = [obj |-> obj, values |-> values, overtaken |-> over]
        BY <2>2, <2>5
    <2>7. /\ ingests'[d].obj = ingests[d].obj /\ ingests'[d].values = ingests[d].values
          /\ ingests'[d] = [obj |-> ingests'[d].obj, values |-> ingests'[d].values,
                            overtaken |-> ingests'[d].overtaken]
        BY <2>5, <2>6
    <2>8. /\ ingests[d].obj \in alloc
          /\ \E n \in 0..Len(events[ingests[d].obj]) :
                ingests[d].values = Entries(Past(ingests[d].obj, n))
        BY <2>4, Zenon DEF HoldsAPast
    <2> QED
        BY <1>2, <2>7, <2>8, Zenon DEF HoldsAPast, Past
<1> QED
    BY <1>2, <1>6, <1>8, <1>9, Zenon DEF MemoryInv

-----------------------------------------------------------------------------
(***************************************************************************)
(* The entries of a history                                                *)
(***************************************************************************)

\* A set with 0 that with a number has the next has all up to a bound.
LEMMA UpTo ==
    ASSUME NEW m \in Nat, NEW S, 0 \in S, \A n \in 0..(m - 1) : n \in S => n + 1 \in S
    PROVE  \A n \in 0..m : n \in S
<1> SUFFICES ASSUME NEW k \in 0..m, k \notin S PROVE FALSE
    OBVIOUS
<1> DEFINE less == {ss \in Nat \X Nat : ss[1] < ss[2]}
           T == {n \in 0..m : n \notin S}
<1>1. IsWellFoundedOn(less, Nat)
    BY NatLessThanWellFounded, Zenon DEF OpToRel
<1>2. T \subseteq Nat /\ T # {}
    OBVIOUS
<1>3. PICK x \in T : \A y \in T : <<y, x>> \notin less
    <2> HIDE DEF less, T
    <2> QED
        BY <1>1, <1>2, WFMin, Zenon
<1>4. x \in 0..m /\ x \notin S /\ x # 0
    BY <1>3
<1>5. x - 1 \in 0..(m - 1) /\ x - 1 \in 0..m /\ x - 1 + 1 = x /\ x - 1 < x
    BY <1>4
<1>6. <<x - 1, x>> \in less
    BY <1>4, <1>5
<1>7. x - 1 \notin T
    <2> HIDE DEF less, T
    <2> QED
        BY <1>3, <1>6
<1> QED
    BY <1>4, <1>5, <1>7

\* The loop over the events of a history is a function of their number.
Loop(h, f) ==
    [n \in 0..Len(h) |->
        IF n = 0 THEN <<>>
        ELSE IF Remembered(h[n]) THEN Append(f[n - 1], EntryOf(h[n]))
        ELSE f[n - 1]]

\* The loop over the first m events.
LoopTo(h, m, f) ==
    \A n \in 0..m :
        f[n] = IF n = 0 THEN <<>>
               ELSE IF Remembered(h[n]) THEN Append(f[n - 1], EntryOf(h[n]))
               ELSE f[n - 1]

LEMMA LoopExists ==
    ASSUME NEW h, Len(h) \in Nat
    PROVE  \E f : f = Loop(h, f)
<1> DEFINE S == {m \in Nat : \E f : LoopTo(h, m, f)}
<1>1. 0 \in S
    <2>1. LoopTo(h, 0, [n \in {0} |-> <<>>])
        BY DEF LoopTo
    <2> QED
        BY <2>1
<1>2. ASSUME NEW m \in Nat, m \in S PROVE m + 1 \in S
    <2>1. PICK f : LoopTo(h, m, f)
        BY <1>2
    <2> DEFINE last == IF Remembered(h[m + 1]) THEN Append(f[m], EntryOf(h[m + 1])) ELSE f[m]
               g == [n \in 0..(m + 1) |-> IF n = m + 1 THEN last ELSE f[n]]
    <2>2. g[m + 1] = last /\ \A n \in 0..m : g[n] = f[n]
        BY <1>2
    <2>3. ASSUME NEW n \in 0..(m + 1)
          PROVE  g[n] = IF n = 0 THEN <<>>
                        ELSE IF Remembered(h[n]) THEN Append(g[n - 1], EntryOf(h[n]))
                        ELSE g[n - 1]
        <3>1. CASE n = m + 1
            <4>1. n # 0 /\ n - 1 = m /\ m \in 0..m
                BY <1>2, <3>1
            <4>2. g[n - 1] = f[m]
                BY <2>2, <4>1
            <4> HIDE DEF g
            <4> QED
                BY <2>2, <3>1, <4>1, <4>2
        <3>2. CASE n # m + 1
            <4>1. n \in 0..m /\ (n = 0 \/ n - 1 \in 0..m)
                BY <1>2, <3>2
            <4>2. g[n] = f[n] /\ (n = 0 \/ g[n - 1] = f[n - 1])
                BY <2>2, <4>1
            <4> HIDE DEF g
            <4> QED
                BY <2>1, <4>1, <4>2, Zenon DEF LoopTo
        <3> QED
            BY <3>1, <3>2
    <2> HIDE DEF g
    <2>4. LoopTo(h, m + 1, g)
        BY <2>3, Zenon DEF LoopTo
    <2> QED
        BY <1>2, <2>4
<1> HIDE DEF S
<1>3. Len(h) \in S
    <2>1. \A n \in 0..(Len(h) - 1) : n \in S => n + 1 \in S
        BY <1>2
    <2>2. \A n \in 0..Len(h) : n \in S
        BY <1>1, <2>1, UpTo
    <2> QED
        BY <2>2
<1>4. PICK f : LoopTo(h, Len(h), f)
    BY <1>3 DEF S
<1> DEFINE g == [n \in 0..Len(h) |-> f[n]]
<1>5. g = Loop(h, g)
    <2> DEFINE to(ff, n) == IF n = 0 THEN <<>>
                            ELSE IF Remembered(h[n]) THEN Append(ff[n - 1], EntryOf(h[n]))
                            ELSE ff[n - 1]
    <2>1. ASSUME NEW n \in 0..Len(h) PROVE f[n] = to(g, n)
        <3>1. n = 0 \/ (n - 1 \in 0..Len(h) /\ g[n - 1] = f[n - 1])
            OBVIOUS
        <3>2. f[n] = to(f, n)
            BY <1>4, Zenon DEF LoopTo
        <3> HIDE DEF g
        <3> QED
            BY <3>1, <3>2
    <2>2. [n \in 0..Len(h) |-> f[n]] = [n \in 0..Len(h) |-> to(g, n)]
        <3> HIDE DEF g, to
        <3> QED
            BY <2>1
    <2>3. g = [n \in 0..Len(h) |-> to(g, n)]
        BY <2>2, Zenon
    <2> HIDE DEF g
    <2> QED
        BY <2>3, Zenon DEF Loop
<1> QED
    BY <1>5

LEMMA GatheredLoop ==
    ASSUME NEW h, Len(h) \in Nat
    PROVE  LoopTo(h, Len(h), Gathered(h))
<1> DEFINE f == Gathered(h)
<1>1. f = CHOOSE g : g = Loop(h, g)
    BY Zenon DEF Gathered, Loop
<1>2. f = Loop(h, f)
    <2> HIDE DEF f
    <2> QED
        BY <1>1, LoopExists, Zenon
<1> HIDE DEF f
<1>3. LoopTo(h, Len(h), f)
    BY <1>2 DEF Loop, LoopTo
<1> QED
    BY <1>3, Zenon DEF f

\* What the loop has gathered behind event n: entries of the events before it.
LEMMA GatheredEntries ==
    ASSUME MemoryAssumption, NEW h \in Seq(Event)
    PROVE  \A n \in 0..Len(h) :
              /\ Gathered(h)[n] \in Seq(Entry)
              /\ \A i \in DOMAIN Gathered(h)[n] : \E j \in DOMAIN h :
                    h[j].tag = Gathered(h)[n][i].id
<1> DEFINE f == Gathered(h)
           Good(v) == /\ v \in Seq(Entry)
                      /\ \A i \in DOMAIN v : \E j \in DOMAIN h : h[j].tag = v[i].id
           S == {n \in 0..Len(h) : Good(f[n])}
<1>1. Len(h) \in Nat
    OBVIOUS
<1>2. LoopTo(h, Len(h), f)
    BY <1>1, GatheredLoop, Zenon
<1> HIDE DEF f
<1>3. f[0] = <<>>
    <2>1. 0 \in 0..Len(h)
        BY <1>1
    <2> QED
        BY <1>2, <2>1, Zenon DEF LoopTo
<1>4. 0 \in S
    <2>1. Good(<<>>)
        OBVIOUS
    <2> HIDE DEF Good
    <2> QED
        BY <1>1, <1>3, <2>1
<1>5. ASSUME NEW n \in 0..(Len(h) - 1), n \in S PROVE n + 1 \in S
    <2>1. n + 1 \in 0..Len(h) /\ n + 1 # 0 /\ n + 1 - 1 = n /\ n + 1 \in DOMAIN h
        BY <1>1
    <2>2. Good(f[n])
        BY <1>5 DEF S
    <2>3. f[n + 1] = IF Remembered(h[n + 1]) THEN Append(f[n], EntryOf(h[n + 1])) ELSE f[n]
        BY <1>2, <2>1 DEF LoopTo
    <2> DEFINE e == EntryOf(h[n + 1])
    <2>4. h[n + 1] \in Event
        BY <2>1
    <2>5. e \in Entry /\ e.id = h[n + 1].tag
        BY <2>4, EventFields DEF EntryOf, Entry, Event, MemoryAssumption
    <2> HIDE DEF e
    <2>6. ASSUME NEW v, Good(v) PROVE Good(Append(v, e))
        <3>1. /\ Append(v, e) \in Seq(Entry) /\ Len(v) \in Nat
              /\ DOMAIN v = 1..Len(v) /\ DOMAIN Append(v, e) = 1..(Len(v) + 1)
              /\ Append(v, e)[Len(v) + 1] = e
              /\ \A i \in 1..Len(v) : Append(v, e)[i] = v[i]
            BY <2>5, <2>6
        <3> DEFINE w == Append(v, e)
        <3> HIDE DEF w
        <3>2. ASSUME NEW i \in 1..(Len(v) + 1) PROVE \E j \in DOMAIN h : h[j].tag = w[i].id
            <4>1. CASE i = Len(v) + 1
                BY <2>1, <2>5, <3>1, <4>1 DEF w
            <4>2. CASE i # Len(v) + 1
                <5>1. i \in DOMAIN v /\ w[i] = v[i]
                    BY <3>1, <4>2 DEF w
                <5> QED
                    BY <2>6, <5>1
            <4> QED
                BY <4>1, <4>2
        <3> QED
            BY <3>1, <3>2 DEF w
    <2> HIDE DEF Good
    <2>7. Good(f[n + 1])
        BY <2>2, <2>3, <2>6 DEF e
    <2> QED
        BY <2>1, <2>7
<1>6. \A n \in 0..Len(h) : n \in S
    <2> HIDE DEF S
    <2> QED
        BY <1>1, <1>4, <1>5, UpTo
<1> QED
    BY <1>6 DEF f

\* Only the events before it decide what the loop has gathered behind an event.
LEMMA GatheredOfPast ==
    ASSUME NEW h \in Seq(Event), NEW m \in 0..Len(h)
    PROVE  Entries(SubSeq(h, 1, m)) = Gathered(h)[m]
<1> DEFINE g == SubSeq(h, 1, m)
           fh == Gathered(h)
           fg == Gathered(g)
           S == {n \in 0..m : fg[n] = fh[n]}
<1>1. /\ Len(h) \in Nat /\ m \in Nat /\ m <= Len(h)
      /\ Len(g) = m /\ \A n \in 1..m : g[n] = h[n]
    OBVIOUS
<1>2. LoopTo(h, Len(h), fh) /\ LoopTo(g, m, fg)
    <2> HIDE DEF g
    <2> QED
        BY <1>1, GatheredLoop
<1> HIDE DEF g, fh, fg
<1>3. 0 \in S
    <2>1. 0 \in 0..m /\ 0 \in 0..Len(h)
        BY <1>1
    <2> QED
        BY <1>2, <2>1 DEF LoopTo
<1>4. ASSUME NEW n \in 0..(m - 1), n \in S PROVE n + 1 \in S
    <2>1. /\ n + 1 \in 0..Len(h) /\ n + 1 \in 0..m /\ n + 1 # 0 /\ n + 1 - 1 = n
          /\ n + 1 \in 1..m
        BY <1>1
    <2>2. fh[n + 1] = IF Remembered(h[n + 1]) THEN Append(fh[n], EntryOf(h[n + 1])) ELSE fh[n]
        BY <1>2, <2>1 DEF LoopTo
    <2>3. fg[n + 1] = IF Remembered(g[n + 1]) THEN Append(fg[n], EntryOf(g[n + 1])) ELSE fg[n]
        BY <1>2, <2>1 DEF LoopTo
    <2>4. g[n + 1] = h[n + 1] /\ fg[n] = fh[n]
        BY <1>1, <1>4, <2>1
    <2> QED
        BY <2>1, <2>2, <2>3, <2>4
<1>5. m \in S
    <2>1. \A n \in 0..m : n \in S
        <3> HIDE DEF S
        <3> QED
            BY <1>1, <1>3, <1>4, UpTo
    <2> QED
        BY <1>1, <2>1
<1> QED
    BY <1>1, <1>5 DEF Entries, g, fg, fh

\* A longer past has what a shorter one has, and in the same places.
LEMMA PastsGrow ==
    ASSUME MemoryAssumption, NEW h \in Seq(Event), NEW n \in 0..Len(h)
    PROVE  IsPrefix(Entries(SubSeq(h, 1, n)), Entries(h))
<1> DEFINE f == Gathered(h)
           v == f[n]
           Extends(w) == /\ Len(v) <= Len(w)
                         /\ \A i \in 1..Len(v) : w[i] = v[i]
           S == {k \in 0..(Len(h) - n) : Extends(f[n + k])}
<1>1. Len(h) \in Nat /\ n \in Nat /\ n <= Len(h) /\ Len(h) - n \in Nat
    OBVIOUS
<1>2. LoopTo(h, Len(h), f)
    BY <1>1, GatheredLoop, Zenon
<1>3. \A k \in 0..Len(h) : f[k] \in Seq(Entry)
    BY GatheredEntries, Zenon
<1> HIDE DEF f
<1>4. v \in Seq(Entry) /\ Len(v) \in Nat
    BY <1>3
<1>5. 0 \in S
    <2>1. Extends(v) /\ n + 0 = n
        BY <1>1, <1>4
    <2> HIDE DEF Extends
    <2> QED
        BY <1>1, <2>1
<1> HIDE DEF v
<1>6. ASSUME NEW k \in 0..(Len(h) - n - 1), k \in S PROVE k + 1 \in S
    <2>1. /\ n + (k + 1) \in 0..Len(h) /\ n + (k + 1) # 0 /\ n + (k + 1) - 1 = n + k
          /\ n + k \in 0..Len(h) /\ n + (k + 1) \in DOMAIN h
          /\ k + 1 \in 0..(Len(h) - n)
        BY <1>1
    <2> DEFINE next == n + (k + 1)
               e == EntryOf(h[next])
    <2>2. f[next] = IF Remembered(h[next]) THEN Append(f[n + k], e) ELSE f[n + k]
        BY <1>2, <2>1 DEF LoopTo
    <2>3. Extends(f[n + k])
        BY <1>6 DEF S
    <2>4. f[n + k] \in Seq(Entry)
        BY <1>3, <2>1
    <2> HIDE DEF next, e
    <2>5. Extends(Append(f[n + k], e))
        <3> DEFINE w == f[n + k]
        <3>1. /\ Len(w) \in Nat /\ Len(Append(w, e)) = Len(w) + 1
              /\ \A i \in 1..Len(w) : Append(w, e)[i] = w[i]
            <4> HIDE DEF w
            <4>1. w \in Seq(Entry)
                BY <2>4 DEF w
            <4> QED
                BY <4>1, AppendProperties
        <3> HIDE DEF w
        <3> QED
            BY <1>4, <2>3, <3>1 DEF w
    <2> HIDE DEF Extends
    <2>6. Extends(f[next])
        BY <2>2, <2>3, <2>5
    <2> QED
        BY <2>1, <2>6 DEF next
<1>7. Len(h) - n \in S
    <2>1. \A k \in 0..(Len(h) - n) : k \in S
        <3>1. \A k \in 0..((Len(h) - n) - 1) : k \in S => k + 1 \in S
            BY <1>6
        <3> HIDE DEF S
        <3> QED
            BY <1>1, <1>5, <3>1, UpTo
    <2>2. Len(h) - n \in 0..(Len(h) - n)
        BY <1>1
    <2> HIDE DEF S
    <2> QED
        BY <2>1, <2>2
<1>8. Extends(f[Len(h)])
    <2>1. Extends(f[n + (Len(h) - n)]) /\ n + (Len(h) - n) = Len(h)
        BY <1>1, <1>7
    <2> HIDE DEF Extends
    <2> QED
        BY <2>1
<1>9. Entries(h) = f[Len(h)] /\ Entries(SubSeq(h, 1, n)) = v /\ f[Len(h)] \in Seq(Entry)
    BY <1>1, <1>3, GatheredOfPast DEF Entries, f, v
<1> DEFINE w == f[Len(h)]
<1>10. w \in Seq(Entry) /\ v \in Seq(Entry) /\ Len(v) \in Nat /\ Len(w) \in Nat
    BY <1>4, <1>9
<1> HIDE DEF w
<1>11. Len(v) <= Len(w) /\ \A i \in 1..Len(v) : w[i] = v[i]
    BY <1>8 DEF w
<1>12. /\ SubSeq(v, 1, Len(v)) = [i \in 1..Len(v) |-> v[i]]
       /\ SubSeq(w, 1, Len(v)) = [i \in 1..Len(v) |-> w[i]]
    BY <1>10, <1>11
<1>13. IsPrefix(v, w)
    BY <1>11, <1>12 DEF IsPrefix
<1> QED
    BY <1>9, <1>13 DEF w

-----------------------------------------------------------------------------
(***************************************************************************)
(* What the calls in progress know, and what searches find                 *)
(***************************************************************************)

LEMMA CallTypesStep ==
    ASSUME MemoryInv, CallTypes, [MemoryNext]_allVars
    PROVE  CallTypes'
<1>0. Functions /\ IngestsHoldPasts /\ TypeOK
    BY Zenon DEF MemoryInv
<1>1. CASE UNCHANGED memoryVars
    BY <1>1 DEF CallTypes, memoryVars
<1>2. ASSUME NEW c \in Ingests, NEW o \in Objects, ReadSession(c, o) PROVE CallTypes'
    <2> DEFINE r == [obj |-> o, values |-> Entries(events[o]), overtaken |-> FALSE]
    <2>1. ingests' = [ingests EXCEPT ![c] = r] /\ source' = source
        BY <1>2, Zenon DEF ReadSession
    <2>2. r.overtaken = FALSE
        OBVIOUS
    <2> HIDE DEF r
    <2>3. ASSUME NEW d \in Ingests PROVE ingests'[d].overtaken \in BOOLEAN
        <3>1. ingests'[d] = IF d = c THEN r ELSE ingests[d]
            BY <1>0, <2>1 DEF Functions
        <3> QED
            BY <2>2, <3>1 DEF CallTypes
    <2> QED
        BY <2>1, <2>3 DEF CallTypes
<1>3. ASSUME NEW c \in Ingests, StoreEntries(c) PROVE CallTypes'
    <2> DEFINE id == owner[ingests[c].obj]
    <2>1. /\ ingests[c] # Idle
          /\ source' = [source EXCEPT ![id] = ingests[c].obj]
          /\ ingests' = [d \in Ingests |->
                            IF d = c THEN Idle
                            ELSE [ingests[d] EXCEPT !.overtaken =
                                     ingests[d].overtaken \/ Overtakes(c, d)]]
        BY <1>3, Zenon DEF StoreEntries
    <2>2. ingests[c].obj \in Objects
        BY <1>0, <2>1 DEF IngestsHoldPasts, HoldsAPast, TypeOK
    <2>3. source' \in [SessionId -> Objects \cup {NoObject}]
        BY <2>1, <2>2 DEF CallTypes
    <2>4. ASSUME NEW d \in Ingests PROVE ingests'[d].overtaken \in BOOLEAN
        <3>1. CASE d = c
            BY <2>1, <3>1 DEF Idle
        <3>2. CASE d # c
            <4> DEFINE over == ingests[d].overtaken \/ Overtakes(c, d)
            <4>1. ingests'[d] = [ingests[d] EXCEPT !.overtaken = over]
                BY <2>1, <3>2, Zenon
            <4>2. over \in BOOLEAN
                BY Zenon
            <4> HIDE DEF over
            <4>3. \E obj, values, was :
                     ingests[d] = [obj |-> obj, values |-> values, overtaken |-> was]
                BY <1>0, Zenon DEF IngestsHoldPasts, HoldsAPast, Idle
            <4>4. ingests'[d].overtaken = over
                BY <4>1, <4>3
            <4> QED
                BY <4>2, <4>4
        <3> QED
            BY <3>1, <3>2
    <2> QED
        BY <2>3, <2>4 DEF CallTypes
<1> QED
    BY <1>1, <1>2, <1>3 DEF MemoryNext, allVars

\* What ReadSession reads has all that is stored of the same session.
LEMMA ReadIsNewer ==
    ASSUME MemoryAssumption, MemoryInv, NEW o \in alloc, source[owner[o]] = o
    PROVE  IsPrefix(memory[owner[o]], Entries(events[o]))
<1>1. events[o] \in Seq(Event) /\ owner[o] \in SessionId /\ o \in Objects
    BY DEF MemoryInv, TypeOK
<1>2. CASE memory[owner[o]] = <<>>
    <2>1. Entries(events[o]) \in Seq(Entry)
        <3>1. Len(events[o]) \in 0..Len(events[o])
            BY <1>1
        <3> QED
            BY <1>1, <3>1, GatheredEntries, Zenon DEF Entries
    <2> DEFINE w == Entries(events[o])
    <2> HIDE DEF w
    <2>2. IsPrefix(<<>>, w)
        <3>1. w \in Seq(Entry)
            BY <2>1 DEF w
        <3>2. Len(<<>>) = 0 /\ 0 <= Len(w) /\ SubSeq(<<>>, 1, 0) = <<>> /\ SubSeq(w, 1, 0) = <<>>
            BY <3>1
        <3> QED
            BY <3>2 DEF IsPrefix
    <2> QED
        BY <1>2, <2>2 DEF w
<1>3. CASE memory[owner[o]] # <<>>
    <2>1. \E n \in 0..Len(events[source[owner[o]]]) :
             memory[owner[o]] = Entries(SubSeq(events[source[owner[o]]], 1, n))
        BY <1>1, <1>3, Zenon DEF MemoryInv, MemoryIsAPast, Past
    <2>2. PICK n \in 0..Len(events[o]) : memory[owner[o]] = Entries(SubSeq(events[o], 1, n))
        BY <2>1
    <2> QED
        BY <1>1, <2>2, PastsGrow
<1> QED
    BY <1>2, <1>3

LEMMA SnapshotsStep ==
    ASSUME MemoryAssumption, MemoryInv, SnapshotsAreNewer, [MemoryNext]_allVars
    PROVE  SnapshotsAreNewer'
<1>0. TypeOK /\ Functions /\ IngestsHoldPasts /\ MemoryIsAPast
    BY Zenon DEF MemoryInv
<1>1. ASSUME [Next]_svcVars, UNCHANGED memoryVars PROVE SnapshotsAreNewer'
    <2>1. memory' = memory /\ ingests' = ingests /\ source' = source
        BY <1>1, Zenon DEF memoryVars
    <2>2. ASSUME NEW c \in Ingests, ingests[c] # Idle
          PROVE  owner'[ingests[c].obj] = owner[ingests[c].obj]
        <3>1. ingests[c].obj \in alloc
            BY <1>0, <2>2, Zenon DEF IngestsHoldPasts, HoldsAPast
        <3> QED
            BY <1>0, <1>1, <3>1, PastStays, Zenon
    <2> QED
        BY <2>1, <2>2, Zenon DEF SnapshotsAreNewer
<1>2. ASSUME NEW c \in Ingests, NEW o \in Objects, ReadSession(c, o)
      PROVE  SnapshotsAreNewer'
    <2> DEFINE r == [obj |-> o, values |-> Entries(events[o]), overtaken |-> FALSE]
    <2>1. /\ o \in alloc /\ ingests' = [ingests EXCEPT ![c] = r]
          /\ owner' = owner /\ memory' = memory /\ source' = source
        BY <1>2, Zenon DEF ReadSession, svcVars
    <2>2. r.obj = o /\ r.values = Entries(events[o])
        OBVIOUS
    <2> HIDE DEF r
    <2>3. ASSUME NEW d \in Ingests, ingests'[d] # Idle, ~ingests'[d].overtaken,
                 source[owner[ingests'[d].obj]] = ingests'[d].obj
          PROVE  IsPrefix(memory[owner[ingests'[d].obj]], ingests'[d].values)
        <3>1. ingests'[d] = IF d = c THEN r ELSE ingests[d]
            BY <1>0, <2>1 DEF Functions
        <3>2. CASE d = c
            <4>1. ingests'[d].obj = o /\ ingests'[d].values = Entries(events[o])
                BY <2>2, <3>1, <3>2
            <4>2. IsPrefix(memory[owner[o]], Entries(events[o]))
                BY <2>1, <2>3, <4>1, ReadIsNewer
            <4> QED
                BY <4>1, <4>2, Zenon
        <3>3. CASE d # c
            BY <2>3, <3>1, <3>3, Zenon DEF SnapshotsAreNewer
        <3> QED
            BY <3>2, <3>3
    <2> QED
        BY <2>1, <2>3, Zenon DEF SnapshotsAreNewer
<1>3. ASSUME NEW c \in Ingests, StoreEntries(c) PROVE SnapshotsAreNewer'
    <2> DEFINE id == owner[ingests[c].obj]
    <2>1. /\ ingests[c] # Idle
          /\ memory' = [memory EXCEPT ![id] = ingests[c].values]
          /\ source' = [source EXCEPT ![id] = ingests[c].obj]
          /\ ingests' = [d \in Ingests |->
                            IF d = c THEN Idle
                            ELSE [ingests[d] EXCEPT !.overtaken =
                                     ingests[d].overtaken \/ Overtakes(c, d)]]
          /\ owner' = owner
        BY <1>3, Zenon DEF StoreEntries, svcVars
    <2>2. ASSUME NEW d \in Ingests, ingests'[d] # Idle, ~ingests'[d].overtaken,
                 source'[owner[ingests'[d].obj]] = ingests'[d].obj
          PROVE  IsPrefix(memory'[owner[ingests'[d].obj]], ingests'[d].values)
        <3> DEFINE over == ingests[d].overtaken \/ Overtakes(c, d)
        <3>1. d # c
            BY <2>1, <2>2, Zenon
        <3>2. ingests'[d] = [ingests[d] EXCEPT !.overtaken = over]
            BY <2>1, <3>1, Zenon
        <3> HIDE DEF over
        <3>3. PICK obj, values, was :
                 ingests[d] = [obj |-> obj, values |-> values, overtaken |-> was]
            BY <1>0, Zenon DEF IngestsHoldPasts, HoldsAPast, Idle
        <3>4. /\ ingests'[d].overtaken = over /\ ingests'[d].obj = obj
              /\ ingests'[d].values = values
              /\ ingests[d].obj = obj /\ ingests[d].values = values
            BY <3>2, <3>3
        <3>5. ~over
            BY <2>2, <3>4, Zenon
        <3>6. ~ingests[d].overtaken /\ ~Overtakes(c, d)
            BY <3>5, Zenon DEF over
        <3>7. ingests[d] # Idle
            <4> SUFFICES ASSUME ingests[d] = Idle PROVE FALSE
                OBVIOUS
            <4>1. ingests[d].overtaken = FALSE
                BY DEF Idle
            <4>2. over = FALSE
                BY <3>5, <4>1, <3>6, Zenon DEF over
            <4>3. ingests'[d] = [Idle EXCEPT !.overtaken = FALSE]
                BY <3>2, <4>2, Zenon
            <4> QED
                BY <2>2, <4>3, ClearedTwice, Zenon DEF Idle
        <3>8. owner[obj] # id
            BY <3>1, <3>4, <3>6, <3>7, Zenon DEF Overtakes
        <3>9. memory'[owner[obj]] = memory[owner[obj]] /\ source'[owner[obj]] = source[owner[obj]]
            <4>1. obj \in Objects
                BY <1>0, <3>4, <3>7 DEF IngestsHoldPasts, HoldsAPast, TypeOK
            <4>2. owner[obj] \in SessionId
                BY <1>0, <4>1 DEF TypeOK
            <4> HIDE DEF id
            <4> QED
                BY <1>0, <2>1, <3>8, <4>2 DEF Functions
        <3> QED
            BY <2>2, <3>4, <3>6, <3>7, <3>9, Zenon DEF SnapshotsAreNewer
    <2> QED
        BY <2>1, <2>2, Zenon DEF SnapshotsAreNewer
<1> QED
    BY <1>1, <1>2, <1>3, Zenon DEF MemoryNext, allVars

\* What is stored and what has been read are sequences of entries.
LEMMA PastEntries ==
    ASSUME MemoryAssumption, TypeOK, NEW o \in alloc, NEW n \in 0..Len(events[o])
    PROVE  /\ Entries(Past(o, n)) \in Seq(Entry)
           /\ \A i \in DOMAIN Entries(Past(o, n)) : \E j \in DOMAIN events[o] :
                 events[o][j].tag = Entries(Past(o, n))[i].id
<1>1. events[o] \in Seq(Event)
    BY DEF TypeOK
<1>2. Entries(Past(o, n)) = Gathered(events[o])[n]
    BY <1>1, GatheredOfPast, Zenon DEF Past
<1> QED
    BY <1>1, <1>2, GatheredEntries, Zenon

LEMMA MemoryTypes ==
    ASSUME MemoryAssumption, MemoryInv, CallTypes
    PROVE  MemoryTypeOK
<1>0. TypeOK /\ Functions /\ IngestsHoldPasts /\ MemoryIsAPast
    BY Zenon DEF MemoryInv
<1>1. ASSUME NEW id \in SessionId PROVE memory[id] \in Seq(Entry)
    <2>1. CASE memory[id] = <<>>
        BY <2>1
    <2>2. CASE memory[id] # <<>>
        <3> DEFINE o == source[id]
        <3>1. o \in alloc /\ \E n \in 0..Len(events[o]) : memory[id] = Entries(Past(o, n))
            BY <1>0, <2>2, Zenon DEF MemoryIsAPast
        <3> HIDE DEF o
        <3> QED
            BY <1>0, <3>1, PastEntries, Zenon
    <2> QED
        BY <2>1, <2>2
<1>2. ASSUME NEW c \in Ingests PROVE ingests[c] \in Ingest \cup {Idle}
    <2>1. CASE ingests[c] = Idle
        BY <2>1, Zenon
    <2>2. CASE ingests[c] # Idle
        <3> DEFINE r == ingests[c]
        <3>1. HoldsAPast(r)
            BY <1>0, <2>2, Zenon DEF IngestsHoldPasts
        <3>2. r.overtaken \in BOOLEAN
            BY DEF CallTypes
        <3> HIDE DEF r
        <3>3. r.obj \in alloc /\ \E n \in 0..Len(events[r.obj]) : r.values = Entries(Past(r.obj, n))
            BY <3>1, Zenon DEF HoldsAPast
        <3>4. r.values \in Seq(Entry)
            BY <1>0, <3>3, PastEntries, Zenon
        <3>5. r.obj \in Objects
            BY <1>0, <3>3 DEF TypeOK
        <3>6. r = [obj |-> r.obj, values |-> r.values, overtaken |-> r.overtaken]
            BY <3>1, Zenon DEF HoldsAPast
        <3>7. r \in Ingest
            BY <3>2, <3>4, <3>5, <3>6 DEF Ingest
        <3> QED
            BY <3>7, Zenon DEF r
    <2> QED
        BY <2>1, <2>2
<1>3. memory \in [SessionId -> Seq(Entry)]
    BY <1>0, <1>1 DEF Functions
<1>4. ingests \in [Ingests -> Ingest \cup {Idle}]
    BY <1>0, <1>2 DEF Functions
<1> QED
    BY <1>0, <1>3, <1>4, Zenon DEF MemoryTypeOK, CallTypes

\* A search finds what is stored of the user's sessions, and only that.
LEMMA SearchFinds ==
    ASSUME MemoryAssumption, MemoryInv, MemoryTypeOK
    PROVE  SearchesOwnPast
<1> SUFFICES ASSUME NEW a \in Apps, NEW u \in Users, NEW query \in SUBSET Words
             PROVE  /\ \A e \in SearchMemory(a, u, query) : \E o \in alloc :
                          /\ owner[o].app = a /\ owner[o].user = u
                          /\ \E i \in DOMAIN events[o] : events[o][i].tag = e.id
                    /\ \A id \in SessionId : id.app = a /\ id.user = u =>
                          \A i \in DOMAIN memory[id] :
                             (\E w \in query : w \in memory[id][i].words) =>
                                memory[id][i] \in SearchMemory(a, u, query)
    BY Zenon DEF SearchesOwnPast
<1>0. TypeOK /\ MemoryIsAPast
    BY Zenon DEF MemoryInv
<1>1. \A id \in SessionId : memory[id] \in Seq(Entry)
    BY DEF MemoryTypeOK
<1>2. \A e : e \in SearchMemory(a, u, query) <=>
             /\ \E id \in SessionId : id.app = a /\ id.user = u /\ e \in Range(memory[id])
             /\ WordsIntersect(e.words, query)
    BY DEF SearchMemory
<1>3. \A id \in SessionId : \A e :
         e \in Range(memory[id]) <=> \E i \in DOMAIN memory[id] : e = memory[id][i]
    BY DEF Range
<1>4. ASSUME NEW e \in SearchMemory(a, u, query)
      PROVE  \E o \in alloc : /\ owner[o].app = a /\ owner[o].user = u
                              /\ \E i \in DOMAIN events[o] : events[o][i].tag = e.id
    <2>1. PICK id \in SessionId : id.app = a /\ id.user = u /\ e \in Range(memory[id])
        BY <1>2, <1>4, Zenon
    <2>2. PICK i \in DOMAIN memory[id] : e = memory[id][i]
        BY <1>3, <2>1, Zenon
    <2>3. memory[id] # <<>>
        BY <2>2
    <2>4. PICK o : o = source[id]
        OBVIOUS
    <2>5. o \in alloc /\ owner[o] = id
        BY <1>0, <2>3, <2>4, Zenon DEF MemoryIsAPast
    <2>6. PICK n \in 0..Len(events[o]) : memory[id] = Entries(Past(o, n))
        BY <1>0, <2>3, <2>4 DEF MemoryIsAPast
    <2>7. \A k \in DOMAIN memory[id] : \E j \in DOMAIN events[o] :
             events[o][j].tag = memory[id][k].id
        BY <1>0, <2>5, <2>6, PastEntries
    <2>8. \E j \in DOMAIN events[o] : events[o][j].tag = e.id
        BY <2>2, <2>7, Zenon
    <2> QED
        BY <2>1, <2>5, <2>8, Zenon
<1>5. ASSUME NEW id \in SessionId, id.app = a, id.user = u, NEW i \in DOMAIN memory[id],
             NEW w \in query, w \in memory[id][i].words
      PROVE  memory[id][i] \in SearchMemory(a, u, query)
    <2>1. memory[id][i] \in Range(memory[id])
        BY <1>3, Zenon
    <2>2. WordsIntersect(memory[id][i].words, query)
        BY <1>5 DEF WordsIntersect
    <2> QED
        BY <1>2, <1>5, <2>1, <2>2, Zenon
<1> QED
    BY <1>4, <1>5, Zenon

LEMMA CallsInit ==
    ASSUME MemoryInit PROVE CallTypes /\ SnapshotsAreNewer
<1>1. source = [id \in SessionId |-> NoObject] /\ ingests = [c \in Ingests |-> Idle]
    BY Zenon DEF MemoryInit
<1>2. \A c \in Ingests : ingests[c] = Idle /\ ingests[c].overtaken = FALSE
    BY <1>1 DEF Idle
<1>3. CallTypes
    BY <1>1, <1>2 DEF CallTypes
<1>4. SnapshotsAreNewer
    BY <1>2, Zenon DEF SnapshotsAreNewer
<1> QED
    BY <1>3, <1>4

\* An ingestion that ends leaves what it has read.
LEMMA EndForgetsNothing ==
    ASSUME MemoryInv, SnapshotsAreNewer, [MemoryNext]_allVars,
           NEW c \in Ingests, ingests[c] # Idle, ingests'[c] = Idle,
           ~ingests[c].overtaken, source[owner[ingests[c].obj]] = ingests[c].obj
    PROVE  IsPrefix(memory[owner[ingests[c].obj]], memory'[owner[ingests[c].obj]])
<1>0. TypeOK /\ Functions /\ IngestsHoldPasts
    BY Zenon DEF MemoryInv
<1>1. ~ UNCHANGED memoryVars
    <2>1. UNCHANGED memoryVars => ingests' = ingests
        BY Zenon DEF memoryVars
    <2> QED
        BY <2>1, Zenon
<1>2. ~ \E d \in Ingests, o \in Objects : ReadSession(d, o)
    <2> SUFFICES ASSUME NEW d \in Ingests, NEW o \in Objects, ReadSession(d, o) PROVE FALSE
        BY Zenon
    <2>1. ingests[d] = Idle /\ d # c
        BY Zenon DEF ReadSession
    <2> DEFINE r == [obj |-> o, values |-> Entries(events[o]), overtaken |-> FALSE]
    <2>2. ingests' = [ingests EXCEPT ![d] = r]
        BY Zenon DEF ReadSession
    <2> HIDE DEF r
    <2>3. ingests'[c] = ingests[c]
        BY <1>0, <2>1, <2>2 DEF Functions
    <2> QED
        BY <2>3, Zenon
<1>3. PICK d \in Ingests : StoreEntries(d)
    BY <1>1, <1>2, Zenon DEF MemoryNext, allVars
<1>4. /\ ingests[d] # Idle
      /\ memory' = [memory EXCEPT ![owner[ingests[d].obj]] = ingests[d].values]
      /\ ingests' = [e \in Ingests |->
                        IF e = d THEN Idle
                        ELSE [ingests[e] EXCEPT !.overtaken =
                                 ingests[e].overtaken \/ Overtakes(d, e)]]
    BY <1>3, Zenon DEF StoreEntries
<1>5. ingests[c].obj \in Objects
    BY <1>0 DEF IngestsHoldPasts, HoldsAPast, TypeOK
<1>6. d = c
    <2> SUFFICES ASSUME d # c PROVE FALSE
        OBVIOUS
    <2> DEFINE over == ingests[c].overtaken \/ Overtakes(d, c)
    <2>1. ingests'[c] = [ingests[c] EXCEPT !.overtaken = over]
        BY <1>4, Zenon
    <2> HIDE DEF over
    <2>2. \E obj, values, was :
             ingests[c] = [obj |-> obj, values |-> values, overtaken |-> was]
        <3>1. HoldsAPast(ingests[c])
            BY <1>0, Zenon DEF IngestsHoldPasts
        <3> QED
            BY <3>1, Zenon DEF HoldsAPast
    <2>3. ingests'[c].obj = ingests[c].obj
        BY <2>1, <2>2
    <2>4. Idle.obj = NoObject
        BY DEF Idle
    <2> QED
        BY <1>5, <2>3, <2>4, NilsDistinct
<1> DEFINE id == owner[ingests[c].obj]
<1>7. id \in SessionId
    BY <1>0, <1>5 DEF TypeOK
<1>8. IsPrefix(memory[id], ingests[c].values)
    BY Zenon DEF SnapshotsAreNewer
<1>9. memory' = [memory EXCEPT ![id] = ingests[c].values]
    BY <1>4, <1>6, Zenon
<1> HIDE DEF id
<1>10. memory'[id] = ingests[c].values
    BY <1>0, <1>7, <1>9 DEF Functions
<1> QED
    BY <1>8, <1>10, Zenon DEF id

-----------------------------------------------------------------------------
(***************************************************************************)
(* The theorems                                                            *)
(***************************************************************************)

LEMMA MemoryInvInit == MemoryInit => MemoryInv
<1> SUFFICES ASSUME MemoryInit PROVE MemoryInv
    OBVIOUS
<1>1. TypeOK
    BY InitTypeOK, Zenon DEF MemoryInit
<1>2. Functions
    BY DEF MemoryInit, Functions
<1>3. /\ \A id \in SessionId : memory[id] = <<>>
      /\ \A c \in Ingests : ingests[c] = Idle
    BY DEF MemoryInit
<1> QED
    BY <1>1, <1>2, <1>3, Zenon DEF MemoryInv, IngestsHoldPasts, MemoryIsAPast

LEMMA MemoryInvStep ==
    ASSUME MemoryInv, [MemoryNext]_allVars PROVE MemoryInv'
<1>1. CASE Next /\ UNCHANGED memoryVars
    BY <1>1, ServiceStep, Zenon
<1>2. ASSUME NEW c \in Ingests, NEW o \in Objects, ReadSession(c, o) PROVE MemoryInv'
    BY <1>2, ReadStep, Zenon
<1>3. ASSUME NEW c \in Ingests, StoreEntries(c) PROVE MemoryInv'
    BY <1>3, StoreStep, Zenon
<1>4. CASE UNCHANGED allVars
    BY <1>4, ServiceStep, Zenon DEF allVars
<1> QED
    BY <1>1, <1>2, <1>3, <1>4, Zenon DEF MemoryNext

(***************************************************************************)
(* However appends, deletes and ingestions interleave, what is stored for  *)
(* a session id is a whole past of one session of that very id: an         *)
(* ingestion that reads before it locks loses recency, and nothing else    *)
(* (AddSessionToMemory).                                                   *)
(***************************************************************************)
THEOREM MemoryAlwaysAPast == MemorySpec => []MemoryIsAPast
<1>1. MemoryInv /\ [MemoryNext]_allVars => MemoryInv'
    BY MemoryInvStep
<1>2. MemoryInv => MemoryIsAPast
    BY Zenon DEF MemoryInv
<1> QED
    BY <1>1, <1>2, MemoryInvInit, PTL DEF MemorySpec

\* What a user finds is what was said in the user's own sessions, and what the memory holds
\* of a session is a whole past of it (AddSessionToMemory, SearchMemory).
THEOREM SearchesAlwaysFindThePast == MemorySpec => []SearchesFindThePast
<1>1. MemoryInv /\ [MemoryNext]_allVars => MemoryInv'
    BY MemoryInvStep
<1>2. MemoryInv /\ CallTypes /\ [MemoryNext]_allVars => CallTypes'
    BY CallTypesStep
<1>3. MemoryInit => CallTypes
    BY CallsInit
<1>4. MemoryInv /\ CallTypes => SearchesFindThePast
    BY MemoryAssumption, MemoryTypes, SearchFinds, Zenon DEF SearchesFindThePast, MemoryInv
<1> QED
    BY <1>1, <1>2, <1>3, <1>4, MemoryInvInit, PTL DEF MemorySpec

\* An ingestion that no other one overtook forgets nothing of the session it is of
\* (AddSessionToMemory: the read before the lock and the store under it).
THEOREM AloneNothingIsForgotten == MemorySpec => AloneForgetsNothing
<1> DEFINE Keeps ==
        \A c \in Ingests :
            LET id == owner[ingests[c].obj]
            IN ingests[c] # Idle /\ ingests'[c] = Idle =>
                \/ ingests[c].overtaken
                \/ source[id] # ingests[c].obj
                \/ IsPrefix(memory[id], memory'[id])
<1>1. MemoryInv /\ [MemoryNext]_allVars => MemoryInv'
    BY MemoryInvStep
<1>2. MemoryInv /\ SnapshotsAreNewer /\ [MemoryNext]_allVars => SnapshotsAreNewer'
    BY MemoryAssumption, SnapshotsStep
<1>3. MemoryInit => SnapshotsAreNewer
    BY CallsInit
<1>4. MemoryInv /\ SnapshotsAreNewer /\ [MemoryNext]_allVars => Keeps
    BY EndForgetsNothing, Zenon
<1>5. MemoryInv /\ SnapshotsAreNewer /\ [MemoryNext]_allVars => [Keeps]_allVars
    <2> HIDE DEF Keeps
    <2> QED
        BY <1>4
<1> QED
    BY <1>1, <1>2, <1>3, <1>5, MemoryInvInit, PTL DEF MemorySpec, AloneForgetsNothing, Keeps
================================================================================
