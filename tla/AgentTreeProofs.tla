---------------------------- MODULE AgentTreeProofs ----------------------------
(***************************************************************************)
(* Proofs about an invocation of a tree of agents, for any tree, targets,  *)
(* signals, moves and limits.                                              *)
(***************************************************************************)
EXTENDS AgentTree, SequenceTheorems, FiniteSetTheorems, WellFoundedInduction, TLAPS

-----------------------------------------------------------------------------
(* The inductive invariant.                                                *)

\* A frame whose callees are known; depth[k] is the depth of activation k.
\* Whoever waits for one callee has one; a flow's callees are deeper than it is,
\* and so will be those it still has to call.
Sound(f, depth) ==
    /\ f.pc = "waiting" /\ Kind[f.agent] # "parallel" => f.kids # <<>>
    /\ Kind[f.agent] = "llm" =>
          \A i \in DOMAIN f.kids : f.depth < depth[f.kids[i]]
    /\ \A i \in DOMAIN f.todo : f.depth <= f.todo[i].depth

Depths(s) == [a \in DOMAIN s |-> s[a].depth]

FramesSound == \A a \in DOMAIN acts : Sound(acts[a], Depths(acts))

\* A transferred activation is deeper than the one that executes the transfer.
CallersKnown ==
    \A a \in DOMAIN acts : Transferred(a) =>
        /\ acts[a].parent \in DOMAIN acts
        /\ acts[acts[a].parent].depth < acts[a].depth

TreeInv == TreeTypeOK /\ FramesSound /\ CallersKnown

-----------------------------------------------------------------------------
(* Types grow with the number of activations and events.                   *)

\* Activations and events are only added, so types only widen.
LEMMA FrameTypeGrows ==
    ASSUME NEW n \in Nat, NEW n2 \in Nat, NEW m \in Nat, NEW m2 \in Nat,
           n <= n2, m <= m2
    PROVE  /\ FrameType(n, m) \subseteq FrameType(n2, m2)
           /\ EventType(n) \subseteq EventType(n2)
<1>1. 1..n \subseteq 1..n2 /\ 1..m \subseteq 1..m2 /\ 0..m \subseteq 0..m2
    OBVIOUS
<1>2. Request(m) \subseteq Request(m2)
    BY <1>1 DEF Request
<1>3. /\ Seq(1..n) \subseteq Seq(1..n2)
      /\ Seq(1..m) \subseteq Seq(1..m2)
      /\ Seq(Request(m)) \subseteq Seq(Request(m2))
    BY <1>1, <1>2, SeqMonotonic
<1>4. EventType(n) \subseteq EventType(n2)
    BY <1>1 DEF EventType
<1>5. FrameType(n, m) \subseteq FrameType(n2, m2)
    BY <1>1, <1>3 DEF FrameType
<1> QED
    BY <1>4, <1>5

\* What a frame of the right type has in its fields.
LEMMA FrameFields ==
    ASSUME NEW n \in Nat, NEW m \in Nat, NEW f \in FrameType(n, m)
    PROVE  /\ f.agent \in Agents
           /\ f.depth \in 0..MaxTransferDepth
           /\ f.round \in Nat \ {0}
           /\ f.kids \in Seq(1..n)
           /\ f.now \in Seq(1..m)
           /\ f.todo \in Seq(Request(m))
           /\ f.events \in Seq(1..m)
           /\ f.arrived \in Seq(Nat \ {0})
    BY DEF FrameType

\* The type invariant, field by field.
LEMMA StateTypes ==
    ASSUME TreeTypeOK
    PROVE  /\ Len(acts) \in Nat /\ DOMAIN acts = 1..Len(acts)
           /\ Len(log) \in Nat /\ DOMAIN log = 1..Len(log)
           /\ \A a \in DOMAIN acts : acts[a] \in FrameType(Len(acts), Len(log))
    BY LenProperties, ElementOfSeq DEF TreeTypeOK

\* The invariant survives a step that replaces one frame by a sound one, adds
\* callees of it that have not begun, and adds events.
LEMMA Grow ==
    ASSUME TreeInv, NEW a \in DOMAIN acts, NEW f, NEW new,
           acts' = [acts EXCEPT ![a] = f] \o new,
           log' \in Seq(EventType(Len(acts))), Len(log) <= Len(log'),
           ended' \subseteq 0..Len(acts),
           new \in Seq(FrameType(Len(acts) + Len(new), Len(log'))),
           f \in FrameType(Len(acts) + Len(new), Len(log')),
           f.agent = acts[a].agent, f.parent = acts[a].parent,
           f.cell = acts[a].cell, f.depth = acts[a].depth,
           f.cause = acts[a].cause,
           Sound(f, Depths(acts')),
           \A i \in DOMAIN new :
               /\ new[i].parent = a /\ new[i].cell <= Len(acts) + i
               /\ new[i].pc = "ready" /\ new[i].kids = <<>> /\ new[i].todo = <<>>
               /\ new[i].cause # 0 => f.depth < new[i].depth
    PROVE  TreeInv'
<1> DEFINE n == Len(acts)  k == Len(new)  m2 == Len(log')
           upd == [acts EXCEPT ![a] = f]
<1>1. /\ n \in Nat /\ DOMAIN acts = 1..n /\ k \in Nat /\ DOMAIN new = 1..k
      /\ m2 \in Nat /\ Len(log) \in Nat
    BY StateTypes, LenProperties DEF TreeInv
<1>2. acts \in Seq(FrameType(n + k, m2))
    <2>1. FrameType(n, Len(log)) \subseteq FrameType(n + k, m2)
        BY <1>1, FrameTypeGrows
    <2> QED
        BY <2>1, SeqMonotonic DEF TreeInv, TreeTypeOK
<1>3. /\ upd \in Seq(FrameType(n + k, m2)) /\ Len(upd) = n
      /\ \A j \in 1..n : upd[j] = IF j = a THEN f ELSE acts[j]
    BY <1>1, <1>2, ExceptSeq
<1>4. /\ acts' \in Seq(FrameType(n + k, m2)) /\ Len(acts') = n + k
      /\ \A j \in 1..n : acts'[j] = IF j = a THEN f ELSE acts[j]
      /\ \A j \in 1..k : acts'[n + j] = new[j]
    BY <1>1, <1>3, ConcatProperties
<1>5. DOMAIN acts' = 1..(n + k)
    BY <1>4, LenProperties
<1>6. \A j \in 1..(n + k) : j \in 1..n \/ (j - n \in 1..k /\ acts'[j] = new[j - n])
    BY <1>1, <1>4
<1>7. TreeTypeOK'
    <2>1. \A j \in 1..(n + k) : acts'[j].parent < j /\ acts'[j].cell <= j
        <3> SUFFICES ASSUME NEW j \in 1..(n + k)
                     PROVE  acts'[j].parent < j /\ acts'[j].cell <= j
            OBVIOUS
        <3>1. CASE j \in 1..n
            BY <3>1, <1>1, <1>4 DEF TreeInv, TreeTypeOK
        <3>2. CASE j - n \in 1..k /\ acts'[j] = new[j - n]
            <4>1. /\ new[j - n].parent = a /\ new[j - n].cell <= n + (j - n)
                  /\ a \in 1..n
                BY <3>2, <1>1
            <4>2. n + (j - n) = j /\ a < j
                BY <3>2, <4>1, <1>1
            <4> QED
                BY <3>2, <4>1, <4>2
        <3> QED
            BY <3>1, <3>2, <1>6
    <2>2. ended' \subseteq 0..(n + k)
        BY <1>1
    <2>3. log' \in Seq(EventType(n + k))
        <3>1. EventType(n) \subseteq EventType(n + k)
            BY <1>1, FrameTypeGrows
        <3> QED
            BY <3>1, SeqMonotonic
    <2> QED
        BY <2>1, <2>2, <2>3, <1>4, <1>5 DEF TreeTypeOK
<1>8. \A j \in 1..n : acts'[j].depth = acts[j].depth
    BY <1>4
<1>9. FramesSound'
    <2> SUFFICES ASSUME NEW j \in 1..(n + k)
                 PROVE  Sound(acts'[j], Depths(acts'))
        BY <1>5 DEF FramesSound
    <2>1. CASE j \in 1..n /\ j # a
        <3>1. acts'[j] = acts[j] /\ Sound(acts[j], Depths(acts))
            BY <2>1, <1>1, <1>4 DEF TreeInv, FramesSound
        <3>2. acts[j].kids \in Seq(1..n)
            BY <2>1, <1>1, StateTypes, FrameFields DEF TreeInv
        <3>3. \A i \in DOMAIN acts[j].kids :
                 Depths(acts')[acts[j].kids[i]] = Depths(acts)[acts[j].kids[i]]
            <4> SUFFICES ASSUME NEW i \in DOMAIN acts[j].kids
                         PROVE  LET q == acts[j].kids[i]
                                IN Depths(acts')[q] = Depths(acts)[q]
                OBVIOUS
            <4>1. acts[j].kids[i] \in 1..n
                BY <3>2, ElementOfSeq, LenProperties
            <4> QED
                BY <4>1, <1>1, <1>5, <1>8 DEF Depths
        <3> QED
            BY <3>1, <3>3 DEF Sound
    <2>2. CASE j = a
        BY <2>2, <1>1, <1>4
    <2>3. CASE j - n \in 1..k /\ acts'[j] = new[j - n]
        BY <2>3, <1>1 DEF Sound
    <2> QED
        BY <2>1, <2>2, <2>3, <1>6
<1>10. CallersKnown'
    <2> SUFFICES ASSUME NEW j \in 1..(n + k), acts'[j].cause # 0
                 PROVE  /\ acts'[j].parent \in 1..(n + k)
                        /\ acts'[acts'[j].parent].depth < acts'[j].depth
        BY <1>5 DEF CallersKnown, Transferred
    <2>1. CASE j \in 1..n
        <3>1. /\ acts'[j].parent = acts[j].parent /\ acts'[j].cause = acts[j].cause
              /\ acts'[j].depth = acts[j].depth
            BY <2>1, <1>4
        <3>2. acts[j].parent \in 1..n /\ acts[acts[j].parent].depth < acts[j].depth
            BY <2>1, <3>1, <1>1 DEF TreeInv, CallersKnown, Transferred
        <3> QED
            BY <3>1, <3>2, <1>1, <1>8
    <2>2. CASE j - n \in 1..k /\ acts'[j] = new[j - n]
        <3>1. acts'[j].parent = a /\ f.depth < acts'[j].depth /\ a \in 1..n
            BY <2>2, <1>1
        <3>2. acts'[a] = f /\ a \in 1..(n + k)
            BY <3>1, <1>1, <1>4
        <3> QED
            BY <3>1, <3>2
    <2> QED
        BY <2>1, <2>2, <1>6
<1> QED
    BY <1>7, <1>9, <1>10 DEF TreeInv

\* The special case of a step that starts no activation.
LEMMA Update ==
    ASSUME TreeInv, NEW a \in DOMAIN acts, NEW f,
           acts' = [acts EXCEPT ![a] = f],
           log' \in Seq(EventType(Len(acts))), Len(log) <= Len(log'),
           ended' \subseteq 0..Len(acts),
           f \in FrameType(Len(acts), Len(log')),
           f.agent = acts[a].agent, f.parent = acts[a].parent,
           f.cell = acts[a].cell, f.depth = acts[a].depth,
           f.cause = acts[a].cause,
           Sound(f, Depths(acts))
    PROVE  TreeInv'
<1> DEFINE n == Len(acts)  S == FrameType(n, Len(log'))
<1>1. /\ n \in Nat /\ DOMAIN acts = 1..n /\ Len(log) \in Nat /\ Len(log') \in Nat
      /\ acts \in Seq(FrameType(n, Len(log)))
    BY StateTypes, LenProperties DEF TreeInv, TreeTypeOK
<1>2. acts \in Seq(S)
    BY <1>1, FrameTypeGrows, SeqMonotonic
<1>3. /\ acts' \in Seq(S) /\ Len(acts') = n
      /\ \A j \in 1..n : acts'[j] = IF j = a THEN f ELSE acts[j]
    BY <1>1, <1>2, ExceptSeq
<1>4. acts' = [acts EXCEPT ![a] = f] \o <<>>
    BY <1>3, ConcatEmptySeq
<1>5. <<>> \in Seq(FrameType(n + Len(<<>>), Len(log'))) /\ n + Len(<<>>) = n
    BY <1>1, EmptySeq
<1>6. DOMAIN acts' = DOMAIN acts /\ \A j \in DOMAIN acts : acts'[j].depth = acts[j].depth
    BY <1>1, <1>3, LenProperties
<1>7. Depths(acts') = Depths(acts)
    BY <1>6 DEF Depths
<1>8. DOMAIN (<<>>) = {}
    OBVIOUS
<1> QED
    BY <1>4, <1>5, <1>7, <1>8, Grow

-----------------------------------------------------------------------------
(* Every action keeps the invariant.                                       *)

\* An invocation starts with one sound frame.
LEMMA InitInv == TreeInit => TreeInv
<1> SUFFICES ASSUME TreeInit PROVE TreeInv
    OBVIOUS
<1> USE AgentTreeAssumption
<1>1. PICK g \in Entry : acts = <<Frame(g, 0, 0, 0, 0)>>
    BY DEF TreeInit
<1>2. ended = {} /\ log = <<>> /\ Len(acts) = 1 /\ Len(log) = 0 /\ DOMAIN acts = {1}
    BY <1>1 DEF TreeInit
<1>3. acts[1] = Frame(g, 0, 0, 0, 0) /\ g \in Agents
    BY <1>1
<1>4. Frame(g, 0, 0, 0, 0) \in FrameType(1, 0)
    <2>1. <<>> \in Seq(1..1) /\ <<>> \in Seq(1..0) /\ <<>> \in Seq(Request(0))
          /\ <<>> \in Seq(Nat \ {0})
        BY EmptySeq
    <2> QED
        BY <1>3, <2>1 DEF Frame, FrameType, Pcs
<1>5. TreeTypeOK
    <2>1. acts \in Seq(FrameType(1, 0))
        BY <1>1, <1>4
    <2>2. log \in Seq(EventType(1))
        BY <1>2, EmptySeq
    <2> QED
        BY <1>2, <1>3, <2>1, <2>2 DEF TreeTypeOK, Frame
<1>6. FramesSound /\ CallersKnown
    BY <1>2, <1>3 DEF FramesSound, Sound, CallersKnown, Transferred, Frame
<1> QED
    BY <1>5, <1>6 DEF TreeInv

\* What the invariant says of the frame that a step starts from.
LEMMA FrameFacts ==
    ASSUME TreeInv, NEW a \in DOMAIN acts
    PROVE  /\ Len(acts) \in Nat /\ Len(log) \in Nat
           /\ DOMAIN acts = 1..Len(acts) /\ DOMAIN log = 1..Len(log)
           /\ acts[a] \in FrameType(Len(acts), Len(log))
           /\ Sound(acts[a], Depths(acts))
           /\ log \in Seq(EventType(Len(acts)))
           /\ ended \subseteq 0..Len(acts)
           /\ acts[a].cell \in 0..Len(acts)
<1>1. acts[a].cell \in Nat /\ acts[a].cell <= a
    BY StateTypes DEF TreeInv, TreeTypeOK, FrameType
<1> QED
    BY <1>1, StateTypes DEF TreeInv, TreeTypeOK, FramesSound

\* An event that a step adds.
LEMMA OneEvent ==
    ASSUME TreeInv, NEW a \in DOMAIN acts, NEW from \in Sources,
           NEW to \in Agents \cup {NoAgent}, NEW signals \in SUBSET Signals,
           log' = Append(log, Event(a, from, to, signals))
    PROVE  /\ log' \in Seq(EventType(Len(acts)))
           /\ Len(log') = Len(log) + 1
           /\ \A i \in 1..Len(log) : log'[i] = log[i]
           /\ log'[Len(log) + 1] = Event(a, from, to, signals)
<1>1. Event(a, from, to, signals) \in EventType(Len(acts))
    BY FrameFacts DEF Event, EventType
<1> QED
    BY <1>1, FrameFacts, AppendProperties

\* A frame of this activation with everything that its steps may change.
Renewed(a, p, r, ks, now, todo, es, arrived) ==
    [acts[a] EXCEPT !.pc = p, !.round = r, !.kids = ks, !.now = now,
                    !.todo = todo, !.events = es, !.arrived = arrived]

\* The invariant survives a step in which an activation starts no other.
LEMMA Renew ==
    ASSUME TreeInv, NEW a \in DOMAIN acts,
           log' \in Seq(EventType(Len(acts))), Len(log) <= Len(log'),
           ended' \subseteq 0..Len(acts),
           NEW p \in Pcs, NEW r \in Nat \ {0}, NEW ks \in {acts[a].kids, <<>>},
           NEW now \in Seq(1..Len(log')), NEW todo \in Seq(Request(Len(log'))),
           NEW es \in Seq(1..Len(log')), NEW arrived \in Seq(Nat \ {0}),
           acts' = [acts EXCEPT ![a] = Renewed(a, p, r, ks, now, todo, es, arrived)],
           p = "waiting" => KindOf(a) = "parallel",
           \A i \in DOMAIN todo : acts[a].depth <= todo[i].depth
    PROVE  TreeInv'
<1> DEFINE n == Len(acts)  m2 == Len(log')
           f == Renewed(a, p, r, ks, now, todo, es, arrived)
<1>1. n \in Nat /\ Len(log) \in Nat /\ m2 \in Nat
    BY FrameFacts, LenProperties
<1>2. acts[a] \in FrameType(n, m2)
    <2>1. FrameType(n, Len(log)) \subseteq FrameType(n, m2)
        <3>1. n <= n /\ Len(log) <= m2
            BY <1>1
        <3> QED
            BY <1>1, <3>1, FrameTypeGrows
    <2> QED
        BY <2>1, FrameFacts
<1>3. ks \in Seq(1..n)
    BY <1>2, EmptySeq DEF FrameType
<1>4. f \in FrameType(n, m2)
    BY <1>2, <1>3 DEF FrameType, Renewed
<1>5. /\ f.agent = acts[a].agent /\ f.parent = acts[a].parent
      /\ f.cell = acts[a].cell /\ f.depth = acts[a].depth
      /\ f.cause = acts[a].cause
      /\ f.pc = p /\ f.kids = ks /\ f.todo = todo
    BY <1>2 DEF FrameType, Renewed
<1>6. Sound(f, Depths(acts))
    <2>1. Sound(acts[a], Depths(acts)) /\ DOMAIN (<<>>) = {}
        BY FrameFacts
    <2> QED
        BY <2>1, <1>5 DEF Sound, KindOf
<1> HIDE DEF f
<1> QED
    BY <1>4, <1>5, <1>6, Update DEF f

\* What is unchanged in a frame has its type when the log has grown.
LEMMA FieldTypes ==
    ASSUME TreeInv, NEW a \in DOMAIN acts, NEW m2 \in Nat, Len(log) <= m2
    PROVE  /\ acts[a].pc \in Pcs /\ acts[a].round \in Nat \ {0}
           /\ acts[a].kids \in Seq(1..Len(acts))
           /\ acts[a].now \in Seq(1..m2) /\ acts[a].todo \in Seq(Request(m2))
           /\ acts[a].events \in Seq(1..m2) /\ acts[a].arrived \in Seq(Nat \ {0})
           /\ \A i \in DOMAIN acts[a].todo : acts[a].depth <= acts[a].todo[i].depth
           /\ acts[a].agent \in Agents /\ acts[a].depth \in Nat
<1>1. acts[a] \in FrameType(Len(acts), m2)
    BY FrameFacts, FrameTypeGrows
<1>2. acts[a].depth \in Nat
    BY <1>1, AgentTreeAssumption DEF FrameType
<1> QED
    BY <1>1, <1>2, FrameFacts DEF FrameType, Sound

\* The invariant survives a step of one activation that adds no event.
LEMMA RenewQuietly ==
    ASSUME TreeInv, NEW a \in DOMAIN acts, log' = log, ended' \subseteq 0..Len(acts),
           NEW p \in Pcs, NEW r \in Nat \ {0}, NEW ks \in {acts[a].kids, <<>>},
           NEW now \in Seq(1..Len(log)), NEW todo \in Seq(Request(Len(log))),
           NEW es \in Seq(1..Len(log)), NEW arrived \in Seq(Nat \ {0}),
           acts' = [acts EXCEPT ![a] = Renewed(a, p, r, ks, now, todo, es, arrived)],
           p = "waiting" => KindOf(a) = "parallel",
           \A i \in DOMAIN todo : acts[a].depth <= todo[i].depth
    PROVE  TreeInv'
<1>1. /\ log' \in Seq(EventType(Len(acts))) /\ Len(log) <= Len(log')
      /\ Len(log') = Len(log)
    BY FrameFacts
<1> QED
    BY <1>1, Renew

\* The types and values of what a quiet step leaves alone.
LEMMA QuietTypes ==
    ASSUME TreeInv, NEW a \in DOMAIN acts
    PROVE  /\ acts[a].round \in Nat \ {0}
           /\ acts[a].now \in Seq(1..Len(log)) /\ acts[a].todo \in Seq(Request(Len(log)))
           /\ acts[a].events \in Seq(1..Len(log)) /\ acts[a].arrived \in Seq(Nat \ {0})
           /\ \A i \in DOMAIN acts[a].todo : acts[a].depth <= acts[a].todo[i].depth
           /\ ended \subseteq 0..Len(acts)
           /\ acts[a].agent \in Agents /\ acts[a].depth \in Nat
           /\ \A p \in {"returned", "failed", "ready", "step", "waiting"} : p \in Pcs
<1>1. Len(log) \in Nat /\ Len(log) <= Len(log)
    BY FrameFacts
<1> QED
    BY <1>1, FrameFacts, FieldTypes DEF Pcs

\* A flow under a context that has ended returns what it has.
LEMMA FlowEndedInv ==
    ASSUME TreeInv, NEW a \in DOMAIN acts, FlowEnded(a) PROVE TreeInv'
<1>1. log' = log /\ ended' = ended
    BY DEF FlowEnded
<1>2. acts' = [acts EXCEPT ![a] = Renewed(a, "returned", acts[a].round, acts[a].kids,
            acts[a].now, acts[a].todo, acts[a].events, acts[a].arrived)]
    BY FrameFacts DEF FlowEnded, Renewed, FrameType
<1> QED
    BY <1>1, <1>2, QuietTypes, RenewQuietly

\* Every failure drops the events and nothing else.
LEMMA FailInv ==
    ASSUME TreeInv, NEW a \in DOMAIN acts, Fail(a), UNCHANGED <<ended, log>>
    PROVE  TreeInv'
<1>1. log' = log /\ ended' = ended /\ <<>> \in Seq(1..Len(log))
    BY EmptySeq
<1>2. acts' = [acts EXCEPT ![a] = Renewed(a, "failed", acts[a].round, acts[a].kids,
            acts[a].now, acts[a].todo, <<>>, acts[a].arrived)]
    BY FrameFacts DEF Fail, Renewed, FrameType
<1> QED
    BY <1>1, <1>2, QuietTypes, RenewQuietly

\* The callee that an activation waits for.
LEMMA LastKidKnown ==
    ASSUME TreeInv, NEW a \in DOMAIN acts, At(a, "waiting"), KindOf(a) # "parallel"
    PROVE  /\ LastKid(a) \in DOMAIN acts
           /\ acts[LastKid(a)].events \in Seq(1..Len(log))
           /\ acts[LastKid(a)].depth \in Nat
           /\ KindOf(a) = "llm" => acts[a].depth < acts[LastKid(a)].depth
<1> DEFINE ks == acts[a].kids
<1>1. ks \in Seq(1..Len(acts)) /\ ks # <<>> /\ Len(acts) \in Nat
    BY FrameFacts DEF FrameType, Sound, At, KindOf
<1>2. Len(ks) \in DOMAIN ks /\ LastKid(a) \in 1..Len(acts)
    <2>1. Len(ks) \in Nat \ {0} /\ DOMAIN ks = 1..Len(ks)
        BY <1>1, EmptySeq, LenProperties
    <2>2. Len(ks) \in 1..Len(ks)
        BY <2>1
    <2> QED
        BY <1>1, <2>1, <2>2, ElementOfSeq DEF LastKid
<1>3. LastKid(a) \in DOMAIN acts
    BY <1>2, FrameFacts
<1>4. KindOf(a) = "llm" => acts[a].depth < acts[LastKid(a)].depth
    BY <1>2, <1>3, FrameFacts DEF Sound, Depths, KindOf, LastKid
<1> QED
    BY <1>3, <1>4, QuietTypes

\* The end of an activation, and the end of a pass of a loop.
LEMMA EndsInv ==
    ASSUME TreeInv, NEW a \in DOMAIN acts,
           SubFails(a) \/ SequenceEnds(a) \/ JoinEnds(a)
    PROVE  TreeInv'
<1>1. log' = log /\ ended' = ended
    BY DEF SubFails, SequenceEnds, JoinEnds
<1>2. PICK p \in {"returned", "failed"} : acts' = [acts EXCEPT ![a].pc = p]
    BY DEF SubFails, SequenceEnds, JoinEnds
<1>3. acts' = [acts EXCEPT ![a] = Renewed(a, p, acts[a].round, acts[a].kids,
            acts[a].now, acts[a].todo, acts[a].events, acts[a].arrived)]
    BY <1>2, FrameFacts DEF Renewed, FrameType
<1>4. p # "waiting"
    BY <1>2
<1> QED
    BY <1>1, <1>3, <1>4, QuietTypes, RenewQuietly

\* A loop returns or forgets the callees of the pass.
LEMMA LoopPassEndsInv ==
    ASSUME TreeInv, NEW a \in DOMAIN acts, LoopPassEnds(a) PROVE TreeInv'
<1>1. log' = log /\ ended' = ended
    BY DEF LoopPassEnds
<1>2. CASE acts' = [acts EXCEPT ![a].pc = "returned"]
    <2>1. acts' = [acts EXCEPT ![a] = Renewed(a, "returned", acts[a].round,
              acts[a].kids, acts[a].now, acts[a].todo, acts[a].events, acts[a].arrived)]
        BY <1>2, FrameFacts DEF Renewed, FrameType
    <2> QED
        BY <1>1, <2>1, QuietTypes, RenewQuietly
<1>3. CASE acts' = [acts EXCEPT ![a].kids = <<>>, ![a].round = @ + 1]
    <2>1. acts' = [acts EXCEPT ![a] = Renewed(a, "ready", acts[a].round + 1, <<>>,
              acts[a].now, acts[a].todo, acts[a].events, acts[a].arrived)]
        BY <1>3, FrameFacts DEF Renewed, FrameType, LoopPassEnds, At
    <2>2. acts[a].round + 1 \in Nat \ {0}
        BY QuietTypes
    <2> QED
        BY <1>1, <2>1, <2>2, QuietTypes, RenewQuietly
<1> QED
    BY <1>2, <1>3 DEF LoopPassEnds

\* A workflow agent after a sub-agent.
LEMMA ResumesInv ==
    ASSUME TreeInv, NEW a \in DOMAIN acts, SequenceResumes(a) \/ LoopResumes(a)
    PROVE  TreeInv'
<1>1. At(a, "waiting") /\ KindOf(a) # "parallel" /\ log' = log
    BY DEF SequenceResumes, LoopResumes
<1>2. Gathered(a) \in Seq(1..Len(log))
    BY <1>1, LastKidKnown, QuietTypes, ConcatProperties DEF Gathered
<1>3. ended' \subseteq 0..Len(acts)
    BY FrameFacts DEF SequenceResumes, LoopResumes, EndedByKid
<1>4. PICK p \in {"returned", "ready"} :
         acts' = [acts EXCEPT ![a].events = Gathered(a), ![a].pc = p]
    <2>1. CASE SequenceResumes(a)
        BY <2>1 DEF SequenceResumes
    <2>2. CASE LoopResumes(a)
        BY <2>2 DEF LoopResumes
    <2> QED
        BY <2>1, <2>2
<1>5. acts' = [acts EXCEPT ![a] = Renewed(a, p, acts[a].round, acts[a].kids,
            acts[a].now, acts[a].todo, Gathered(a), acts[a].arrived)]
    BY <1>4, FrameFacts DEF Renewed, FrameType
<1>6. p # "waiting"
    BY <1>4
<1> QED
    BY <1>1, <1>2, <1>3, <1>5, <1>6, QuietTypes, RenewQuietly

\* A result sent by a goroutine is a place among the callees.
LEMMA SendResultInv ==
    ASSUME TreeInv, NEW a \in DOMAIN acts, SendResult(a) PROVE TreeInv'
<1>1. log' = log /\ ended' = ended /\ KindOf(a) = "parallel"
    BY DEF SendResult
<1>2. PICK i \in DOMAIN acts[a].kids :
         acts' = [acts EXCEPT ![a].arrived = Append(@, i)]
    BY DEF SendResult
<1> DEFINE arrived == Append(acts[a].arrived, i)
<1>3. i \in Nat \ {0}
    <2>1. acts[a].kids \in Seq(1..Len(acts))
        BY FrameFacts DEF FrameType
    <2> QED
        BY <2>1, LenProperties
<1>4. arrived \in Seq(Nat \ {0})
    BY <1>3, QuietTypes, AppendProperties
<1>5. acts' = [acts EXCEPT ![a].arrived = arrived]
    BY <1>2
<1> HIDE DEF arrived
<1>6. acts[a].pc = "waiting"
    BY DEF SendResult, At
<1>7. acts' = [acts EXCEPT ![a] = Renewed(a, "waiting", acts[a].round, acts[a].kids,
            acts[a].now, acts[a].todo, acts[a].events, arrived)]
    BY <1>5, <1>6, FrameFacts DEF Renewed, FrameType
<1> QED
    BY <1>1, <1>4, <1>7, QuietTypes, RenewQuietly

\* A parallel agent gathers the events of one callee.
LEMMA JoinInv ==
    ASSUME TreeInv, NEW a \in DOMAIN acts, Join(a) PROVE TreeInv'
<1> DEFINE k == ResultOrder(a)[acts[a].round]
           es == acts[a].events \o acts[k].events
<1>1. log' = log /\ ended' = ended /\ KindOf(a) = "parallel"
    BY DEF Join
<1>2. k \in DOMAIN acts
    <2>1. acts[a].kids \in Seq(1..Len(acts)) /\ acts[a].round \in DOMAIN acts[a].kids
        BY FrameFacts DEF FrameType, Join, ResultOrder
    <2> QED
        BY <2>1, FrameFacts, LenProperties, ElementOfSeq DEF ResultOrder
<1>3. es \in Seq(1..Len(log))
    BY <1>2, QuietTypes, ConcatProperties
<1>4. acts' = [acts EXCEPT ![a] = Renewed(a, "waiting", acts[a].round + 1,
            acts[a].kids, acts[a].now, acts[a].todo, es, acts[a].arrived)]
    BY FrameFacts DEF Renewed, FrameType, Join, At
<1>5. acts[a].round + 1 \in Nat \ {0}
    BY QuietTypes
<1> QED
    BY <1>1, <1>3, <1>4, <1>5, QuietTypes, RenewQuietly

\* A flow whose model answers: one event more.
LEMMA ModelInv ==
    ASSUME TreeInv, NEW a \in DOMAIN acts, ModelAnswers(a) \/ ModelStalls(a)
    PROVE  TreeInv'
<1> DEFINE m2 == Len(log')  es == Append(acts[a].events, Len(log) + 1)
<1>1. log' = Append(log, Event(a, "model", NoAgent, {})) /\ ended' = ended
    BY DEF ModelAnswers, ModelStalls
<1>2. log' \in Seq(EventType(Len(acts))) /\ m2 = Len(log) + 1
    <2>1. "model" \in Sources /\ NoAgent \in Agents \cup {NoAgent} /\ {} \in SUBSET Signals
        BY DEF Sources
    <2> QED
        BY <1>1, <2>1, OneEvent
<1>3. m2 \in Nat /\ Len(log) <= m2 /\ Len(log) + 1 \in 1..m2
    BY <1>2, FrameFacts
<1>4. es \in Seq(1..m2)
    BY <1>3, FieldTypes, AppendProperties
<1>5. PICK p \in {"returned", "ready"}, r \in Nat \ {0} :
         acts' = [acts EXCEPT ![a].events = es, ![a].round = r, ![a].pc = p]
    <2>1. CASE ModelAnswers(a)
        <3>1. acts' = [acts EXCEPT ![a].events = es, ![a].round = acts[a].round,
                                   ![a].pc = "returned"]
            BY <2>1, FrameFacts DEF ModelAnswers, FrameType
        <3> QED
            BY <3>1, QuietTypes
    <2>2. CASE ModelStalls(a)
        <3>1. acts[a].pc = "ready"
            BY <2>2 DEF ModelStalls, At
        <3>2. acts' = [acts EXCEPT ![a].events = es, ![a].round = acts[a].round + 1,
                                   ![a].pc = "ready"]
            BY <2>2, <3>1, FrameFacts DEF ModelStalls, FrameType
        <3>3. acts[a].round + 1 \in Nat \ {0}
            BY QuietTypes
        <3> QED
            BY <3>2, <3>3
    <2> QED
        BY <2>1, <2>2
<1> HIDE DEF es
<1>6. acts' = [acts EXCEPT ![a] = Renewed(a, p, r, acts[a].kids,
            acts[a].now, acts[a].todo, es, acts[a].arrived)]
    BY <1>5, FrameFacts DEF Renewed, FrameType
<1>7. p \in Pcs /\ p # "waiting" /\ r \in Nat \ {0}
    BY <1>5 DEF Pcs
<1>8. /\ acts[a].now \in Seq(1..m2) /\ acts[a].todo \in Seq(Request(m2))
      /\ acts[a].arrived \in Seq(Nat \ {0}) /\ ended' \subseteq 0..Len(acts)
      /\ \A i \in DOMAIN acts[a].todo : acts[a].depth <= acts[a].todo[i].depth
    BY <1>1, <1>3, FieldTypes, QuietTypes
<1> QED
    BY <1>2, <1>3, <1>4, <1>6, <1>7, <1>8, Renew

\* The tools of a step: the model's event and the merged event of their results.
LEMMA ToolsRunInv ==
    ASSUME TreeInv, NEW a \in DOMAIN acts, ToolsRun(a) PROVE TreeInv'
<1> DEFINE m2 == Len(log')  n == Len(acts)
<1>1. PICK to \in TransferTargets(acts[a].agent) \cup ToolTargets \cup {NoAgent},
           signals \in SUBSET ToolSignals :
         /\ log' = log \o <<Event(a, "model", NoAgent, {}),
                            Event(a, "tool", to, signals)>>
         /\ acts' = [acts EXCEPT
                ![a].now = <<Len(log) + 1, Len(log) + 2>>,
                ![a].todo = <<[to |-> to, depth |-> acts[a].depth,
                               cause |-> Len(log) + 2]>>,
                ![a].pc = "step"]
    BY DEF ToolsRun
<1> DEFINE new == <<Event(a, "model", NoAgent, {}), Event(a, "tool", to, signals)>>
           now == <<Len(log) + 1, Len(log) + 2>>
           todo == <<[to |-> to, depth |-> acts[a].depth, cause |-> Len(log) + 2]>>
<1>2. to \in Agents \cup {NoAgent} /\ signals \subseteq Signals
    <2>1. TransferTargets(acts[a].agent) \subseteq Agents
        <3>1. \A g \in Agents : SubsOf(g) \subseteq Agents
            <4> SUFFICES ASSUME NEW g \in Agents PROVE SubsOf(g) \subseteq Agents
                OBVIOUS
            <4>1. Subs[g] \in Seq(Agents)
                BY AgentTreeAssumption
            <4> QED
                BY <4>1, ElementOfSeq, LenProperties DEF SubsOf
        <3>2. acts[a].agent \in Agents
            BY QuietTypes
        <3> QED
            BY <3>1, <3>2, AgentTreeAssumption DEF TransferTargets
    <2> QED
        BY <2>1, AgentTreeAssumption
<1>3. new \in Seq(EventType(n)) /\ Len(new) = 2
    <2>1. /\ Event(a, "model", NoAgent, {}) \in EventType(n)
          /\ Event(a, "tool", to, signals) \in EventType(n)
        BY <1>2, FrameFacts DEF Event, EventType, Sources
    <2> QED
        BY <2>1
<1>4. log' \in Seq(EventType(n)) /\ m2 = Len(log) + 2
    BY <1>1, <1>3, FrameFacts, ConcatProperties
<1>5. m2 \in Nat /\ Len(log) <= m2 /\ Len(log) + 1 \in 1..m2 /\ Len(log) + 2 \in 1..m2
    BY <1>4, FrameFacts
<1>6. now \in Seq(1..m2)
    BY <1>5
<1>7. todo \in Seq(Request(m2)) /\ \A i \in DOMAIN todo : acts[a].depth <= todo[i].depth
    <2>1. acts[a].depth \in Nat
        BY QuietTypes
    <2>2. [to |-> to, depth |-> acts[a].depth, cause |-> Len(log) + 2] \in Request(m2)
        BY <1>2, <1>5, <2>1 DEF Request
    <2> QED
        BY <2>1, <2>2
<1>8. acts' = [acts EXCEPT ![a].now = now, ![a].todo = todo, ![a].pc = "step"]
    BY <1>1
<1> HIDE DEF now, todo
<1>9. acts' = [acts EXCEPT ![a] = Renewed(a, "step", acts[a].round, acts[a].kids,
            now, todo, acts[a].events, acts[a].arrived)]
    BY <1>8, FrameFacts DEF Renewed, FrameType
<1>10. /\ acts[a].events \in Seq(1..m2) /\ acts[a].round \in Nat \ {0}
       /\ acts[a].arrived \in Seq(Nat \ {0}) /\ ended' \subseteq 0..n
       /\ "step" \in Pcs
    BY <1>5, FieldTypes, QuietTypes DEF ToolsRun
<1> QED
    BY <1>4, <1>5, <1>6, <1>7, <1>9, <1>10, Renew

\* A non-empty set of places has a first one.
LEMMA FirstExists ==
    ASSUME NEW a, Due(a) # {}, Due(a) \subseteq Nat PROVE First(a) \in Due(a)
<1>1. PICK i \in Due(a) : \A j \in Due(a) : i <= j
    <2> DEFINE less == {ss \in Nat \X Nat : ss[1] < ss[2]}
               S == Due(a)
    <2>1. IsWellFoundedOn(less, Nat)
        BY NatLessThanWellFounded, Zenon DEF OpToRel
    <2>2. S \subseteq Nat /\ S # {}
        OBVIOUS
    <2>3. PICK i \in S : \A j \in S : <<j, i>> \notin less
        <3> HIDE DEF less, S
        <3> QED
            BY <2>1, <2>2, WFMin, Zenon
    <2>4. \A j \in S : i <= j
        <3> SUFFICES ASSUME NEW j \in S PROVE i <= j
            OBVIOUS
        <3>1. i \in Nat /\ j \in Nat /\ <<j, i>> \notin less
            BY <2>2, <2>3
        <3>2. ~(j < i)
            BY <3>1
        <3> QED
            BY <3>1, <3>2
    <2> QED
        BY <2>4
<1> QED
    BY <1>1 DEF First

\* What is left of the transfers of a step after the first one.
LEMMA RestTypes ==
    ASSUME TreeInv, NEW a \in DOMAIN acts, NEW m2 \in Nat, Len(log) <= m2, Due(a) # {}
    PROVE  /\ Rest(a) \in Seq(Request(m2))
           /\ \A i \in DOMAIN Rest(a) : acts[a].depth <= Rest(a)[i].depth
           /\ NextRequest(a) \in Request(Len(log))
           /\ acts[a].depth <= NextRequest(a).depth
<1> DEFINE todo == acts[a].todo
<1>1. /\ todo \in Seq(Request(m2)) /\ todo \in Seq(Request(Len(log)))
      /\ \A i \in DOMAIN todo : acts[a].depth <= todo[i].depth
    BY FieldTypes, QuietTypes
<1>2. Len(todo) \in Nat /\ DOMAIN todo = 1..Len(todo)
    BY <1>1, LenProperties
<1>3. First(a) \in 1..Len(todo)
    BY <1>2, FirstExists DEF Due
<1>4. \A i \in (First(a) + 1)..Len(todo) :
         todo[i] \in Request(m2) /\ acts[a].depth <= todo[i].depth
    BY <1>1, <1>2, <1>3, ElementOfSeq
<1>5. /\ Rest(a) \in Seq(Request(m2))
      /\ \A i \in 1..(Len(todo) - (First(a) + 1) + 1) :
             Rest(a)[i] = todo[First(a) + 1 + i - 1]
      /\ Len(Rest(a)) = IF First(a) + 1 <= Len(todo)
                        THEN Len(todo) - (First(a) + 1) + 1 ELSE 0
    BY <1>2, <1>3, <1>4, SubSeqProperties DEF Rest
<1>6. \A i \in DOMAIN Rest(a) : acts[a].depth <= Rest(a)[i].depth
    <2> SUFFICES ASSUME NEW i \in DOMAIN Rest(a)
                 PROVE  acts[a].depth <= Rest(a)[i].depth
        OBVIOUS
    <2>1. i \in 1..Len(Rest(a))
        BY <1>5, LenProperties
    <2>2. First(a) \in Nat /\ i \in 1..(Len(todo) - (First(a) + 1) + 1)
        BY <1>2, <1>3, <1>5, <2>1
    <2>3. /\ First(a) + 1 + i - 1 = First(a) + i
          /\ First(a) + i \in (First(a) + 1)..Len(todo)
        BY <1>2, <2>2
    <2>4. Rest(a)[i] = todo[First(a) + i]
        BY <1>5, <2>2, <2>3
    <2> QED
        BY <1>4, <2>3, <2>4
<1> QED
    BY <1>1, <1>2, <1>3, <1>5, <1>6, ElementOfSeq DEF NextRequest

\* An unknown target costs one error event.
LEMMA TransferUnknownInv ==
    ASSUME TreeInv, NEW a \in DOMAIN acts, TransferUnknown(a) PROVE TreeInv'
<1> DEFINE m2 == Len(log')  now == Append(acts[a].now, Len(log) + 1)
<1>1. /\ log' = Append(log, Event(a, "tool", NoAgent, {})) /\ ended' = ended
      /\ Due(a) # {} /\ acts[a].pc = "step"
    BY DEF TransferUnknown, At
<1>2. log' \in Seq(EventType(Len(acts))) /\ m2 = Len(log) + 1
    <2>1. "tool" \in Sources /\ NoAgent \in Agents \cup {NoAgent} /\ {} \in SUBSET Signals
        BY DEF Sources
    <2> QED
        BY <1>1, <2>1, OneEvent
<1>3. m2 \in Nat /\ Len(log) <= m2 /\ Len(log) + 1 \in 1..m2
    BY <1>2, FrameFacts
<1>4. now \in Seq(1..m2)
    BY <1>3, FieldTypes, AppendProperties
<1>5. acts' = [acts EXCEPT ![a].now = now, ![a].todo = Rest(a)]
    BY DEF TransferUnknown
<1> HIDE DEF now
<1>6. acts' = [acts EXCEPT ![a] = Renewed(a, "step", acts[a].round, acts[a].kids,
            now, Rest(a), acts[a].events, acts[a].arrived)]
    BY <1>1, <1>5, FrameFacts DEF Renewed, FrameType
<1>7. /\ acts[a].events \in Seq(1..m2) /\ acts[a].round \in Nat \ {0}
      /\ acts[a].arrived \in Seq(Nat \ {0}) /\ ended' \subseteq 0..Len(acts)
      /\ "step" \in Pcs
    BY <1>1, <1>3, FieldTypes, QuietTypes
<1>8. /\ Rest(a) \in Seq(Request(m2))
      /\ \A i \in DOMAIN Rest(a) : acts[a].depth <= Rest(a)[i].depth
    BY <1>1, <1>3, RestTypes
<1> QED
    BY <1>2, <1>3, <1>4, <1>6, <1>7, <1>8, Renew

\* Requests chained by a target are as deep as the target.
LEMMA ChainedTypes ==
    ASSUME TreeInv, NEW a \in DOMAIN acts, At(a, "waiting"), KindOf(a) = "llm"
    PROVE  /\ Chained(a) \in Seq(Request(Len(log)))
           /\ \A i \in DOMAIN Chained(a) : acts[a].depth <= Chained(a)[i].depth
<1> DEFINE k == LastKid(a)  es == acts[k].events  m == Len(log)
           new == Requests(es, acts[k].depth)  todo == acts[a].todo
           S == {q \in Request(m) : acts[a].depth <= q.depth}
<1>1. es \in Seq(1..m) /\ acts[k].depth \in Nat /\ acts[a].depth < acts[k].depth
    BY LastKidKnown
<1>2. acts[a].depth \in Nat
    BY QuietTypes
<1>3. new \in Seq(S)
    <2>1. Len(es) \in Nat /\ DOMAIN es = 1..Len(es) /\ \A i \in 1..Len(es) : es[i] \in 1..m
        BY <1>1, LenProperties, ElementOfSeq
    <2>2. \A e \in 1..m : log[e].transfer \in Agents \cup {NoAgent}
        <3>1. log \in Seq(EventType(Len(acts)))
            BY FrameFacts
        <3>2. \A e \in 1..m : log[e] \in EventType(Len(acts))
            BY <3>1, ElementOfSeq
        <3> QED
            BY <3>2 DEF EventType
    <2>3. \A i \in 1..Len(es) :
             [to |-> log[es[i]].transfer, depth |-> acts[k].depth, cause |-> es[i]] \in S
        BY <1>1, <1>2, <2>1, <2>2 DEF Request
    <2>4. new = [i \in 1..Len(es) |->
             [to |-> log[es[i]].transfer, depth |-> acts[k].depth, cause |-> es[i]]]
        BY <2>1 DEF Requests
    <2> QED
        BY <2>1, <2>3, <2>4, IsASeq
<1>4. todo \in Seq(S)
    <2>1. todo \in Seq(Request(m)) /\ \A i \in DOMAIN todo : acts[a].depth <= todo[i].depth
        BY QuietTypes
    <2>2. Len(todo) \in Nat /\ DOMAIN todo = 1..Len(todo) /\ todo \in [1..Len(todo) -> S]
        BY <2>1, LenProperties
    <2> QED
        BY <2>2, SeqDef
<1>5. Chained(a) \in Seq(S)
    BY <1>3, <1>4, ConcatProperties DEF Chained
<1>6. S \subseteq Request(m) /\ \A q \in S : acts[a].depth <= q.depth
    OBVIOUS
<1> HIDE DEF S
<1>7. \A i \in DOMAIN Chained(a) : Chained(a)[i] \in S
    BY <1>5, LenProperties, ElementOfSeq
<1>8. Chained(a) \in Seq(Request(m))
    BY <1>5, <1>6, SeqMonotonic
<1> QED
    BY <1>6, <1>7, <1>8

\* The events of a target join the step, its requests the queue.
LEMMA TransferReturnsInv ==
    ASSUME TreeInv, NEW a \in DOMAIN acts, TransferReturns(a) PROVE TreeInv'
<1>1. /\ log' = log /\ ended' = ended
      /\ At(a, "waiting") /\ KindOf(a) = "llm" /\ KindOf(a) # "parallel"
      /\ acts' = [acts EXCEPT ![a].now = StepEvents(a), ![a].todo = Chained(a),
                              ![a].pc = "step"]
    BY DEF TransferReturns
<1>2. StepEvents(a) \in Seq(1..Len(log))
    BY <1>1, LastKidKnown, QuietTypes, ConcatProperties DEF StepEvents
<1>3. /\ Chained(a) \in Seq(Request(Len(log)))
      /\ \A i \in DOMAIN Chained(a) : acts[a].depth <= Chained(a)[i].depth
    BY <1>1, ChainedTypes
<1>4. acts' = [acts EXCEPT ![a] = Renewed(a, "step", acts[a].round, acts[a].kids,
            StepEvents(a), Chained(a), acts[a].events, acts[a].arrived)]
    BY <1>1, FrameFacts DEF Renewed, FrameType
<1>5. /\ log' = log /\ ended' \subseteq 0..Len(acts) /\ "step" \in Pcs
      /\ acts[a].round \in Nat \ {0} /\ acts[a].events \in Seq(1..Len(log))
      /\ acts[a].arrived \in Seq(Nat \ {0})
    BY <1>1, QuietTypes
<1> QED
    BY <1>2, <1>3, <1>4, <1>5, RenewQuietly

\* The end of a step hands its events to the flow.
LEMMA StepEndsInv ==
    ASSUME TreeInv, NEW a \in DOMAIN acts, StepEnds(a) PROVE TreeInv'
<1> DEFINE es == acts[a].events \o acts[a].now
<1>1. log' = log
    BY DEF StepEnds
<1>2. ended' \subseteq 0..Len(acts)
    BY FrameFacts DEF StepEnds
<1>3. es \in Seq(1..Len(log))
    BY QuietTypes, ConcatProperties
<1>4. PICK p \in {"returned", "ready"}, r \in {acts[a].round, acts[a].round + 1} :
         acts' = [acts EXCEPT ![a].events = es, ![a].now = <<>>, ![a].todo = <<>>,
                              ![a].round = r, ![a].pc = p]
    BY DEF StepEnds
<1>5. r \in Nat \ {0} /\ p \in Pcs /\ p # "waiting"
    BY <1>4, QuietTypes
<1>6. /\ <<>> \in Seq(1..Len(log)) /\ <<>> \in Seq(Request(Len(log)))
      /\ DOMAIN (<<>>) = {}
    BY EmptySeq
<1> HIDE DEF es
<1>7. acts' = [acts EXCEPT ![a] = Renewed(a, p, r, acts[a].kids, <<>>, <<>>, es,
            acts[a].arrived)]
    BY <1>4, FrameFacts DEF Renewed, FrameType
<1>8. /\ acts[a].arrived \in Seq(Nat \ {0})
      /\ \A i \in DOMAIN (<<>>) : acts[a].depth <= (<<>>)[i].depth
    BY <1>6, QuietTypes
<1> QED
    BY <1>1, <1>2, <1>3, <1>5, <1>6, <1>7, <1>8, RenewQuietly

\* The events of a custom agent follow those before them.
LEMMA CustomReturnsInv ==
    ASSUME TreeInv, NEW a \in DOMAIN acts, CustomReturns(a) PROVE TreeInv'
<1> DEFINE m2 == Len(log')  n == Len(acts)
<1>1. PICK move \in CustomMoves[acts[a].agent] :
         /\ log' = log \o [i \in DOMAIN move.events |->
                              Event(a, "agent", move.events[i].transfer,
                                    move.events[i].signals)]
         /\ acts' = [acts EXCEPT
                ![a].events = [i \in DOMAIN move.events |-> Len(log) + i],
                ![a].pc = "returned"]
         /\ ended' = IF move.endsContext THEN ended \cup {acts[a].cell} ELSE ended
    BY DEF CustomReturns
<1> DEFINE k == Len(move.events)
           new == [i \in DOMAIN move.events |->
                      Event(a, "agent", move.events[i].transfer, move.events[i].signals)]
           es == [i \in DOMAIN move.events |-> Len(log) + i]
<1>2. /\ k \in Nat /\ DOMAIN move.events = 1..k
      /\ \A i \in 1..k : /\ move.events[i].transfer \in Agents \cup {NoAgent}
                         /\ move.events[i].signals \subseteq Signals
    <2>0. acts[a].agent \in Agents
        BY FrameFacts DEF FrameType
    <2>1. move.events \in
             Seq([transfer: Agents \cup {NoAgent}, signals: SUBSET Signals])
        <3>1. CustomMoves[acts[a].agent] \in SUBSET Move
            BY <2>0, AgentTreeAssumption
        <3>2. move \in Move
            BY <1>1, <3>1
        <3> QED
            BY <3>2 DEF Move
    <2>2. k \in Nat /\ DOMAIN move.events = 1..k
        BY <2>1, LenProperties
    <2>3. \A i \in 1..k : move.events[i] \in
             [transfer: Agents \cup {NoAgent}, signals: SUBSET Signals]
        BY <2>1, ElementOfSeq
    <2> QED
        BY <2>2, <2>3
<1>3. new \in Seq(EventType(n)) /\ Len(new) = k
    <2>1. \A i \in 1..k : Event(a, "agent", move.events[i].transfer,
                                move.events[i].signals) \in EventType(n)
        BY <1>2, FrameFacts DEF Event, EventType, Sources
    <2>2. new = [i \in 1..k |-> Event(a, "agent", move.events[i].transfer,
                                      move.events[i].signals)]
        BY <1>2
    <2>3. new \in Seq(EventType(n))
        BY <1>2, <2>1, <2>2, IsASeq
    <2> QED
        BY <1>2, <2>2, <2>3, LenProperties
<1>4. log' \in Seq(EventType(n)) /\ m2 = Len(log) + k
    <2>1. log' = log \o new /\ log \in Seq(EventType(n))
        BY <1>1, FrameFacts
    <2> HIDE DEF new
    <2>2. log \o new \in Seq(EventType(n)) /\ Len(log \o new) = Len(log) + Len(new)
        BY <1>3, <2>1, ConcatProperties
    <2> QED
        BY <1>3, <2>1, <2>2
<1>5. m2 \in Nat /\ Len(log) <= m2
    BY <1>2, <1>4, FrameFacts
<1>6. es \in Seq(1..m2)
    <2>1. \A i \in 1..k : Len(log) + i \in 1..m2
        BY <1>2, <1>4, FrameFacts
    <2>2. es = [i \in 1..k |-> Len(log) + i]
        BY <1>2
    <2> QED
        BY <1>2, <2>1, <2>2, IsASeq
<1>7. acts' = [acts EXCEPT ![a].events = es, ![a].pc = "returned"]
    BY <1>1
<1> HIDE DEF es
<1>8. acts' = [acts EXCEPT ![a] = Renewed(a, "returned", acts[a].round, acts[a].kids,
            acts[a].now, acts[a].todo, es, acts[a].arrived)]
    BY <1>7, FrameFacts DEF Renewed, FrameType
<1>9. ended' \subseteq 0..n
    BY <1>1, FrameFacts
<1>10. /\ acts[a].now \in Seq(1..m2) /\ acts[a].todo \in Seq(Request(m2))
       /\ acts[a].arrived \in Seq(Nat \ {0}) /\ acts[a].round \in Nat \ {0}
       /\ \A i \in DOMAIN acts[a].todo : acts[a].depth <= acts[a].todo[i].depth
       /\ "returned" \in Pcs
    BY <1>5, FieldTypes, QuietTypes
<1> QED
    BY <1>4, <1>5, <1>6, <1>8, <1>9, <1>10, Renew

\* The invariant survives a step in which an activation starts others and waits.
LEMMA Start ==
    ASSUME TreeInv, NEW a \in DOMAIN acts, log' = log, ended' = ended,
           NEW new, new \in Seq(FrameType(Len(acts) + Len(new), Len(log))),
           NEW ks \in Seq(1..(Len(acts) + Len(new))),
           NEW todo \in Seq(Request(Len(log))),
           acts' = [acts EXCEPT ![a] = Renewed(a, "waiting", acts[a].round, ks,
                        acts[a].now, todo, acts[a].events, acts[a].arrived)] \o new,
           KindOf(a) # "parallel" => ks # <<>>,
           KindOf(a) = "llm" =>
               \A i \in DOMAIN ks : acts[a].depth < Depths(acts')[ks[i]],
           \A i \in DOMAIN todo : acts[a].depth <= todo[i].depth,
           \A i \in DOMAIN new :
               /\ new[i].parent = a /\ new[i].cell <= Len(acts) + i
               /\ new[i].pc = "ready" /\ new[i].kids = <<>> /\ new[i].todo = <<>>
               /\ new[i].cause # 0 => acts[a].depth < new[i].depth
    PROVE  TreeInv'
<1> DEFINE n == Len(acts)  n2 == Len(acts) + Len(new)  m == Len(log)
           f == Renewed(a, "waiting", acts[a].round, ks, acts[a].now, todo,
                        acts[a].events, acts[a].arrived)
<1>1. n \in Nat /\ n2 \in Nat /\ m \in Nat /\ n <= n2 /\ m <= m
    BY FrameFacts, LenProperties
<1>2. acts[a] \in FrameType(n2, m)
    <2>1. FrameType(n, m) \subseteq FrameType(n2, m)
        BY <1>1, FrameTypeGrows
    <2> QED
        BY <2>1, FrameFacts
<1>3. f \in FrameType(n2, m)
    BY <1>2 DEF FrameType, Renewed, Pcs
<1>4. /\ f.agent = acts[a].agent /\ f.parent = acts[a].parent
      /\ f.cell = acts[a].cell /\ f.depth = acts[a].depth
      /\ f.cause = acts[a].cause
      /\ f.pc = "waiting" /\ f.kids = ks /\ f.todo = todo
    BY <1>2 DEF FrameType, Renewed
<1> HIDE DEF f
<1>5. Sound(f, Depths(acts'))
    BY <1>4 DEF Sound, KindOf
<1>6. /\ acts' = [acts EXCEPT ![a] = f] \o new
      /\ log' \in Seq(EventType(Len(acts))) /\ Len(log) <= Len(log')
      /\ ended' \subseteq 0..Len(acts) /\ Len(log') = m
    BY <1>1, FrameFacts DEF f
<1>7. /\ new \in Seq(FrameType(Len(acts) + Len(new), Len(log')))
      /\ f \in FrameType(Len(acts) + Len(new), Len(log'))
    BY <1>3, <1>6
<1>8. \A i \in DOMAIN new :
         /\ new[i].parent = a /\ new[i].cell <= Len(acts) + i
         /\ new[i].pc = "ready" /\ new[i].kids = <<>> /\ new[i].todo = <<>>
         /\ new[i].cause # 0 => f.depth < new[i].depth
    BY <1>4
<1> QED
    BY <1>4, <1>5, <1>6, <1>7, <1>8, Grow

\* The target of a transfer is one deeper than the request.
LEMMA TransferStartInv ==
    ASSUME TreeInv, NEW a \in DOMAIN acts, TransferStart(a) PROVE TreeInv'
<1> DEFINE q == NextRequest(a)  t == TargetFrame(a, q)  n == Len(acts)  m == Len(log)
           ks == Append(acts[a].kids, n + 1)
           f == Renewed(a, "waiting", acts[a].round, ks, acts[a].now, Rest(a),
                        acts[a].events, acts[a].arrived)
<1>1. /\ log' = log /\ ended' = ended /\ Due(a) # {}
      /\ q.to \in Agents /\ q.depth < MaxTransferDepth
      /\ acts' = Append([acts EXCEPT ![a].todo = Rest(a), ![a].kids = ks,
                                     ![a].pc = "waiting"], t)
    BY DEF TransferStart, Tree, WithinDepth, NewId
<1>2. n \in Nat /\ m \in Nat /\ m <= m /\ a \in 1..n /\ MaxTransferDepth \in Nat
    BY FrameFacts, AgentTreeAssumption
<1>3. /\ Rest(a) \in Seq(Request(m))
      /\ \A i \in DOMAIN Rest(a) : acts[a].depth <= Rest(a)[i].depth
      /\ q \in Request(m) /\ acts[a].depth <= q.depth
    BY <1>1, <1>2, RestTypes
<1>4. /\ q.depth + 1 \in 0..MaxTransferDepth /\ q.cause \in 0..m
      /\ acts[a].depth < q.depth + 1
      /\ acts[a].cell \in Nat /\ acts[a].cell <= n
    <2>1. q.depth \in Nat /\ q.cause \in 1..m /\ acts[a].depth \in Nat
        BY <1>3, QuietTypes DEF Request
    <2>2. acts[a].cell \in 0..n
        BY FrameFacts
    <2> QED
        BY <1>1, <1>2, <1>3, <2>1, <2>2
<1>5. /\ t \in FrameType(n + 1, m)
      /\ t.parent = a /\ t.cell = acts[a].cell /\ t.depth = q.depth + 1
      /\ t.pc = "ready" /\ t.kids = <<>> /\ t.todo = <<>>
    <2> DEFINE c == acts[a].cell  d == q.depth + 1  g == q.to  e == q.cause
    <2>1. /\ n + 1 \in Nat /\ g \in Agents /\ a \in Nat /\ c \in Nat
          /\ d \in 0..MaxTransferDepth /\ e \in 0..m
        BY <1>1, <1>2, <1>4
    <2>2. t = Frame(g, a, c, d, e)
        BY DEF TargetFrame
    <2> HIDE DEF c, d, g, e, t, q, n, m
    <2>3. /\ t \in FrameType(n + 1, m) /\ t.parent = a /\ t.cell = c /\ t.depth = d
          /\ t.pc = "ready" /\ t.kids = <<>> /\ t.todo = <<>>
        <3>1. /\ <<>> \in Seq(1..(n + 1)) /\ <<>> \in Seq(1..m)
              /\ <<>> \in Seq(Request(m)) /\ <<>> \in Seq(Nat \ {0})
            BY EmptySeq
        <3> QED
            BY <2>1, <2>2, <3>1 DEF Frame, FrameType, Pcs
    <2> QED
        BY <2>3 DEF c, d
<1>6. /\ acts[a].kids \in Seq(1..(n + 1)) /\ ks \in Seq(1..(n + 1)) /\ ks # <<>>
      /\ Len(ks) = Len(acts[a].kids) + 1 /\ ks[Len(acts[a].kids) + 1] = n + 1
      /\ \A i \in 1..Len(acts[a].kids) : ks[i] = acts[a].kids[i]
    <2>1. acts[a].kids \in Seq(1..n) /\ n + 1 \in 1..(n + 1)
        BY <1>2, FrameFacts DEF FrameType
    <2>2. acts[a].kids \in Seq(1..(n + 1))
        BY <1>2, <2>1, SeqMonotonic
    <2>3. /\ ks \in Seq(1..(n + 1)) /\ ks # <<>> /\ Len(ks) = Len(acts[a].kids) + 1
          /\ ks[Len(acts[a].kids) + 1] = n + 1
          /\ \A i \in 1..Len(acts[a].kids) : ks[i] = acts[a].kids[i]
        <3> DEFINE old == acts[a].kids  S == 1..(n + 1)  x == n + 1
        <3>1. old \in Seq(S) /\ x \in S
            BY <2>1, <2>2
        <3>2. ks = Append(old, x)
            OBVIOUS
        <3> HIDE DEF ks, old, S, x
        <3>3. /\ ks \in Seq(S) /\ ks # <<>> /\ Len(ks) = Len(old) + 1
              /\ ks[Len(old) + 1] = x
              /\ \A i \in 1..Len(old) : ks[i] = old[i]
            BY <3>1, <3>2, AppendProperties
        <3> QED
            BY <3>3 DEF old, S, x
    <2> QED
        BY <2>2, <2>3
<1>7. /\ acts' = [acts EXCEPT ![a] = f] \o <<t>>
      /\ DOMAIN acts' = 1..(n + 1) /\ acts'[n + 1] = t
      /\ \A j \in 1..n : acts'[j].depth = acts[j].depth
    <2>1. [acts EXCEPT ![a].todo = Rest(a), ![a].kids = ks, ![a].pc = "waiting"]
             = [acts EXCEPT ![a] = f]
        <3> HIDE DEF ks
        <3> QED
            BY FrameFacts DEF Renewed, FrameType
    <2>2. acts \in Seq(FrameType(n + 1, m))
        <3>1. FrameType(n, m) \subseteq FrameType(n + 1, m)
            BY <1>2, FrameTypeGrows
        <3> QED
            BY <3>1, SeqMonotonic DEF TreeInv, TreeTypeOK
    <2>3. f \in FrameType(n + 1, m)
        <3>1. acts[a] \in FrameType(n + 1, m)
            BY <1>2, <2>2, ElementOfSeq
        <3> HIDE DEF ks
        <3> QED
            BY <1>3, <1>6, <3>1 DEF FrameType, Renewed, Pcs
    <2>4. /\ [acts EXCEPT ![a] = f] \in Seq(FrameType(n + 1, m))
          /\ Len([acts EXCEPT ![a] = f]) = n
          /\ \A j \in 1..n : [acts EXCEPT ![a] = f][j] = IF j = a THEN f ELSE acts[j]
        BY <1>2, <2>2, <2>3, ExceptSeq
    <2>5. f.depth = acts[a].depth
        BY FrameFacts DEF Renewed, FrameType
    <2> DEFINE upd == [acts EXCEPT ![a] = f]
    <2>6. acts' = Append(upd, t)
        BY <1>1, <2>1
    <2> HIDE DEF f, t, upd
    <2>7. /\ acts' \in Seq(FrameType(n + 1, m)) /\ Len(acts') = n + 1
          /\ \A j \in 1..n : acts'[j] = upd[j]
          /\ acts'[n + 1] = t /\ acts' = upd \o <<t>>
        BY <1>5, <2>4, <2>6, AppendProperties, AppendIsConcat DEF upd
    <2>8. DOMAIN acts' = 1..(n + 1)
        BY <2>7, LenProperties
    <2> QED
        BY <2>4, <2>5, <2>7, <2>8 DEF upd
<1>8. KindOf(a) = "llm" => \A i \in DOMAIN ks : acts[a].depth < Depths(acts')[ks[i]]
    <2> SUFFICES ASSUME KindOf(a) = "llm", NEW i \in DOMAIN ks
                 PROVE  acts[a].depth < Depths(acts')[ks[i]]
        OBVIOUS
    <2> HIDE DEF ks, t, f
    <2>1. Len(acts[a].kids) \in Nat /\ DOMAIN acts[a].kids = 1..Len(acts[a].kids)
          /\ DOMAIN ks = 1..(Len(acts[a].kids) + 1)
        BY <1>6, LenProperties
    <2>2. CASE i = Len(acts[a].kids) + 1
        <3>1. Depths(acts')[n + 1] = t.depth
            BY <1>2, <1>7 DEF Depths
        <3> QED
            BY <2>2, <3>1, <1>4, <1>5, <1>6
    <2>3. CASE i \in 1..Len(acts[a].kids)
        <3>1. ks[i] = acts[a].kids[i] /\ acts[a].kids[i] \in 1..n
            <4>1. acts[a].kids \in Seq(1..n)
                BY FrameFacts DEF FrameType
            <4> QED
                BY <4>1, <2>3, <1>6, ElementOfSeq
        <3>2. acts[a].depth < Depths(acts)[acts[a].kids[i]]
            BY <2>1, <2>3, FrameFacts DEF Sound, KindOf
        <3>3. Depths(acts)[ks[i]] = acts[ks[i]].depth
            BY <3>1, FrameFacts DEF Depths
        <3>4. Depths(acts')[ks[i]] = acts'[ks[i]].depth
            BY <1>2, <1>7, <3>1 DEF Depths
        <3> QED
            BY <1>7, <3>1, <3>2, <3>3, <3>4
    <2> QED
        BY <2>1, <2>2, <2>3
<1>9. /\ <<t>> \in Seq(FrameType(n + Len(<<t>>), m)) /\ Len(<<t>>) = 1
      /\ \A i \in DOMAIN (<<t>>) :
            /\ (<<t>>)[i].parent = a /\ (<<t>>)[i].cell <= n + i
            /\ (<<t>>)[i].pc = "ready" /\ (<<t>>)[i].kids = <<>>
            /\ (<<t>>)[i].todo = <<>> /\ acts[a].depth < (<<t>>)[i].depth
    <2> HIDE DEF t
    <2>1. Len(<<t>>) = 1 /\ DOMAIN (<<t>>) = {1} /\ (<<t>>)[1] = t
        OBVIOUS
    <2>2. acts[a].cell <= n + 1
        BY <1>2, <1>4
    <2> QED
        BY <1>4, <1>5, <2>1, <2>2
<1> HIDE DEF t, ks
<1>10. ks \in Seq(1..(n + Len(<<t>>)))
    BY <1>6, <1>9
<1> QED
    BY <1>1, <1>3, <1>6, <1>7, <1>8, <1>9, <1>10, Start

\* A sub-agent that a sequence or a loop starts.
LEMMA StartSubInv ==
    ASSUME TreeInv, NEW a \in DOMAIN acts, StartSub(a) PROVE TreeInv'
<1> DEFINE n == Len(acts)  m == Len(log)  kids == acts[a].kids  todo == acts[a].todo
           ks == Append(kids, n + 1)
           g == SubAt(a)[Len(kids) + 1]
           t == SubFrame(g, a, n + 1)
           f == Renewed(a, "waiting", acts[a].round, ks, acts[a].now, todo,
                        acts[a].events, acts[a].arrived)
<1>1. /\ log' = log /\ ended' = ended /\ KindOf(a) \in {"sequential", "loop"}
      /\ Len(kids) < Len(SubAt(a))
      /\ acts' = Append([acts EXCEPT ![a].kids = ks, ![a].pc = "waiting"], t)
    BY DEF StartSub, InTurn, NewId
<1>2. n \in Nat /\ m \in Nat /\ m <= m /\ a \in 1..n /\ MaxTransferDepth \in Nat
    BY FrameFacts, AgentTreeAssumption
<1>3. kids \in Seq(1..n) /\ Len(kids) \in Nat
    BY FrameFacts, LenProperties DEF FrameType
<1>4. g \in Agents
    <2>1. SubAt(a) \in Seq(Agents)
        BY QuietTypes, AgentTreeAssumption DEF SubAt
    <2>2. Len(kids) + 1 \in 1..Len(SubAt(a))
        BY <1>1, <1>3, <2>1, LenProperties
    <2> QED
        BY <2>1, <2>2, ElementOfSeq
<1>5. /\ t \in FrameType(n + 1, m) /\ t.parent = a /\ t.cell = n + 1 /\ t.cause = 0
      /\ t.pc = "ready" /\ t.kids = <<>> /\ t.todo = <<>>
    <2>1. /\ <<>> \in Seq(1..(n + 1)) /\ <<>> \in Seq(1..m)
          /\ <<>> \in Seq(Request(m)) /\ <<>> \in Seq(Nat \ {0})
        BY EmptySeq
    <2>2. 0 \in 0..MaxTransferDepth /\ 0 \in 0..m /\ n + 1 \in Nat /\ a \in Nat
        BY <1>2
    <2> HIDE DEF g
    <2> QED
        BY <1>4, <2>1, <2>2 DEF SubFrame, Frame, FrameType, Pcs
<1>6. ks \in Seq(1..(n + 1)) /\ ks # <<>>
    <2> DEFINE S == 1..(n + 1)  x == n + 1
    <2>1. kids \in Seq(S) /\ x \in S
        BY <1>2, <1>3, SeqMonotonic
    <2>2. ks = Append(kids, x)
        OBVIOUS
    <2> HIDE DEF ks, kids, S, x
    <2>3. ks \in Seq(S) /\ ks # <<>>
        BY <2>1, <2>2, AppendProperties
    <2> QED
        BY <2>3 DEF S
<1>7. acts' = [acts EXCEPT ![a] = f] \o <<t>>
    <2> HIDE DEF ks, t
    <2>1. [acts EXCEPT ![a].kids = ks, ![a].pc = "waiting"] = [acts EXCEPT ![a] = f]
        BY FrameFacts DEF Renewed, FrameType
    <2>2. acts \in Seq(FrameType(n + 1, m)) /\ f \in FrameType(n + 1, m)
        <3>1. FrameType(n, m) \subseteq FrameType(n + 1, m)
            BY <1>2, FrameTypeGrows
        <3>2. acts \in Seq(FrameType(n + 1, m))
            BY <3>1, SeqMonotonic DEF TreeInv, TreeTypeOK
        <3>3. acts[a] \in FrameType(n + 1, m)
            BY <1>2, <3>2, ElementOfSeq
        <3> QED
            BY <1>6, <3>2, <3>3 DEF FrameType, Renewed, Pcs
    <2> DEFINE upd == [acts EXCEPT ![a] = f]
    <2>3. upd \in Seq(FrameType(n + 1, m))
        BY <1>2, <2>2, ExceptSeq
    <2>4. acts' = Append(upd, t)
        BY <1>1, <2>1
    <2> HIDE DEF upd, f
    <2>5. Append(upd, t) = upd \o <<t>>
        BY <1>5, <2>3, AppendIsConcat
    <2> QED
        BY <2>4, <2>5 DEF upd
<1>8. /\ <<t>> \in Seq(FrameType(n + Len(<<t>>), m)) /\ Len(<<t>>) = 1
      /\ \A i \in DOMAIN (<<t>>) :
            /\ (<<t>>)[i].parent = a /\ (<<t>>)[i].cell <= n + i
            /\ (<<t>>)[i].pc = "ready" /\ (<<t>>)[i].kids = <<>>
            /\ (<<t>>)[i].todo = <<>> /\ (<<t>>)[i].cause = 0
    <2> HIDE DEF t
    <2>1. Len(<<t>>) = 1 /\ DOMAIN (<<t>>) = {1} /\ (<<t>>)[1] = t
        OBVIOUS
    <2>2. t.cell <= n + 1
        BY <1>2, <1>5
    <2> QED
        BY <1>5, <2>1, <2>2
<1> HIDE DEF t, ks
<1>9. ks \in Seq(1..(n + Len(<<t>>)))
    BY <1>6, <1>8
<1>10. /\ todo \in Seq(Request(m)) /\ \A i \in DOMAIN todo : acts[a].depth <= todo[i].depth
       /\ KindOf(a) # "llm"
    BY <1>1, QuietTypes
<1> QED
    BY <1>1, <1>6, <1>7, <1>8, <1>9, <1>10, Start

\* The sub-agents that a parallel agent starts together.
LEMMA ForkInv ==
    ASSUME TreeInv, NEW a \in DOMAIN acts, Fork(a) PROVE TreeInv'
<1> DEFINE n == Len(acts)  m == Len(log)  k == Len(SubAt(a))  todo == acts[a].todo
           ks == [i \in 1..k |-> n + i]
           new == [i \in 1..k |-> SubFrame(SubAt(a)[i], a, n + i)]
           S == FrameType(n + k, m)
           f == Renewed(a, "waiting", acts[a].round, ks, acts[a].now, todo,
                        acts[a].events, acts[a].arrived)
<1>1. /\ log' = log /\ ended' = ended /\ KindOf(a) = "parallel"
      /\ acts' = [acts EXCEPT ![a].kids = ks, ![a].pc = "waiting"] \o new
    BY DEF Fork
<1>2. n \in Nat /\ m \in Nat /\ a \in 1..n /\ MaxTransferDepth \in Nat
    BY FrameFacts, AgentTreeAssumption
<1>3. k \in Nat /\ \A i \in 1..k : SubAt(a)[i] \in Agents
    <2>1. SubAt(a) \in Seq(Agents)
        BY QuietTypes, AgentTreeAssumption DEF SubAt
    <2> QED
        BY <2>1, ElementOfSeq, LenProperties
<1>4. \A i \in 1..k :
         /\ new[i] \in S /\ new[i].parent = a /\ new[i].cell = n + i
         /\ new[i].pc = "ready" /\ new[i].kids = <<>> /\ new[i].todo = <<>>
         /\ new[i].cause = 0
    <2> SUFFICES ASSUME NEW i \in 1..k
                 PROVE  /\ new[i] \in S /\ new[i].parent = a /\ new[i].cell = n + i
                        /\ new[i].pc = "ready" /\ new[i].kids = <<>>
                        /\ new[i].todo = <<>> /\ new[i].cause = 0
        OBVIOUS
    <2> DEFINE g == SubAt(a)[i]
    <2>1. /\ <<>> \in Seq(1..(n + k)) /\ <<>> \in Seq(1..m)
          /\ <<>> \in Seq(Request(m)) /\ <<>> \in Seq(Nat \ {0})
        BY EmptySeq
    <2>2. /\ 0 \in 0..MaxTransferDepth /\ 0 \in 0..m /\ n + i \in Nat /\ a \in Nat
          /\ g \in Agents
        BY <1>2, <1>3
    <2>3. new[i] = SubFrame(g, a, n + i)
        OBVIOUS
    <2> HIDE DEF new, g
    <2> QED
        BY <2>1, <2>2, <2>3 DEF SubFrame, Frame, FrameType, Pcs
<1>5. new \in Seq(S) /\ Len(new) = k /\ DOMAIN new = 1..k
    <2>1. new \in Seq(S)
        BY <1>3, <1>4, IsASeq
    <2> QED
        BY <1>3, <2>1, LenProperties
<1>6. ks \in Seq(1..(n + k))
    <2>1. \A i \in 1..k : n + i \in 1..(n + k)
        BY <1>2, <1>3
    <2> QED
        BY <1>3, <2>1, IsASeq
<1> HIDE DEF new, ks, k
<1>7. acts' = [acts EXCEPT ![a] = f] \o new
    BY <1>1, FrameFacts DEF Renewed, FrameType
<1>8. /\ todo \in Seq(Request(m)) /\ \A i \in DOMAIN todo : acts[a].depth <= todo[i].depth
      /\ KindOf(a) # "llm"
    BY <1>1, QuietTypes
<1>9. /\ new \in Seq(FrameType(n + Len(new), m)) /\ ks \in Seq(1..(n + Len(new)))
      /\ \A i \in DOMAIN new :
            /\ new[i].parent = a /\ new[i].cell <= n + i
            /\ new[i].pc = "ready" /\ new[i].kids = <<>> /\ new[i].todo = <<>>
            /\ new[i].cause # 0 => acts[a].depth < new[i].depth
    BY <1>2, <1>4, <1>5, <1>6
<1> QED
    BY <1>1, <1>7, <1>8, <1>9, Start

-----------------------------------------------------------------------------
(* The theorems.                                                           *)

\* Every step keeps the invariant.
LEMMA NextInv == TreeInv /\ [TreeNext]_vars => TreeInv'
<1> SUFFICES ASSUME TreeInv, [TreeNext]_vars PROVE TreeInv'
    OBVIOUS
<1>1. CASE UNCHANGED vars
    BY <1>1 DEF vars, TreeInv, TreeTypeOK, FramesSound, CallersKnown, Transferred,
                Depths
<1>2. ASSUME NEW a \in DOMAIN acts, FlowStep(a) PROVE TreeInv'
    <2>1. CASE ModelFails(a)
        BY <2>1, FailInv DEF ModelFails
    <2> QED
        BY <1>2, <2>1, FlowEndedInv, ModelInv, ToolsRunInv, StepEndsInv DEF FlowStep
<1>3. ASSUME NEW a \in DOMAIN acts, TransferStep(a) PROVE TreeInv'
    <2>1. CASE TransferRefused(a)
        BY <2>1, FailInv DEF TransferRefused
    <2>2. CASE TransferFails(a)
        BY <2>2, FailInv DEF TransferFails
    <2> QED
        BY <1>3, <2>1, <2>2, TransferUnknownInv, TransferStartInv, TransferReturnsInv
        DEF TransferStep
<1>4. ASSUME NEW a \in DOMAIN acts, CustomStep(a) PROVE TreeInv'
    <2>1. CASE CustomFails(a)
        BY <2>1, FailInv DEF CustomFails
    <2> QED
        BY <1>4, <2>1, CustomReturnsInv DEF CustomStep
<1>5. ASSUME NEW a \in DOMAIN acts, WorkflowStep(a) PROVE TreeInv'
    BY <1>5, StartSubInv, ResumesInv, EndsInv, LoopPassEndsInv, ForkInv,
       SendResultInv, JoinInv DEF WorkflowStep
<1> QED
    BY <1>1, <1>2, <1>3, <1>4, <1>5 DEF TreeNext

\* So it holds in every state of every behaviour.
LEMMA InvAlways == TreeSpec => []TreeInv
    BY InitInv, NextInv, PTL DEF TreeSpec

\* In every invocation of every tree the frames, events and cells have their
\* types, activations are started by older ones and no depth exceeds
\* maxTransferDepth, whatever the targets chain.
THEOREM TreeTypeCorrect == TreeSpec => []TreeTypeOK
<1>1. TreeInv => TreeTypeOK
    BY DEF TreeInv
<1> QED
    BY <1>1, InvAlways, PTL

\* The depth guard of executeTransfer makes every chain of transfers descend: the
\* target of a transfer is deeper than the activation that executes it, in every
\* tree and with every limit.
THEOREM TransferChainsDescend == TreeSpec => []TransfersDescend
<1>1. TreeInv => TransfersDescend
    BY DEF TreeInv, CallersKnown, TransfersDescend
<1> QED
    BY <1>1, InvAlways, PTL

-----------------------------------------------------------------------------
(* The shape of the tree of activations.                                   *)

\* A callee belongs to its caller; while it runs, its caller waits for it, and a
\* caller that is not a parallel agent waits for its last callee only.
CallInv(x) ==
    LET p == acts[x].parent IN
    /\ x # 1 => p # 0
    /\ p # 0 =>
        /\ KindOf(p) # "custom"
        /\ KindOf(p) # "llm" => acts[x].cell = x /\ acts[x].cause = 0
        /\ ~Finished(x) =>
            /\ acts[p].pc = "waiting"
            /\ \E i \in DOMAIN acts[p].kids : acts[p].kids[i] = x
            /\ KindOf(p) # "parallel" => LastKid(p) = x

\* An activation calls each callee once, and only a flow has steps.
KidsInv(x) ==
    /\ \A i \in DOMAIN acts[x].kids : acts[acts[x].kids[i]].parent = x
    /\ \A i, j \in DOMAIN acts[x].kids : i < j => acts[x].kids[i] < acts[x].kids[j]
    /\ acts[x].pc = "step" => KindOf(x) = "llm"
    /\ acts[x].pc = "waiting" => KindOf(x) # "custom"
    /\ acts[x].pc \in {"ready", "returned"} \/ KindOf(x) # "llm" => acts[x].now = <<>>
    /\ KindOf(x) = "custom" /\ acts[x].pc = "ready" => acts[x].events = <<>>

\* The results in the channel of a parallel agent, each of a callee that finished.
ArrivedInv(x) ==
    KindOf(x) = "parallel" =>
        /\ \A i \in DOMAIN acts[x].arrived :
              /\ acts[x].arrived[i] \in DOMAIN acts[x].kids
              /\ Finished(acts[x].kids[acts[x].arrived[i]])
        /\ \A i, j \in DOMAIN acts[x].arrived : acts[x].arrived[i] = acts[x].arrived[j] => i = j
        /\ acts[x].pc = "ready" => acts[x].arrived = <<>>

ShapeInv == \A x \in DOMAIN acts : CallInv(x) /\ KidsInv(x) /\ ArrivedInv(x)

-----------------------------------------------------------------------------
(* The end of an invocation on its way up.                                 *)

Has(s, e) == \E i \in DOMAIN s : s[i] = e

\* How an activation of the chain C that heard of the end e is on its way: its callee
\* knows, or its own step holds the event, or it returned it under a context that has
\* ended, or it failed.
Carries(x, e, C) ==
    /\ KindOf(x) \in {"llm", "sequential"}
    /\ \/ acts[x].pc = "waiting" /\ LastKid(x) \in C
       \/ /\ acts[x].pc \in {"step", "waiting"}
          /\ Has(acts[x].now, e)
       \/ /\ acts[x].pc = "returned" /\ acts[x].cell \in ended
          /\ Has(acts[x].events, e)
       \/ acts[x].pc = "failed"

\* C is closed under the callers that an end is handed to.
Closed(C) ==
    \A x \in C : LET p == acts[x].parent IN
        p # 0 /\ KindOf(p) \notin {"loop", "parallel"} => p \in C

EndsCarried ==
    \A e \in DOMAIN log : ToolRaised(e, "ends") =>
        /\ \E C \in SUBSET DOMAIN acts :
            /\ log[e].act \in C /\ Closed(C)
            /\ \A x \in C : Carries(x, e, C)
        /\ ~CallsModelAfter(e)

-----------------------------------------------------------------------------
(* What the activations hold.                                              *)

\* Element e comes before f in s.
Precedes(s, e, f) == \E i, j \in DOMAIN s : i < j /\ s[i] = e /\ s[j] = f

\* The events that x has gathered so far, and their order.
Holds(x, e) == Has(acts[x].events, e) \/ Has(acts[x].now, e)

Before(x, e, f) ==
    \/ Precedes(acts[x].events, e, f) \/ Precedes(acts[x].now, e, f)
    \/ Has(acts[x].events, e) /\ Has(acts[x].now, f)

\* Event e comes from x or from an activation below it.
From(x, e) == x \in Within[log[e].act]

\* The requests that a step has still to look at, by their events, and those that x
\* has executed.
Causes(todo) == [i \in DOMAIN todo |-> todo[i].cause]

Asked(x, e) == Has(Causes(acts[x].todo), e)

AskedBefore(x, e, f) == Precedes(Causes(acts[x].todo), e, f)

Done(x, e) ==
    \E b \in DOMAIN acts : Transferred(b) /\ acts[b].parent = x /\ acts[b].cause = e

Known(x, e) == Holds(x, e) \/ Asked(x, e) \/ Done(x, e)

Waits(x) == acts[x].pc = "waiting" /\ KindOf(x) # "parallel"

\* An activation has heard of events of its own and from below, and of none that the
\* callee it waits for will hand to it.
HeardInv(x) ==
    /\ \A e \in DOMAIN log : Known(x, e) => From(x, e)
    /\ Waits(x) => \A e, f \in DOMAIN log : Known(x, e) /\ From(LastKid(x), f) => e < f

NoParallel == \A a \in DOMAIN acts : KindOf(a) # "parallel"

\* It holds each of them once and, without parallel agents, in the order of production.
RowInv(x) ==
    \A e, f \in DOMAIN log : Before(x, e, f) => e # f /\ (NoParallel => e < f)

\* It executes each request once.
CausesInv(x) ==
    /\ \A e, f \in DOMAIN log : AskedBefore(x, e, f) => e # f
    /\ \A e \in DOMAIN log : Asked(x, e) => ~Done(x, e)
    /\ \A b, c \in DOMAIN acts :
          Transferred(b) /\ acts[b].parent = x /\ acts[c].parent = x
          /\ acts[b].cause = acts[c].cause => b = c

\* A parallel agent joins its callees in order, once all of them have finished.
ParallelInv(x) ==
    KindOf(x) = "parallel" =>
        LET ks == acts[x].kids
            out(i) == acts[ks[i]].events
        IN /\ acts[x].pc = "ready" => ks = <<>> /\ acts[x].events = <<>> /\ acts[x].round = 1
           /\ acts[x].round > 1 \/ Finished(x) => \A i \in DOMAIN ks : Finished(ks[i])
           /\ Finished(x) => acts[x].round > Len(ks)
           /\ \A e \in DOMAIN log :
                Has(acts[x].events, e)
                <=> \E i \in DOMAIN ks : i < acts[x].round /\ Has(out(i), e)
           /\ \A e, f \in DOMAIN log : Precedes(acts[x].events, e, f) =>
                \A i, j \in DOMAIN ks : Has(out(i), e) /\ Has(out(j), f) => i <= j

SlicesInv ==
    \A x \in DOMAIN acts : HeardInv(x) /\ RowInv(x) /\ CausesInv(x) /\ ParallelInv(x)

-----------------------------------------------------------------------------
(* Nothing is lost.                                                        *)

NoFailure == \A a \in DOMAIN acts : acts[a].pc # "failed"

\* Event e is still to come to x from a callee.
StillComes(x, e) ==
    \/ Waits(x) /\ From(LastKid(x), e)
    \/ /\ KindOf(x) = "parallel" /\ acts[x].pc = "waiting"
       /\ \E i \in DOMAIN acts[x].kids : acts[x].round <= i /\ From(acts[x].kids[i], e)

\* An event from x or below is held by x, or is still to come from a callee.
ConservedInv(x) ==
    NoFailure => \A e \in DOMAIN log : From(x, e) => Holds(x, e) \/ StillComes(x, e)

\* A sequence or a loop holds what its callees returned.
GatheredInv(x) ==
    KindOf(x) \in InTurn => \A i \in DOMAIN acts[x].kids :
        LET k == acts[x].kids[i] IN
        acts[k].pc = "returned" /\ (acts[x].pc = "waiting" => i # Len(acts[x].kids)) =>
            \A e \in DOMAIN log : Has(acts[k].events, e) => Has(acts[x].events, e)

KeptInv ==
    1 \in DOMAIN acts /\ \A x \in DOMAIN acts : ConservedInv(x) /\ GatheredInv(x)

-----------------------------------------------------------------------------
(* What each action does to the frames, field by field.                    *)

\* A frame that a has just started.
Fresh(f, a) ==
    /\ f.parent = a /\ f.pc = "ready" /\ f.round = 1 /\ f.kids = <<>> /\ f.now = <<>>
    /\ f.todo = <<>> /\ f.events = <<>> /\ f.arrived = <<>>

\* Activation a has these fields after a step that starts k others; the frames beside
\* it stay, and it keeps its agent, caller, cell and cause.
Moves(a, k, p, r, ks, now, todo, es, arrived) ==
    /\ DOMAIN acts' = 1 .. (Len(acts) + k)
    /\ \A b \in DOMAIN acts : b # a => acts'[b] = acts[b]
    /\ acts'[a].agent = acts[a].agent /\ acts'[a].parent = acts[a].parent
    /\ acts'[a].cell = acts[a].cell /\ acts'[a].cause = acts[a].cause
    /\ acts'[a].pc = p /\ acts'[a].round = r /\ acts'[a].kids = ks
    /\ acts'[a].now = now /\ acts'[a].todo = todo
    /\ acts'[a].events = es /\ acts'[a].arrived = arrived
    /\ \A b \in (Len(acts) + 1) .. (Len(acts) + k) : Fresh(acts'[b], a)

\* The frames that a step adds, in order.
Adds(new) == \A i \in DOMAIN new : acts'[Len(acts) + i] = new[i]

LEMMA MovesAlone ==
    ASSUME TreeInv, NEW a \in DOMAIN acts, NEW p, NEW r, NEW ks, NEW now, NEW todo,
           NEW es, NEW arrived,
           acts' = [acts EXCEPT ![a] = Renewed(a, p, r, ks, now, todo, es, arrived)]
    PROVE  Moves(a, 0, p, r, ks, now, todo, es, arrived)
<1>1. /\ acts[a] \in FrameType(Len(acts), Len(log)) /\ Len(acts) \in Nat
      /\ DOMAIN acts = 1 .. Len(acts)
    BY FrameFacts
<1>2. acts'[a] = Renewed(a, p, r, ks, now, todo, es, arrived)
    OBVIOUS
<1>3. DOMAIN acts' = 1 .. (Len(acts) + 0) /\ \A b \in DOMAIN acts : b # a => acts'[b] = acts[b]
    BY <1>1
<1>4. \A b : b \notin (Len(acts) + 1) .. (Len(acts) + 0)
    BY <1>1
<1> QED
    BY <1>1, <1>2, <1>3, <1>4 DEF Moves, Renewed, FrameType

\* The steps that only end an activation, or a pass of a loop.
LEMMA EndMoves ==
    ASSUME TreeInv, NEW a \in DOMAIN acts, NEW p,
           acts' = [acts EXCEPT ![a].pc = p]
    PROVE  Moves(a, 0, p, acts[a].round, acts[a].kids, acts[a].now, acts[a].todo,
                 acts[a].events, acts[a].arrived)
<1>1. acts' = [acts EXCEPT ![a] = Renewed(a, p, acts[a].round, acts[a].kids,
            acts[a].now, acts[a].todo, acts[a].events, acts[a].arrived)]
    BY FrameFacts DEF Renewed, FrameType
<1> QED
    BY <1>1, MovesAlone

LEMMA FailMoves ==
    ASSUME TreeInv, NEW a \in DOMAIN acts, Fail(a)
    PROVE  Moves(a, 0, "failed", acts[a].round, acts[a].kids, acts[a].now, acts[a].todo,
                 <<>>, acts[a].arrived)
<1>1. acts' = [acts EXCEPT ![a] = Renewed(a, "failed", acts[a].round, acts[a].kids,
            acts[a].now, acts[a].todo, <<>>, acts[a].arrived)]
    BY FrameFacts DEF Fail, Renewed, FrameType
<1> QED
    BY <1>1, MovesAlone

LEMMA LoopPassMoves ==
    ASSUME TreeInv, NEW a \in DOMAIN acts, LoopPassEnds(a)
    PROVE  \/ Moves(a, 0, "returned", acts[a].round, acts[a].kids, acts[a].now,
                    acts[a].todo, acts[a].events, acts[a].arrived)
           \/ Moves(a, 0, "ready", acts[a].round + 1, <<>>, acts[a].now,
                    acts[a].todo, acts[a].events, acts[a].arrived)
<1>1. CASE acts' = [acts EXCEPT ![a].pc = "returned"]
    BY <1>1, EndMoves
<1>2. CASE acts' = [acts EXCEPT ![a].kids = <<>>, ![a].round = @ + 1]
    <2>1. acts' = [acts EXCEPT ![a] = Renewed(a, "ready", acts[a].round + 1, <<>>,
              acts[a].now, acts[a].todo, acts[a].events, acts[a].arrived)]
        BY <1>2, FrameFacts DEF Renewed, FrameType, LoopPassEnds, At
    <2> QED
        BY <2>1, MovesAlone
<1> QED
    BY <1>1, <1>2 DEF LoopPassEnds

\* The steps of a flow.
LEMMA ModelMoves ==
    ASSUME TreeInv, NEW a \in DOMAIN acts, ModelAnswers(a) \/ ModelStalls(a)
    PROVE  \E p \in {"returned", "ready"}, r \in Nat \ {0} :
              Moves(a, 0, p, r, acts[a].kids, acts[a].now, acts[a].todo,
                    Append(acts[a].events, Len(log) + 1), acts[a].arrived)
<1> DEFINE es == Append(acts[a].events, Len(log) + 1)
<1>1. PICK p \in {"returned", "ready"}, r \in Nat \ {0} :
         acts' = [acts EXCEPT ![a].events = es, ![a].round = r, ![a].pc = p]
    <2>1. CASE ModelAnswers(a)
        <3>1. acts' = [acts EXCEPT ![a].events = es, ![a].round = acts[a].round,
                                   ![a].pc = "returned"]
            BY <2>1, FrameFacts DEF ModelAnswers, FrameType
        <3> QED
            BY <3>1, QuietTypes
    <2>2. CASE ModelStalls(a)
        <3>1. acts[a].pc = "ready"
            BY <2>2 DEF ModelStalls, At
        <3>2. acts' = [acts EXCEPT ![a].events = es, ![a].round = acts[a].round + 1,
                                   ![a].pc = "ready"]
            BY <2>2, <3>1, FrameFacts DEF ModelStalls, FrameType
        <3>3. acts[a].round + 1 \in Nat \ {0}
            BY QuietTypes
        <3> QED
            BY <3>2, <3>3
    <2> QED
        BY <2>1, <2>2
<1> HIDE DEF es
<1>2. acts' = [acts EXCEPT ![a] = Renewed(a, p, r, acts[a].kids,
            acts[a].now, acts[a].todo, es, acts[a].arrived)]
    BY <1>1, FrameFacts DEF Renewed, FrameType
<1>3. Moves(a, 0, p, r, acts[a].kids, acts[a].now, acts[a].todo, es, acts[a].arrived)
    BY <1>2, MovesAlone
<1> QED
    BY <1>1, <1>3 DEF es

LEMMA ToolsMoves ==
    ASSUME TreeInv, NEW a \in DOMAIN acts, ToolsRun(a)
    PROVE  \E to, signals :
              /\ log' = log \o <<Event(a, "model", NoAgent, {}),
                                 Event(a, "tool", to, signals)>>
              /\ Moves(a, 0, "step", acts[a].round, acts[a].kids,
                       <<Len(log) + 1, Len(log) + 2>>,
                       <<[to |-> to, depth |-> acts[a].depth, cause |-> Len(log) + 2]>>,
                       acts[a].events, acts[a].arrived)
<1>1. PICK to, signals :
         /\ log' = log \o <<Event(a, "model", NoAgent, {}),
                            Event(a, "tool", to, signals)>>
         /\ acts' = [acts EXCEPT
                ![a].now = <<Len(log) + 1, Len(log) + 2>>,
                ![a].todo = <<[to |-> to, depth |-> acts[a].depth,
                               cause |-> Len(log) + 2]>>,
                ![a].pc = "step"]
    BY DEF ToolsRun
<1> DEFINE now == <<Len(log) + 1, Len(log) + 2>>
           todo == <<[to |-> to, depth |-> acts[a].depth, cause |-> Len(log) + 2]>>
<1>2. acts' = [acts EXCEPT ![a].now = now, ![a].todo = todo, ![a].pc = "step"]
    BY <1>1
<1> HIDE DEF now, todo
<1>3. acts' = [acts EXCEPT ![a] = Renewed(a, "step", acts[a].round, acts[a].kids,
            now, todo, acts[a].events, acts[a].arrived)]
    BY <1>2, FrameFacts DEF Renewed, FrameType
<1>4. Moves(a, 0, "step", acts[a].round, acts[a].kids, now, todo, acts[a].events,
            acts[a].arrived)
    BY <1>3, MovesAlone
<1> QED
    BY <1>1, <1>4 DEF now, todo

LEMMA UnknownMoves ==
    ASSUME TreeInv, NEW a \in DOMAIN acts, TransferUnknown(a)
    PROVE  Moves(a, 0, "step", acts[a].round, acts[a].kids,
                 Append(acts[a].now, Len(log) + 1), Rest(a), acts[a].events,
                 acts[a].arrived)
<1> DEFINE now == Append(acts[a].now, Len(log) + 1)
<1>1. acts' = [acts EXCEPT ![a].now = now, ![a].todo = Rest(a)] /\ acts[a].pc = "step"
    BY DEF TransferUnknown, At
<1> HIDE DEF now
<1>2. acts' = [acts EXCEPT ![a] = Renewed(a, "step", acts[a].round, acts[a].kids,
            now, Rest(a), acts[a].events, acts[a].arrived)]
    BY <1>1, FrameFacts DEF Renewed, FrameType
<1>3. Moves(a, 0, "step", acts[a].round, acts[a].kids, now, Rest(a), acts[a].events,
            acts[a].arrived)
    BY <1>2, MovesAlone
<1> QED
    BY <1>3 DEF now

LEMMA TransferReturnsMoves ==
    ASSUME TreeInv, NEW a \in DOMAIN acts, TransferReturns(a)
    PROVE  Moves(a, 0, "step", acts[a].round, acts[a].kids, StepEvents(a), Chained(a),
                 acts[a].events, acts[a].arrived)
<1>1. acts' = [acts EXCEPT ![a] = Renewed(a, "step", acts[a].round, acts[a].kids,
            StepEvents(a), Chained(a), acts[a].events, acts[a].arrived)]
    BY FrameFacts DEF TransferReturns, Renewed, FrameType
<1> QED
    BY <1>1, MovesAlone

LEMMA StepEndsMoves ==
    ASSUME TreeInv, NEW a \in DOMAIN acts, StepEnds(a)
    PROVE  \E r \in Nat \ {0} :
              Moves(a, 0, IF StepAsksForEnd(a) \/ StepHandsOver(a) THEN "returned" ELSE "ready",
                    r, acts[a].kids, <<>>, <<>>, acts[a].events \o acts[a].now,
                    acts[a].arrived)
<1> DEFINE stop == StepAsksForEnd(a) \/ StepHandsOver(a)
           r == IF stop THEN acts[a].round ELSE acts[a].round + 1
           p == IF stop THEN "returned" ELSE "ready"
           es == acts[a].events \o acts[a].now
<1>1. acts' = [acts EXCEPT ![a].events = es, ![a].now = <<>>, ![a].todo = <<>>,
                           ![a].round = r, ![a].pc = p]
    BY DEF StepEnds
<1>2. r \in Nat \ {0}
    BY QuietTypes
<1> HIDE DEF es, r, p
<1>3. acts' = [acts EXCEPT ![a] = Renewed(a, p, r, acts[a].kids, <<>>, <<>>, es,
            acts[a].arrived)]
    BY <1>1, FrameFacts DEF Renewed, FrameType
<1>4. Moves(a, 0, p, r, acts[a].kids, <<>>, <<>>, es, acts[a].arrived)
    BY <1>3, MovesAlone
<1> QED
    BY <1>2, <1>4 DEF es, p

LEMMA CustomMovesTo ==
    ASSUME TreeInv, NEW a \in DOMAIN acts, CustomReturns(a)
    PROVE  \E k \in Nat, new \in Seq(EventType(Len(acts))) :
              /\ log' = log \o new /\ Len(new) = k
              /\ \A i \in 1 .. k : new[i].act = a /\ new[i].from = "agent"
              /\ Moves(a, 0, "returned", acts[a].round, acts[a].kids, acts[a].now,
                       acts[a].todo, [i \in 1 .. k |-> Len(log) + i], acts[a].arrived)
<1>1. PICK move \in CustomMoves[acts[a].agent] :
         /\ log' = log \o [i \in DOMAIN move.events |->
                              Event(a, "agent", move.events[i].transfer,
                                    move.events[i].signals)]
         /\ acts' = [acts EXCEPT
                ![a].events = [i \in DOMAIN move.events |-> Len(log) + i],
                ![a].pc = "returned"]
    BY DEF CustomReturns
<1> DEFINE k == Len(move.events)
           new == [i \in DOMAIN move.events |->
                      Event(a, "agent", move.events[i].transfer, move.events[i].signals)]
           es == [i \in DOMAIN move.events |-> Len(log) + i]
<1>2. /\ k \in Nat /\ DOMAIN move.events = 1..k
      /\ \A i \in 1..k : /\ move.events[i].transfer \in Agents \cup {NoAgent}
                         /\ move.events[i].signals \subseteq Signals
    <2>1. move.events \in
             Seq([transfer: Agents \cup {NoAgent}, signals: SUBSET Signals])
        <3>1. acts[a].agent \in Agents
            BY FrameFacts DEF FrameType
        <3>2. move \in Move
            BY <1>1, <3>1, AgentTreeAssumption
        <3> QED
            BY <3>2 DEF Move
    <2>2. k \in Nat /\ DOMAIN move.events = 1..k
        BY <2>1, LenProperties
    <2>3. \A i \in 1..k : move.events[i] \in
             [transfer: Agents \cup {NoAgent}, signals: SUBSET Signals]
        BY <2>1, ElementOfSeq
    <2> QED
        BY <2>2, <2>3
<1>3. new \in Seq(EventType(Len(acts))) /\ Len(new) = k
      /\ \A i \in 1 .. k : new[i].act = a /\ new[i].from = "agent"
    <2>1. \A i \in 1..k : Event(a, "agent", move.events[i].transfer,
                                move.events[i].signals) \in EventType(Len(acts))
        BY <1>2, FrameFacts DEF Event, EventType, Sources
    <2>2. new = [i \in 1..k |-> Event(a, "agent", move.events[i].transfer,
                                      move.events[i].signals)]
        BY <1>2
    <2>3. new \in Seq(EventType(Len(acts)))
        BY <1>2, <2>1, <2>2, IsASeq
    <2> QED
        BY <1>2, <2>2, <2>3, LenProperties DEF Event
<1>4. acts' = [acts EXCEPT ![a].events = es, ![a].pc = "returned"] /\ log' = log \o new
    BY <1>1
<1>5. es = [i \in 1 .. k |-> Len(log) + i]
    BY <1>2
<1> HIDE DEF es, new, k
<1>6. acts' = [acts EXCEPT ![a] = Renewed(a, "returned", acts[a].round, acts[a].kids,
            acts[a].now, acts[a].todo, es, acts[a].arrived)]
    BY <1>4, FrameFacts DEF Renewed, FrameType
<1>7. Moves(a, 0, "returned", acts[a].round, acts[a].kids, acts[a].now,
            acts[a].todo, es, acts[a].arrived)
    BY <1>6, MovesAlone
<1> QED
    BY <1>2, <1>3, <1>4, <1>5, <1>7

\* The steps of the workflow agents.
LEMMA ResumeMoves ==
    ASSUME TreeInv, NEW a \in DOMAIN acts, SequenceResumes(a) \/ LoopResumes(a)
    PROVE  \E p \in {"returned", "ready"} :
              /\ Moves(a, 0, p, acts[a].round, acts[a].kids, acts[a].now, acts[a].todo,
                       Gathered(a), acts[a].arrived)
              /\ SequenceResumes(a) /\ LastKid(a) \in ended => p = "returned"
<1>1. PICK p \in {"returned", "ready"} :
         /\ acts' = [acts EXCEPT ![a].events = Gathered(a), ![a].pc = p]
         /\ SequenceResumes(a) /\ LastKid(a) \in ended => p = "returned"
    <2>1. CASE SequenceResumes(a)
        BY <2>1 DEF SequenceResumes
    <2>2. CASE LoopResumes(a)
        <3>1. ~SequenceResumes(a)
            BY <2>2 DEF LoopResumes, SequenceResumes
        <3> QED
            BY <2>2, <3>1 DEF LoopResumes
    <2> QED
        BY <2>1, <2>2
<1>2. acts' = [acts EXCEPT ![a] = Renewed(a, p, acts[a].round, acts[a].kids,
            acts[a].now, acts[a].todo, Gathered(a), acts[a].arrived)]
    BY <1>1, FrameFacts DEF Renewed, FrameType
<1> QED
    BY <1>1, <1>2, MovesAlone

LEMMA SendMoves ==
    ASSUME TreeInv, NEW a \in DOMAIN acts, SendResult(a)
    PROVE  \E i \in DOMAIN acts[a].kids :
              /\ Finished(acts[a].kids[i])
              /\ \A j \in DOMAIN acts[a].arrived : acts[a].arrived[j] # i
              /\ Moves(a, 0, "waiting", acts[a].round, acts[a].kids, acts[a].now,
                       acts[a].todo, acts[a].events, Append(acts[a].arrived, i))
<1>1. PICK i \in DOMAIN acts[a].kids :
         /\ Finished(acts[a].kids[i])
         /\ \A j \in DOMAIN acts[a].arrived : acts[a].arrived[j] # i
         /\ acts' = [acts EXCEPT ![a].arrived = Append(@, i)]
    BY DEF SendResult
<1> DEFINE arrived == Append(acts[a].arrived, i)
<1>2. acts' = [acts EXCEPT ![a].arrived = arrived] /\ acts[a].pc = "waiting"
    BY <1>1 DEF SendResult, At
<1> HIDE DEF arrived
<1>3. acts' = [acts EXCEPT ![a] = Renewed(a, "waiting", acts[a].round, acts[a].kids,
            acts[a].now, acts[a].todo, acts[a].events, arrived)]
    BY <1>2, FrameFacts DEF Renewed, FrameType
<1>4. Moves(a, 0, "waiting", acts[a].round, acts[a].kids, acts[a].now, acts[a].todo,
            acts[a].events, arrived)
    BY <1>3, MovesAlone
<1> QED
    BY <1>1, <1>4 DEF arrived

LEMMA JoinMoves ==
    ASSUME TreeInv, NEW a \in DOMAIN acts, Join(a)
    PROVE  Moves(a, 0, "waiting", acts[a].round + 1, acts[a].kids, acts[a].now,
                 acts[a].todo, acts[a].events \o acts[acts[a].kids[acts[a].round]].events,
                 acts[a].arrived)
<1>1. acts' = [acts EXCEPT ![a] = Renewed(a, "waiting", acts[a].round + 1,
            acts[a].kids, acts[a].now, acts[a].todo,
            acts[a].events \o acts[acts[a].kids[acts[a].round]].events,
            acts[a].arrived)]
    BY FrameFacts DEF Renewed, FrameType, Join, At, ResultOrder
<1> QED
    BY <1>1, MovesAlone

\* Sequences, whatever they hold.
LEMMA IsSeqOfRange ==
    ASSUME NEW n \in Nat, NEW s, s = [i \in 1 .. n |-> s[i]]
    PROVE  s \in Seq({s[i] : i \in 1 .. n}) /\ Len(s) = n
<1> DEFINE S == {s[i] : i \in 1 .. n}
<1>1. \A i \in 1 .. n : s[i] \in S
    OBVIOUS
<1> HIDE DEF S
<1>2. [i \in 1 .. n |-> s[i]] \in Seq(S)
    BY <1>1, IsASeq
<1>3. s \in Seq(S) /\ DOMAIN s = 1 .. n
    BY <1>2
<1> QED
    BY <1>3, LenProperties DEF S

LEMMA Joined ==
    ASSUME NEW n \in Nat, NEW k \in Nat, NEW s, NEW t,
           s = [i \in 1 .. n |-> s[i]], t = [i \in 1 .. k |-> t[i]]
    PROVE  /\ DOMAIN (s \o t) = 1 .. (n + k) /\ Len(s \o t) = n + k
           /\ \A i \in 1 .. n : (s \o t)[i] = s[i]
           /\ \A i \in 1 .. k : (s \o t)[n + i] = t[i]
<1> DEFINE T == {s[i] : i \in 1 .. n} \cup {t[i] : i \in 1 .. k}
<1>1. s \in Seq({s[i] : i \in 1 .. n}) /\ t \in Seq({t[i] : i \in 1 .. k})
      /\ Len(s) = n /\ Len(t) = k
    BY IsSeqOfRange
<1>2. {s[i] : i \in 1 .. n} \subseteq T /\ {t[i] : i \in 1 .. k} \subseteq T
    OBVIOUS
<1> HIDE DEF T
<1>3. s \in Seq(T) /\ t \in Seq(T)
    BY <1>1, <1>2, SeqMonotonic
<1>4. /\ s \o t \in Seq(T) /\ Len(s \o t) = n + k
      /\ \A i \in 1 .. (n + k) : (s \o t)[i] = IF i <= n THEN s[i] ELSE t[i - n]
    <2>1. /\ s \o t \in Seq(T) /\ Len(s \o t) = Len(s) + Len(t)
          /\ \A i \in 1 .. Len(s) + Len(t) : (s \o t)[i] =
                 IF i <= Len(s) THEN s[i] ELSE t[i - Len(s)]
        BY <1>3, ConcatProperties, Zenon
    <2> QED
        BY <1>1, <2>1
<1>5. DOMAIN (s \o t) = 1 .. (n + k)
    BY <1>4, LenProperties
<1> HIDE <1>1, <1>2, <1>3
<1>6. \A i \in 1 .. n : (s \o t)[i] = s[i]
    BY <1>4
<1>7. \A i \in 1 .. k : (s \o t)[n + i] = t[i]
    <2> TAKE i \in 1 .. k
    <2>1. n + i \in 1 .. (n + k) /\ ~(n + i <= n) /\ (n + i) - n = i
        OBVIOUS
    <2> QED
        BY <1>4, <2>1
<1> QED
    BY <1>4, <1>5, <1>6, <1>7

LEMMA Appended ==
    ASSUME NEW n \in Nat, NEW s, NEW x, s = [i \in 1 .. n |-> s[i]]
    PROVE  /\ DOMAIN Append(s, x) = 1 .. (n + 1) /\ Len(Append(s, x)) = n + 1
           /\ Append(s, x) = s \o <<x>>
           /\ \A i \in 1 .. n : Append(s, x)[i] = s[i]
           /\ Append(s, x)[n + 1] = x
<1> DEFINE T == {s[i] : i \in 1 .. n} \cup {x}
<1>1. s \in Seq({s[i] : i \in 1 .. n}) /\ Len(s) = n
    BY IsSeqOfRange
<1>2. {s[i] : i \in 1 .. n} \subseteq T /\ x \in T
    OBVIOUS
<1> HIDE DEF T
<1>3. s \in Seq(T)
    BY <1>1, <1>2, SeqMonotonic
<1>4. /\ Append(s, x) \in Seq(T) /\ Len(Append(s, x)) = n + 1
      /\ \A i \in 1 .. n : Append(s, x)[i] = s[i]
      /\ Append(s, x)[n + 1] = x
    BY <1>1, <1>2, <1>3, AppendProperties
<1>5. DOMAIN Append(s, x) = 1 .. (n + 1)
    BY <1>4, LenProperties
<1>6. Append(s, x) = s \o <<x>>
    BY <1>2, <1>3, AppendIsConcat
<1> QED
    BY <1>4, <1>5, <1>6

\* The steps that start others: frames are added at the end.
LEMMA MovesStart ==
    ASSUME TreeInv, NEW a \in DOMAIN acts, NEW ks, NEW todo, NEW k \in Nat, NEW new,
           new = [i \in 1 .. k |-> new[i]],
           acts' = [acts EXCEPT ![a] = Renewed(a, "waiting", acts[a].round, ks,
                        acts[a].now, todo, acts[a].events, acts[a].arrived)] \o new,
           \A i \in 1 .. k : Fresh(new[i], a)
    PROVE  /\ Moves(a, k, "waiting", acts[a].round, ks, acts[a].now, todo, acts[a].events,
                    acts[a].arrived)
           /\ Adds(new)
<1> DEFINE f == Renewed(a, "waiting", acts[a].round, ks, acts[a].now, todo,
                        acts[a].events, acts[a].arrived)
           upd == [acts EXCEPT ![a] = f]  n == Len(acts)
<1>1. acts[a] \in FrameType(n, Len(log)) /\ n \in Nat /\ DOMAIN acts = 1 .. n
    BY FrameFacts
<1>2. /\ upd = [b \in 1 .. n |-> upd[b]]
      /\ \A b \in 1 .. n : upd[b] = IF b = a THEN f ELSE acts[b]
    BY <1>1
<1>3. acts' = upd \o new
    OBVIOUS
<1>4. /\ f.agent = acts[a].agent /\ f.parent = acts[a].parent /\ f.cell = acts[a].cell
      /\ f.cause = acts[a].cause /\ f.pc = "waiting" /\ f.round = acts[a].round
      /\ f.kids = ks /\ f.now = acts[a].now /\ f.todo = todo
      /\ f.events = acts[a].events /\ f.arrived = acts[a].arrived
    BY <1>1 DEF Renewed, FrameType
<1> HIDE DEF upd, f, n
<1>5. /\ DOMAIN (upd \o new) = 1 .. (n + k)
      /\ \A b \in 1 .. n : (upd \o new)[b] = upd[b]
      /\ \A i \in 1 .. k : (upd \o new)[n + i] = new[i]
    BY <1>1, <1>2, Joined
<1>6. /\ DOMAIN acts' = 1 .. (n + k)
      /\ \A b \in 1 .. n : acts'[b] = upd[b]
      /\ \A i \in 1 .. k : acts'[n + i] = new[i]
    BY <1>3, <1>5, Zenon
<1>7. acts'[a] = f /\ \A b \in DOMAIN acts : b # a => acts'[b] = acts[b]
    BY <1>1, <1>2, <1>6
<1>8. ASSUME NEW b \in (n + 1) .. (n + k)
      PROVE  Fresh(acts'[b], a)
    <2>1. PICK i \in 1 .. k : n + i = b
        <3>1. b - n \in 1 .. k /\ n + (b - n) = b
            BY <1>1
        <3> QED
            BY <3>1
    <2>2. acts'[b] = new[i]
        BY <1>6, <2>1
    <2> QED
        BY <2>2
<1>9. Moves(a, k, "waiting", acts[a].round, ks, acts[a].now, todo, acts[a].events,
            acts[a].arrived)
    BY <1>4, <1>6, <1>7, <1>8 DEF Moves, n
<1>10. DOMAIN new = 1 .. k
    OBVIOUS
<1> QED
    BY <1>6, <1>9, <1>10 DEF n, Adds

\* One more callee.
LEMMA MovesStartOne ==
    ASSUME TreeInv, NEW a \in DOMAIN acts, NEW todo, NEW t,
           acts' = Append([acts EXCEPT ![a].kids = Append(@, NewId), ![a].todo = todo,
                                       ![a].pc = "waiting"], t),
           Fresh(t, a)
    PROVE  /\ Moves(a, 1, "waiting", acts[a].round, Append(acts[a].kids, NewId),
                    acts[a].now, todo, acts[a].events, acts[a].arrived)
           /\ Adds(<<t>>)
<1> DEFINE ks == Append(acts[a].kids, NewId)
           f == Renewed(a, "waiting", acts[a].round, ks, acts[a].now, todo,
                        acts[a].events, acts[a].arrived)
           n == Len(acts)
           upd == [acts EXCEPT ![a] = f]
           new == [i \in 1 .. 1 |-> t]
<1>1. acts[a] \in FrameType(n, Len(log)) /\ n \in Nat /\ DOMAIN acts = 1 .. n
    BY FrameFacts
<1>2. acts' = Append(upd, t)
    <2> HIDE DEF ks
    <2>1. [acts EXCEPT ![a].kids = ks, ![a].todo = todo, ![a].pc = "waiting"] = upd
        BY <1>1 DEF Renewed, FrameType
    <2> QED
        BY <2>1 DEF ks
<1>3. upd = [b \in 1 .. n |-> upd[b]]
    BY <1>1
<1>4. new = <<t>> /\ new = [i \in 1 .. 1 |-> new[i]] /\ \A i \in 1 .. 1 : new[i] = t
    OBVIOUS
<1> HIDE DEF f, ks, n, upd
<1>5. Append(upd, t) = upd \o <<t>>
    BY <1>1, <1>3, Appended
<1>6. acts' = upd \o new
    BY <1>2, <1>4, <1>5
<1> HIDE DEF new
<1>7. /\ Moves(a, 1, "waiting", acts[a].round, ks, acts[a].now, todo, acts[a].events,
               acts[a].arrived)
      /\ Adds(new)
    <2>1. acts' = [acts EXCEPT ![a] = Renewed(a, "waiting", acts[a].round, ks,
              acts[a].now, todo, acts[a].events, acts[a].arrived)] \o new
        BY <1>6 DEF upd, f
    <2>2. 1 \in Nat
        OBVIOUS
    <2> HIDE <1>6
    <2>3. \A i \in 1 .. 1 : Fresh(new[i], a)
        BY <1>4
    <2> QED
        BY <1>4, <2>1, <2>2, <2>3, MovesStart, Zenon
<1> QED
    BY <1>4, <1>7 DEF ks

LEMMA TransferStartMoves ==
    ASSUME TreeInv, NEW a \in DOMAIN acts, TransferStart(a)
    PROVE  /\ Moves(a, 1, "waiting", acts[a].round, Append(acts[a].kids, NewId),
                    acts[a].now, Rest(a), acts[a].events, acts[a].arrived)
           /\ acts'[NewId].cause = NextRequest(a).cause
<1> DEFINE t == TargetFrame(a, NextRequest(a))
<1>1. acts' = Append([acts EXCEPT ![a].todo = Rest(a), ![a].kids = Append(@, NewId),
                                  ![a].pc = "waiting"], t)
    BY DEF TransferStart
<1>2. Fresh(t, a) /\ t.cause = NextRequest(a).cause
    BY DEF TargetFrame, Frame, Fresh
<1> HIDE DEF t
<1>3. acts' = Append([acts EXCEPT ![a].kids = Append(@, NewId), ![a].todo = Rest(a),
                                  ![a].pc = "waiting"], t)
    BY <1>1, FrameFacts DEF FrameType
<1>4. /\ Moves(a, 1, "waiting", acts[a].round, Append(acts[a].kids, NewId),
               acts[a].now, Rest(a), acts[a].events, acts[a].arrived)
      /\ Adds(<<t>>)
    BY <1>2, <1>3, MovesStartOne, Zenon
<1>5. acts'[NewId] = t
    BY <1>4 DEF Adds, NewId
<1> QED
    BY <1>2, <1>4, <1>5

LEMMA StartSubMoves ==
    ASSUME TreeInv, NEW a \in DOMAIN acts, StartSub(a)
    PROVE  /\ Moves(a, 1, "waiting", acts[a].round, Append(acts[a].kids, NewId),
                    acts[a].now, acts[a].todo, acts[a].events, acts[a].arrived)
           /\ acts'[NewId].cause = 0 /\ acts'[NewId].cell = NewId
<1> DEFINE t == SubFrame(SubAt(a)[Len(acts[a].kids) + 1], a, NewId)
<1>1. acts' = Append([acts EXCEPT ![a].kids = Append(@, NewId), ![a].pc = "waiting"], t)
    BY DEF StartSub
<1>2. Fresh(t, a) /\ t.cause = 0 /\ t.cell = NewId
    BY DEF SubFrame, Frame, Fresh
<1> HIDE DEF t
<1>3. acts' = Append([acts EXCEPT ![a].kids = Append(@, NewId), ![a].todo = acts[a].todo,
                                  ![a].pc = "waiting"], t)
    BY <1>1, FrameFacts DEF FrameType
<1>4. /\ Moves(a, 1, "waiting", acts[a].round, Append(acts[a].kids, NewId),
               acts[a].now, acts[a].todo, acts[a].events, acts[a].arrived)
      /\ Adds(<<t>>)
    BY <1>2, <1>3, MovesStartOne, Zenon
<1>5. acts'[NewId] = t
    BY <1>4 DEF Adds, NewId
<1> QED
    BY <1>2, <1>4, <1>5

LEMMA ForkMoves ==
    ASSUME TreeInv, NEW a \in DOMAIN acts, Fork(a)
    PROVE  \E k \in Nat :
              /\ Moves(a, k, "waiting", acts[a].round, [i \in 1 .. k |-> Len(acts) + i],
                       acts[a].now, acts[a].todo, acts[a].events, acts[a].arrived)
              /\ \A i \in 1 .. k : /\ acts'[Len(acts) + i].cause = 0
                                   /\ acts'[Len(acts) + i].cell = Len(acts) + i
<1> DEFINE k == Len(SubAt(a))
           ks == [i \in 1 .. k |-> Len(acts) + i]
           new == [i \in 1 .. k |-> SubFrame(SubAt(a)[i], a, Len(acts) + i)]
<1>1. acts' = [acts EXCEPT ![a].kids = ks, ![a].pc = "waiting"] \o new
    BY DEF Fork
<1>2. k \in Nat
    BY QuietTypes, AgentTreeAssumption, LenProperties DEF SubAt
<1>3. /\ new = [i \in 1 .. k |-> new[i]]
      /\ \A i \in 1 .. k : Fresh(new[i], a) /\ new[i].cause = 0 /\ new[i].cell = Len(acts) + i
    BY DEF SubFrame, Frame, Fresh
<1> HIDE DEF new, ks, k
<1>4. acts' = [acts EXCEPT ![a] = Renewed(a, "waiting", acts[a].round, ks,
                   acts[a].now, acts[a].todo, acts[a].events, acts[a].arrived)] \o new
    BY <1>1, FrameFacts DEF Renewed, FrameType
<1>5. /\ Moves(a, k, "waiting", acts[a].round, ks, acts[a].now, acts[a].todo,
               acts[a].events, acts[a].arrived)
      /\ Adds(new)
    BY <1>2, <1>3, <1>4, MovesStart, Zenon
<1>6. \A i \in 1 .. k : acts'[Len(acts) + i] = new[i]
    <2>1. DOMAIN new = 1 .. k
        BY <1>3
    <2> QED
        BY <1>5, <2>1 DEF Adds
<1> QED
    BY <1>2, <1>3, <1>5, <1>6 DEF ks

-----------------------------------------------------------------------------
(* The shape of the tree is kept.                                          *)

\* What the type invariant says of callers and callees.
LEMMA KidFacts ==
    ASSUME TreeInv, NEW x \in DOMAIN acts
    PROVE  /\ Len(acts) \in Nat /\ DOMAIN acts = 1 .. Len(acts) /\ x \in Nat
           /\ acts[x].parent \in Nat /\ acts[x].parent < x
           /\ acts[x].parent # 0 => acts[x].parent \in DOMAIN acts
           /\ Len(acts[x].kids) \in Nat /\ DOMAIN acts[x].kids = 1 .. Len(acts[x].kids)
           /\ \A i \in DOMAIN acts[x].kids : acts[x].kids[i] \in DOMAIN acts
           /\ acts[x].kids = [i \in 1 .. Len(acts[x].kids) |-> acts[x].kids[i]]
           /\ KindOf(x) \in Kinds
<1>1. Len(acts) \in Nat /\ DOMAIN acts = 1 .. Len(acts)
      /\ acts[x] \in FrameType(Len(acts), Len(log))
    BY FrameFacts
<1>2. acts[x].parent \in Nat /\ acts[x].parent < x /\ acts[x].kids \in Seq(1 .. Len(acts))
    BY <1>1 DEF FrameType, TreeInv, TreeTypeOK
<1>3. Len(acts[x].kids) \in Nat /\ DOMAIN acts[x].kids = 1 .. Len(acts[x].kids)
    BY <1>2, LenProperties
<1>4. \A i \in DOMAIN acts[x].kids : acts[x].kids[i] \in 1 .. Len(acts)
    BY <1>2, <1>3, ElementOfSeq
<1>5. KindOf(x) \in Kinds
    BY <1>1, AgentTreeAssumption DEF KindOf, FrameType
<1>6. acts[x].kids = [i \in 1 .. Len(acts[x].kids) |-> acts[x].kids[i]]
    BY <1>2, <1>3
<1>7. acts[x].parent # 0 => acts[x].parent \in DOMAIN acts
    BY <1>1, <1>2
<1> QED
    BY <1>1, <1>2, <1>3, <1>4, <1>5, <1>6, <1>7

\* No callee of a is running.
Idle(a) == \A b \in DOMAIN acts : acts[b].parent = a => Finished(b)

LEMMA IdleWhen ==
    ASSUME TreeInv, ShapeInv, NEW a \in DOMAIN acts,
           acts[a].pc # "waiting" \/ (KindOf(a) # "parallel" /\ Finished(LastKid(a)))
    PROVE  Idle(a)
<1> SUFFICES ASSUME NEW b \in DOMAIN acts, acts[b].parent = a, ~Finished(b)
             PROVE  FALSE
    BY DEF Idle
<1>1. a # 0
    BY KidFacts
<1>2. acts[a].pc = "waiting" /\ (KindOf(a) # "parallel" => LastKid(a) = b)
    BY <1>1 DEF ShapeInv, CallInv
<1> QED
    BY <1>2

\* A place for each of m things, no two in the same, leaves none free.
LEMMA Pigeons ==
    ASSUME NEW m \in Nat, NEW f, DOMAIN f = 1 .. m, \A i \in 1 .. m : f[i] \in 1 .. m,
           \A i, j \in 1 .. m : f[i] = f[j] => i = j, f = [i \in 1 .. m |-> f[i]]
    PROVE  \A k \in 1 .. m : \E i \in 1 .. m : f[i] = k
<1>1. f \in [1 .. m -> 1 .. m]
    OBVIOUS
<1>2. f \in Injection(1 .. m, 1 .. m)
    BY <1>1 DEF Injection, IsInjective
<1>3. IsFiniteSet(1 .. m)
    <2>1. 1 .. m \in SUBSET Nat /\ \A i \in 1 .. m : i <= m
        OBVIOUS
    <2> QED
        BY <2>1, FS_BoundedSetOfNaturals
<1>4. f \in Surjection(1 .. m, 1 .. m)
    BY <1>2, <1>3, FS_Injection
<1> QED
    BY <1>4 DEF Surjection

\* When as many results arrived as callees were started, all of them finished.
LEMMA AllArrived ==
    ASSUME TreeInv, ShapeInv, NEW a \in DOMAIN acts, KindOf(a) = "parallel",
           acts[a].pc = "waiting", Len(acts[a].arrived) = Len(acts[a].kids)
    PROVE  /\ \A i \in DOMAIN acts[a].kids : Finished(acts[a].kids[i])
           /\ Idle(a)
<1> DEFINE m == Len(acts[a].kids)  f == acts[a].arrived
<1>1. m \in Nat /\ DOMAIN acts[a].kids = 1 .. m
    BY KidFacts
<1>2. f \in Seq(Nat \ {0})
    BY QuietTypes
<1>3. DOMAIN f = 1 .. m /\ f = [i \in 1 .. m |-> f[i]]
    <2>1. DOMAIN f = 1 .. m
        BY <1>2, LenProperties
    <2> QED
        BY <1>2, <2>1
<1>4. /\ \A i \in 1 .. m : f[i] \in 1 .. m /\ Finished(acts[a].kids[f[i]])
      /\ \A i, j \in 1 .. m : f[i] = f[j] => i = j
    BY <1>1, <1>3 DEF ShapeInv, ArrivedInv
<1> HIDE DEF m, f
<1>5. \A k \in 1 .. m : \E i \in 1 .. m : f[i] = k
    BY <1>1, <1>3, <1>4, Pigeons
<1>6. \A k \in DOMAIN acts[a].kids : Finished(acts[a].kids[k])
    BY <1>1, <1>4, <1>5
<1>7. ASSUME NEW b \in DOMAIN acts, acts[b].parent = a, ~Finished(b) PROVE FALSE
    <2>1. a # 0
        BY FrameFacts
    <2>2. \E i \in DOMAIN acts[a].kids : acts[a].kids[i] = b
        BY <2>1, <1>7 DEF ShapeInv, CallInv
    <2> QED
        BY <2>2, <1>6, <1>7
<1> QED
    BY <1>6, <1>7 DEF Idle

\* Frames beside a keep what they say of themselves; a step of a that starts no other
\* keeps the shape when it goes on waiting for the same callees or none is running.
LEMMA ShapeAlone ==
    ASSUME TreeInv, ShapeInv, NEW a \in DOMAIN acts, NEW p, NEW r, NEW ks, NEW now, NEW todo,
           NEW es, NEW arrived, Moves(a, 0, p, r, ks, now, todo, es, arrived), ~Finished(a),
           \/ ks = acts[a].kids /\ p = "waiting" /\ acts[a].pc = "waiting"
           \/ Idle(a) /\ p # "waiting" /\ ks \in {acts[a].kids, <<>>},
           p = "step" => KindOf(a) = "llm",
           p \in {"ready", "returned"} \/ KindOf(a) # "llm" => now = <<>>,
           p = "ready" => KindOf(a) # "custom",
           KindOf(a) = "parallel" =>
               /\ p # "ready" /\ ks = acts[a].kids
               /\ \/ arrived = acts[a].arrived
                  \/ \E i \in DOMAIN acts[a].kids :
                        /\ Finished(acts[a].kids[i])
                        /\ \A j \in DOMAIN acts[a].arrived : acts[a].arrived[j] # i
                        /\ arrived = Append(acts[a].arrived, i)
    PROVE  ShapeInv'
<1>1. /\ DOMAIN acts' = DOMAIN acts
      /\ \A b \in DOMAIN acts : b # a => acts'[b] = acts[b]
      /\ \A b \in DOMAIN acts : /\ acts'[b].parent = acts[b].parent
                                /\ acts'[b].cell = acts[b].cell
                                /\ acts'[b].cause = acts[b].cause
                                /\ KindOf(b)' = KindOf(b)
      /\ acts'[a].pc = p /\ acts'[a].kids = ks /\ acts'[a].now = now
      /\ acts'[a].events = es /\ acts'[a].arrived = arrived
    <2>1. DOMAIN acts' = DOMAIN acts
        BY FrameFacts DEF Moves
    <2> QED
        BY <2>1 DEF Moves, KindOf
<1>2. \A b \in DOMAIN acts : Finished(b) => Finished(b)'
    BY <1>1 DEF Finished
<1>3. ASSUME NEW x \in DOMAIN acts PROVE CallInv(x)'
    <2>1. PICK q : q = acts[x].parent
        OBVIOUS
    <2>2. x # 1 => q # 0
        BY <2>1 DEF ShapeInv, CallInv
    <2>3. ASSUME q # 0
          PROVE  /\ KindOf(q)' # "custom"
                 /\ KindOf(q)' # "llm" => acts'[x].cell = x /\ acts'[x].cause = 0
        <3>1. q \in DOMAIN acts
            BY <2>1, <2>3, KidFacts
        <3>2. /\ KindOf(q) # "custom"
              /\ KindOf(q) # "llm" => acts[x].cell = x /\ acts[x].cause = 0
            BY <2>1, <2>3 DEF ShapeInv, CallInv
        <3> QED
            BY <3>1, <3>2, <1>1
    <2>4. ASSUME q # 0, ~Finished(x)'
          PROVE  /\ acts'[q].pc = "waiting"
                 /\ \E i \in DOMAIN acts'[q].kids : acts'[q].kids[i] = x
                 /\ KindOf(q)' # "parallel" => LastKid(q)' = x
        <3>1. ~Finished(x)
            BY <2>4, <1>2
        <3>2. /\ acts[q].pc = "waiting" /\ q \in DOMAIN acts
              /\ \E i \in DOMAIN acts[q].kids : acts[q].kids[i] = x
              /\ KindOf(q) # "parallel" => LastKid(q) = x
            BY <2>1, <2>4, <3>1, KidFacts DEF ShapeInv, CallInv
        <3>3. acts'[q].pc = "waiting" /\ acts'[q].kids = acts[q].kids
            <4>1. CASE q # a
                BY <4>1, <1>1, <3>2
            <4>2. CASE q = a
                BY <4>2, <1>1, <2>1, <3>1 DEF Idle
            <4> QED
                BY <4>1, <4>2
        <3>4. LastKid(q)' = LastKid(q)
            BY <3>3 DEF LastKid
        <3> QED
            BY <3>2, <3>3, <3>4, <1>1
    <2>5. acts'[x].parent = q
        BY <1>1, <2>1
    <2> QED
        BY <2>2, <2>3, <2>4, <2>5 DEF CallInv
<1>4. ASSUME NEW x \in DOMAIN acts PROVE KidsInv(x)'
    <2>1. KidsInv(x)
        BY DEF ShapeInv
    <2>2. CASE x # a
        <3>1. acts'[x] = acts[x]
            BY <1>1, <2>2
        <3>2. \A i \in DOMAIN acts[x].kids : acts'[acts[x].kids[i]].parent = x
            BY <2>1, <1>1, KidFacts DEF KidsInv
        <3> QED
            BY <2>1, <3>1, <3>2, <1>1 DEF KidsInv
    <2>3. CASE x = a
        <3>1. \A i \in DOMAIN acts[a].kids : acts'[acts[a].kids[i]].parent = a
            BY <2>1, <2>3, <1>1, KidFacts DEF KidsInv
        <3>2. /\ \A i \in DOMAIN ks : acts'[ks[i]].parent = a
              /\ \A i, j \in DOMAIN ks : i < j => ks[i] < ks[j]
            <4>1. CASE ks = acts[a].kids
                BY <4>1, <3>1, <2>1, <2>3 DEF KidsInv
            <4>2. CASE ks = <<>>
                <5>1. DOMAIN ks = {}
                    BY <4>2
                <5> QED
                    BY <5>1
            <4> QED
                BY <4>1, <4>2
        <3>3. p = "waiting" => KindOf(a) # "custom"
            BY <2>1, <2>3 DEF KidsInv
        <3> QED
            BY <2>3, <3>2, <3>3, <1>1 DEF KidsInv
    <2> QED
        BY <2>2, <2>3
<1>5. ASSUME NEW x \in DOMAIN acts, KindOf(x)' = "parallel" PROVE ArrivedInv(x)'
    <2>1. ArrivedInv(x) /\ KindOf(x) = "parallel" /\ acts'[x].kids = acts[x].kids
        BY <1>1, <1>5 DEF ShapeInv
    <2>2. \A i \in DOMAIN acts[x].kids : acts[x].kids[i] \in DOMAIN acts
        BY KidFacts
    <2>3. CASE acts'[x].arrived = acts[x].arrived
        <3>1. acts'[x].pc = "ready" => acts[x].pc = "ready"
            BY <2>1, <1>1
        <3> QED
            BY <2>1, <2>2, <2>3, <3>1, <1>2 DEF ArrivedInv
    <2>4. CASE acts'[x].arrived # acts[x].arrived
        <3>1. x = a
            BY <2>4, <1>1
        <3>2. PICK i \in DOMAIN acts[a].kids :
                 /\ Finished(acts[a].kids[i])
                 /\ \A j \in DOMAIN acts[a].arrived : acts[a].arrived[j] # i
                 /\ acts'[a].arrived = Append(acts[a].arrived, i)
            BY <2>1, <2>4, <3>1, <1>1
        <3>3. PICK n \in Nat : DOMAIN acts[a].arrived = 1 .. n
                               /\ acts[a].arrived = [j \in 1 .. n |-> acts[a].arrived[j]]
            <4>1. acts[a].arrived \in Seq(Nat \ {0})
                BY QuietTypes
            <4>2. DOMAIN acts[a].arrived = 1 .. Len(acts[a].arrived)
                  /\ Len(acts[a].arrived) \in Nat
                BY <4>1, LenProperties
            <4>3. acts[a].arrived = [j \in 1 .. Len(acts[a].arrived) |-> acts[a].arrived[j]]
                BY <4>1, <4>2
            <4> QED
                BY <4>2, <4>3
        <3>4. /\ DOMAIN acts'[a].arrived = 1 .. (n + 1)
              /\ \A j \in 1 .. n : acts'[a].arrived[j] = acts[a].arrived[j]
              /\ acts'[a].arrived[n + 1] = i
            BY <3>2, <3>3, Appended
        <3>5. \A j \in 1 .. (n + 1) : j \in 1 .. n \/ j = n + 1
            OBVIOUS
        <3> HIDE <3>3
        <3>6. ASSUME NEW j \in DOMAIN acts'[a].arrived
              PROVE  /\ acts'[a].arrived[j] \in DOMAIN acts'[a].kids
                     /\ Finished(acts[a].kids[acts[a].arrived[j]])'
            <4>1. PICK l : l = acts'[a].arrived[j]
                OBVIOUS
            <4>2. l \in DOMAIN acts[a].kids /\ Finished(acts[a].kids[l])
                <5>1. CASE j = n + 1
                    BY <5>1, <4>1, <3>2, <3>4
                <5>2. CASE j \in 1 .. n
                    BY <5>2, <4>1, <3>1, <3>3, <3>4, <2>1 DEF ArrivedInv
                <5> QED
                    BY <5>1, <5>2, <3>4, <3>5
            <4>3. PICK c : c = acts[a].kids[l]
                OBVIOUS
            <4>4. Finished(c)'
                BY <4>2, <4>3, <3>1, <2>2, <1>2
            <4>5. acts'[a].kids[acts'[a].arrived[j]] = c
                BY <4>1, <4>3, <3>1, <2>1
            <4> QED
                BY <4>1, <4>2, <4>4, <4>5, <3>1, <2>1 DEF Finished
        <3>7. ASSUME NEW j \in DOMAIN acts'[a].arrived, NEW k \in DOMAIN acts'[a].arrived,
                     acts'[a].arrived[j] = acts'[a].arrived[k]
              PROVE  j = k
            <4>1. j \in 1 .. n \/ j = n + 1
                BY <3>4, <3>5
            <4>2. k \in 1 .. n \/ k = n + 1
                BY <3>4, <3>5
            <4>3. \A l, m \in 1 .. n : acts[a].arrived[l] = acts[a].arrived[m] => l = m
                BY <2>1, <3>1, <3>3 DEF ArrivedInv
            <4>4. \A l \in 1 .. n : acts[a].arrived[l] # i
                BY <3>2, <3>3
            <4> QED
                BY <4>1, <4>2, <4>3, <4>4, <3>4, <3>7
        <3>8. acts'[a].pc # "ready"
            BY <2>1, <3>1, <1>1
        <3> QED
            BY <3>1, <3>6, <3>7, <3>8 DEF ArrivedInv
    <2> QED
        BY <2>3, <2>4
<1> QED
    BY <1>1, <1>3, <1>4, <1>5 DEF ShapeInv, ArrivedInv

\* A step that starts others keeps the shape.
LEMMA ShapeStart ==
    ASSUME TreeInv, ShapeInv, NEW a \in DOMAIN acts, NEW k \in Nat, NEW r, NEW ks, NEW todo,
           Moves(a, k, "waiting", r, ks, acts[a].now, todo, acts[a].events, acts[a].arrived),
           Idle(a), acts[a].pc # "waiting", ~Finished(a), KindOf(a) # "custom",
           KindOf(a) # "parallel" => k = 1 /\ ks = Append(acts[a].kids, NewId),
           KindOf(a) = "parallel" =>
               acts[a].pc = "ready" /\ ks = [i \in 1 .. k |-> Len(acts) + i],
           KindOf(a) # "llm" =>
               \A i \in 1 .. k : /\ acts'[Len(acts) + i].cause = 0
                                 /\ acts'[Len(acts) + i].cell = Len(acts) + i
    PROVE  ShapeInv'
<1> DEFINE n == Len(acts)
<1>1. /\ n \in Nat /\ DOMAIN acts = 1 .. n /\ DOMAIN acts' = 1 .. (n + k)
      /\ \A b \in DOMAIN acts : b # a => acts'[b] = acts[b]
      /\ \A b \in DOMAIN acts : /\ acts'[b].parent = acts[b].parent
                                /\ acts'[b].cell = acts[b].cell
                                /\ acts'[b].cause = acts[b].cause
                                /\ KindOf(b)' = KindOf(b)
      /\ acts'[a].pc = "waiting" /\ acts'[a].kids = ks /\ acts'[a].now = acts[a].now
      /\ acts'[a].events = acts[a].events /\ acts'[a].arrived = acts[a].arrived
      /\ \A b \in (n + 1) .. (n + k) : Fresh(acts'[b], a)
    BY FrameFacts DEF Moves, KindOf
<1> HIDE DEF n
<1>2. \A b \in DOMAIN acts : Finished(b) <=> Finished(b)'
    BY <1>1 DEF Finished
<1>3. \A b \in 1 .. (n + k) : b \in DOMAIN acts \/ b \in (n + 1) .. (n + k)
    BY <1>1
\* The callees of a after the step.
<1>4. /\ \A i \in DOMAIN ks : acts'[ks[i]].parent = a
      /\ \A i, j \in DOMAIN ks : i < j => ks[i] < ks[j]
      /\ \A b \in (n + 1) .. (n + k) : /\ \E i \in DOMAIN ks : ks[i] = b
                                       /\ KindOf(a) # "parallel" => ks[Len(ks)] = b
                                       /\ KindOf(a) # "llm" => acts'[b].cell = b /\ acts'[b].cause = 0
    <2>1. CASE KindOf(a) = "parallel"
        <3>1. DOMAIN ks = 1 .. k /\ \A i \in 1 .. k : ks[i] = n + i
            BY <2>1 DEF n
        <3>2. \A i \in 1 .. k : n + i \in (n + 1) .. (n + k)
            BY <1>1
        <3>3. \A i \in DOMAIN ks : acts'[ks[i]].parent = a
            BY <3>1, <3>2, <1>1 DEF Fresh
        <3>4. \A i, j \in DOMAIN ks : i < j => ks[i] < ks[j]
            BY <3>1, <1>1
        <3>5. \A b \in (n + 1) .. (n + k) : b - n \in 1 .. k /\ n + (b - n) = b
            BY <1>1
        <3>6. ASSUME NEW b \in (n + 1) .. (n + k)
              PROVE  \E i \in 1 .. k : n + i = b
            BY <3>5
        <3>7. \A i \in 1 .. k : acts'[n + i].cause = 0 /\ acts'[n + i].cell = n + i
            BY <2>1 DEF n
        <3>8. ASSUME NEW b \in (n + 1) .. (n + k)
              PROVE  /\ \E i \in DOMAIN ks : ks[i] = b
                     /\ acts'[b].cell = b /\ acts'[b].cause = 0
            <4>1. PICK i \in 1 .. k : n + i = b
                BY <3>6
            <4> QED
                BY <4>1, <3>1, <3>7
        <3> QED
            BY <2>1, <3>3, <3>4, <3>8
    <2>2. CASE KindOf(a) # "parallel"
        <3>1. PICK m \in Nat : /\ DOMAIN acts[a].kids = 1 .. m
                               /\ acts[a].kids = [i \in 1 .. m |-> acts[a].kids[i]]
                               /\ \A i \in 1 .. m : acts[a].kids[i] \in 1 .. n
            BY KidFacts, <1>1
        <3>2. k = 1 /\ ks = Append(acts[a].kids, n + 1)
            BY <2>2 DEF n, NewId
        <3>3. /\ DOMAIN ks = 1 .. (m + 1)
              /\ \A i \in 1 .. m : ks[i] = acts[a].kids[i]
              /\ ks[m + 1] = n + 1 /\ Len(ks) = m + 1
            <4>1. /\ DOMAIN ks = 1 .. (m + 1)
                  /\ \A i \in 1 .. m : ks[i] = acts[a].kids[i]
                  /\ ks[m + 1] = n + 1
                BY <3>1, <3>2, Appended
            <4>2. ks \in Seq(1 .. (n + 1))
                <5>1. acts[a].kids \in Seq(1 .. n)
                    BY FrameFacts DEF FrameType, n
                <5>2. 1 .. n \subseteq 1 .. (n + 1) /\ n + 1 \in 1 .. (n + 1)
                    BY <1>1
                <5>3. acts[a].kids \in Seq(1 .. (n + 1))
                    BY <5>1, <5>2, SeqMonotonic
                <5> QED
                    BY <5>2, <5>3, <3>2, AppendProperties
            <4>3. Len(ks) \in Nat /\ DOMAIN ks = 1 .. Len(ks)
                BY <4>2, LenProperties
            <4>4. Len(ks) = m + 1
                <5> HIDE <3>1
                <5> QED
                    BY <4>1, <4>3
            <4> QED
                BY <4>1, <4>4
        <3>4. \A i \in 1 .. (m + 1) : i \in 1 .. m \/ i = m + 1
            OBVIOUS
        <3>5. m + 1 \in 1 .. (m + 1) /\ \A b \in (n + 1) .. (n + k) : b = n + 1
            BY <1>1, <3>2
        <3>6. \A i \in 1 .. m : acts[acts[a].kids[i]].parent = a
            BY <3>1 DEF ShapeInv, KidsInv
        <3>7. \A i \in DOMAIN ks : acts'[ks[i]].parent = a
            <4>1. ASSUME NEW i \in 1 .. m PROVE acts'[ks[i]].parent = a
                <5>1. PICK c : c = acts[a].kids[i]
                    OBVIOUS
                <5>2. c \in DOMAIN acts /\ acts[c].parent = a /\ ks[i] = c
                    BY <5>1, <3>1, <3>3, <3>6, <1>1
                <5> QED
                    BY <5>2, <1>1
            <4>2. acts'[n + 1].parent = a
                BY <1>1, <3>2 DEF Fresh
            <4> QED
                BY <4>1, <4>2, <3>3, <3>4
        <3>8. ASSUME NEW i \in DOMAIN ks, NEW j \in DOMAIN ks, i < j PROVE ks[i] < ks[j]
            <4>1. i \in 1 .. m
                BY <3>8, <3>3
            <4>2. CASE j \in 1 .. m
                <5>1. acts[a].kids[i] < acts[a].kids[j]
                    BY <3>1, <3>8, <4>1, <4>2 DEF ShapeInv, KidsInv
                <5> QED
                    BY <5>1, <3>3, <4>1, <4>2
            <4>3. CASE j = m + 1
                <5>1. ks[i] \in 1 .. n
                    BY <3>1, <3>3, <4>1
                <5> QED
                    BY <5>1, <4>3, <3>3, <1>1
            <4> QED
                BY <4>2, <4>3, <3>3, <3>4
        <3>9. \A b \in (n + 1) .. (n + k) :
                 /\ \E i \in DOMAIN ks : ks[i] = b
                 /\ ks[Len(ks)] = b
            BY <3>3, <3>5
        <3>10. KindOf(a) # "llm" => acts'[n + 1].cause = 0 /\ acts'[n + 1].cell = n + 1
            BY <3>2 DEF n
        <3> QED
            BY <3>5, <3>7, <3>8, <3>9, <3>10
    <2> QED
        BY <2>1, <2>2
<1>5. ASSUME NEW x \in 1 .. (n + k) PROVE CallInv(x)'
    <2>1. CASE x \in DOMAIN acts
        <3>1. PICK q : q = acts[x].parent
            OBVIOUS
        <3>2. x # 1 => q # 0
            BY <2>1, <3>1 DEF ShapeInv, CallInv
        <3>3. ASSUME q # 0
              PROVE  /\ KindOf(q)' # "custom"
                     /\ KindOf(q)' # "llm" => acts'[x].cell = x /\ acts'[x].cause = 0
            <4>1. q \in DOMAIN acts
                BY <2>1, <3>1, <3>3, KidFacts
            <4>2. /\ KindOf(q) # "custom"
                  /\ KindOf(q) # "llm" => acts[x].cell = x /\ acts[x].cause = 0
                BY <2>1, <3>1, <3>3 DEF ShapeInv, CallInv
            <4> QED
                BY <2>1, <4>1, <4>2, <1>1
        <3>4. ASSUME q # 0, ~Finished(x)'
              PROVE  /\ acts'[q].pc = "waiting"
                     /\ \E i \in DOMAIN acts'[q].kids : acts'[q].kids[i] = x
                     /\ KindOf(q)' # "parallel" => LastKid(q)' = x
            <4>1. ~Finished(x)
                BY <2>1, <3>4, <1>2
            <4>2. /\ acts[q].pc = "waiting" /\ q \in DOMAIN acts
                  /\ \E i \in DOMAIN acts[q].kids : acts[q].kids[i] = x
                  /\ KindOf(q) # "parallel" => LastKid(q) = x
                BY <2>1, <3>1, <3>4, <4>1, KidFacts DEF ShapeInv, CallInv
            <4>3. acts'[q] = acts[q]
                BY <4>2, <1>1
            <4>4. LastKid(q)' = LastKid(q)
                BY <4>3 DEF LastKid
            <4> QED
                BY <4>2, <4>3, <4>4, <1>1
        <3>5. acts'[x].parent = q
            BY <2>1, <1>1, <3>1
        <3> QED
            BY <3>2, <3>3, <3>4, <3>5 DEF CallInv
    <2>2. CASE x \in (n + 1) .. (n + k)
        <3>1. acts'[x].parent = a /\ a # 0 /\ KindOf(a)' = KindOf(a)
            BY <2>2, <1>1 DEF Fresh
        <3>2. LastKid(a)' = ks[Len(ks)]
            BY <1>1 DEF LastKid
        <3> QED
            BY <2>2, <3>1, <3>2, <1>1, <1>4 DEF CallInv
    <2> QED
        BY <2>1, <2>2, <1>3
<1>6. ASSUME NEW x \in 1 .. (n + k) PROVE KidsInv(x)' /\ ArrivedInv(x)'
    <2>1. CASE x \in DOMAIN acts /\ x # a
        <3>1. KidsInv(x) /\ ArrivedInv(x) /\ acts'[x] = acts[x]
            BY <2>1, <1>1 DEF ShapeInv
        <3>2. \A i \in DOMAIN acts[x].kids :
                 acts[x].kids[i] \in DOMAIN acts /\ acts'[acts[x].kids[i]].parent = x
            BY <2>1, <3>1, <1>1, KidFacts DEF KidsInv
        <3>3. KidsInv(x)'
            BY <2>1, <3>1, <3>2, <1>1 DEF KidsInv
        <3>4. ArrivedInv(x)'
            BY <2>1, <3>1, <3>2, <1>1, <1>2 DEF ArrivedInv
        <3> QED
            BY <3>3, <3>4
    <2>2. CASE x = a
        <3>1. KidsInv(a) /\ ArrivedInv(a)
            BY DEF ShapeInv
        <3>2. KidsInv(a)'
            BY <3>1, <1>1, <1>4 DEF KidsInv
        <3>3. ArrivedInv(a)'
            <4>1. KindOf(a) = "parallel" => acts'[a].arrived = <<>>
                BY <3>1, <1>1 DEF ArrivedInv
            <4>2. DOMAIN (<<>>) = {}
                OBVIOUS
            <4> QED
                BY <4>1, <4>2, <1>1 DEF ArrivedInv
        <3> QED
            BY <2>2, <3>2, <3>3
    <2>3. CASE x \in (n + 1) .. (n + k)
        <3>1. DOMAIN (<<>>) = {} /\ Fresh(acts'[x], a)
            BY <2>3, <1>1
        <3> QED
            BY <3>1 DEF Fresh, KidsInv, ArrivedInv
    <2> QED
        BY <2>1, <2>2, <2>3, <1>3
<1> QED
    BY <1>1, <1>5, <1>6 DEF ShapeInv

\* Every action keeps the shape.
LEMMA ShapeFlow ==
    ASSUME TreeInv, ShapeInv, NEW a \in DOMAIN acts, FlowStep(a) \/ CustomStep(a)
    PROVE  ShapeInv'
<1>1. /\ acts[a].pc \in {"ready", "step"} /\ ~Finished(a)
      /\ acts[a].pc = "ready" => acts[a].now = <<>>
      /\ acts[a].pc = "step" => KindOf(a) = "llm"
      /\ KindOf(a) # "llm" => acts[a].now = <<>>
      /\ KindOf(a) \in {"llm", "custom"}
    <2>1. acts[a].pc \in {"ready", "step"} /\ (KindOf(a) \in {"llm", "custom"} \/ acts[a].pc = "step")
        BY DEF FlowStep, FlowEnded, ModelAnswers, ModelStalls, ModelFails, ToolsRun, StepEnds,
               CustomStep, CustomReturns, CustomFails, At
    <2> QED
        BY <2>1 DEF ShapeInv, KidsInv, Finished
<1>2. Idle(a)
    BY <1>1, IdleWhen
<1>3. ASSUME FlowEnded(a) PROVE ShapeInv'
    <2>1. Moves(a, 0, "returned", acts[a].round, acts[a].kids, acts[a].now, acts[a].todo,
                acts[a].events, acts[a].arrived) /\ acts[a].pc = "ready"
        BY <1>3, EndMoves DEF FlowEnded, At
    <2> QED
        BY <2>1, <1>1, <1>2, ShapeAlone
<1>4. ASSUME Fail(a) PROVE ShapeInv'
    <2>1. Moves(a, 0, "failed", acts[a].round, acts[a].kids, acts[a].now, acts[a].todo, <<>>,
                acts[a].arrived)
        BY <1>4, FailMoves
    <2> QED
        BY <2>1, <1>1, <1>2, ShapeAlone
<1>5. ASSUME ModelAnswers(a) \/ ModelStalls(a) PROVE ShapeInv'
    <2>1. PICK p \in {"returned", "ready"}, r \in Nat \ {0} :
              Moves(a, 0, p, r, acts[a].kids, acts[a].now, acts[a].todo,
                    Append(acts[a].events, Len(log) + 1), acts[a].arrived)
        BY <1>5, ModelMoves
    <2>2. acts[a].now = <<>> /\ KindOf(a) = "llm"
        BY <1>1, <1>5 DEF ModelAnswers, ModelStalls, At
    <2> QED
        BY <2>1, <2>2, <1>1, <1>2, ShapeAlone
<1>6. ASSUME ToolsRun(a) PROVE ShapeInv'
    <2>1. PICK now, todo :
              Moves(a, 0, "step", acts[a].round, acts[a].kids, now, todo, acts[a].events,
                    acts[a].arrived)
        BY <1>6, ToolsMoves
    <2>2. KindOf(a) = "llm"
        BY <1>6 DEF ToolsRun
    <2> QED
        BY <2>1, <2>2, <1>1, <1>2, ShapeAlone
<1>7. ASSUME StepEnds(a) PROVE ShapeInv'
    <2>1. PICK p, r, es :
              /\ p \in {"returned", "ready"} /\ r \in Nat \ {0}
              /\ Moves(a, 0, p, r, acts[a].kids, <<>>, <<>>, es, acts[a].arrived)
        BY <1>7, StepEndsMoves
    <2>2. KindOf(a) = "llm"
        BY <1>7, <1>1 DEF StepEnds, At
    <2> QED
        BY <2>1, <2>2, <1>1, <1>2, ShapeAlone
<1>8. ASSUME CustomReturns(a) PROVE ShapeInv'
    <2>1. PICK es : Moves(a, 0, "returned", acts[a].round, acts[a].kids, acts[a].now,
                          acts[a].todo, es, acts[a].arrived)
        BY <1>8, CustomMovesTo
    <2>2. KindOf(a) = "custom"
        BY <1>8 DEF CustomReturns
    <2> QED
        BY <2>1, <2>2, <1>1, <1>2, ShapeAlone
<1> QED
    BY <1>3, <1>4, <1>5, <1>6, <1>7, <1>8
    DEF FlowStep, CustomStep, ModelFails, CustomFails

LEMMA ShapeTransfer ==
    ASSUME TreeInv, ShapeInv, NEW a \in DOMAIN acts, TransferStep(a)
    PROVE  ShapeInv'
<1>1. /\ acts[a].pc \in {"step", "waiting"} /\ ~Finished(a) /\ KindOf(a) = "llm"
      /\ acts[a].pc = "waiting" => Finished(LastKid(a))
    <2>1. /\ acts[a].pc \in {"step", "waiting"}
          /\ acts[a].pc = "waiting" => KindOf(a) = "llm" /\ Finished(LastKid(a))
        BY DEF TransferStep, TransferUnknown, TransferRefused, TransferStart, TransferReturns,
               TransferFails, At, Finished
    <2> QED
        BY <2>1 DEF ShapeInv, KidsInv, Finished
<1>2. Idle(a)
    BY <1>1, IdleWhen
<1>3. ASSUME Fail(a) PROVE ShapeInv'
    <2>1. Moves(a, 0, "failed", acts[a].round, acts[a].kids, acts[a].now, acts[a].todo, <<>>,
                acts[a].arrived)
        BY <1>3, FailMoves
    <2> QED
        BY <2>1, <1>1, <1>2, ShapeAlone
<1>4. ASSUME TransferUnknown(a) \/ TransferReturns(a) PROVE ShapeInv'
    <2>1. PICK now, todo :
              Moves(a, 0, "step", acts[a].round, acts[a].kids, now, todo, acts[a].events,
                    acts[a].arrived)
        BY <1>4, UnknownMoves, TransferReturnsMoves
    <2> QED
        BY <2>1, <1>1, <1>2, ShapeAlone
<1>5. ASSUME TransferStart(a) PROVE ShapeInv'
    <2>1. Moves(a, 1, "waiting", acts[a].round, Append(acts[a].kids, NewId), acts[a].now,
                Rest(a), acts[a].events, acts[a].arrived)
        BY <1>5, TransferStartMoves
    <2>2. acts[a].pc # "waiting" /\ 1 \in Nat
        BY <1>5 DEF TransferStart, At
    <2> QED
        BY <2>1, <2>2, <1>1, <1>2, ShapeStart
<1> QED
    BY <1>3, <1>4, <1>5 DEF TransferStep, TransferRefused, TransferFails

LEMMA ShapeWorkflow ==
    ASSUME TreeInv, ShapeInv, NEW a \in DOMAIN acts, WorkflowStep(a)
    PROVE  ShapeInv'
<1>1. /\ acts[a].pc \in {"ready", "waiting"} /\ ~Finished(a)
      /\ KindOf(a) \in {"sequential", "parallel", "loop"}
      /\ acts[a].now = <<>>
    <2>1. /\ acts[a].pc \in {"ready", "waiting"}
          /\ KindOf(a) \in {"sequential", "parallel", "loop"}
        BY DEF WorkflowStep, StartSub, SequenceResumes, LoopResumes, SubFails, SequenceEnds,
               LoopPassEnds, Fork, SendResult, Join, JoinEnds, InTurn, At
    <2> QED
        BY <2>1 DEF ShapeInv, KidsInv, Finished
<1>2. ASSUME StartSub(a) PROVE ShapeInv'
    <2>1. /\ Moves(a, 1, "waiting", acts[a].round, Append(acts[a].kids, NewId), acts[a].now,
                   acts[a].todo, acts[a].events, acts[a].arrived)
          /\ acts'[NewId].cause = 0 /\ acts'[NewId].cell = NewId
        BY <1>2, StartSubMoves
    <2>2. KindOf(a) \in InTurn /\ acts[a].pc = "ready" /\ 1 \in Nat
        BY <1>2 DEF StartSub, At
    <2>3. Idle(a)
        BY <2>2, IdleWhen
    <2>4. \A i \in 1 .. 1 : /\ acts'[Len(acts) + i].cause = 0
                            /\ acts'[Len(acts) + i].cell = Len(acts) + i
        BY <2>1 DEF NewId
    <2> QED
        BY <2>1, <2>2, <2>3, <2>4, <1>1, ShapeStart DEF InTurn
<1>3. ASSUME SequenceResumes(a) \/ LoopResumes(a) PROVE ShapeInv'
    <2>1. PICK p \in {"returned", "ready"} :
              Moves(a, 0, p, acts[a].round, acts[a].kids, acts[a].now, acts[a].todo,
                    Gathered(a), acts[a].arrived)
        BY <1>3, ResumeMoves
    <2>2. KindOf(a) \in {"sequential", "loop"} /\ Idle(a)
        <3>1. KindOf(a) \in {"sequential", "loop"} /\ Finished(LastKid(a))
            BY <1>3 DEF SequenceResumes, LoopResumes, Finished
        <3> QED
            BY <3>1, IdleWhen
    <2> QED
        BY <2>1, <2>2, <1>1, ShapeAlone
<1>4. ASSUME SubFails(a) PROVE ShapeInv'
    <2>1. Moves(a, 0, "failed", acts[a].round, acts[a].kids, acts[a].now, acts[a].todo,
                acts[a].events, acts[a].arrived)
        BY <1>4, EndMoves DEF SubFails
    <2>2. KindOf(a) \in InTurn /\ Idle(a)
        <3>1. KindOf(a) \in InTurn /\ Finished(LastKid(a))
            BY <1>4 DEF SubFails, Finished
        <3> QED
            BY <3>1, IdleWhen DEF InTurn
    <2> QED
        BY <2>1, <2>2, <1>1, ShapeAlone DEF InTurn
<1>5. ASSUME SequenceEnds(a) PROVE ShapeInv'
    <2>1. Moves(a, 0, "returned", acts[a].round, acts[a].kids, acts[a].now, acts[a].todo,
                acts[a].events, acts[a].arrived)
        BY <1>5, EndMoves DEF SequenceEnds
    <2>2. KindOf(a) = "sequential" /\ Idle(a)
        BY <1>5, IdleWhen DEF SequenceEnds, At
    <2> QED
        BY <2>1, <2>2, <1>1, ShapeAlone
<1>6. ASSUME LoopPassEnds(a) PROVE ShapeInv'
    <2>1. KindOf(a) = "loop" /\ Idle(a)
        BY <1>6, IdleWhen DEF LoopPassEnds, At
    <2>2. CASE Moves(a, 0, "returned", acts[a].round, acts[a].kids, acts[a].now,
                     acts[a].todo, acts[a].events, acts[a].arrived)
        BY <2>1, <2>2, <1>1, ShapeAlone
    <2>3. CASE Moves(a, 0, "ready", acts[a].round + 1, <<>>, acts[a].now,
                     acts[a].todo, acts[a].events, acts[a].arrived)
        BY <2>1, <2>3, <1>1, ShapeAlone
    <2> QED
        BY <1>6, <2>2, <2>3, LoopPassMoves
<1>7. ASSUME Fork(a) PROVE ShapeInv'
    <2>1. PICK k \in Nat :
              /\ Moves(a, k, "waiting", acts[a].round, [i \in 1 .. k |-> Len(acts) + i],
                       acts[a].now, acts[a].todo, acts[a].events, acts[a].arrived)
              /\ \A i \in 1 .. k : /\ acts'[Len(acts) + i].cause = 0
                                   /\ acts'[Len(acts) + i].cell = Len(acts) + i
        BY <1>7, ForkMoves
    <2>2. KindOf(a) = "parallel" /\ acts[a].pc = "ready"
        BY <1>7 DEF Fork, At
    <2>3. Idle(a)
        BY <2>2, IdleWhen
    <2> QED
        BY <2>1, <2>2, <2>3, <1>1, ShapeStart
<1>8. ASSUME SendResult(a) PROVE ShapeInv'
    <2>1. PICK i \in DOMAIN acts[a].kids :
              /\ Finished(acts[a].kids[i])
              /\ \A j \in DOMAIN acts[a].arrived : acts[a].arrived[j] # i
              /\ Moves(a, 0, "waiting", acts[a].round, acts[a].kids, acts[a].now,
                       acts[a].todo, acts[a].events, Append(acts[a].arrived, i))
        BY <1>8, SendMoves
    <2>2. acts[a].pc = "waiting"
        BY <1>8 DEF SendResult, At
    <2> QED
        BY <2>1, <2>2, <1>1, ShapeAlone
<1>9. ASSUME Join(a) PROVE ShapeInv'
    <2>1. PICK es :
              Moves(a, 0, "waiting", acts[a].round + 1, acts[a].kids, acts[a].now,
                    acts[a].todo, es, acts[a].arrived)
        BY <1>9, JoinMoves
    <2>2. acts[a].pc = "waiting"
        BY <1>9 DEF Join, At
    <2> QED
        BY <2>1, <2>2, <1>1, ShapeAlone
<1>10. ASSUME JoinEnds(a) PROVE ShapeInv'
    <2>1. PICK p \in {"failed", "returned"} :
              Moves(a, 0, p, acts[a].round, acts[a].kids, acts[a].now, acts[a].todo,
                    acts[a].events, acts[a].arrived)
        BY <1>10, EndMoves DEF JoinEnds
    <2>2. Idle(a)
        BY <1>10, AllArrived DEF JoinEnds, At
    <2> QED
        BY <2>1, <2>2, <1>1, ShapeAlone
<1> QED
    BY <1>2, <1>3, <1>4, <1>5, <1>6, <1>7, <1>8, <1>9, <1>10 DEF WorkflowStep

LEMMA ShapeInit == TreeInit => ShapeInv
<1> SUFFICES ASSUME TreeInit PROVE ShapeInv
    OBVIOUS
<1>1. PICK g \in Entry : acts = <<Frame(g, 0, 0, 0, 0)>>
    BY DEF TreeInit
<1>2. DOMAIN acts = {1} /\ acts[1] = Frame(g, 0, 0, 0, 0) /\ DOMAIN (<<>>) = {}
    BY <1>1
<1>3. CallInv(1) /\ KidsInv(1) /\ ArrivedInv(1)
    BY <1>2 DEF CallInv, KidsInv, ArrivedInv, Frame, Finished
<1> QED
    BY <1>2, <1>3 DEF ShapeInv

-----------------------------------------------------------------------------
(* The activations above one.                                              *)

\* A set of numbers that is not empty has a least one.
LEMMA LeastOf ==
    ASSUME NEW S, S \subseteq Nat, S # {} PROVE \E i \in S : \A j \in S : i <= j
<1> DEFINE less == {ss \in Nat \X Nat : ss[1] < ss[2]}
<1>1. IsWellFoundedOn(less, Nat)
    BY NatLessThanWellFounded, Zenon DEF OpToRel
<1>2. PICK i \in S : \A j \in S : <<j, i>> \notin less
    <2> HIDE DEF less
    <2> QED
        BY <1>1, WFMin, Zenon
<1>3. \A j \in S : i <= j
    <2> SUFFICES ASSUME NEW j \in S PROVE i <= j
        OBVIOUS
    <2>1. i \in Nat /\ j \in Nat /\ <<j, i>> \notin less
        BY <1>2
    <2>2. ~(j < i)
        BY <2>1
    <2> QED
        BY <2>1, <2>2
<1> QED
    BY <1>3

LEMMA InDomain ==
    ASSUME TreeInv
    PROVE  /\ Len(acts) \in Nat /\ 0 \in 0 .. Len(acts)
           /\ \A a \in 0 .. Len(acts) : a # 0 => a \in DOMAIN acts
           /\ \A a \in DOMAIN acts : a \in 0 .. Len(acts) /\ a # 0
<1>1. Len(acts) \in Nat /\ DOMAIN acts = 1 .. Len(acts)
    BY StateTypes DEF TreeInv
<1> QED
    BY <1>1

\* A set that has the caller of every activation in it.
Upward(S) == S \subseteq DOMAIN acts
             /\ \A y \in S : acts[y].parent # 0 => acts[y].parent \in S

\* The least such set around x.
Ancestors(x) == {y \in DOMAIN acts : \A S : Upward(S) /\ x \in S => y \in S}

LEMMA AncestorsStep ==
    ASSUME TreeInv, NEW x \in DOMAIN acts
    PROVE  Ancestors(x) = {x} \cup (IF acts[x].parent = 0 THEN {} ELSE Ancestors(acts[x].parent))
<1>1. CASE acts[x].parent = 0
    <2>1. Upward({x})
        BY <1>1 DEF Upward
    <2>2. Ancestors(x) \subseteq {x}
        BY <2>1 DEF Ancestors
    <2>3. x \in Ancestors(x)
        BY DEF Ancestors
    <2> QED
        BY <1>1, <2>2, <2>3
<1>2. CASE acts[x].parent # 0
    <2> DEFINE p == acts[x].parent
    <2>1. p \in DOMAIN acts
        BY <1>2, KidFacts
    <2> DEFINE T == {x} \cup Ancestors(p)
    <2>2. Upward(T)
        <3>1. T \subseteq DOMAIN acts
            BY DEF Ancestors
        <3>2. p \in Ancestors(p)
            BY <2>1 DEF Ancestors
        <3>3. ASSUME NEW y \in Ancestors(p), acts[y].parent # 0
              PROVE  acts[y].parent \in Ancestors(p)
            <4>1. y \in DOMAIN acts
                BY DEF Ancestors
            <4>2. acts[y].parent \in DOMAIN acts
                BY <3>3, <4>1, KidFacts
            <4>3. ASSUME NEW S, Upward(S), p \in S PROVE acts[y].parent \in S
                <5>1. y \in S
                    BY <4>3 DEF Ancestors
                <5> QED
                    BY <5>1, <3>3, <4>3 DEF Upward
            <4> QED
                BY <4>2, <4>3 DEF Ancestors
        <3> HIDE DEF p
        <3> QED
            BY <3>1, <3>2, <3>3 DEF Upward, p
    <2>3. Ancestors(x) \subseteq T
        <3> HIDE DEF T
        <3>1. x \in T
            BY DEF T
        <3> QED
            BY <2>2, <3>1 DEF Ancestors
    <2>4. T \subseteq Ancestors(x)
        <3>1. x \in Ancestors(x)
            BY DEF Ancestors
        <3>2. ASSUME NEW y \in Ancestors(p) PROVE y \in Ancestors(x)
            <4>1. ASSUME NEW S, Upward(S), x \in S PROVE y \in S
                <5>1. p \in S
                    BY <1>2, <4>1 DEF Upward
                <5> QED
                    BY <5>1, <4>1 DEF Ancestors
            <4> QED
                BY <4>1 DEF Ancestors
        <3> QED
            BY <3>1, <3>2
    <2> QED
        BY <1>2, <2>3, <2>4
<1> QED
    BY <1>1, <1>2

\* So the recursion of Within is one that a function satisfies,
LEMMA WithinStep ==
    ASSUME TreeInv
    PROVE  Within = [a \in 0 .. Len(acts) |->
                        IF a = 0 THEN {} ELSE {a} \cup Within[acts[a].parent]]
<1> DEFINE f == [a \in 0 .. Len(acts) |-> IF a = 0 THEN {} ELSE Ancestors(a)]
<1>1. ASSUME NEW a \in 0 .. Len(acts), a # 0
      PROVE  f[a] = {a} \cup f[acts[a].parent]
    <2>1. a \in DOMAIN acts /\ acts[a].parent \in 0 .. Len(acts)
        <3>1. a \in DOMAIN acts
            BY <1>1, InDomain
        <3>2. acts[a].parent = 0 \/ acts[a].parent \in DOMAIN acts
            BY <3>1, KidFacts
        <3> QED
            BY <3>1, <3>2, InDomain
    <2>2. f[a] = Ancestors(a) /\ f[acts[a].parent] =
             IF acts[a].parent = 0 THEN {} ELSE Ancestors(acts[a].parent)
        BY <1>1, <2>1
    <2> HIDE DEF f
    <2> QED
        BY <2>1, <2>2, AncestorsStep
<1>2. f = [a \in 0 .. Len(acts) |-> IF a = 0 THEN {} ELSE {a} \cup f[acts[a].parent]]
    <2>1. f = [a \in 0 .. Len(acts) |-> f[a]] /\ f[0] = {}
        BY InDomain
    <2> HIDE DEF f
    <2> QED
        BY <1>1, <2>1
<1> HIDE DEF f
<1> QED
    BY <1>2, Zenon DEF Within

\* and Within is what it should be.
LEMMA WithinIs ==
    ASSUME TreeInv, NEW x \in DOMAIN acts PROVE Within[x] = Ancestors(x)
<1> DEFINE Bad == {y \in DOMAIN acts : Within[y] # Ancestors(y)}
<1>1. CASE Bad = {}
    BY <1>1
<1>2. CASE Bad # {}
    <2>1. Bad \subseteq Nat
        BY FrameFacts
    <2>2. PICK y \in Bad : \A z \in Bad : y <= z
        <3> HIDE DEF Bad
        <3> QED
            BY <1>2, <2>1, LeastOf
    <2>3. y \in DOMAIN acts /\ y \in 0 .. Len(acts) /\ y # 0
        BY FrameFacts
    <2>4. Within[y] = {y} \cup Within[acts[y].parent] /\ Within[0] = {}
        BY <2>3, WithinStep, InDomain
    <2>5. Within[acts[y].parent] =
             IF acts[y].parent = 0 THEN {} ELSE Ancestors(acts[y].parent)
        <3>1. CASE acts[y].parent = 0
            BY <3>1, <2>4
        <3>2. CASE acts[y].parent # 0
            <4>1. acts[y].parent \in DOMAIN acts /\ acts[y].parent < y
                  /\ acts[y].parent \in Nat /\ y \in Nat
                BY <2>3, <3>2, KidFacts
            <4>2. acts[y].parent \notin Bad
                BY <2>2, <4>1
            <4> QED
                BY <3>2, <4>1, <4>2
        <3> QED
            BY <3>1, <3>2
    <2>6. Within[y] = Ancestors(y)
        <3> HIDE DEF Bad
        <3> QED
            BY <2>3, <2>4, <2>5, AncestorsStep
    <2> QED
        BY <2>6
<1> QED
    BY <1>1, <1>2

\* The activations above x: x itself, its caller, and so on, in one line.
LEMMA WithinFacts ==
    ASSUME TreeInv, NEW x \in DOMAIN acts
    PROVE  /\ x \in Within[x] /\ Within[x] \subseteq DOMAIN acts
           /\ \A y \in Within[x] : y <= x
           /\ Within[x] = {x} \cup (IF acts[x].parent = 0 THEN {} ELSE Within[acts[x].parent])
           /\ \A y \in Within[x] : acts[y].parent # 0 => acts[y].parent \in Within[x]
           /\ \A y \in Within[x] : Within[y] \subseteq Within[x]
<1>1. Within[x] = Ancestors(x)
    BY WithinIs
<1>2. x \in Within[x] /\ Within[x] \subseteq DOMAIN acts
    BY <1>1 DEF Ancestors
<1>3. \A y \in Within[x] : y <= x
    <2> DEFINE S == 1 .. x
    <2>1. x \in DOMAIN acts /\ x \in Nat /\ DOMAIN acts = 1 .. Len(acts) /\ Len(acts) \in Nat
        BY KidFacts
    <2>2. S \subseteq DOMAIN acts
        BY <2>1
    <2>3. ASSUME NEW y \in S, acts[y].parent # 0 PROVE acts[y].parent \in S
        <3>1. acts[y].parent \in Nat /\ acts[y].parent < y
            BY <2>2, KidFacts
        <3> QED
            BY <3>1, <2>3, <2>1
    <2>4. Upward(S) /\ x \in S
        BY <2>1, <2>2, <2>3 DEF Upward
    <2>5. Within[x] \subseteq S
        <3> HIDE DEF S
        <3> QED
            BY <2>4, <1>1 DEF Ancestors
    <2> QED
        BY <2>1, <2>5
<1>4. Within[x] = {x} \cup (IF acts[x].parent = 0 THEN {} ELSE Within[acts[x].parent])
    BY <1>1, AncestorsStep, KidFacts, WithinIs
<1>5. ASSUME NEW y \in Within[x], acts[y].parent # 0 PROVE acts[y].parent \in Within[x]
    <2>1. acts[y].parent \in DOMAIN acts
        BY <1>2, <1>5, KidFacts
    <2>2. ASSUME NEW S, Upward(S), x \in S PROVE acts[y].parent \in S
        <3>1. y \in S
            BY <2>2, <1>1 DEF Ancestors
        <3> QED
            BY <3>1, <2>2, <1>5 DEF Upward
    <2> QED
        BY <2>1, <2>2, <1>1 DEF Ancestors
<1>6. Upward(Within[x])
    BY <1>2, <1>5 DEF Upward
<1>7. ASSUME NEW y \in Within[x] PROVE Within[y] \subseteq Within[x]
    <2>1. Within[y] = Ancestors(y)
        BY <1>2, WithinIs
    <2> QED
        BY <2>1, <1>6 DEF Ancestors
<1> QED
    BY <1>2, <1>3, <1>4, <1>5, <1>7

\* Of two activations above x one is above the other; so on the way down to x every
\* activation calls one.
LEMMA WithinLine ==
    ASSUME TreeInv, NEW x \in DOMAIN acts, NEW y \in Within[x], NEW z \in Within[x]
    PROVE  y \in Within[z] \/ z \in Within[y]
<1> DEFINE S == {v \in Within[x] : \A w \in Within[x] : w \in Within[v] \/ v \in Within[w]}
<1>1. Within[x] \subseteq DOMAIN acts /\ Within[x] = Ancestors(x)
    BY WithinFacts, WithinIs
<1>2. x \in S
    BY WithinFacts
<1>3. ASSUME NEW v \in S, acts[v].parent # 0 PROVE acts[v].parent \in S
    <2>1. acts[v].parent \in Within[x]
        BY <1>3, WithinFacts
    <2>2. ASSUME NEW w \in Within[x]
          PROVE  w \in Within[acts[v].parent] \/ acts[v].parent \in Within[w]
        <3>1. Within[v] = {v} \cup Within[acts[v].parent] /\ acts[v].parent \in Within[v]
            BY <1>1, <1>3, WithinFacts
        <3>2. CASE w \in Within[v]
            BY <3>1, <3>2
        <3>3. CASE v \in Within[w]
            BY <3>3, <1>1, <1>3, WithinFacts
        <3> QED
            BY <3>2, <3>3
    <2> QED
        BY <2>1, <2>2
<1>4. Upward(S)
    BY <1>1, <1>3 DEF Upward
<1>5. Within[x] \subseteq S
    <2> HIDE DEF S
    <2> QED
        BY <1>1, <1>2, <1>4 DEF Ancestors
<1> QED
    BY <1>5

LEMMA OneWayDown ==
    ASSUME TreeInv, NEW x \in DOMAIN acts, NEW y \in Within[x], NEW z \in Within[x],
           acts[y].parent = acts[z].parent, acts[y].parent # 0
    PROVE  y = z
<1>1. y \in DOMAIN acts /\ z \in DOMAIN acts
    BY WithinFacts
<1> DEFINE p == acts[y].parent
<1>2. p \in DOMAIN acts /\ p < y /\ p < z /\ p \in Nat /\ y \in Nat /\ z \in Nat
    BY <1>1, KidFacts
<1>3. Within[y] = {y} \cup Within[p] /\ Within[z] = {z} \cup Within[p]
    BY <1>1, WithinFacts
<1>4. \A w \in Within[p] : w <= p
    BY <1>2, WithinFacts
<1>5. y \notin Within[p] /\ z \notin Within[p]
    <2> HIDE DEF p
    <2> QED
        BY <1>2, <1>4
<1> QED
    BY <1>3, <1>5, WithinLine

\* Below an activation other than x itself there is the callee on the way to x.
LEMMA WayDown ==
    ASSUME TreeInv, NEW x \in DOMAIN acts, NEW y \in Within[x], y # x
    PROVE  \E z \in Within[x] : acts[z].parent = y
<1> DEFINE S == {v \in Within[x] : v = x \/ \E z \in Within[x] : acts[z].parent = v}
<1>1. Within[x] \subseteq DOMAIN acts /\ Within[x] = Ancestors(x) /\ x \in S
    BY WithinFacts, WithinIs
<1>2. \A v \in S : acts[v].parent # 0 => acts[v].parent \in S
    BY WithinFacts
<1>3. Upward(S)
    BY <1>1, <1>2 DEF Upward
<1>4. Within[x] \subseteq S
    <2> HIDE DEF S
    <2> QED
        BY <1>1, <1>3 DEF Ancestors
<1> QED
    BY <1>4

\* Everything is below the first activation.
LEMMA FirstIsAbove ==
    ASSUME TreeInv, ShapeInv, NEW x \in DOMAIN acts PROVE 1 \in Within[x]
<1>1. Within[x] \subseteq Nat /\ Within[x] # {} /\ Within[x] \subseteq DOMAIN acts
    <2>1. Within[x] \subseteq DOMAIN acts /\ x \in Within[x]
        BY WithinFacts
    <2> QED
        BY <2>1, FrameFacts
<1>2. PICK y \in Within[x] : \A z \in Within[x] : y <= z
    BY <1>1, LeastOf
<1>3. acts[y].parent = 0
    <2>1. acts[y].parent < y /\ acts[y].parent \in Nat /\ y \in Nat
        BY <1>1, KidFacts
    <2>2. acts[y].parent \notin Within[x]
        BY <2>1, <1>1, <1>2
    <2> QED
        BY <2>2, WithinFacts
<1>4. y = 1
    BY <1>1, <1>3 DEF ShapeInv, CallInv
<1> QED
    BY <1>4

LEMMA WithinEquation ==
    TreeInv => \A x \in DOMAIN acts :
        /\ Within[x] = {y \in DOMAIN acts : \A S : Upward(S) /\ x \in S => y \in S}
        /\ Within[x] = {x} \cup (IF acts[x].parent = 0 THEN {} ELSE Within[acts[x].parent])
    BY WithinIs, WithinFacts DEF Ancestors

\* A step that starts others of a changes nothing above the old activations and puts
\* the new ones below a.
LEMMA WithinStays ==
    ASSUME TreeInv, TreeInv', NEW a \in DOMAIN acts, NEW k \in Nat,
           DOMAIN acts' = 1 .. (Len(acts) + k),
           \A b \in DOMAIN acts : acts'[b].parent = acts[b].parent,
           \A b \in (Len(acts) + 1) .. (Len(acts) + k) : acts'[b].parent = a
    PROVE  /\ \A x \in DOMAIN acts : Within'[x] = Within[x]
           /\ \A x \in (Len(acts) + 1) .. (Len(acts) + k) : Within'[x] = {x} \cup Within[a]
<1>1. Len(acts) \in Nat /\ DOMAIN acts = 1 .. Len(acts) /\ DOMAIN acts \subseteq DOMAIN acts'
    BY FrameFacts
<1>5. (\A x \in DOMAIN acts :
        /\ Within[x] = {y \in DOMAIN acts : \A S : Upward(S) /\ x \in S => y \in S}
        /\ Within[x] = {x} \cup (IF acts[x].parent = 0 THEN {} ELSE Within[acts[x].parent]))'
    BY WithinEquation, PTL
<1>2. ASSUME NEW x \in DOMAIN acts PROVE Within'[x] = Within[x]
    <2>1. Within[x] = Ancestors(x)
        BY WithinIs
    <2>2. Within'[x] = {y \in DOMAIN acts' : \A S : Upward(S)' /\ x \in S => y \in S}
        <3>1. x \in DOMAIN acts'
            BY <1>1
        <3> QED
            BY <1>5, <3>1
    <2>3. ASSUME NEW S, Upward(S) PROVE Upward(S)'
        BY <2>3, <1>1 DEF Upward
    <2>4. ASSUME NEW S, Upward(S)' PROVE Upward(S \cap DOMAIN acts)
        <3>1. \A y \in DOMAIN acts : acts[y].parent # 0 => acts[y].parent \in DOMAIN acts
            BY KidFacts
        <3> QED
            BY <2>4, <3>1 DEF Upward
    <2>5. Within'[x] \subseteq Within[x]
        <3> SUFFICES ASSUME NEW y \in Within'[x] PROVE y \in Within[x]
            OBVIOUS
        <3>1. \A S : Upward(S) /\ x \in S => y \in S
            BY <2>2, <2>3
        <3>2. y \in DOMAIN acts
            <4>1. Upward(DOMAIN acts)
                BY KidFacts DEF Upward
            <4> QED
                BY <3>1, <4>1
        <3> QED
            BY <2>1, <3>1, <3>2 DEF Ancestors
    <2>6. Within[x] \subseteq Within'[x]
        <3> SUFFICES ASSUME NEW y \in Within[x] PROVE y \in Within'[x]
            OBVIOUS
        <3>1. y \in DOMAIN acts' /\ \A S : Upward(S) /\ x \in S => y \in S
            BY <2>1, <1>1 DEF Ancestors
        <3>2. ASSUME NEW S, Upward(S)', x \in S PROVE y \in S
            BY <3>1, <3>2, <2>4
        <3> QED
            BY <2>2, <3>1, <3>2
    <2> QED
        BY <2>5, <2>6
<1>3. ASSUME NEW x \in (Len(acts) + 1) .. (Len(acts) + k)
      PROVE  Within'[x] = {x} \cup Within[a]
    <2>1. x \in DOMAIN acts' /\ acts'[x].parent = a /\ a # 0
        BY <1>1
    <2>2. ASSUME NEW z \in DOMAIN acts'
          PROVE  Within'[z] = {z} \cup (IF acts'[z].parent = 0 THEN {} ELSE Within'[acts'[z].parent])
        BY <2>2, <1>5
    <2> QED
        BY <2>1, <2>2, <1>2
<1> QED
    BY <1>2, <1>3

\* A chain up from x that is closed under the callers an end is handed to has all the
\* activations that EndStopsSequences is about.
LEMMA AboveIsClosed ==
    ASSUME TreeInv, NEW C, C \subseteq DOMAIN acts, Closed(C), NEW x \in C
    PROVE  Above[x] \subseteq C
<1> DEFINE Stops(b) == acts[b].parent = 0 \/ KindOf(acts[b].parent) \in {"loop", "parallel"}
\* Sets that are closed in this sense, and the least one above b.
           Up(S) == S \subseteq DOMAIN acts /\ \A y \in S : ~Stops(y) => acts[y].parent \in S
           Least(b) == {y \in DOMAIN acts :
                          ~Stops(b) /\ \A S : Up(S) /\ acts[b].parent \in S => y \in S}
           f == [b \in 0 .. Len(acts) |-> IF b = 0 THEN {} ELSE Least(b)]
           step(b, g) == LET p == acts[b].parent
                         IN IF b = 0 \/ p = 0 \/ KindOf(p) \in {"loop", "parallel"} THEN {}
                            ELSE {p} \cup g[p]
<1>1. ASSUME NEW b \in DOMAIN acts, ~Stops(b)
      PROVE  Least(b) = {acts[b].parent} \cup Least(acts[b].parent)
    <2> DEFINE p == acts[b].parent
    <2>1. p \in DOMAIN acts
        BY <1>1, KidFacts
    <2> DEFINE T == {p} \cup Least(p)
    <2>2. Up(T)
        <3>1. ASSUME NEW y \in Least(p), ~Stops(y) PROVE acts[y].parent \in Least(p)
            <4>1. acts[y].parent \in DOMAIN acts
                BY <3>1, KidFacts
            <4> QED
                BY <3>1, <4>1
        <3>2. ~Stops(p) => acts[p].parent \in Least(p)
            BY <2>1, KidFacts
        <3>3. T \subseteq DOMAIN acts
            BY <2>1
        <3> HIDE DEF Least, Stops, p
        <3> QED
            BY <3>1, <3>2, <3>3
    <2>3. Least(b) \subseteq T
        <3>1. p \in T
            OBVIOUS
        <3> HIDE DEF T, Up
        <3> QED
            BY <2>2, <3>1 DEF Least
    <2>4. p \in Least(b)
        BY <1>1, <2>1
    <2>5. ASSUME NEW y \in Least(p) PROVE y \in Least(b)
        <3>1. ASSUME NEW S, Up(S), p \in S PROVE y \in S
            <4>1. ~Stops(p) /\ \A U : Up(U) /\ acts[p].parent \in U => y \in U
                BY <2>5
            <4>2. acts[p].parent \in S
                BY <4>1, <3>1
            <4> QED
                BY <4>1, <4>2, <3>1
        <3>2. y \in DOMAIN acts
            BY <2>5
        <3> HIDE DEF Up, Stops
        <3> QED
            BY <1>1, <3>1, <3>2
    <2> HIDE DEF Least, p
    <2> QED
        BY <2>3, <2>4, <2>5 DEF p
<1>2. ASSUME NEW b \in 0 .. Len(acts) PROVE f[b] = step(b, f)
    <2>1. CASE b = 0
        BY <2>1, InDomain
    <2>2. CASE b # 0 /\ Stops(b)
        BY <2>2
    <2>3. CASE b # 0 /\ ~Stops(b)
        <3>1. b \in DOMAIN acts
            BY <2>3, InDomain
        <3>2. acts[b].parent \in DOMAIN acts
            BY <2>3, <3>1, KidFacts
        <3>3. acts[b].parent \in 0 .. Len(acts) /\ acts[b].parent # 0
            BY <3>2, InDomain
        <3>4. f[b] = Least(b) /\ f[acts[b].parent] = Least(acts[b].parent)
            <4> HIDE DEF Least
            <4> QED
                BY <2>3, <3>3
        <3>5. step(b, f) = {acts[b].parent} \cup f[acts[b].parent]
            <4> HIDE DEF f
            <4> QED
                BY <2>3
        <3> HIDE DEF Least, f, step
        <3> QED
            BY <1>1, <2>3, <3>1, <3>4, <3>5
    <2> QED
        BY <2>1, <2>2, <2>3
<1>3. f = [b \in 0 .. Len(acts) |-> step(b, f)]
    <2>1. f = [b \in 0 .. Len(acts) |-> f[b]]
        OBVIOUS
    <2> HIDE DEF f, step
    <2> QED
        BY <1>2, <2>1
<1>4. Above = [b \in 0 .. Len(acts) |-> step(b, Above)]
    <2> HIDE DEF f
    <2> QED
        BY <1>3, Zenon DEF Above
<1> DEFINE Bad == {y \in C : ~(Above[y] \subseteq C)}
<1>5. CASE Bad = {}
    BY <1>5
<1>6. CASE Bad # {}
    <2>1. Bad \subseteq Nat
        BY FrameFacts
    <2>2. PICK y \in Bad : \A z \in Bad : y <= z
        <3> HIDE DEF Bad
        <3> QED
            BY <1>6, <2>1, LeastOf
    <2>3. y \in DOMAIN acts /\ y \in 0 .. Len(acts) /\ y # 0 /\ y \in Nat
        <3>1. y \in DOMAIN acts
            OBVIOUS
        <3> QED
            BY <3>1, InDomain, FrameFacts
    <2>4. Above[y] = step(y, Above)
        <3> HIDE DEF step
        <3> QED
            BY <1>4, <2>3
    <2>5. CASE Stops(y)
        BY <2>4, <2>5
    <2>6. CASE ~Stops(y)
        <3>1. acts[y].parent \in C /\ acts[y].parent \in DOMAIN acts /\ acts[y].parent < y
              /\ acts[y].parent \in Nat
            BY <2>3, <2>6, KidFacts DEF Closed
        <3>2. acts[y].parent \notin Bad
            BY <2>2, <2>3, <3>1
        <3>3. Above[y] = {acts[y].parent} \cup Above[acts[y].parent]
            BY <2>3, <2>4, <2>6
        <3> QED
            BY <3>1, <3>2, <3>3
    <2> QED
        BY <2>5, <2>6
<1> QED
    BY <1>5, <1>6

-----------------------------------------------------------------------------
(* What every step of a has in common.                                     *)

Step(a) == FlowStep(a) \/ TransferStep(a) \/ CustomStep(a) \/ WorkflowStep(a)

\* Only a and what it starts change,
Beside(a) ==
    /\ DOMAIN acts \subseteq DOMAIN acts'
    /\ \A b \in DOMAIN acts : b # a => acts'[b] = acts[b]
    /\ \A b \in DOMAIN acts : acts'[b].agent = acts[b].agent /\ acts'[b].parent = acts[b].parent
                              /\ acts'[b].cell = acts[b].cell /\ acts'[b].cause = acts[b].cause
    /\ \A b \in DOMAIN acts' \ DOMAIN acts : Fresh(acts'[b], a)

\* and what is added to the log is a's.
Writes(a) ==
    /\ Len(log') \in Nat /\ Len(log) <= Len(log') /\ DOMAIN log' = 1 .. Len(log')
    /\ \A e \in DOMAIN log : log'[e] = log[e]
    /\ \A e \in (Len(log) + 1) .. Len(log') : log'[e].act = a

LEMMA MovesBeside ==
    ASSUME TreeInv, NEW a \in DOMAIN acts, NEW k \in Nat, NEW p, NEW r, NEW ks, NEW now,
           NEW todo, NEW es, NEW arrived, Moves(a, k, p, r, ks, now, todo, es, arrived)
    PROVE  Beside(a)
<1>1. /\ Len(acts) \in Nat /\ DOMAIN acts = 1 .. Len(acts)
      /\ DOMAIN acts' = 1 .. (Len(acts) + k)
    BY FrameFacts DEF Moves
<1>2. /\ DOMAIN acts \subseteq DOMAIN acts'
      /\ \A b \in DOMAIN acts' \ DOMAIN acts : b \in (Len(acts) + 1) .. (Len(acts) + k)
    BY <1>1
<1> QED
    BY <1>2 DEF Moves, Beside

LEMMA StepBeside ==
    ASSUME TreeInv, NEW a \in DOMAIN acts, Step(a) PROVE Beside(a)
<1>0. 0 \in Nat /\ 1 \in Nat
    OBVIOUS
<1>1. ASSUME FlowStep(a) PROVE Beside(a)
    BY <1>0, <1>1, EndMoves, FailMoves, ModelMoves, ToolsMoves, StepEndsMoves, MovesBeside
    DEF FlowStep, FlowEnded, ModelFails
<1>2. ASSUME TransferStep(a) PROVE Beside(a)
    BY <1>0, <1>2, FailMoves, UnknownMoves, TransferStartMoves, TransferReturnsMoves, MovesBeside
    DEF TransferStep, TransferRefused, TransferFails
<1>3. ASSUME CustomStep(a) PROVE Beside(a)
    BY <1>0, <1>3, FailMoves, CustomMovesTo, MovesBeside DEF CustomStep, CustomFails
<1>4. ASSUME WorkflowStep(a) PROVE Beside(a)
    <2>1. CASE StartSub(a)
        BY <1>0, <2>1, StartSubMoves, MovesBeside
    <2>2. CASE SequenceResumes(a) \/ LoopResumes(a)
        BY <1>0, <2>2, ResumeMoves, MovesBeside
    <2>3. CASE SubFails(a) \/ SequenceEnds(a) \/ JoinEnds(a)
        <3>1. \E p : acts' = [acts EXCEPT ![a].pc = p]
            BY <2>3 DEF SubFails, SequenceEnds, JoinEnds
        <3> QED
            BY <1>0, <3>1, EndMoves, MovesBeside
    <2>4. CASE LoopPassEnds(a)
        BY <1>0, <2>4, LoopPassMoves, MovesBeside
    <2>5. CASE Fork(a)
        BY <2>5, ForkMoves, MovesBeside
    <2>6. CASE SendResult(a)
        BY <1>0, <2>6, SendMoves, MovesBeside
    <2>7. CASE Join(a)
        BY <1>0, <2>7, JoinMoves, MovesBeside
    <2> QED
        BY <1>4, <2>1, <2>2, <2>3, <2>4, <2>5, <2>6, <2>7 DEF WorkflowStep
<1> QED
    BY <1>1, <1>2, <1>3, <1>4 DEF Step

\* The log after new events.
LEMMA LogJoined ==
    ASSUME TreeInv, NEW S, NEW new \in Seq(S), log' = log \o new
    PROVE  /\ Len(log') = Len(log) + Len(new) /\ DOMAIN log' = 1 .. Len(log')
           /\ Len(log') \in Nat /\ Len(log) <= Len(log')
           /\ \A e \in DOMAIN log : log'[e] = log[e]
           /\ \A i \in 1 .. Len(new) : log'[Len(log) + i] = new[i]
<1>1. /\ Len(log) \in Nat /\ DOMAIN log = 1 .. Len(log) /\ log \in Seq(EventType(Len(acts)))
      /\ Len(new) \in Nat /\ DOMAIN new = 1 .. Len(new)
    BY StateTypes, LenProperties DEF TreeInv, TreeTypeOK
<1>2. /\ log = [i \in 1 .. Len(log) |-> log[i]]
      /\ new = [i \in 1 .. Len(new) |-> new[i]]
    BY <1>1
<1>3. /\ DOMAIN (log \o new) = 1 .. (Len(log) + Len(new)) /\ Len(log \o new) = Len(log) + Len(new)
      /\ \A i \in 1 .. Len(log) : (log \o new)[i] = log[i]
      /\ \A i \in 1 .. Len(new) : (log \o new)[Len(log) + i] = new[i]
    BY <1>1, <1>2, Joined
<1>4. /\ DOMAIN log' = 1 .. (Len(log) + Len(new)) /\ Len(log') = Len(log) + Len(new)
      /\ \A i \in 1 .. Len(log) : log'[i] = log[i]
      /\ \A i \in 1 .. Len(new) : log'[Len(log) + i] = new[i]
    BY <1>3, Zenon
<1> HIDE <1>3
<1> QED
    BY <1>1, <1>4

\* The events that the steps write: a model's response, with the result of its tools, an
\* error event for an unknown target, what a custom agent says, or nothing.
LEMMA ModelWrites ==
    ASSUME TreeInv, NEW a \in DOMAIN acts, ModelAnswers(a) \/ ModelStalls(a)
    PROVE  /\ Writes(a) /\ Len(log') = Len(log) + 1
           /\ log'[Len(log) + 1] = Event(a, "model", NoAgent, {})
<1>1. log' = Append(log, Event(a, "model", NoAgent, {}))
    BY DEF ModelAnswers, ModelStalls
<1>2. "model" \in Sources /\ NoAgent \in Agents \cup {NoAgent} /\ {} \in SUBSET Signals
    BY DEF Sources
<1>3. /\ log' \in Seq(EventType(Len(acts))) /\ Len(log') = Len(log) + 1
      /\ \A i \in 1..Len(log) : log'[i] = log[i]
      /\ log'[Len(log) + 1] = Event(a, "model", NoAgent, {})
    BY <1>1, <1>2, OneEvent
<1>4. /\ Len(log) \in Nat /\ DOMAIN log = 1 .. Len(log) /\ DOMAIN log' = 1 .. Len(log')
    BY <1>3, FrameFacts, LenProperties
<1>5. \A e \in (Len(log) + 1) .. Len(log') : e = Len(log) + 1
    BY <1>3, <1>4
<1> QED
    BY <1>3, <1>4, <1>5 DEF Writes, Event

LEMMA UnknownWrites ==
    ASSUME TreeInv, NEW a \in DOMAIN acts, TransferUnknown(a)
    PROVE  /\ Writes(a) /\ Len(log') = Len(log) + 1
           /\ log'[Len(log) + 1] = Event(a, "tool", NoAgent, {})
<1>1. log' = Append(log, Event(a, "tool", NoAgent, {}))
    BY DEF TransferUnknown
<1>2. "tool" \in Sources /\ NoAgent \in Agents \cup {NoAgent} /\ {} \in SUBSET Signals
    BY DEF Sources
<1>3. /\ log' \in Seq(EventType(Len(acts))) /\ Len(log') = Len(log) + 1
      /\ \A i \in 1..Len(log) : log'[i] = log[i]
      /\ log'[Len(log) + 1] = Event(a, "tool", NoAgent, {})
    BY <1>1, <1>2, OneEvent
<1>4. /\ Len(log) \in Nat /\ DOMAIN log = 1 .. Len(log) /\ DOMAIN log' = 1 .. Len(log')
    BY <1>3, FrameFacts, LenProperties
<1>5. \A e \in (Len(log) + 1) .. Len(log') : e = Len(log) + 1
    BY <1>3, <1>4
<1> QED
    BY <1>3, <1>4, <1>5 DEF Writes, Event

LEMMA ToolsWrite ==
    ASSUME TreeInv, NEW a \in DOMAIN acts, NEW to, NEW signals,
           log' = log \o <<Event(a, "model", NoAgent, {}), Event(a, "tool", to, signals)>>
    PROVE  /\ Writes(a) /\ Len(log') = Len(log) + 2
           /\ log'[Len(log) + 1] = Event(a, "model", NoAgent, {})
           /\ log'[Len(log) + 2] = Event(a, "tool", to, signals)
<1> DEFINE m == Event(a, "model", NoAgent, {})  t == Event(a, "tool", to, signals)
           new == <<m, t>>
<1>1. new \in Seq({m, t}) /\ Len(new) = 2 /\ new[1] = m /\ new[2] = t
    OBVIOUS
<1>2. m.act = a /\ t.act = a
    BY DEF Event
<1>3. Len(log) \in Nat /\ log' = log \o new
    BY FrameFacts
<1> HIDE DEF m, t, new
<1>4. /\ Len(log') = Len(log) + Len(new) /\ DOMAIN log' = 1 .. Len(log')
      /\ Len(log') \in Nat /\ Len(log) <= Len(log')
      /\ \A e \in DOMAIN log : log'[e] = log[e]
      /\ \A i \in 1 .. Len(new) : log'[Len(log) + i] = new[i]
    BY <1>1, <1>3, LogJoined, Zenon
<1>5. log'[Len(log) + 1] = m /\ log'[Len(log) + 2] = t
    BY <1>1, <1>4
<1>6. \A e \in (Len(log) + 1) .. Len(log') : e = Len(log) + 1 \/ e = Len(log) + 2
    BY <1>1, <1>3, <1>4
<1> QED
    BY <1>1, <1>2, <1>4, <1>5, <1>6 DEF Writes, m, t

LEMMA CustomWrites ==
    ASSUME TreeInv, NEW a \in DOMAIN acts, CustomReturns(a)
    PROVE  \E k \in Nat :
              /\ Writes(a) /\ Len(log') = Len(log) + k
              /\ \A e \in (Len(log) + 1) .. Len(log') : log'[e].from = "agent"
              /\ Moves(a, 0, "returned", acts[a].round, acts[a].kids, acts[a].now,
                       acts[a].todo, [i \in 1 .. k |-> Len(log) + i], acts[a].arrived)
<1>1. PICK k \in Nat, new \in Seq(EventType(Len(acts))) :
              /\ log' = log \o new /\ Len(new) = k
              /\ \A i \in 1 .. k : new[i].act = a /\ new[i].from = "agent"
              /\ Moves(a, 0, "returned", acts[a].round, acts[a].kids, acts[a].now,
                       acts[a].todo, [i \in 1 .. k |-> Len(log) + i], acts[a].arrived)
    BY CustomMovesTo
<1>2. /\ Len(log') = Len(log) + k /\ DOMAIN log' = 1 .. Len(log')
      /\ Len(log') \in Nat /\ Len(log) <= Len(log')
      /\ \A e \in DOMAIN log : log'[e] = log[e]
      /\ \A i \in 1 .. k : log'[Len(log) + i] = new[i]
    BY <1>1, LogJoined
<1>3. ASSUME NEW e \in (Len(log) + 1) .. Len(log')
      PROVE  log'[e].act = a /\ log'[e].from = "agent"
    <2>1. Len(log) \in Nat
        BY FrameFacts
    <2>2. e - Len(log) \in 1 .. k /\ Len(log) + (e - Len(log)) = e
        BY <2>1, <1>2
    <2>3. log'[e] = new[e - Len(log)]
        BY <2>2, <1>2
    <2> QED
        BY <1>1, <2>2, <2>3
<1> QED
    BY <1>1, <1>2, <1>3 DEF Writes

LEMMA NothingWritten ==
    ASSUME TreeInv, NEW a \in DOMAIN acts, log' = log PROVE Writes(a) /\ Len(log') = Len(log)
<1>1. Len(log) \in Nat /\ DOMAIN log = 1 .. Len(log)
    BY FrameFacts
<1>2. (Len(log) + 1) .. Len(log) = {}
    BY <1>1
<1> QED
    BY <1>1, <1>2 DEF Writes

LEMMA StepWrites ==
    ASSUME TreeInv, NEW a \in DOMAIN acts, Step(a)
    PROVE  /\ Writes(a) /\ ended \subseteq ended'
           /\ \/ log' = log
              \/ ModelAnswers(a) \/ ModelStalls(a) \/ ToolsRun(a) \/ TransferUnknown(a)
              \/ CustomReturns(a)
<1>1. \/ log' = log
      \/ ModelAnswers(a) \/ ModelStalls(a) \/ ToolsRun(a) \/ TransferUnknown(a)
      \/ CustomReturns(a)
    BY DEF Step, FlowStep, FlowEnded, ModelFails, StepEnds, TransferStep, TransferRefused,
           TransferStart, TransferReturns, TransferFails, CustomStep, CustomFails, WorkflowStep,
           StartSub, SequenceResumes, LoopResumes, SubFails, SequenceEnds, LoopPassEnds, Fork,
           SendResult, Join, JoinEnds
<1>2. ended \subseteq ended'
    BY DEF Step, FlowStep, FlowEnded, ModelAnswers, ModelStalls, ModelFails, ToolsRun, StepEnds,
           TransferStep, TransferUnknown, TransferRefused, TransferStart, TransferReturns,
           TransferFails, CustomStep, CustomReturns, CustomFails, WorkflowStep,
           StartSub, SequenceResumes, LoopResumes, SubFails, SequenceEnds, LoopPassEnds, Fork,
           SendResult, Join, JoinEnds, EndedByKid
<1>3. Writes(a)
    <2>1. CASE ToolsRun(a)
        <3>1. PICK to, signals :
                 log' = log \o <<Event(a, "model", NoAgent, {}), Event(a, "tool", to, signals)>>
            BY <2>1 DEF ToolsRun
        <3> QED
            BY <3>1, ToolsWrite
    <2> QED
        BY <1>1, <2>1, ModelWrites, UnknownWrites, CustomWrites, NothingWritten
<1> QED
    BY <1>1, <1>2, <1>3

\* What one of two sequences has, both together have.
Listed(s) == /\ Len(s) \in Nat /\ DOMAIN s = 1 .. Len(s)
             /\ s = [i \in 1 .. Len(s) |-> s[i]]

LEMMA SeqIsListed == ASSUME NEW S, NEW s \in Seq(S) PROVE Listed(s)
<1>1. Len(s) \in Nat /\ DOMAIN s = 1 .. Len(s)
    BY LenProperties
<1> QED
    BY <1>1 DEF Listed

LEMMA HasJoined ==
    ASSUME NEW s, NEW t, Listed(s), Listed(t)
    PROVE  \A e : Has(s \o t, e) <=> Has(s, e) \/ Has(t, e)
<1>0. PICK n \in Nat, k \in Nat : s = [i \in 1 .. n |-> s[i]] /\ t = [i \in 1 .. k |-> t[i]]
    BY DEF Listed
<1>1. /\ DOMAIN (s \o t) = 1 .. (n + k)
      /\ \A i \in 1 .. n : (s \o t)[i] = s[i]
      /\ \A i \in 1 .. k : (s \o t)[n + i] = t[i]
    BY <1>0, Joined
<1>2. DOMAIN s = 1 .. n /\ DOMAIN t = 1 .. k
    BY <1>0
<1>3. PICK u : u = s \o t
    OBVIOUS
<1>4. /\ DOMAIN u = 1 .. (n + k)
      /\ \A i \in 1 .. n : u[i] = s[i]
      /\ \A i \in 1 .. k : u[n + i] = t[i]
    BY <1>1, <1>3, Zenon
<1> SUFFICES ASSUME NEW e
             PROVE  Has(u, e) <=> Has(s, e) \/ Has(t, e)
    BY <1>3, Zenon
<1> HIDE <1>1, <1>3
<1>5. ASSUME NEW i \in DOMAIN u, u[i] = e
      PROVE  (\E j \in DOMAIN s : s[j] = e) \/ (\E j \in DOMAIN t : t[j] = e)
    <2>1. i \in 1 .. n \/ (i - n \in 1 .. k /\ n + (i - n) = i)
        BY <1>4
    <2>2. CASE i \in 1 .. n
        BY <2>2, <1>2, <1>4, <1>5
    <2>3. CASE i - n \in 1 .. k /\ n + (i - n) = i
        <3>1. u[n + (i - n)] = t[i - n]
            BY <2>3, <1>4
        <3> QED
            BY <2>3, <3>1, <1>2, <1>5
    <2> QED
        BY <2>1, <2>2, <2>3
<1>6. ASSUME NEW i \in DOMAIN s, s[i] = e PROVE \E j \in DOMAIN u : u[j] = e
    <2>1. i \in 1 .. (n + k) /\ u[i] = e
        BY <1>2, <1>4, <1>6
    <2> QED
        BY <2>1, <1>4
<1>7. ASSUME NEW i \in DOMAIN t, t[i] = e PROVE \E j \in DOMAIN u : u[j] = e
    <2>1. n + i \in 1 .. (n + k) /\ u[n + i] = e
        BY <1>2, <1>4, <1>7
    <2> QED
        BY <2>1, <1>4
<1> QED
    BY <1>5, <1>6, <1>7 DEF Has

LEMMA HasAppended ==
    ASSUME NEW s, NEW x, Listed(s)
    PROVE  \A e : Has(Append(s, x), e) <=> Has(s, e) \/ x = e
<1>1. Listed(<<x>>)
    BY DEF Listed
<1>2. \A e : Has(s \o <<x>>, e) <=> Has(s, e) \/ Has(<<x>>, e)
    BY <1>1, HasJoined
<1>3. Append(s, x) = s \o <<x>>
    BY Appended DEF Listed
<1>4. \A e : Has(<<x>>, e) <=> x = e
    BY DEF Has
<1> QED
    BY <1>2, <1>3, <1>4, Zenon

\* The slices of the frames are sequences.
LEMMA FieldsAreLists ==
    ASSUME TreeInv, NEW x \in DOMAIN acts
    PROVE  /\ Listed(acts[x].now) /\ Listed(acts[x].events) /\ Listed(acts[x].todo)
           /\ \A i \in DOMAIN acts[x].now : acts[x].now[i] \in DOMAIN log
           /\ \A i \in DOMAIN acts[x].events : acts[x].events[i] \in DOMAIN log
           /\ \A i \in DOMAIN acts[x].todo : acts[x].todo[i].cause \in DOMAIN log
<1>1. /\ acts[x].now \in Seq(1..Len(log)) /\ acts[x].events \in Seq(1..Len(log))
      /\ acts[x].todo \in Seq(Request(Len(log)))
      /\ DOMAIN log = 1 .. Len(log)
    BY QuietTypes, FrameFacts
<1>2. /\ Len(acts[x].now) \in Nat /\ DOMAIN acts[x].now = 1 .. Len(acts[x].now)
      /\ Len(acts[x].events) \in Nat /\ DOMAIN acts[x].events = 1 .. Len(acts[x].events)
      /\ Len(acts[x].todo) \in Nat /\ DOMAIN acts[x].todo = 1 .. Len(acts[x].todo)
    BY <1>1, LenProperties
<1>6. Listed(acts[x].now) /\ Listed(acts[x].events) /\ Listed(acts[x].todo)
    BY <1>1, SeqIsListed
<1>3. /\ \A i \in DOMAIN acts[x].now : acts[x].now[i] \in DOMAIN log
      /\ \A i \in DOMAIN acts[x].events : acts[x].events[i] \in DOMAIN log
    BY <1>1, <1>2, ElementOfSeq
<1>4. \A i \in DOMAIN acts[x].todo : acts[x].todo[i] \in Request(Len(log))
    BY <1>1, <1>2, ElementOfSeq
<1>5. \A i \in DOMAIN acts[x].todo : acts[x].todo[i].cause \in DOMAIN log
    BY <1>1, <1>4 DEF Request
<1> QED
    BY <1>1, <1>2, <1>3, <1>5, <1>6

LEMMA FieldsJoined ==
    ASSUME TreeInv, NEW x \in DOMAIN acts, NEW y \in DOMAIN acts, NEW e
    PROVE  /\ Has(acts[x].now \o acts[y].events, e) <=> Has(acts[x].now, e) \/ Has(acts[y].events, e)
           /\ Has(acts[x].events \o acts[y].events, e)
              <=> Has(acts[x].events, e) \/ Has(acts[y].events, e)
           /\ Has(acts[x].events \o acts[y].now, e) <=> Has(acts[x].events, e) \/ Has(acts[y].now, e)
           /\ \A f : Has(Append(acts[x].now, f), e) <=> Has(acts[x].now, e) \/ f = e
           /\ \A f : Has(Append(acts[x].events, f), e) <=> Has(acts[x].events, e) \/ f = e
           /\ ~Has(<<>>, e)
<1>1. Has(acts[x].now \o acts[y].events, e) <=> Has(acts[x].now, e) \/ Has(acts[y].events, e)
    BY FieldsAreLists, HasJoined
<1>2. Has(acts[x].events \o acts[y].events, e) <=> Has(acts[x].events, e) \/ Has(acts[y].events, e)
    BY FieldsAreLists, HasJoined
<1>3. Has(acts[x].events \o acts[y].now, e) <=> Has(acts[x].events, e) \/ Has(acts[y].now, e)
    BY FieldsAreLists, HasJoined
<1>4. \A f : Has(Append(acts[x].now, f), e) <=> Has(acts[x].now, e) \/ f = e
    BY FieldsAreLists, HasAppended
<1>5. \A f : Has(Append(acts[x].events, f), e) <=> Has(acts[x].events, e) \/ f = e
    BY FieldsAreLists, HasAppended
<1>6. ~Has(<<>>, e)
    <2>1. DOMAIN (<<>>) = {}
        OBVIOUS
    <2> QED
        BY <2>1 DEF Has
<1> QED
    BY <1>1, <1>2, <1>3, <1>4, <1>5, <1>6

\* The place of the callee that is waited for.
LEMMA LastKidPlace ==
    ASSUME TreeInv, NEW a \in DOMAIN acts, At(a, "waiting"), KindOf(a) # "parallel"
    PROVE  Len(acts[a].kids) \in DOMAIN acts[a].kids
<1>1. acts[a].kids \in Seq(1..Len(acts)) /\ acts[a].kids # <<>>
    BY FrameFacts DEF FrameType, Sound, At, KindOf
<1>2. Len(acts[a].kids) \in Nat \ {0}
    BY <1>1, EmptySeq
<1> QED
    BY <1>2, KidFacts

-----------------------------------------------------------------------------
(* The end of an invocation is carried up.                                 *)

\* A chain that carries an end does so after a step of a, if a does.
LEMMA ChainStays ==
    ASSUME TreeInv, NEW a \in DOMAIN acts, Beside(a), ended \subseteq ended',
           NEW e, NEW C \in SUBSET DOMAIN acts, Closed(C), \A x \in C : Carries(x, e, C),
           a \in C => Carries(a, e, C)'
    PROVE  /\ C \in SUBSET DOMAIN acts' /\ Closed(C)'
           /\ \A x \in C : Carries(x, e, C)'
<1>1. ASSUME NEW x \in C PROVE Carries(x, e, C)'
    <2>1. CASE x = a
        BY <2>1, <1>1
    <2>2. CASE x # a
        <3>1. acts'[x] = acts[x] /\ Carries(x, e, C)
            BY <2>2 DEF Beside
        <3> QED
            BY <3>1 DEF Carries, KindOf, LastKid
    <2> QED
        BY <2>1, <2>2
<1>2. Closed(C)'
    <2> SUFFICES ASSUME NEW x \in C, acts'[x].parent # 0,
                        Kind[acts'[acts'[x].parent].agent] \notin {"loop", "parallel"}
                 PROVE  acts'[x].parent \in C
        BY DEF Closed, KindOf
    <2>1. acts'[x].parent = acts[x].parent /\ acts[x].parent \in DOMAIN acts
        <3>1. acts'[x].parent = acts[x].parent
            BY DEF Beside
        <3> QED
            BY <3>1, KidFacts
    <2>2. acts'[acts'[x].parent].agent = acts[acts[x].parent].agent
        BY <2>1 DEF Beside
    <2> QED
        BY <2>1, <2>2 DEF Closed, KindOf
<1> QED
    BY <1>1, <1>2 DEF Beside

\* The chain of an end that tools of a have just asked for: everything that waits for a,
\* up to the first loop or parallel agent.
LEMMA ChainBegins ==
    ASSUME TreeInv, ShapeInv, NEW a \in DOMAIN acts, acts[a].pc = "ready", KindOf(a) = "llm",
           Beside(a), NEW e, acts'[a].pc = "step",
           Has(acts'[a].now, e)
    PROVE  \E C \in SUBSET DOMAIN acts' :
              a \in C /\ Closed(C)' /\ \A x \in C : Carries(x, e, C)'
<1>0. PICK C : C = {y \in DOMAIN acts :
                      \A S \in SUBSET DOMAIN acts : Closed(S) /\ a \in S => y \in S}
    OBVIOUS
<1> DEFINE Good(y) == y = a \/ (/\ KindOf(y) \in {"llm", "sequential"}
                                /\ acts[y].pc = "waiting" /\ LastKid(y) \in C)
           S0 == {y \in C : Good(y)}
<1>1. a \in C
    BY <1>0
<1>2. ASSUME NEW x \in C, acts[x].parent # 0, KindOf(acts[x].parent) \notin {"loop", "parallel"}
      PROVE  acts[x].parent \in C
    <2>1. x \in DOMAIN acts
        BY <1>0
    <2>2. acts[x].parent \in DOMAIN acts
        BY <1>2, <2>1, KidFacts
    <2> QED
        BY <1>0, <1>2, <2>2 DEF Closed
<1>3. ASSUME NEW y \in S0, acts[y].parent # 0, KindOf(acts[y].parent) \notin {"loop", "parallel"}
      PROVE  acts[y].parent \in S0
    <2>1. PICK p : p = acts[y].parent
        OBVIOUS
    <2>2. p \in C /\ p \in DOMAIN acts /\ y \in DOMAIN acts /\ y \in C
        BY <1>0, <1>2, <1>3, <2>1
    <2>3. ~Finished(y)
        <3>1. acts[y].pc \in {"ready", "waiting"}
            BY <1>3
        <3> QED
            BY <3>1 DEF Finished
    <2>4. acts[p].pc = "waiting" /\ LastKid(p) = y /\ KindOf(p) # "custom"
        BY <1>3, <2>1, <2>2, <2>3 DEF ShapeInv, CallInv
    <2>5. KindOf(p) \in {"llm", "sequential"}
        BY <1>3, <2>1, <2>2, <2>4, KidFacts DEF Kinds
    <2> QED
        BY <2>1, <2>2, <2>4, <2>5
<1>4. Closed(S0) /\ S0 \in SUBSET DOMAIN acts /\ a \in S0
    <2>1. S0 \in SUBSET DOMAIN acts /\ a \in S0
        BY <1>0, <1>1
    <2> HIDE DEF S0
    <2> QED
        BY <1>3, <2>1 DEF Closed
<1>5. \A y \in C : Good(y)
    <2>1. \A y \in C : y \in S0
        <3> HIDE DEF S0
        <3> QED
            BY <1>0, <1>4
    <2> QED
        BY <2>1
<1>6. ASSUME NEW x \in C PROVE Carries(x, e, C)'
    <2>1. CASE x = a
        <3>1. KindOf(a)' = "llm"
            BY DEF Beside, KindOf
        <3> QED
            BY <2>1, <3>1 DEF Carries
    <2>2. CASE x # a
        <3>1. acts'[x] = acts[x]
            BY <1>0, <2>2 DEF Beside
        <3> QED
            BY <2>2, <3>1, <1>5 DEF Carries, KindOf, LastKid
    <2> QED
        BY <2>1, <2>2
<1>7. Closed(C)'
    <2> SUFFICES ASSUME NEW x \in C, acts'[x].parent # 0,
                        Kind[acts'[acts'[x].parent].agent] \notin {"loop", "parallel"}
                 PROVE  acts'[x].parent \in C
        BY DEF Closed, KindOf
    <2>1. acts'[x].parent = acts[x].parent /\ acts[x].parent \in DOMAIN acts
        <3>1. acts'[x].parent = acts[x].parent /\ x \in DOMAIN acts
            BY <1>0 DEF Beside
        <3> QED
            BY <3>1, KidFacts
    <2>2. acts'[acts'[x].parent].agent = acts[acts[x].parent].agent
        BY <2>1 DEF Beside
    <2> QED
        BY <2>1, <2>2, <1>2 DEF KindOf
<1>8. C \in SUBSET DOMAIN acts'
    BY <1>0 DEF Beside
<1> QED
    BY <1>1, <1>6, <1>7, <1>8

\* An activation of the chain carries the end on in each of its steps.
LEMMA CarriesOn ==
    ASSUME TreeInv, ShapeInv, NEW a \in DOMAIN acts, Step(a), NEW e \in DOMAIN log,
           ToolRaised(e, "ends"), NEW C \in SUBSET DOMAIN acts, a \in C,
           \A x \in C : Carries(x, e, C)
    PROVE  acts[a].pc # "ready" /\ Carries(a, e, C)'
<1>1. /\ KindOf(a) \in {"llm", "sequential"} /\ KindOf(a)' = KindOf(a)
      /\ acts[a].pc # "ready" /\ Carries(a, e, C)
    BY StepBeside DEF Carries, Beside, KindOf
\* What a waits for, when it has returned.
<1>3. ASSUME acts[a].pc = "waiting", acts[LastKid(a)].pc = "returned", LastKid(a) \in C
      PROVE  /\ LastKid(a) \in DOMAIN acts /\ acts[LastKid(a)].cell \in ended
             /\ Has(acts[LastKid(a)].events, e)
    BY <1>3 DEF Carries
<1>4. ASSUME Fail(a) \/ SubFails(a) PROVE Carries(a, e, C)'
    <2>1. CASE Fail(a)
        BY <2>1, <1>1, FailMoves DEF Moves, Carries
    <2>2. CASE SubFails(a)
        <3>1. acts' = [acts EXCEPT ![a].pc = "failed"]
            BY <2>2 DEF SubFails
        <3>2. acts'[a].pc = "failed"
            BY <3>1, EndMoves DEF Moves
        <3> QED
            BY <3>2, <1>1 DEF Carries
    <2> QED
        BY <1>4, <2>1, <2>2
<1>5. ASSUME TransferUnknown(a) PROVE Carries(a, e, C)'
    <2>1. acts'[a].pc = "step" /\ acts'[a].now = Append(acts[a].now, Len(log) + 1)
        BY <1>5, UnknownMoves DEF Moves
    <2>2. Has(acts[a].now, e)
        BY <1>5, <1>1 DEF TransferUnknown, At, Carries
    <2>3. Has(acts'[a].now, e)
        <3>1. \A f : Has(Append(acts[a].now, f), e) <=> Has(acts[a].now, e) \/ f = e
            BY FieldsJoined
        <3> QED
            BY <2>1, <2>2, <3>1, Zenon
    <2> QED
        BY <2>1, <2>3, <1>1 DEF Carries
<1>6. ASSUME TransferStart(a) PROVE Carries(a, e, C)'
    <2>1. acts'[a].pc = "waiting" /\ acts'[a].now = acts[a].now
        BY <1>6, TransferStartMoves DEF Moves
    <2>2. Has(acts[a].now, e)
        BY <1>6, <1>1 DEF TransferStart, At, Carries
    <2> QED
        BY <2>1, <2>2, <1>1 DEF Carries
<1>7. ASSUME TransferReturns(a) PROVE Carries(a, e, C)'
    <2>1. acts'[a].pc = "step" /\ acts'[a].now = acts[a].now \o acts[LastKid(a)].events
        BY <1>7, TransferReturnsMoves DEF Moves, StepEvents
    <2>2. LastKid(a) \in DOMAIN acts /\ acts[a].pc = "waiting" /\ acts[LastKid(a)].pc = "returned"
        BY <1>7, LastKidKnown DEF TransferReturns, At
    <2>3. \/ Has(acts[a].now, e)
          \/ Has(acts[LastKid(a)].events, e)
        BY <2>2, <1>1, <1>3 DEF Carries
    <2>4. Has(acts'[a].now, e)
        BY <2>1, <2>2, <2>3, FieldsJoined
    <2> QED
        BY <2>1, <2>4, <1>1 DEF Carries
<1>8. ASSUME StepEnds(a) PROVE Carries(a, e, C)'
    <2>1. Has(acts[a].now, e)
        BY <1>8, <1>1 DEF StepEnds, At, Carries
    <2>2. StepAsksForEnd(a)
        BY <2>1 DEF StepAsksForEnd, ToolRaised, Has
    <2>3. acts[a].cell \in ended'
        BY <2>2, <1>8 DEF StepEnds
    <2>4. /\ acts'[a].pc = "returned" /\ acts'[a].events = acts[a].events \o acts[a].now
          /\ acts'[a].cell = acts[a].cell
        BY <2>2, <1>8, StepEndsMoves DEF Moves
    <2>5. Has(acts'[a].events, e)
        BY <2>1, <2>4, FieldsJoined
    <2> QED
        BY <2>3, <2>4, <2>5, <1>1 DEF Carries
<1>9. ASSUME SequenceResumes(a) PROVE Carries(a, e, C)'
    <2>1. /\ KindOf(a) = "sequential" /\ acts[a].pc = "waiting"
          /\ acts[LastKid(a)].pc = "returned" /\ acts[a].now = <<>>
        BY <1>9 DEF SequenceResumes, At, ShapeInv, KidsInv
    <2>2. ~Has(<<>>, e)
        BY FieldsJoined
    <2>3. LastKid(a) \in C
        BY <1>1, <2>1, <2>2 DEF Carries
    <2>4. /\ LastKid(a) \in DOMAIN acts /\ acts[LastKid(a)].cell \in ended
          /\ Has(acts[LastKid(a)].events, e)
        BY <2>1, <2>3, <1>3
    <2>5. LastKid(a) \in ended
        <3>1. acts[LastKid(a)].parent = a
            <4>1. Len(acts[a].kids) \in DOMAIN acts[a].kids
                BY <2>1, LastKidPlace DEF At
            <4> QED
                BY <4>1 DEF LastKid, ShapeInv, KidsInv
        <3>2. a # 0
            BY InDomain
        <3>3. acts[LastKid(a)].cell = LastKid(a)
            <4>1. CallInv(LastKid(a))
                BY <2>4 DEF ShapeInv
            <4> QED
                BY <4>1, <3>1, <3>2, <2>1 DEF CallInv
        <3> QED
            BY <3>3, <2>4
    <2>6. acts[a].cell \in ended'
        BY <2>5, <1>9 DEF SequenceResumes, EndedByKid
    <2>7. /\ acts'[a].pc = "returned" /\ acts'[a].cell = acts[a].cell
          /\ acts'[a].events = acts[a].events \o acts[LastKid(a)].events
        BY <2>5, <1>9, ResumeMoves DEF Moves, Gathered
    <2>8. Has(acts'[a].events, e)
        BY <2>4, <2>7, FieldsJoined
    <2> QED
        BY <2>6, <2>7, <2>8, <1>1 DEF Carries
<1>10. \/ Fail(a) \/ SubFails(a) \/ TransferUnknown(a) \/ TransferStart(a)
       \/ TransferReturns(a) \/ StepEnds(a) \/ SequenceResumes(a)
    <2>1. ~CustomStep(a)
        BY <1>1 DEF CustomStep, CustomReturns, CustomFails, At
    <2>2. FlowStep(a) => StepEnds(a)
        BY <1>1 DEF FlowStep, FlowEnded, ModelAnswers, ModelStalls, ModelFails, ToolsRun, At
    <2>3. WorkflowStep(a) => SequenceResumes(a) \/ SubFails(a)
        BY <1>1 DEF WorkflowStep, StartSub, LoopResumes, SequenceEnds, LoopPassEnds, Fork,
                    SendResult, Join, JoinEnds, At
    <2>4. TransferStep(a) => \/ TransferUnknown(a) \/ TransferStart(a) \/ TransferReturns(a)
                             \/ Fail(a)
        BY DEF TransferStep, TransferRefused, TransferFails
    <2> QED
        BY <2>1, <2>2, <2>3, <2>4 DEF Step
<1> QED
    BY <1>1, <1>4, <1>5, <1>6, <1>7, <1>8, <1>9, <1>10

\* An event that asks for the end is new only in a step of a flow with tools.
LEMMA AskedByTools ==
    ASSUME TreeInv, NEW a \in DOMAIN acts, Step(a), NEW e \in DOMAIN log' \ DOMAIN log,
           ToolRaised(e, "ends")'
    PROVE  ToolsRun(a) /\ e = Len(log) + 2 /\ Len(log') = Len(log) + 2
<1>1. /\ Len(log) \in Nat /\ DOMAIN log = 1 .. Len(log)
      /\ Len(log') \in Nat /\ DOMAIN log' = 1 .. Len(log')
      /\ e \in (Len(log) + 1) .. Len(log')
    <2>1. Len(log) \in Nat /\ DOMAIN log = 1 .. Len(log)
        BY FrameFacts
    <2>2. Len(log') \in Nat /\ DOMAIN log' = 1 .. Len(log')
        BY StepWrites DEF Writes
    <2> QED
        BY <2>1, <2>2
<1>2. log'[e].from = "tool" /\ "ends" \in log'[e].signals
    BY DEF ToolRaised, Raises
<1>3. CASE log' = log
    BY <1>1, <1>3
<1>4. CASE ModelAnswers(a) \/ ModelStalls(a)
    <2>1. e = Len(log) + 1 /\ log'[Len(log) + 1] = Event(a, "model", NoAgent, {})
        <3>1. Len(log') = Len(log) + 1
            BY <1>4, ModelWrites
        <3> QED
            BY <1>1, <3>1, <1>4, ModelWrites
    <2>2. log'[e].from = "model"
        BY <2>1 DEF Event
    <2> QED
        BY <1>2, <2>2
<1>5. CASE TransferUnknown(a)
    <2>1. e = Len(log) + 1 /\ log'[Len(log) + 1] = Event(a, "tool", NoAgent, {})
        <3>1. Len(log') = Len(log) + 1
            BY <1>5, UnknownWrites
        <3> QED
            BY <1>1, <3>1, <1>5, UnknownWrites
    <2>2. log'[e].signals = {}
        BY <2>1 DEF Event
    <2> QED
        BY <1>2, <2>2
<1>6. CASE CustomReturns(a)
    <2>1. log'[e].from = "agent"
        BY <1>1, <1>6, CustomWrites
    <2> QED
        BY <1>2, <2>1
<1>7. CASE ToolsRun(a)
    <2>1. PICK to, signals :
             log' = log \o <<Event(a, "model", NoAgent, {}), Event(a, "tool", to, signals)>>
        BY <1>7 DEF ToolsRun
    <2>2. /\ Len(log') = Len(log) + 2
          /\ log'[Len(log) + 1] = Event(a, "model", NoAgent, {})
        BY <2>1, ToolsWrite
    <2>3. e = Len(log) + 1 \/ e = Len(log) + 2
        BY <1>1, <2>2
    <2>4. CASE e = Len(log) + 1
        <3>1. log'[e].from = "model"
            BY <2>2, <2>4 DEF Event
        <3> QED
            BY <1>2, <3>1
    <2> QED
        BY <1>7, <2>2, <2>3, <2>4
<1> QED
    BY <1>3, <1>4, <1>5, <1>6, <1>7, StepWrites

\* Only a flow at the top of its loop calls its model.
LEMMA CalledAtTheTop ==
    ASSUME TreeInv, NEW a \in DOMAIN acts, Step(a), NEW f \in DOMAIN log' \ DOMAIN log,
           log'[f].from = "model"
    PROVE  log'[f].act = a /\ acts[a].pc = "ready"
<1>1. /\ Len(log) \in Nat /\ DOMAIN log = 1 .. Len(log)
      /\ Len(log') \in Nat /\ DOMAIN log' = 1 .. Len(log')
      /\ f \in (Len(log) + 1) .. Len(log')
    <2>1. Len(log) \in Nat /\ DOMAIN log = 1 .. Len(log)
        BY FrameFacts
    <2>2. Len(log') \in Nat /\ DOMAIN log' = 1 .. Len(log')
        BY StepWrites DEF Writes
    <2> QED
        BY <2>1, <2>2
<1>2. log'[f].act = a
    BY <1>1, StepWrites DEF Writes
<1>3. CASE log' = log
    BY <1>1, <1>3
<1>4. CASE ModelAnswers(a) \/ ModelStalls(a) \/ ToolsRun(a)
    BY <1>2, <1>4 DEF ModelAnswers, ModelStalls, ToolsRun, At
<1>5. CASE TransferUnknown(a)
    <2>1. f = Len(log) + 1 /\ log'[Len(log) + 1] = Event(a, "tool", NoAgent, {})
        <3>1. Len(log') = Len(log) + 1
            BY <1>5, UnknownWrites
        <3> QED
            BY <1>1, <3>1, <1>5, UnknownWrites
    <2>2. log'[f].from = "tool"
        BY <2>1 DEF Event
    <2> QED
        BY <2>2
<1>6. CASE CustomReturns(a)
    <2>1. log'[f].from = "agent"
        BY <1>1, <1>6, CustomWrites
    <2> QED
        BY <2>1
<1> QED
    BY <1>3, <1>4, <1>5, <1>6, StepWrites

LEMMA StepEndsCarried ==
    ASSUME TreeInv, ShapeInv, EndsCarried, NEW a \in DOMAIN acts, Step(a)
    PROVE  EndsCarried'
<1>0. /\ Len(log) \in Nat /\ DOMAIN log = 1 .. Len(log)
      /\ Len(log') \in Nat /\ DOMAIN log' = 1 .. Len(log')
      /\ DOMAIN log \subseteq DOMAIN log' /\ Writes(a) /\ ended \subseteq ended' /\ Beside(a)
    <2>1. Len(log) \in Nat /\ DOMAIN log = 1 .. Len(log)
        BY FrameFacts
    <2>2. /\ Len(log') \in Nat /\ DOMAIN log' = 1 .. Len(log') /\ Len(log) <= Len(log')
          /\ Writes(a) /\ ended \subseteq ended'
        BY StepWrites DEF Writes
    <2> QED
        BY <2>1, <2>2, StepBeside
<1>1. ASSUME NEW e \in DOMAIN log, ToolRaised(e, "ends")'
      PROVE  /\ \E C \in SUBSET DOMAIN acts' :
                   /\ log'[e].act \in C /\ Closed(C)'
                   /\ \A x \in C : Carries(x, e, C)'
             /\ ~CallsModelAfter(e)'
    <2>1. log'[e] = log[e] /\ ToolRaised(e, "ends")
        <3>1. log'[e] = log[e]
            BY <1>0 DEF Writes
        <3> QED
            BY <1>1, <3>1 DEF ToolRaised, Raises
    <2>2. PICK C \in SUBSET DOMAIN acts : /\ log[e].act \in C /\ Closed(C)
                                          /\ \A x \in C : Carries(x, e, C)
        BY <2>1 DEF EndsCarried
    <2>3. a \in C => acts[a].pc # "ready" /\ Carries(a, e, C)'
        BY <2>1, <2>2, CarriesOn
    <2>4. /\ C \in SUBSET DOMAIN acts' /\ Closed(C)'
          /\ \A x \in C : Carries(x, e, C)'
        BY <1>0, <2>2, <2>3, ChainStays
    <2>5. ASSUME NEW f \in DOMAIN log', f > e, log'[f].from = "model", log'[f].act = log'[e].act
          PROVE  FALSE
        <3>1. CASE f \in DOMAIN log
            <4>1. log'[f] = log[f]
                BY <1>0, <3>1 DEF Writes
            <4>2. ~CallsModelAfter(e)
                BY <2>1 DEF EndsCarried
            <4> QED
                BY <2>1, <2>5, <3>1, <4>1, <4>2 DEF CallsModelAfter
        <3>2. CASE f \notin DOMAIN log
            BY <2>1, <2>2, <2>3, <2>5, <3>2, CalledAtTheTop
        <3> QED
            BY <3>1, <3>2
    <2> QED
        BY <2>1, <2>2, <2>4, <2>5 DEF CallsModelAfter
<1>2. ASSUME NEW e \in DOMAIN log' \ DOMAIN log, ToolRaised(e, "ends")'
      PROVE  /\ \E C \in SUBSET DOMAIN acts' :
                   /\ log'[e].act \in C /\ Closed(C)'
                   /\ \A x \in C : Carries(x, e, C)'
             /\ ~CallsModelAfter(e)'
    <2>1. ToolsRun(a) /\ e = Len(log) + 2 /\ Len(log') = Len(log) + 2
        BY <1>2, AskedByTools
    <2>2. log'[e].act = a
        BY <1>0, <2>1 DEF Writes
    <2>3. acts'[a].pc = "step" /\ Has(acts'[a].now, e)
        <3>1. acts'[a].pc = "step" /\ acts'[a].now = <<Len(log) + 1, Len(log) + 2>>
            BY <2>1, ToolsMoves DEF Moves
        <3>2. Has(<<Len(log) + 1, Len(log) + 2>>, Len(log) + 2)
            BY DEF Has
        <3> QED
            BY <2>1, <3>1, <3>2
    <2>4. acts[a].pc = "ready" /\ KindOf(a) = "llm"
        BY <2>1 DEF ToolsRun, At
    <2>5. \E C \in SUBSET DOMAIN acts' :
              a \in C /\ Closed(C)' /\ \A x \in C : Carries(x, e, C)'
        BY <1>0, <2>3, <2>4, ChainBegins
    <2>6. ~CallsModelAfter(e)'
        <3>1. \A f \in DOMAIN log' : ~(f > e)
            BY <1>0, <2>1
        <3> QED
            BY <3>1 DEF CallsModelAfter
    <2> QED
        BY <2>2, <2>5, <2>6
<1> QED
    BY <1>1, <1>2 DEF EndsCarried

LEMMA ShapeNext == TreeInv /\ ShapeInv /\ [TreeNext]_vars => ShapeInv'
<1> SUFFICES ASSUME TreeInv, ShapeInv, [TreeNext]_vars PROVE ShapeInv'
    OBVIOUS
<1>1. CASE UNCHANGED vars
    BY <1>1 DEF vars, ShapeInv, CallInv, KidsInv, ArrivedInv, KindOf, LastKid, Finished
<1>2. CASE TreeNext
    BY <1>2, ShapeFlow, ShapeTransfer, ShapeWorkflow DEF TreeNext
<1> QED
    BY <1>1, <1>2

LEMMA EndsNext == TreeInv /\ ShapeInv /\ EndsCarried /\ [TreeNext]_vars => EndsCarried'
<1> SUFFICES ASSUME TreeInv, ShapeInv, EndsCarried, [TreeNext]_vars PROVE EndsCarried'
    OBVIOUS
<1>1. CASE UNCHANGED vars
    BY <1>1 DEF vars, EndsCarried, ToolRaised, Raises, Closed, Carries, CallsModelAfter, KindOf,
                LastKid
<1>2. CASE TreeNext
    BY <1>2, StepEndsCarried DEF TreeNext, Step
<1> QED
    BY <1>1, <1>2

LEMMA EndsAlways == TreeSpec => [](TreeInv /\ ShapeInv /\ EndsCarried)
<1>1. TreeInit => ShapeInv
    BY ShapeInit
<1>2. TreeInit => EndsCarried
    <2> SUFFICES ASSUME TreeInit PROVE EndsCarried
        OBVIOUS
    <2>1. DOMAIN log = {}
        BY DEF TreeInit
    <2> QED
        BY <2>1 DEF EndsCarried
<1> QED
    BY <1>1, <1>2, InitInv, NextInv, ShapeNext, EndsNext, PTL DEF TreeSpec

\* A flow whose tools ask for the end of the invocation calls its model no more,
\* although it looks at their event only after the transfers of the same step
\* (flow/flow.go, Flow.Run).
THEOREM EndsStopTheFlow == TreeSpec => []EndStopsFlow
<1>1. EndsCarried => EndStopsFlow
    BY DEF EndsCarried, EndStopsFlow
<1> QED
    BY <1>1, EndsAlways, PTL

\* A sequence of the chain starts no sub-agent.
LEMMA ChainStartsNothing ==
    ASSUME TreeInv, ShapeInv, NEW a \in DOMAIN acts, Step(a), KindOf(a) = "sequential",
           acts[a].pc # "ready"
    PROVE  acts'[a].kids = acts[a].kids
<1>1. SequenceResumes(a) \/ SubFails(a) \/ TransferStep(a)
    <2>1. ~FlowStep(a) /\ ~CustomStep(a)
        BY DEF FlowStep, FlowEnded, ModelAnswers, ModelStalls, ModelFails, ToolsRun, StepEnds, At,
               CustomStep, CustomReturns, CustomFails, ShapeInv, KidsInv
    <2>2. WorkflowStep(a) => SequenceResumes(a) \/ SubFails(a)
        BY DEF WorkflowStep, StartSub, LoopResumes, SequenceEnds, LoopPassEnds, Fork,
               SendResult, Join, JoinEnds, At
    <2> QED
        BY <2>1, <2>2 DEF Step
<1>2. ~TransferStep(a)
    BY DEF TransferStep, TransferUnknown, TransferRefused, TransferStart, TransferReturns,
           TransferFails, At, ShapeInv, KidsInv
<1>3. CASE SequenceResumes(a)
    BY <1>3, ResumeMoves DEF Moves
<1>4. CASE SubFails(a)
    <2>1. acts' = [acts EXCEPT ![a].pc = "failed"]
        BY <1>4 DEF SubFails
    <2> QED
        BY <2>1, EndMoves DEF Moves
<1> QED
    BY <1>1, <1>2, <1>3, <1>4

\* "If a sub-agent signals EndInvocation, the chain stops immediately": when a tool asks
\* for the end, no sequence above its flow starts a further sub-agent, through any number
\* of sequences and transfers in between (workflow/workflow.go, SequentialAgent.Execute).
THEOREM EndsStopTheSequences == TreeSpec => EndStopsSequences
<1>1. ASSUME TreeInv, ShapeInv, EndsCarried, [TreeNext]_vars
      PROVE  [\A e \in DOMAIN log : ToolRaised(e, "ends") =>
                 \A s \in Above[log[e].act] :
                     KindOf(s) = "sequential" => acts'[s].kids = acts[s].kids]_vars
    <2>1. CASE UNCHANGED vars
        BY <2>1
    <2>2. ASSUME NEW a \in DOMAIN acts, Step(a), NEW e \in DOMAIN log, ToolRaised(e, "ends"),
                 NEW s \in Above[log[e].act], KindOf(s) = "sequential"
          PROVE  acts'[s].kids = acts[s].kids
        <3>1. PICK C \in SUBSET DOMAIN acts : /\ log[e].act \in C /\ Closed(C)
                                              /\ \A x \in C : Carries(x, e, C)
            BY <1>1, <2>2 DEF EndsCarried
        <3>2. s \in C
            BY <1>1, <2>2, <3>1, AboveIsClosed
        <3>3. CASE s = a
            <4>1. acts[a].pc # "ready"
                BY <1>1, <2>2, <3>1, <3>2, <3>3, CarriesOn
            <4> QED
                BY <1>1, <2>2, <3>3, <4>1, ChainStartsNothing
        <3>4. CASE s # a
            <4>1. s \in DOMAIN acts
                BY <3>1, <3>2
            <4>2. acts'[s] = acts[s]
                BY <1>1, <2>2, <3>4, <4>1, StepBeside DEF Beside
            <4> QED
                BY <4>2
        <3> QED
            BY <3>3, <3>4
    <2>3. CASE TreeNext
        <3>1. PICK a \in DOMAIN acts : Step(a)
            BY <2>3 DEF TreeNext, Step
        <3> QED
            BY <3>1, <2>2
    <2> QED
        BY <1>1, <2>1, <2>3
<1> QED
    BY <1>1, EndsAlways, PTL DEF TreeSpec, EndStopsSequences

-----------------------------------------------------------------------------
(* What a step does to the events that an activation holds.                *)

LEMMA PrecedesJoined ==
    ASSUME NEW s, NEW t, Listed(s), Listed(t)
    PROVE  \A e, f : Precedes(s \o t, e, f) =>
              Precedes(s, e, f) \/ Precedes(t, e, f) \/ (Has(s, e) /\ Has(t, f))
<1>0. PICK n \in Nat, k \in Nat : s = [i \in 1 .. n |-> s[i]] /\ t = [i \in 1 .. k |-> t[i]]
    BY DEF Listed
<1>1. /\ DOMAIN (s \o t) = 1 .. (n + k)
      /\ \A i \in 1 .. n : (s \o t)[i] = s[i]
      /\ \A i \in 1 .. k : (s \o t)[n + i] = t[i]
    BY <1>0, Joined
<1>2. DOMAIN s = 1 .. n /\ DOMAIN t = 1 .. k
    BY <1>0
<1>3. PICK u : u = s \o t
    OBVIOUS
<1>4. /\ DOMAIN u = 1 .. (n + k)
      /\ \A i \in 1 .. n : u[i] = s[i]
      /\ \A i \in 1 .. k : u[n + i] = t[i]
    BY <1>1, <1>3, Zenon
<1> SUFFICES ASSUME NEW e, NEW f, NEW i \in DOMAIN u, NEW j \in DOMAIN u, i < j, u[i] = e, u[j] = f
             PROVE  \/ \E p, q \in DOMAIN s : p < q /\ s[p] = e /\ s[q] = f
                    \/ \E p, q \in DOMAIN t : p < q /\ t[p] = e /\ t[q] = f
                    \/ (\E p \in DOMAIN s : s[p] = e) /\ (\E q \in DOMAIN t : t[q] = f)
    BY <1>3, Zenon DEF Precedes, Has
<1> HIDE <1>1, <1>3
<1>5. ASSUME NEW p \in DOMAIN u
      PROVE  \/ p \in 1 .. n /\ s[p] = u[p]
             \/ p - n \in 1 .. k /\ t[p - n] = u[p]
    <2>1. p \in 1 .. n \/ (p - n \in 1 .. k /\ n + (p - n) = p)
        BY <1>4
    <2>2. CASE p \in 1 .. n
        BY <2>2, <1>4
    <2>3. CASE p - n \in 1 .. k /\ n + (p - n) = p
        <3>1. u[n + (p - n)] = t[p - n]
            BY <2>3, <1>4
        <3> QED
            BY <2>3, <3>1
    <2> QED
        BY <2>1, <2>2, <2>3
<1>6. i \in Nat /\ j \in Nat
    BY <1>4
<1>7. CASE i \in 1 .. n /\ s[i] = u[i] /\ j \in 1 .. n /\ s[j] = u[j]
    BY <1>2, <1>7
<1>8. CASE i \in 1 .. n /\ s[i] = u[i] /\ j - n \in 1 .. k /\ t[j - n] = u[j]
    BY <1>2, <1>8
<1>9. CASE i - n \in 1 .. k /\ t[i - n] = u[i] /\ j - n \in 1 .. k /\ t[j - n] = u[j]
    <2>1. i - n < j - n
        BY <1>6
    <2> QED
        BY <1>2, <1>9, <2>1
<1>10. ~(i - n \in 1 .. k /\ j \in 1 .. n)
    BY <1>6
<1> QED
    BY <1>5, <1>7, <1>8, <1>9, <1>10

LEMMA PrecedesFew ==
    /\ \A e, f : ~Precedes(<<>>, e, f) /\ ~Has(<<>>, e)
    /\ \A x, e, f : ~Precedes(<<x>>, e, f) /\ (Has(<<x>>, e) <=> x = e)
<1>1. DOMAIN (<<>>) = {}
    OBVIOUS
<1>2. \A x : DOMAIN <<x>> = {1} /\ <<x>>[1] = x
    OBVIOUS
<1> QED
    BY <1>1, <1>2 DEF Precedes, Has

\* A step adds nothing to what a holds,
Quiet(a) ==
    /\ log' = log
    /\ \A e : Holds(a, e)' => Holds(a, e)
    /\ \A e, f : Before(a, e, f)' => Before(a, e, f)
    /\ acts'[a].pc # "failed" => \A e : Holds(a, e) => Holds(a, e)'

\* or the events that it produces,
New(e) == e \in DOMAIN log' \ DOMAIN log

Speaks(a) ==
    /\ acts[a].pc \in {"ready", "step"}
    /\ \A e : Holds(a, e)' <=> Holds(a, e) \/ New(e)
    /\ \A e, f : Before(a, e, f)' =>
          Before(a, e, f) \/ (Holds(a, e) /\ New(f)) \/ (New(e) /\ New(f) /\ e < f)

\* or those of a callee that has finished.
Takes(a, k) ==
    /\ log' = log
    /\ k \in DOMAIN acts /\ acts[k].parent = a
    /\ KindOf(a) # "parallel" => Waits(a) /\ k = LastKid(a) /\ acts[k].pc = "returned"
    /\ KindOf(a) = "parallel" => Join(a) /\ k = acts[a].kids[acts[a].round]
    /\ \A e : Holds(a, e)' <=> Holds(a, e) \/ Has(acts[k].events, e)
    /\ \A e, f : Before(a, e, f)' =>
          Before(a, e, f) \/ (Holds(a, e) /\ Has(acts[k].events, f))
          \/ Precedes(acts[k].events, e, f)

LEMMA StaysQuiet ==
    ASSUME NEW a \in DOMAIN acts, log' = log, acts'[a].events = acts[a].events,
           acts'[a].now = acts[a].now
    PROVE  Quiet(a)
BY DEF Quiet, Holds, Before

LEMMA DropsQuietly ==
    ASSUME NEW a \in DOMAIN acts, log' = log, acts'[a].events = <<>>,
           acts'[a].now = acts[a].now, acts'[a].pc = "failed"
    PROVE  Quiet(a)
BY PrecedesFew DEF Quiet, Holds, Before

LEMMA SettlesQuietly ==
    ASSUME TreeInv, NEW a \in DOMAIN acts, log' = log,
           acts'[a].events = acts[a].events \o acts[a].now, acts'[a].now = <<>>
    PROVE  Quiet(a)
<1>1. \A e : Has(acts'[a].events, e) <=> Has(acts[a].events, e) \/ Has(acts[a].now, e)
    <2>1. \A e : Has(acts[a].events \o acts[a].now, e)
                 <=> Has(acts[a].events, e) \/ Has(acts[a].now, e)
        BY FieldsAreLists, HasJoined
    <2> QED
        BY <2>1
<1>2. \A e, f : Precedes(acts'[a].events, e, f) =>
         \/ Precedes(acts[a].events, e, f) \/ Precedes(acts[a].now, e, f)
         \/ Has(acts[a].events, e) /\ Has(acts[a].now, f)
    <2>1. \A e, f : Precedes(acts[a].events \o acts[a].now, e, f) =>
             \/ Precedes(acts[a].events, e, f) \/ Precedes(acts[a].now, e, f)
             \/ Has(acts[a].events, e) /\ Has(acts[a].now, f)
        BY FieldsAreLists, PrecedesJoined
    <2> QED
        BY <2>1
<1>3. \A e, f : ~Has(acts'[a].now, e) /\ ~Precedes(acts'[a].now, e, f)
    BY PrecedesFew
<1> QED
    BY <1>1, <1>2, <1>3 DEF Quiet, Holds, Before

\* The ways in which a list joins what a holds.
Joins(a, new) ==
    \/ /\ acts[a].now = <<>> /\ acts'[a].now = <<>>
       /\ acts'[a].events = acts[a].events \o new
    \/ acts'[a].events = acts[a].events /\ acts'[a].now = acts[a].now \o new

LEMMA HeldAfter ==
    ASSUME TreeInv, NEW a \in DOMAIN acts, NEW new, Listed(new), Joins(a, new)
    PROVE  /\ \A e : Holds(a, e)' <=> Holds(a, e) \/ Has(new, e)
           /\ \A e, f : Before(a, e, f)' =>
                 Before(a, e, f) \/ (Holds(a, e) /\ Has(new, f)) \/ Precedes(new, e, f)
<1>0. Listed(acts[a].events) /\ Listed(acts[a].now)
    BY FieldsAreLists
<1>1. /\ \A e : Has(acts[a].events \o new, e) <=> Has(acts[a].events, e) \/ Has(new, e)
      /\ \A e : Has(acts[a].now \o new, e) <=> Has(acts[a].now, e) \/ Has(new, e)
    BY <1>0, HasJoined
<1>2. /\ \A e, f : Precedes(acts[a].events \o new, e, f) =>
            Precedes(acts[a].events, e, f) \/ Precedes(new, e, f)
            \/ (Has(acts[a].events, e) /\ Has(new, f))
      /\ \A e, f : Precedes(acts[a].now \o new, e, f) =>
            Precedes(acts[a].now, e, f) \/ Precedes(new, e, f)
            \/ (Has(acts[a].now, e) /\ Has(new, f))
    BY <1>0, PrecedesJoined
<1>3. CASE /\ acts[a].now = <<>> /\ acts'[a].now = <<>>
           /\ acts'[a].events = acts[a].events \o new
    <2>1. /\ \A e : ~Has(acts'[a].now, e) /\ ~Has(acts[a].now, e)
          /\ \A e, f : ~Precedes(acts'[a].now, e, f) /\ ~Precedes(acts[a].now, e, f)
        BY <1>3, PrecedesFew
    <2>2. /\ \A e : Has(acts'[a].events, e) <=> Has(acts[a].events, e) \/ Has(new, e)
          /\ \A e, f : Precedes(acts'[a].events, e, f) =>
                Precedes(acts[a].events, e, f) \/ Precedes(new, e, f)
                \/ (Has(acts[a].events, e) /\ Has(new, f))
        BY <1>1, <1>2, <1>3
    <2> HIDE <1>1, <1>2
    <2> QED
        BY <2>1, <2>2 DEF Holds, Before
<1>4. CASE acts'[a].events = acts[a].events /\ acts'[a].now = acts[a].now \o new
    <2>2. /\ \A e : Has(acts'[a].now, e) <=> Has(acts[a].now, e) \/ Has(new, e)
          /\ \A e, f : Precedes(acts'[a].now, e, f) =>
                Precedes(acts[a].now, e, f) \/ Precedes(new, e, f)
                \/ (Has(acts[a].now, e) /\ Has(new, f))
        BY <1>1, <1>2, <1>4
    <2>3. \A e : Has(acts'[a].events, e) <=> Has(acts[a].events, e)
        BY <1>4
    <2>4. \A e, f : Precedes(acts'[a].events, e, f) <=> Precedes(acts[a].events, e, f)
        BY <1>4
    <2> HIDE <1>1, <1>2
    <2> QED
        BY <2>2, <2>3, <2>4 DEF Holds, Before
<1> QED
    BY <1>3, <1>4 DEF Joins

\* A step whose new events are listed in order.
LEMMA SpeaksList ==
    ASSUME TreeInv, NEW a \in DOMAIN acts, NEW k \in Nat, NEW new,
           new = [i \in 1 .. k |-> Len(log) + i], DOMAIN log' = 1 .. (Len(log) + k),
           Joins(a, new), acts[a].pc \in {"ready", "step"}
    PROVE  Speaks(a)
<1>0. Len(log) \in Nat /\ DOMAIN log = 1 .. Len(log)
    BY FrameFacts
<1>1. DOMAIN new = 1 .. k /\ \A i \in 1 .. k : new[i] = Len(log) + i
    OBVIOUS
<1>2. Listed(new)
    <2>1. new \in Seq(Nat)
        BY <1>0, IsASeq
    <2> QED
        BY <2>1, SeqIsListed
<1> HIDE <1>1
<1>3. \A e : Has(new, e) <=> New(e)
    <2>1. ASSUME NEW e, New(e) PROVE Has(new, e)
        <3>1. e - Len(log) \in 1 .. k /\ e = Len(log) + (e - Len(log))
            BY <1>0, <2>1 DEF New
        <3> QED
            BY <1>1, <3>1 DEF Has
    <2>2. ASSUME NEW e, Has(new, e) PROVE New(e)
        <3>1. PICK i \in 1 .. k : e = Len(log) + i
            BY <1>1, <2>2 DEF Has
        <3> QED
            BY <1>0, <3>1 DEF New
    <2> QED
        BY <2>1, <2>2
<1>4. \A e, f : Precedes(new, e, f) => New(e) /\ New(f) /\ e < f
    <2> SUFFICES ASSUME NEW i \in 1 .. k, NEW j \in 1 .. k, i < j
                 PROVE  /\ New(Len(log) + i) /\ New(Len(log) + j)
                        /\ Len(log) + i < Len(log) + j
        BY <1>1 DEF Precedes
    <2> QED
        BY <1>0 DEF New
<1> HIDE DEF New
<1> QED
    BY <1>2, <1>3, <1>4, HeldAfter DEF Speaks

LEMMA TakesFrom ==
    ASSUME TreeInv, NEW a \in DOMAIN acts, NEW k \in DOMAIN acts, log' = log,
           Joins(a, acts[k].events), acts[k].parent = a,
           KindOf(a) # "parallel" => Waits(a) /\ k = LastKid(a) /\ acts[k].pc = "returned",
           KindOf(a) = "parallel" => Join(a) /\ k = acts[a].kids[acts[a].round]
    PROVE  Takes(a, k)
<1>1. Listed(acts[k].events)
    BY FieldsAreLists
<1>2. PICK new : new = acts[k].events
    OBVIOUS
<1>3. /\ \A e : Holds(a, e)' <=> Holds(a, e) \/ Has(new, e)
      /\ \A e, f : Before(a, e, f)' =>
            Before(a, e, f) \/ (Holds(a, e) /\ Has(new, f)) \/ Precedes(new, e, f)
    BY <1>1, <1>2, HeldAfter
<1> QED
    BY <1>2, <1>3 DEF Takes

LEMMA LastKidOf ==
    ASSUME TreeInv, ShapeInv, NEW a \in DOMAIN acts, Waits(a)
    PROVE  LastKid(a) \in DOMAIN acts /\ acts[LastKid(a)].parent = a
<1>1. Len(acts[a].kids) \in DOMAIN acts[a].kids
    BY LastKidPlace DEF Waits, At
<1>2. acts[LastKid(a)].parent = a
    BY <1>1 DEF LastKid, ShapeInv, KidsInv
<1> QED
    BY <1>1, <1>2, KidFacts DEF LastKid

LEMMA TransferTakes ==
    ASSUME TreeInv, ShapeInv, NEW a \in DOMAIN acts, TransferReturns(a)
    PROVE  Takes(a, LastKid(a))
<1>1. /\ Waits(a) /\ acts[LastKid(a)].pc = "returned" /\ log' = log /\ KindOf(a) # "parallel"
      /\ Joins(a, acts[LastKid(a)].events)
    <2>1. acts'[a].events = acts[a].events /\ acts'[a].now = acts[a].now \o acts[LastKid(a)].events
        BY TransferReturnsMoves DEF Moves, StepEvents
    <2> QED
        BY <2>1 DEF TransferReturns, Waits, At, Joins
<1> QED
    BY <1>1, LastKidOf, TakesFrom

LEMMA ResumeTakes ==
    ASSUME TreeInv, ShapeInv, NEW a \in DOMAIN acts, SequenceResumes(a) \/ LoopResumes(a)
    PROVE  Takes(a, LastKid(a))
<1>1. /\ Waits(a) /\ acts[LastKid(a)].pc = "returned" /\ log' = log
      /\ KindOf(a) \in {"sequential", "loop"}
    BY DEF SequenceResumes, LoopResumes, Waits, At
<1>2. acts[a].now = <<>>
    BY <1>1 DEF ShapeInv, KidsInv
<1>3. Joins(a, acts[LastKid(a)].events)
    <2>1. acts'[a].now = acts[a].now /\ acts'[a].events = acts[a].events \o acts[LastKid(a)].events
        BY ResumeMoves DEF Moves, Gathered
    <2> QED
        BY <1>2, <2>1 DEF Joins
<1> QED
    BY <1>1, <1>3, LastKidOf, TakesFrom

LEMMA JoinTakes ==
    ASSUME TreeInv, ShapeInv, NEW a \in DOMAIN acts, Join(a)
    PROVE  Takes(a, acts[a].kids[acts[a].round])
<1>1. /\ KindOf(a) = "parallel" /\ log' = log /\ acts[a].round \in DOMAIN acts[a].kids
    BY DEF Join, ResultOrder
<1>2. acts[a].now = <<>>
    BY <1>1 DEF ShapeInv, KidsInv
<1>3. PICK k : k = acts[a].kids[acts[a].round]
    OBVIOUS
<1>4. k \in DOMAIN acts /\ acts[k].parent = a
    BY <1>1, <1>3, KidFacts DEF ShapeInv, KidsInv
<1>5. Joins(a, acts[k].events)
    BY <1>2, <1>3, JoinMoves DEF Moves, Joins
<1> QED
    BY <1>1, <1>3, <1>4, <1>5, TakesFrom

LEMMA EmptyJoined ==
    ASSUME NEW k \in Nat, NEW new, new = [i \in 1 .. k |-> new[i]] PROVE <<>> \o new = new
<1>1. /\ DOMAIN (<<>> \o new) = 1 .. (0 + k)
      /\ \A i \in 1 .. k : (<<>> \o new)[0 + i] = new[i]
    <2>1. <<>> = [i \in 1 .. 0 |-> (<<>>)[i]]
        BY EmptySeq
    <2> QED
        BY <2>1, Joined
<1> QED
    BY <1>1

LEMMA ModelSpeaks ==
    ASSUME TreeInv, ShapeInv, NEW a \in DOMAIN acts, ModelAnswers(a) \/ ModelStalls(a)
    PROVE  Speaks(a)
<1>1. acts'[a].now = acts[a].now /\ acts'[a].events = Append(acts[a].events, Len(log) + 1)
    BY ModelMoves DEF Moves
<1>2. acts[a].pc = "ready" /\ acts[a].now = <<>>
    BY DEF ModelAnswers, ModelStalls, At, ShapeInv, KidsInv
<1>3. DOMAIN log' = 1 .. (Len(log) + 1)
    BY ModelWrites DEF Writes
<1>4. PICK new : new = <<Len(log) + 1>>
    OBVIOUS
<1>5. new = [i \in 1 .. 1 |-> Len(log) + i]
    BY <1>4
<1>6. acts'[a].events = acts[a].events \o new
    <2>1. Listed(acts[a].events)
        BY FieldsAreLists
    <2> QED
        BY <1>1, <1>4, <2>1, Appended DEF Listed
<1> QED
    BY <1>1, <1>2, <1>3, <1>5, <1>6, SpeaksList DEF Joins

LEMMA UnknownSpeaks ==
    ASSUME TreeInv, ShapeInv, NEW a \in DOMAIN acts, TransferUnknown(a)
    PROVE  Speaks(a)
<1>1. acts'[a].events = acts[a].events /\ acts'[a].now = Append(acts[a].now, Len(log) + 1)
    BY UnknownMoves DEF Moves
<1>2. acts[a].pc = "step"
    BY DEF TransferUnknown, At
<1>3. DOMAIN log' = 1 .. (Len(log) + 1)
    BY UnknownWrites DEF Writes
<1>4. PICK new : new = <<Len(log) + 1>>
    OBVIOUS
<1>5. new = [i \in 1 .. 1 |-> Len(log) + i]
    BY <1>4
<1>6. acts'[a].now = acts[a].now \o new
    <2>1. Listed(acts[a].now)
        BY FieldsAreLists
    <2> QED
        BY <1>1, <1>4, <2>1, Appended DEF Listed
<1> QED
    BY <1>1, <1>2, <1>3, <1>5, <1>6, SpeaksList DEF Joins

LEMMA ToolsSpeak ==
    ASSUME TreeInv, ShapeInv, NEW a \in DOMAIN acts, ToolsRun(a)
    PROVE  Speaks(a)
<1>1. acts'[a].events = acts[a].events /\ acts'[a].now = <<Len(log) + 1, Len(log) + 2>>
    BY ToolsMoves DEF Moves
<1>2. acts[a].pc = "ready" /\ acts[a].now = <<>>
    BY DEF ToolsRun, At, ShapeInv, KidsInv
<1>3. DOMAIN log' = 1 .. (Len(log) + 2)
    <2>1. PICK to, signals :
             log' = log \o <<Event(a, "model", NoAgent, {}), Event(a, "tool", to, signals)>>
        BY DEF ToolsRun
    <2> QED
        BY <2>1, ToolsWrite DEF Writes
<1>4. PICK new : new = <<Len(log) + 1, Len(log) + 2>>
    OBVIOUS
<1>5. new = [i \in 1 .. 2 |-> Len(log) + i]
    BY <1>4
<1>6. acts'[a].now = acts[a].now \o new
    <2>1. <<>> \o new = new
        BY <1>5, EmptyJoined
    <2> QED
        BY <1>1, <1>2, <1>4, <2>1
<1> QED
    BY <1>1, <1>2, <1>3, <1>5, <1>6, SpeaksList DEF Joins

LEMMA CustomSpeaks ==
    ASSUME TreeInv, ShapeInv, NEW a \in DOMAIN acts, CustomReturns(a)
    PROVE  Speaks(a)
<1>1. acts[a].pc = "ready" /\ acts[a].now = <<>> /\ acts[a].events = <<>>
    BY DEF CustomReturns, At, ShapeInv, KidsInv
<1>2. PICK k \in Nat :
              /\ Writes(a) /\ Len(log') = Len(log) + k
              /\ Moves(a, 0, "returned", acts[a].round, acts[a].kids, acts[a].now,
                       acts[a].todo, [i \in 1 .. k |-> Len(log) + i], acts[a].arrived)
    BY CustomWrites
<1>3. DOMAIN log' = 1 .. (Len(log) + k)
    BY <1>2 DEF Writes
<1>4. PICK new : new = [i \in 1 .. k |-> Len(log) + i]
    OBVIOUS
<1>5. acts'[a].now = acts[a].now /\ acts'[a].events = new
    BY <1>2, <1>4 DEF Moves
<1>6. acts'[a].events = acts[a].events \o new
    <2>1. <<>> \o new = new
        BY <1>4, EmptyJoined
    <2> QED
        BY <1>1, <1>5, <2>1
<1> QED
    BY <1>1, <1>3, <1>4, <1>5, <1>6, SpeaksList DEF Joins

LEMMA StepHolds ==
    ASSUME TreeInv, ShapeInv, NEW a \in DOMAIN acts, Step(a)
    PROVE  Quiet(a) \/ Speaks(a) \/ \E k : Takes(a, k)
<1>1. CASE FlowEnded(a) \/ SubFails(a) \/ SequenceEnds(a) \/ JoinEnds(a)
    <2>1. log' = log /\ \E p : acts' = [acts EXCEPT ![a].pc = p]
        BY <1>1 DEF FlowEnded, SubFails, SequenceEnds, JoinEnds
    <2> QED
        BY <2>1, EndMoves, StaysQuiet DEF Moves
<1>2. CASE LoopPassEnds(a)
    BY <1>2, LoopPassMoves, StaysQuiet DEF Moves, LoopPassEnds
<1>3. CASE SendResult(a)
    BY <1>3, SendMoves, StaysQuiet DEF Moves, SendResult
<1>4. CASE TransferStart(a) \/ StartSub(a)
    BY <1>4, TransferStartMoves, StartSubMoves, StaysQuiet DEF Moves, TransferStart, StartSub
<1>5. CASE Fork(a)
    BY <1>5, ForkMoves, StaysQuiet DEF Moves, Fork
<1>6. CASE Fail(a) /\ log' = log
    BY <1>6, FailMoves, DropsQuietly DEF Moves
<1>7. CASE StepEnds(a)
    BY <1>7, StepEndsMoves, SettlesQuietly DEF Moves, StepEnds
<1>8. CASE \/ ModelAnswers(a) \/ ModelStalls(a) \/ ToolsRun(a) \/ TransferUnknown(a)
           \/ CustomReturns(a)
    BY <1>8, ModelSpeaks, ToolsSpeak, UnknownSpeaks, CustomSpeaks
<1>9. CASE TransferReturns(a) \/ SequenceResumes(a) \/ LoopResumes(a) \/ Join(a)
    BY <1>9, TransferTakes, ResumeTakes, JoinTakes
<1> QED
    BY <1>1, <1>2, <1>3, <1>4, <1>5, <1>6, <1>7, <1>8, <1>9
    DEF Step, FlowStep, TransferStep, CustomStep, WorkflowStep, ModelFails, CustomFails,
        TransferRefused, TransferFails

-----------------------------------------------------------------------------
(* The requests of a flow.                                                 *)

LEMMA StepStarts ==
    ASSUME TreeInv, NEW a \in DOMAIN acts, Step(a)
    PROVE  DOMAIN acts' = DOMAIN acts \/ TransferStart(a) \/ StartSub(a) \/ Fork(a)
<1>0. DOMAIN acts = 1 .. (Len(acts) + 0)
    BY FrameFacts
<1>1. CASE FlowEnded(a) \/ SubFails(a) \/ SequenceEnds(a) \/ JoinEnds(a)
    <2>1. \E p : acts' = [acts EXCEPT ![a].pc = p]
        BY <1>1 DEF FlowEnded, SubFails, SequenceEnds, JoinEnds
    <2> QED
        BY <1>0, <2>1, EndMoves DEF Moves
<1>2. CASE LoopPassEnds(a) \/ SendResult(a) \/ Fail(a) \/ StepEnds(a)
    BY <1>0, <1>2, LoopPassMoves, SendMoves, FailMoves, StepEndsMoves DEF Moves
<1>3. CASE ModelAnswers(a) \/ ModelStalls(a) \/ ToolsRun(a) \/ TransferUnknown(a)
    BY <1>0, <1>3, ModelMoves, ToolsMoves, UnknownMoves DEF Moves
<1>4. CASE CustomReturns(a)
    BY <1>0, <1>4, CustomMovesTo DEF Moves
<1>5. CASE TransferReturns(a) \/ SequenceResumes(a) \/ LoopResumes(a) \/ Join(a)
    BY <1>0, <1>5, TransferReturnsMoves, ResumeMoves, JoinMoves DEF Moves
<1> QED
    BY <1>1, <1>2, <1>3, <1>4, <1>5
    DEF Step, FlowStep, TransferStep, CustomStep, WorkflowStep, ModelFails, CustomFails,
        TransferRefused, TransferFails

\* Only the start of a transfer adds to what has been executed.
LEMMA DoneStep ==
    ASSUME TreeInv, ShapeInv, ShapeInv', NEW a \in DOMAIN acts, Step(a),
           NEW b \in DOMAIN acts', Transferred(b)', b \notin DOMAIN acts
    PROVE  /\ TransferStart(a) /\ b = NewId
           /\ acts'[b].parent = a /\ acts'[b].cause = NextRequest(a).cause
<1>0. Len(acts) \in Nat /\ DOMAIN acts = 1 .. Len(acts) /\ a # 0
    BY FrameFacts
<1>1. acts'[b].parent = a /\ acts'[b].cause # 0 /\ KindOf(a)' = KindOf(a)
    BY StepBeside DEF Beside, Fresh, Transferred, KindOf
<1>2. KindOf(a) = "llm"
    BY <1>0, <1>1 DEF ShapeInv, CallInv
<1>3. ~StartSub(a) /\ ~Fork(a)
    BY <1>2 DEF StartSub, Fork, InTurn
<1>4. TransferStart(a)
    BY <1>3, StepStarts
<1>5. DOMAIN acts' = 1 .. (Len(acts) + 1) /\ acts'[NewId].cause = NextRequest(a).cause
    BY <1>4, TransferStartMoves DEF Moves
<1>6. b = NewId
    BY <1>0, <1>5 DEF NewId
<1> QED
    BY <1>1, <1>4, <1>5, <1>6

LEMMA CausesListed ==
    ASSUME NEW todo, Listed(todo)
    PROVE  /\ Listed(Causes(todo)) /\ DOMAIN Causes(todo) = DOMAIN todo
           /\ \A i \in DOMAIN todo : Causes(todo)[i] = todo[i].cause
<1>1. /\ DOMAIN Causes(todo) = 1 .. Len(todo) /\ Len(todo) \in Nat
      /\ \A i \in 1 .. Len(todo) : Causes(todo)[i] = todo[i].cause
    BY DEF Listed, Causes
<1>2. Causes(todo) \in Seq({todo[i].cause : i \in DOMAIN todo})
    BY <1>1, IsASeq DEF Causes, Listed
<1> QED
    BY <1>1, <1>2, SeqIsListed DEF Listed

LEMMA ListedJoined ==
    ASSUME NEW s, NEW t, Listed(s), Listed(t) PROVE Listed(s \o t)
<1> DEFINE S == {s[i] : i \in 1 .. Len(s)}  T == {t[i] : i \in 1 .. Len(t)}
<1>1. s \in Seq(S) /\ t \in Seq(T)
    BY IsSeqOfRange DEF Listed
<1> HIDE DEF S, T
<1>2. s \in Seq(S \cup T) /\ t \in Seq(S \cup T)
    BY <1>1, SeqMonotonic
<1>3. s \o t \in Seq(S \cup T)
    BY <1>2, ConcatProperties
<1> QED
    BY <1>3, SeqIsListed

\* The requests of a target's events come before those that are left.
LEMMA ChainedCauses ==
    ASSUME TreeInv, NEW a \in DOMAIN acts, LastKid(a) \in DOMAIN acts
    PROVE  Causes(Chained(a)) = acts[LastKid(a)].events \o Causes(acts[a].todo)
<1> DEFINE es == acts[LastKid(a)].events  d == acts[LastKid(a)].depth  todo == acts[a].todo
           rs == Requests(es, d)  u == rs \o todo
<1>1. Listed(es) /\ Listed(todo) /\ Listed(Causes(todo))
    BY FieldsAreLists, CausesListed
<1>2. PICK n \in Nat : n = Len(es) /\ es = [i \in 1 .. n |-> es[i]] /\ DOMAIN es = 1 .. n
    BY <1>1 DEF Listed
<1>3. PICK k \in Nat : k = Len(todo) /\ todo = [i \in 1 .. k |-> todo[i]] /\ DOMAIN todo = 1 .. k
    BY <1>1 DEF Listed
<1>4. /\ rs = [i \in 1 .. n |-> rs[i]]
      /\ \A i \in 1 .. n : rs[i].cause = es[i]
    BY <1>2 DEF Requests
<1>5. /\ Causes(todo) = [i \in 1 .. k |-> Causes(todo)[i]]
      /\ \A i \in 1 .. k : Causes(todo)[i] = todo[i].cause
    BY <1>3 DEF Causes
<1>6. Chained(a) = u
    BY DEF Chained
<1> HIDE DEF rs, es, todo, d
<1>7. /\ DOMAIN u = 1 .. (n + k)
      /\ \A i \in 1 .. n : u[i] = rs[i]
      /\ \A i \in 1 .. k : u[n + i] = todo[i]
    BY <1>3, <1>4, Joined
<1>8. PICK v : v = es \o Causes(todo)
    OBVIOUS
<1>9. /\ DOMAIN v = 1 .. (n + k) /\ v = [i \in 1 .. (n + k) |-> v[i]]
      /\ \A i \in 1 .. n : v[i] = es[i]
      /\ \A i \in 1 .. k : v[n + i] = Causes(todo)[i]
    <2>1. /\ DOMAIN (es \o Causes(todo)) = 1 .. (n + k)
          /\ \A i \in 1 .. n : (es \o Causes(todo))[i] = es[i]
          /\ \A i \in 1 .. k : (es \o Causes(todo))[n + i] = Causes(todo)[i]
        BY <1>2, <1>5, Joined
    <2>2. es \o Causes(todo) = [i \in 1 .. (n + k) |-> (es \o Causes(todo))[i]]
        <3>1. Listed(es \o Causes(todo))
            BY <1>1, ListedJoined
        <3>2. 1 .. Len(es \o Causes(todo)) = 1 .. (n + k)
            BY <2>1, <3>1 DEF Listed
        <3> QED
            BY <3>1, <3>2 DEF Listed
    <2> QED
        BY <1>8, <2>1, <2>2, Zenon
<1> HIDE DEF u
<1>10. \A i \in 1 .. (n + k) : u[i].cause = v[i]
    <2> SUFFICES ASSUME NEW i \in 1 .. (n + k) PROVE u[i].cause = v[i]
        OBVIOUS
    <2>1. i \in 1 .. n \/ (i - n \in 1 .. k /\ n + (i - n) = i)
        OBVIOUS
    <2>2. CASE i \in 1 .. n
        BY <2>2, <1>4, <1>7, <1>9
    <2>3. CASE i - n \in 1 .. k /\ n + (i - n) = i
        <3>1. /\ u[n + (i - n)] = todo[i - n] /\ v[n + (i - n)] = Causes(todo)[i - n]
              /\ Causes(todo)[i - n] = todo[i - n].cause
            BY <2>3, <1>5, <1>7, <1>9
        <3> QED
            BY <2>3, <3>1
    <2> QED
        BY <2>1, <2>2, <2>3
<1>11. Causes(u) = v
    BY <1>7, <1>9, <1>10 DEF Causes
<1> QED
    BY <1>6, <1>8, <1>11 DEF es, todo

\* What is left after the first request comes after it.
LEMMA RestCauses ==
    ASSUME TreeInv, NEW a \in DOMAIN acts, Due(a) # {}
    PROVE  /\ Asked(a, NextRequest(a).cause) /\ NextRequest(a).cause \in DOMAIN log
           /\ \A e : Has(Causes(Rest(a)), e) =>
                 Asked(a, e) /\ AskedBefore(a, NextRequest(a).cause, e)
           /\ \A e, f : Precedes(Causes(Rest(a)), e, f) => AskedBefore(a, e, f)
<1> DEFINE todo == acts[a].todo  k == Len(todo)  m == First(a)
<1>1. /\ Listed(todo) /\ k \in Nat /\ DOMAIN todo = 1 .. k
      /\ \A i \in DOMAIN todo : todo[i].cause \in DOMAIN log
    BY FieldsAreLists DEF Listed
<1>2. m \in 1 .. k
    BY <1>1, FirstExists DEF Due
<1>3. /\ DOMAIN Causes(todo) = 1 .. k
      /\ \A i \in 1 .. k : Causes(todo)[i] = todo[i].cause
    BY <1>1 DEF Causes
<1>4. DOMAIN Rest(a) = 1 .. (k - m) /\ \A i \in 1 .. (k - m) : Rest(a)[i] = todo[m + i]
    <2>1. PICK S : S = {todo[j] : j \in 1 .. k}
        OBVIOUS
    <2>6. /\ \A i \in (m + 1) .. k : todo[i] \in S
          /\ m + 1 \in Nat \ {0} /\ k \in Nat
        BY <1>1, <1>2, <2>1
    <2>2. /\ \A i \in 1 .. (k - (m + 1) + 1) : Rest(a)[i] = todo[m + 1 + i - 1]
          /\ Len(Rest(a)) = IF m + 1 <= k THEN k - (m + 1) + 1 ELSE 0
          /\ Rest(a) \in Seq(S)
        <3> HIDE DEF m, k, todo
        <3>1. /\ \A i \in 1 .. (k - (m + 1) + 1) : SubSeq(todo, m + 1, k)[i] = todo[m + 1 + i - 1]
              /\ Len(SubSeq(todo, m + 1, k)) = IF m + 1 <= k THEN k - (m + 1) + 1 ELSE 0
              /\ SubSeq(todo, m + 1, k) \in Seq(S)
            BY <2>6, SubSeqProperties
        <3> QED
            BY <3>1 DEF Rest, m, k, todo
    <2>3. Len(Rest(a)) = k - m
        BY <1>1, <1>2, <2>2
    <2>4. DOMAIN Rest(a) = 1 .. (k - m)
        BY <2>2, <2>3, LenProperties
    <2>5. \A i \in 1 .. (k - m) : i \in 1 .. (k - (m + 1) + 1) /\ m + 1 + i - 1 = m + i
        BY <1>1, <1>2
    <2> QED
        BY <2>2, <2>4, <2>5
<1>5. /\ DOMAIN Causes(Rest(a)) = 1 .. (k - m)
      /\ \A i \in 1 .. (k - m) : Causes(Rest(a))[i] = Causes(todo)[m + i]
    <2>1. /\ DOMAIN Causes(Rest(a)) = 1 .. (k - m)
          /\ \A i \in 1 .. (k - m) : Causes(Rest(a))[i] = Rest(a)[i].cause
        BY <1>4 DEF Causes
    <2>2. \A i \in 1 .. (k - m) : m + i \in 1 .. k
        BY <1>1, <1>2
    <2> QED
        BY <1>3, <1>4, <2>1, <2>2
<1>6. NextRequest(a).cause = Causes(todo)[m]
    BY <1>2, <1>3 DEF NextRequest
<1> HIDE DEF todo, k, m
<1>7. \A i \in 1 .. (k - m) : m + i \in 1 .. k /\ m < m + i
    BY <1>1, <1>2
<1>8. \A i, j \in 1 .. (k - m) : i < j => m + i < m + j
    BY <1>1, <1>2
<1>9. /\ Has(Causes(todo), NextRequest(a).cause) /\ NextRequest(a).cause \in DOMAIN log
    BY <1>1, <1>2, <1>3, <1>6 DEF Has
<1>10. \A e : Has(Causes(Rest(a)), e) =>
          Has(Causes(todo), e) /\ Precedes(Causes(todo), NextRequest(a).cause, e)
    BY <1>2, <1>3, <1>5, <1>6, <1>7 DEF Has, Precedes
<1>11. \A e, f : Precedes(Causes(Rest(a)), e, f) => Precedes(Causes(todo), e, f)
    BY <1>3, <1>5, <1>7, <1>8 DEF Precedes
<1> QED
    BY <1>9, <1>10, <1>11 DEF Asked, AskedBefore, todo

\* How the requests that a has to look at change.
LEMMA TodoStep ==
    ASSUME TreeInv, ShapeInv, NEW a \in DOMAIN acts, Step(a)
    PROVE  \/ /\ ~TransferStart(a)
              /\ \A e : Asked(a, e)' => Asked(a, e)
              /\ \A e, f : AskedBefore(a, e, f)' => AskedBefore(a, e, f)
           \/ TransferStart(a) /\ acts'[a].todo = Rest(a)
           \/ /\ ToolsRun(a)
              /\ \A e : Asked(a, e)' => New(e)
              /\ \A e, f : ~AskedBefore(a, e, f)'
           \/ TransferReturns(a) /\ acts'[a].todo = Chained(a)
<1> DEFINE Less == /\ ~TransferStart(a)
                   /\ \A e : Asked(a, e)' => Asked(a, e)
                   /\ \A e, f : AskedBefore(a, e, f)' => AskedBefore(a, e, f)
<1>1. CASE TransferStart(a)
    BY <1>1, TransferStartMoves DEF Moves
<1>2. CASE TransferReturns(a)
    BY <1>2, TransferReturnsMoves DEF Moves
<1>3. CASE ToolsRun(a)
    <2>0. PICK to, signals :
              /\ log' = log \o <<Event(a, "model", NoAgent, {}), Event(a, "tool", to, signals)>>
              /\ Moves(a, 0, "step", acts[a].round, acts[a].kids, <<Len(log) + 1, Len(log) + 2>>,
                       <<[to |-> to, depth |-> acts[a].depth, cause |-> Len(log) + 2]>>,
                       acts[a].events, acts[a].arrived)
        BY <1>3, ToolsMoves
    <2>1. /\ log' = log \o <<Event(a, "model", NoAgent, {}), Event(a, "tool", to, signals)>>
          /\ acts'[a].todo = <<[to |-> to, depth |-> acts[a].depth, cause |-> Len(log) + 2]>>
        BY <2>0 DEF Moves
    <2>2. Causes(acts'[a].todo) = <<Len(log) + 2>>
        BY <2>1 DEF Causes
    <2>3. New(Len(log) + 2)
        <3>1. Len(log) \in Nat /\ DOMAIN log = 1 .. Len(log)
            BY FrameFacts
        <3>2. DOMAIN log' = 1 .. (Len(log) + 2)
            BY <2>1, ToolsWrite DEF Writes
        <3> QED
            BY <3>1, <3>2 DEF New
    <2>4. /\ \A e : Has(<<Len(log) + 2>>, e) => New(e)
          /\ \A e, f : ~Precedes(<<Len(log) + 2>>, e, f)
        BY <2>3, PrecedesFew
    <2> QED
        BY <1>3, <2>2, <2>4 DEF Asked, AskedBefore
<1>4. ASSUME acts'[a].todo = acts[a].todo, ~TransferStart(a) PROVE Less
    BY <1>4 DEF Asked, AskedBefore
<1>5. CASE TransferUnknown(a) /\ ~TransferStart(a)
    <2>1. Due(a) # {} /\ acts'[a].todo = Rest(a)
        BY <1>5, UnknownMoves DEF Moves, TransferUnknown
    <2>2. Less
        BY <1>5, <2>1, RestCauses DEF Asked, AskedBefore
    <2> QED
        BY <2>2
<1>6. CASE StepEnds(a) /\ ~TransferStart(a)
    <2>1. Causes(acts'[a].todo) = <<>>
        <3>1. acts'[a].todo = <<>>
            BY <1>6, StepEndsMoves DEF Moves
        <3> QED
            BY <3>1 DEF Causes
    <2>2. Less
        BY <1>6, <2>1, PrecedesFew DEF Asked, AskedBefore
    <2> QED
        BY <2>2
<1> SUFFICES ASSUME ~TransferStart(a), ~TransferReturns(a), ~ToolsRun(a), ~TransferUnknown(a),
                    ~StepEnds(a)
             PROVE  acts'[a].todo = acts[a].todo
    BY <1>1, <1>2, <1>3, <1>4, <1>5, <1>6
<1>11. CASE FlowEnded(a) \/ SubFails(a) \/ SequenceEnds(a) \/ JoinEnds(a)
    <2>1. \E p : acts' = [acts EXCEPT ![a].pc = p]
        BY <1>11 DEF FlowEnded, SubFails, SequenceEnds, JoinEnds
    <2> QED
        BY <2>1, EndMoves DEF Moves
<1>12. CASE LoopPassEnds(a) \/ SendResult(a) \/ Fail(a)
    BY <1>12, LoopPassMoves, SendMoves, FailMoves DEF Moves
<1>13. CASE ModelAnswers(a) \/ ModelStalls(a) \/ CustomReturns(a)
    BY <1>13, ModelMoves, CustomMovesTo DEF Moves
<1>14. CASE SequenceResumes(a) \/ LoopResumes(a) \/ Join(a)
    BY <1>14, ResumeMoves, JoinMoves DEF Moves
<1>15. CASE StartSub(a) \/ Fork(a)
    BY <1>15, StartSubMoves, ForkMoves DEF Moves
<1> QED
    BY <1>11, <1>12, <1>13, <1>14, <1>15
    DEF Step, FlowStep, TransferStep, CustomStep, WorkflowStep, ModelFails, CustomFails,
        TransferRefused, TransferFails

LEMMA ChainedAsks ==
    ASSUME TreeInv, ShapeInv, NEW a \in DOMAIN acts, TransferReturns(a)
    PROVE  /\ Takes(a, LastKid(a)) /\ acts'[a].todo = Chained(a)
           /\ \A e : Asked(a, e)' => Asked(a, e) \/ Has(acts[LastKid(a)].events, e)
           /\ \A e, f : AskedBefore(a, e, f)' =>
                 \/ AskedBefore(a, e, f)
                 \/ Precedes(acts[LastKid(a)].events, e, f)
                 \/ Has(acts[LastKid(a)].events, e) /\ Asked(a, f)
<1>1. Takes(a, LastKid(a)) /\ acts'[a].todo = Chained(a)
    BY TransferTakes, TransferReturnsMoves DEF Moves
<1>2. PICK es, todo : es = acts[LastKid(a)].events /\ todo = acts[a].todo
    OBVIOUS
<1>3. LastKid(a) \in DOMAIN acts /\ Listed(es) /\ Listed(Causes(todo))
    BY <1>1, <1>2, FieldsAreLists, CausesListed DEF Takes
<1>4. Causes(acts'[a].todo) = es \o Causes(todo)
    BY <1>1, <1>2, <1>3, ChainedCauses
<1>5. \A e : Has(es \o Causes(todo), e) <=> Has(es, e) \/ Has(Causes(todo), e)
    BY <1>3, HasJoined
<1>6. \A e, f : Precedes(es \o Causes(todo), e, f) =>
         \/ Precedes(es, e, f) \/ Precedes(Causes(todo), e, f)
         \/ Has(es, e) /\ Has(Causes(todo), f)
    BY <1>3, PrecedesJoined
<1>7. \A e : Asked(a, e)' => Asked(a, e) \/ Has(es, e)
    BY <1>2, <1>4, <1>5 DEF Asked
<1>8. \A e, f : AskedBefore(a, e, f)' =>
         \/ AskedBefore(a, e, f) \/ Precedes(es, e, f) \/ (Has(es, e) /\ Asked(a, f))
    <2>1. \A e, f : AskedBefore(a, e, f)' <=> Precedes(es \o Causes(todo), e, f)
        BY <1>4 DEF AskedBefore
    <2>2. /\ \A f : Asked(a, f) <=> Has(Causes(todo), f)
          /\ \A e, f : AskedBefore(a, e, f) <=> Precedes(Causes(todo), e, f)
        BY <1>2 DEF Asked, AskedBefore
    <2> QED
        BY <2>1, <2>2, <1>6, Zenon
<1> QED
    BY <1>1, <1>2, <1>7, <1>8

\* Nothing is known of by a new activation.
LEMMA FreshKnowsNothing ==
    ASSUME TreeInv, ShapeInv, ShapeInv', NEW a \in DOMAIN acts, Step(a),
           NEW x \in DOMAIN acts', x \notin DOMAIN acts, NEW e
    PROVE  ~Known(x, e)'
<1>1. acts'[x].events = <<>> /\ acts'[x].now = <<>> /\ acts'[x].todo = <<>>
    BY StepBeside DEF Beside, Fresh
<1>2. Causes(acts'[x].todo) = <<>>
    BY <1>1 DEF Causes
<1>3. ~Holds(x, e)' /\ ~Asked(x, e)'
    BY <1>1, <1>2, PrecedesFew DEF Holds, Asked
<1>4. ASSUME NEW b \in DOMAIN acts', Transferred(b)', acts'[b].parent = x PROVE FALSE
    <2>1. CASE b \in DOMAIN acts
        <3>1. acts'[b].parent = acts[b].parent /\ acts'[b].cause = acts[b].cause
            BY <2>1, StepBeside DEF Beside
        <3>2. acts[b].parent \in DOMAIN acts
            BY <1>4, <2>1, <3>1 DEF TreeInv, CallersKnown, Transferred
        <3> QED
            BY <1>4, <3>1, <3>2
    <2>2. CASE b \notin DOMAIN acts
        BY <1>4, <2>2, DoneStep
    <2> QED
        BY <2>1, <2>2
<1> QED
    BY <1>3, <1>4 DEF Known, Done

\* What an activation hears of in a step: what is new, and what a callee hands up.
LEMMA KnownStep ==
    ASSUME TreeInv, ShapeInv, ShapeInv', NEW a \in DOMAIN acts, Step(a),
           NEW x \in DOMAIN acts, NEW e, Known(x, e)'
    PROVE  \/ Known(x, e)
           \/ x = a /\ New(e)
           \/ x = a /\ \E k : Takes(a, k) /\ Has(acts[k].events, e)
<1>1. CASE Holds(x, e)'
    <2>1. CASE x = a
        <3>1. CASE Quiet(a)
            BY <1>1, <2>1, <3>1 DEF Quiet, Known
        <3>2. CASE Speaks(a)
            BY <1>1, <2>1, <3>2 DEF Speaks, Known
        <3>3. ASSUME NEW k, Takes(a, k)
              PROVE  Holds(a, e) \/ Has(acts[k].events, e)
            BY <1>1, <2>1, <3>3 DEF Takes
        <3> QED
            BY <2>1, <3>1, <3>2, <3>3, StepHolds DEF Known
    <2>2. CASE x # a
        BY <1>1, <2>2, StepBeside DEF Beside, Holds, Known
    <2> QED
        BY <2>1, <2>2
<1>2. CASE Asked(x, e)'
    <2>1. CASE x = a
        <3>1. CASE TransferStart(a) /\ acts'[a].todo = Rest(a)
            BY <1>2, <2>1, <3>1, RestCauses DEF TransferStart, Asked, Known
        <3>2. CASE TransferReturns(a)
            BY <1>2, <2>1, <3>2, ChainedAsks DEF Known
        <3> QED
            BY <1>2, <2>1, <3>1, <3>2, TodoStep DEF Known
    <2>2. CASE x # a
        BY <1>2, <2>2, StepBeside DEF Beside, Asked, Known
    <2> QED
        BY <2>1, <2>2
<1>3. CASE Done(x, e)'
    <2>1. PICK b \in DOMAIN acts' : Transferred(b)' /\ acts'[b].parent = x /\ acts'[b].cause = e
        BY <1>3 DEF Done
    <2>2. CASE b \in DOMAIN acts
        <3>1. acts'[b].parent = acts[b].parent /\ acts'[b].cause = acts[b].cause
            BY <2>2, StepBeside DEF Beside
        <3> QED
            BY <2>1, <2>2, <3>1 DEF Known, Done, Transferred
    <2>3. CASE b \notin DOMAIN acts
        <3>1. TransferStart(a) /\ x = a /\ e = NextRequest(a).cause
            BY <2>1, <2>3, DoneStep
        <3> QED
            BY <3>1, RestCauses DEF TransferStart, Known
    <2> QED
        BY <2>2, <2>3
<1> QED
    BY <1>1, <1>2, <1>3 DEF Known

-----------------------------------------------------------------------------
(* Where events come from.                                                 *)

\* What activations hold and ask for are events that were produced.
LEMMA Logged ==
    ASSUME TreeInv, NEW x \in DOMAIN acts
    PROVE  /\ \A e : Known(x, e) => e \in DOMAIN log
           /\ \A e, f : Before(x, e, f) => Holds(x, e) /\ Holds(x, f)
           /\ \A e, f : AskedBefore(x, e, f) => Asked(x, e) /\ Asked(x, f)
<1>1. \A e : Holds(x, e) => e \in DOMAIN log
    BY FieldsAreLists DEF Holds, Has
<1>2. \A e : Asked(x, e) => e \in DOMAIN log
    BY FieldsAreLists DEF Asked, Has, Causes
<1>3. ASSUME NEW b \in DOMAIN acts, Transferred(b) PROVE acts[b].cause \in DOMAIN log
    <2>1. acts[b].cause \in 0 .. Len(log) /\ Len(log) \in Nat /\ DOMAIN log = 1 .. Len(log)
        BY FrameFacts DEF FrameType
    <2> QED
        BY <1>3, <2>1 DEF Transferred
<1>4. \A s, e, f : Precedes(s, e, f) => Has(s, e) /\ Has(s, f)
    BY DEF Precedes, Has
<1> QED
    BY <1>1, <1>2, <1>3, <1>4 DEF Known, Done, Before, Holds, AskedBefore, Asked

LEMMA Actors ==
    ASSUME TreeInv, NEW e \in DOMAIN log PROVE log[e].act \in DOMAIN acts
<1>1. /\ log \in Seq(EventType(Len(acts))) /\ DOMAIN log = 1 .. Len(log)
      /\ DOMAIN acts = 1 .. Len(acts)
    BY StateTypes DEF TreeInv, TreeTypeOK
<1>2. log[e] \in EventType(Len(acts))
    BY <1>1, ElementOfSeq
<1> QED
    BY <1>1, <1>2 DEF EventType

LEMMA Activations == TreeInv => Len(acts) \in Nat /\ DOMAIN acts = 1 .. Len(acts)
    BY StateTypes DEF TreeInv

\* A step leaves the events below an activation where they are, and what it produces is
\* below a.
LEMMA FromStep ==
    ASSUME TreeInv, TreeInv', NEW a \in DOMAIN acts, Step(a)
    PROVE  /\ \A x, e : e \in DOMAIN log => (From(x, e)' <=> From(x, e))
           /\ \A x, e : New(e) => (From(x, e)' <=> x \in Within[a])
<1>1. /\ Len(acts) \in Nat /\ DOMAIN acts = 1 .. Len(acts)
      /\ Len(acts') \in Nat /\ DOMAIN acts' = 1 .. Len(acts')
    <2>1. Len(acts) \in Nat /\ DOMAIN acts = 1 .. Len(acts)
        BY Activations
    <2>2. (Len(acts) \in Nat /\ DOMAIN acts = 1 .. Len(acts))'
        BY Activations, PTL
    <2> QED
        BY <2>1, <2>2
<1>2. PICK k \in Nat : Len(acts') = Len(acts) + k
    <2>1. Len(acts) <= Len(acts')
        <3>1. 1 .. Len(acts) \subseteq 1 .. Len(acts')
            BY <1>1, StepBeside DEF Beside
        <3>2. Len(acts) = 0 \/ Len(acts) \in 1 .. Len(acts')
            BY <1>1, <3>1
        <3> QED
            BY <1>1, <3>2
    <2>2. Len(acts') - Len(acts) \in Nat /\ Len(acts') = Len(acts) + (Len(acts') - Len(acts))
        BY <1>1, <2>1
    <2> QED
        BY <2>2
<1>3. /\ DOMAIN acts' = 1 .. (Len(acts) + k)
      /\ \A b \in DOMAIN acts : acts'[b].parent = acts[b].parent
      /\ \A b \in (Len(acts) + 1) .. (Len(acts) + k) : acts'[b].parent = a
    <2>1. DOMAIN acts' = 1 .. (Len(acts) + k)
        BY <1>1, <1>2
    <2>2. \A b \in (Len(acts) + 1) .. (Len(acts) + k) : b \in DOMAIN acts' \ DOMAIN acts
        BY <1>1, <2>1
    <2> QED
        BY <2>1, <2>2, StepBeside DEF Beside, Fresh
<1>4. \A x \in DOMAIN acts : Within'[x] = Within[x]
    BY <1>3, WithinStays
<1>5. \A e \in DOMAIN log : log'[e] = log[e] /\ log[e].act \in DOMAIN acts
    BY Actors, StepWrites DEF Writes
<1>6. ASSUME NEW e, New(e) PROVE log'[e].act = a
    <2>1. /\ Len(log) \in Nat /\ DOMAIN log = 1 .. Len(log)
          /\ Len(log') \in Nat /\ DOMAIN log' = 1 .. Len(log')
        BY StepWrites, FrameFacts DEF Writes
    <2>2. e \in (Len(log) + 1) .. Len(log')
        BY <1>6, <2>1 DEF New
    <2> QED
        BY <2>2, StepWrites DEF Writes
<1> QED
    BY <1>4, <1>5, <1>6 DEF From

LEMMA NewIsLater ==
    ASSUME TreeInv, NEW a \in DOMAIN acts, Step(a)
    PROVE  /\ DOMAIN log \subseteq DOMAIN log'
           /\ \A e \in DOMAIN log : \A f : New(f) => e < f
<1>1. /\ Len(log) \in Nat /\ DOMAIN log = 1 .. Len(log)
      /\ Len(log') \in Nat /\ DOMAIN log' = 1 .. Len(log') /\ Len(log) <= Len(log')
    BY StepWrites, FrameFacts DEF Writes
<1> QED
    BY <1>1 DEF New

\* A flow or a workflow that runs its sub-agents in turn starts to wait with a callee
\* that is new.
LEMMA WaitStep ==
    ASSUME TreeInv, NEW a \in DOMAIN acts, Step(a), Waits(a)'
    PROVE  /\ TransferStart(a) \/ StartSub(a)
           /\ acts'[a].kids[Len(acts'[a].kids)] \notin DOMAIN acts
<1>0. KindOf(a) # "parallel" /\ acts'[a].pc = "waiting"
    BY StepBeside DEF Waits, Beside, KindOf
<1>1. ASSUME TransferStart(a) \/ StartSub(a)
      PROVE  acts'[a].kids[Len(acts'[a].kids)] \notin DOMAIN acts
    <2>1. acts'[a].kids = Append(acts[a].kids, NewId)
        BY <1>1, TransferStartMoves, StartSubMoves DEF Moves
    <2>2. acts[a].kids \in Seq(1 .. Len(acts)) /\ Len(acts) \in Nat /\ DOMAIN acts = 1 .. Len(acts)
        BY FrameFacts DEF FrameType
    <2>3. PICK S : S = Nat
        OBVIOUS
    <2>4. acts[a].kids \in Seq(S) /\ NewId \in S
        BY <2>2, <2>3, SeqMonotonic DEF NewId
    <2>5. /\ Len(Append(acts[a].kids, NewId)) = Len(acts[a].kids) + 1
          /\ Append(acts[a].kids, NewId)[Len(acts[a].kids) + 1] = NewId
        BY <2>4, AppendProperties
    <2>6. acts'[a].kids[Len(acts'[a].kids)] = NewId
        BY <2>1, <2>5
    <2> QED
        BY <2>2, <2>6 DEF NewId
<1>2. ASSUME NEW p, acts' = [acts EXCEPT ![a].pc = p], p # "waiting" PROVE FALSE
    BY <1>0, <1>2, EndMoves DEF Moves
<1>3. ~FlowEnded(a) /\ ~SubFails(a) /\ ~SequenceEnds(a)
    BY <1>2 DEF FlowEnded, SubFails, SequenceEnds
<1>4. ~LoopPassEnds(a) /\ ~Fail(a) /\ ~StepEnds(a)
    <2>1. ~LoopPassEnds(a)
        BY <1>0, LoopPassMoves DEF Moves
    <2>2. ~Fail(a)
        BY <1>0, FailMoves DEF Moves
    <2>3. ~StepEnds(a)
        BY <1>0, StepEndsMoves DEF Moves
    <2> QED
        BY <2>1, <2>2, <2>3
<1>5. ~ModelAnswers(a) /\ ~ModelStalls(a) /\ ~CustomReturns(a) /\ ~ToolsRun(a) /\ ~TransferUnknown(a)
    <2>1. ~ModelAnswers(a) /\ ~ModelStalls(a)
        BY <1>0, ModelMoves DEF Moves
    <2>2. ~CustomReturns(a)
        BY <1>0, CustomMovesTo DEF Moves
    <2>3. ~ToolsRun(a)
        BY <1>0, ToolsMoves DEF Moves
    <2>4. ~TransferUnknown(a)
        BY <1>0, UnknownMoves DEF Moves
    <2> QED
        BY <2>1, <2>2, <2>3, <2>4
<1>6. ~TransferReturns(a) /\ ~SequenceResumes(a) /\ ~LoopResumes(a)
    <2>1. ~TransferReturns(a)
        BY <1>0, TransferReturnsMoves DEF Moves
    <2>2. ~SequenceResumes(a) /\ ~LoopResumes(a)
        BY <1>0, ResumeMoves DEF Moves
    <2> QED
        BY <2>1, <2>2
<1>7. ~Fork(a) /\ ~SendResult(a) /\ ~Join(a) /\ ~JoinEnds(a)
    BY <1>0 DEF Fork, SendResult, Join, JoinEnds
<1> QED
    BY <1>1, <1>3, <1>4, <1>5, <1>6, <1>7
    DEF Step, FlowStep, TransferStep, CustomStep, WorkflowStep, ModelFails, CustomFails,
        TransferRefused, TransferFails

\* What a callee hands up comes from below it.
LEMMA HandedUp ==
    ASSUME TreeInv, ShapeInv, \A x \in DOMAIN acts : HeardInv(x), NEW a \in DOMAIN acts,
           NEW k, Takes(a, k), NEW e, Has(acts[k].events, e)
    PROVE  k \in DOMAIN acts /\ e \in DOMAIN log /\ From(k, e) /\ From(a, e)
<1>1. k \in DOMAIN acts /\ acts[k].parent = a /\ a # 0
    BY InDomain DEF Takes
<1>2. Known(k, e)
    BY DEF Known, Holds
<1>3. e \in DOMAIN log /\ From(k, e)
    BY <1>1, <1>2, Logged DEF HeardInv
<1>4. log[e].act \in DOMAIN acts
    BY <1>3, Actors
<1> QED
    BY <1>1, <1>3, <1>4, WithinFacts DEF From

LEMMA StepHeard ==
    ASSUME TreeInv, TreeInv', ShapeInv, ShapeInv', \A x \in DOMAIN acts : HeardInv(x),
           NEW a \in DOMAIN acts, Step(a), NEW x \in DOMAIN acts'
    PROVE  HeardInv(x)'
<1>1. CASE x \notin DOMAIN acts
    <2>1. \A e : ~Known(x, e)'
        BY <1>1, FreshKnowsNothing
    <2> QED
        BY <2>1 DEF HeardInv
<1> SUFFICES ASSUME x \in DOMAIN acts PROVE HeardInv(x)'
    BY <1>1
<1>2. ASSUME NEW e, Known(x, e)' PROVE From(x, e)'
    <2>1. CASE Known(x, e)
        <3>1. e \in DOMAIN log
            BY <2>1, Logged
        <3>2. From(x, e)
            BY <2>1, <3>1 DEF HeardInv
        <3> QED
            BY <3>1, <3>2, FromStep
    <2>2. CASE x = a /\ New(e)
        BY <2>2, FromStep, WithinFacts
    <2>3. ASSUME x = a, NEW k, Takes(a, k), Has(acts[k].events, e) PROVE From(x, e)'
        BY <2>3, HandedUp, FromStep
    <2> QED
        BY <1>2, <2>1, <2>2, <2>3, KnownStep
<1>3. ASSUME Waits(x)', NEW e \in DOMAIN log', NEW f \in DOMAIN log', Known(x, e)',
             NEW l, l = acts'[x].kids[Len(acts'[x].kids)], From(l, f)'
      PROVE  e < f
    <2>1. CASE x # a
        <3>1. acts'[x] = acts[x] /\ Waits(x) /\ l = LastKid(x)
            <4>1. acts'[x] = acts[x]
                BY <2>1, StepBeside DEF Beside
            <4> QED
                BY <1>3, <4>1 DEF Waits, KindOf, LastKid
        <3>2. Known(x, e) /\ e \in DOMAIN log
            <4>1. Known(x, e)
                BY <1>3, <2>1, KnownStep
            <4> QED
                BY <4>1, Logged
        <3>3. CASE f \in DOMAIN log
            <4>1. From(l, f)
                BY <1>3, <3>3, FromStep
            <4> QED
                BY <3>1, <3>2, <3>3, <4>1 DEF HeardInv
        <3>4. CASE f \notin DOMAIN log
            BY <1>3, <3>2, <3>4, NewIsLater DEF New
        <3> QED
            BY <3>3, <3>4
    <2>2. CASE x = a
        <3>1. l \notin DOMAIN acts /\ log' = log
            BY <1>3, <2>2, WaitStep DEF TransferStart, StartSub
        <3>2. log[f].act \in DOMAIN acts /\ f \in DOMAIN log
            BY <1>3, <3>1, Actors
        <3>3. From(l, f)
            BY <1>3, <3>2, FromStep
        <3> QED
            BY <3>1, <3>2, <3>3, WithinFacts DEF From
    <2> QED
        BY <2>1, <2>2
<1> QED
    BY <1>2, <1>3 DEF HeardInv, LastKid

-----------------------------------------------------------------------------
(* Each request once, each event once, callees in order.                   *)

\* The executed requests of x after a step.
LEMMA DoneAfter ==
    ASSUME TreeInv, ShapeInv, ShapeInv', NEW a \in DOMAIN acts, Step(a),
           NEW x \in DOMAIN acts, NEW e, Done(x, e)'
    PROVE  \/ Done(x, e)
           \/ x = a /\ TransferStart(a) /\ e = NextRequest(a).cause
<1>1. PICK b \in DOMAIN acts' : Transferred(b)' /\ acts'[b].parent = x /\ acts'[b].cause = e
    BY DEF Done
<1>2. CASE b \in DOMAIN acts
    <2>1. acts'[b].parent = acts[b].parent /\ acts'[b].cause = acts[b].cause
        BY <1>2, StepBeside DEF Beside
    <2> QED
        BY <1>1, <1>2, <2>1 DEF Done, Transferred
<1>3. CASE b \notin DOMAIN acts
    BY <1>1, <1>3, DoneStep
<1> QED
    BY <1>2, <1>3

LEMMA StepCauses ==
    ASSUME TreeInv, ShapeInv, ShapeInv',
           \A x \in DOMAIN acts : HeardInv(x) /\ RowInv(x) /\ CausesInv(x),
           NEW a \in DOMAIN acts, Step(a), NEW x \in DOMAIN acts'
    PROVE  CausesInv(x)'
<1>0. ASSUME NEW b \in DOMAIN acts', NEW c \in DOMAIN acts', Transferred(b)',
             acts'[b].parent = x, acts'[c].parent = x, acts'[b].cause = acts'[c].cause,
             b \in DOMAIN acts => c \in DOMAIN acts
      PROVE  b = c
    <2>1. CASE x \notin DOMAIN acts
        <3>1. PICK e : e = acts'[b].cause
            OBVIOUS
        <3>2. Known(x, e)'
            BY <1>0, <3>1 DEF Done, Known
        <3> QED
            BY <2>1, <3>2, FreshKnowsNothing
    <2>2. CASE x \in DOMAIN acts /\ b \in DOMAIN acts
        <3>1. /\ acts'[b].parent = acts[b].parent /\ acts'[b].cause = acts[b].cause
              /\ acts'[c].parent = acts[c].parent /\ acts'[c].cause = acts[c].cause
            BY <1>0, <2>2, StepBeside DEF Beside
        <3> QED
            BY <1>0, <2>2, <3>1 DEF CausesInv, Transferred
    <2>3. CASE x \in DOMAIN acts /\ b \notin DOMAIN acts
        <3>1. /\ TransferStart(a) /\ b = NewId /\ x = a
              /\ acts'[b].cause = NextRequest(a).cause
            BY <1>0, <2>3, DoneStep
        <3>2. CASE c \in DOMAIN acts
            <4>1. Done(a, NextRequest(a).cause)
                <5>1. acts'[c].parent = acts[c].parent /\ acts'[c].cause = acts[c].cause
                    BY <3>2, StepBeside DEF Beside
                <5> QED
                    BY <1>0, <3>1, <3>2, <5>1 DEF Done, Transferred
            <4> QED
                BY <3>1, <4>1, RestCauses DEF CausesInv, TransferStart
        <3>3. CASE c \notin DOMAIN acts
            <4>1. Transferred(c)'
                BY <1>0 DEF Transferred
            <4> QED
                BY <3>1, <3>3, <4>1, DoneStep
        <3> QED
            BY <3>2, <3>3
    <2> QED
        BY <2>1, <2>2, <2>3
<1>4. ASSUME NEW b \in DOMAIN acts', NEW c \in DOMAIN acts', Transferred(b)',
             acts'[b].parent = x, acts'[c].parent = x, acts'[b].cause = acts'[c].cause
      PROVE  b = c
    <2>1. Transferred(c)'
        BY <1>4 DEF Transferred
    <2> QED
        BY <1>0, <1>4, <2>1
<1>1. CASE x \notin DOMAIN acts
    <2>1. \A e : ~Known(x, e)'
        BY <1>1, FreshKnowsNothing
    <2>2. Causes(acts'[x].todo) = <<>>
        <3>1. acts'[x].todo = <<>>
            BY <1>1, StepBeside DEF Beside, Fresh
        <3> QED
            BY <3>1 DEF Causes
    <2>3. \A e, f : ~AskedBefore(x, e, f)'
        BY <2>2, PrecedesFew DEF AskedBefore
    <2> QED
        BY <1>4, <2>1, <2>3 DEF CausesInv, Known
<1>2. ASSUME x \in DOMAIN acts, x # a PROVE CausesInv(x)'
    <2>1. acts'[x] = acts[x]
        BY <1>2, StepBeside DEF Beside
    <2>2. \A e, f : AskedBefore(x, e, f)' => AskedBefore(x, e, f) /\ e \in DOMAIN log /\ f \in DOMAIN log
        BY <2>1, <1>2, Logged DEF AskedBefore, Known
    <2>3. \A e : Asked(x, e)' => Asked(x, e) /\ e \in DOMAIN log
        BY <2>1, <1>2, Logged DEF Asked, Known
    <2>4. \A e : Done(x, e)' => Done(x, e)
        BY <1>2, DoneAfter
    <2> QED
        BY <1>4, <1>2, <2>2, <2>3, <2>4 DEF CausesInv
<1>3. ASSUME x = a PROVE CausesInv(x)'
    <2>1. ASSUME NEW e, NEW f, AskedBefore(a, e, f)' PROVE e # f
        <3>1. ASSUME AskedBefore(a, e, f) PROVE e # f
            BY <3>1, Logged DEF CausesInv, Known
        <3>2. CASE TransferStart(a) /\ acts'[a].todo = Rest(a)
            <4>1. Precedes(Causes(Rest(a)), e, f)
                BY <2>1, <3>2 DEF AskedBefore
            <4> QED
                BY <3>1, <3>2, <4>1, RestCauses DEF TransferStart
        <3>3. CASE TransferReturns(a)
            <4>1. PICK k : k = LastKid(a) /\ Takes(a, k) /\ Waits(a) /\ k \in DOMAIN acts
                BY <3>3, ChainedAsks DEF Takes, TransferReturns, Waits, At
            <4>2. CASE Precedes(acts[k].events, e, f)
                <5>1. Before(k, e, f) /\ Holds(k, e) /\ Holds(k, f)
                    BY <4>1, <4>2, Logged DEF Before
                <5>2. e \in DOMAIN log /\ f \in DOMAIN log
                    BY <4>1, <5>1, Logged DEF Known
                <5> QED
                    BY <4>1, <5>1, <5>2 DEF RowInv
            <4>3. CASE Has(acts[k].events, e) /\ Asked(a, f)
                <5>1. e \in DOMAIN log /\ From(k, e)
                    BY <4>1, <4>3, HandedUp
                <5>2. Known(a, f) /\ f \in DOMAIN log
                    BY <4>3, Logged DEF Known
                <5>3. f < e
                    BY <4>1, <5>1, <5>2 DEF HeardInv
                <5>4. f \in Nat
                    BY <5>2, FrameFacts
                <5> QED
                    BY <5>3, <5>4
            <4> QED
                BY <2>1, <3>1, <3>3, <4>1, <4>2, <4>3, ChainedAsks
        <3> QED
            BY <2>1, <3>1, <3>2, <3>3, TodoStep
    <2>2. ASSUME NEW e, Asked(a, e)', Done(a, e)' PROVE FALSE
        <3>1. Done(a, e) \/ (TransferStart(a) /\ e = NextRequest(a).cause)
            BY <2>2, DoneAfter
        <3>2. Asked(a, e) => e \in DOMAIN log /\ ~Done(a, e)
            BY Logged DEF CausesInv, Known
        <3>3. CASE TransferStart(a) /\ acts'[a].todo = Rest(a)
            <4>1. Asked(a, e) /\ AskedBefore(a, NextRequest(a).cause, e)
                BY <2>2, <3>3, RestCauses DEF Asked, TransferStart
            <4>2. e \in DOMAIN log /\ NextRequest(a).cause \in DOMAIN log
                BY <3>2, <3>3, <4>1, RestCauses DEF TransferStart
            <4>3. e # NextRequest(a).cause
                BY <4>1, <4>2 DEF CausesInv
            <4> QED
                BY <3>1, <3>2, <4>1, <4>3
        <3>4. CASE ToolsRun(a) /\ New(e)
            <4>1. ~TransferStart(a)
                BY <3>4 DEF ToolsRun, TransferStart, At
            <4>2. Known(a, e)
                BY <3>1, <4>1 DEF Known
            <4> QED
                BY <3>4, <4>2, Logged DEF New
        <3>5. CASE TransferReturns(a)
            <4>1. PICK k : k = LastKid(a) /\ Takes(a, k) /\ Waits(a)
                BY <3>5, ChainedAsks DEF TransferReturns, Waits, At
            <4>2. Done(a, e)
                BY <3>1, <3>5 DEF TransferReturns, TransferStart, At
            <4>3. Has(acts[k].events, e)
                BY <2>2, <3>2, <3>5, <4>1, <4>2, ChainedAsks
            <4>4. e \in DOMAIN log /\ From(k, e) /\ Known(a, e)
                BY <4>1, <4>2, <4>3, HandedUp DEF Known
            <4>5. e < e
                BY <4>1, <4>4 DEF HeardInv
            <4>6. e \in Nat
                BY <4>4, FrameFacts
            <4> QED
                BY <4>5, <4>6
        <3> QED
            BY <2>2, <3>1, <3>2, <3>3, <3>4, <3>5, TodoStep
    <2> QED
        BY <1>4, <1>3, <2>1, <2>2 DEF CausesInv
<1> QED
    BY <1>1, <1>2, <1>3

\* An event reaches a parallel agent through one callee only.
LEMMA OneCallee ==
    ASSUME TreeInv, ShapeInv, \A x \in DOMAIN acts : HeardInv(x), NEW x \in DOMAIN acts,
           NEW i \in DOMAIN acts[x].kids, NEW j \in DOMAIN acts[x].kids, NEW e,
           Has(acts[acts[x].kids[i]].events, e), Has(acts[acts[x].kids[j]].events, e)
    PROVE  i = j
<1>1. PICK y, z : y = acts[x].kids[i] /\ z = acts[x].kids[j]
    OBVIOUS
<1>2. y \in DOMAIN acts /\ z \in DOMAIN acts /\ acts[y].parent = x /\ acts[z].parent = x
    BY <1>1, KidFacts DEF ShapeInv, KidsInv
<1>3. e \in DOMAIN log /\ From(y, e) /\ From(z, e)
    <2>1. Known(y, e) /\ Known(z, e)
        BY <1>1 DEF Known, Holds
    <2> QED
        BY <1>2, <2>1, Logged DEF HeardInv
<1>4. y = z
    <2>1. log[e].act \in DOMAIN acts /\ x # 0
        BY <1>3, Actors, InDomain
    <2> QED
        BY <1>2, <1>3, <2>1, OneWayDown DEF From
<1>5. i \in Nat /\ j \in Nat /\ y \in Nat
    <2>1. DOMAIN acts[x].kids = 1 .. Len(acts[x].kids)
        BY KidFacts
    <2>2. y \in Nat
        BY <1>2, KidFacts
    <2> QED
        BY <2>1, <2>2
<1>6. (i < j => y < z) /\ (j < i => z < y)
    BY <1>1 DEF ShapeInv, KidsInv
<1> QED
    BY <1>4, <1>5, <1>6

LEMMA StepRow ==
    ASSUME TreeInv, ShapeInv, \A x \in DOMAIN acts : HeardInv(x) /\ RowInv(x) /\ ParallelInv(x),
           NEW a \in DOMAIN acts, Step(a), NEW x \in DOMAIN acts'
    PROVE  RowInv(x)'
<1>0. NoParallel' => NoParallel
    BY StepBeside DEF Beside, NoParallel, KindOf
<1>1. CASE x \notin DOMAIN acts
    <2>1. acts'[x].events = <<>> /\ acts'[x].now = <<>>
        BY <1>1, StepBeside DEF Beside, Fresh
    <2> QED
        BY <2>1, PrecedesFew DEF RowInv, Before
<1>2. ASSUME NEW y \in DOMAIN acts, NEW e, NEW f, Before(y, e, f)
      PROVE  e # f /\ (NoParallel' => e < f)
    BY <1>0, <1>2, Logged DEF RowInv, Known
<1>3. CASE x \in DOMAIN acts /\ x # a
    <2>1. \A e, f : Before(x, e, f)' => Before(x, e, f)
        BY <1>3, StepBeside DEF Beside, Before
    <2> QED
        BY <1>2, <1>3, <2>1 DEF RowInv
<1>4. ASSUME NEW e, NEW f, Before(a, e, f)' PROVE e # f /\ (NoParallel' => e < f)
    <2>1. CASE Before(a, e, f)
        BY <1>2, <2>1
    <2>2. CASE Holds(a, e) /\ New(f)
        <3>1. e \in DOMAIN log
            BY <2>2, Logged DEF Known
        <3>2. e < f
            BY <2>2, <3>1, NewIsLater
        <3>3. e # f
            BY <2>2, <3>1 DEF New
        <3> QED
            BY <3>2, <3>3
    <2>3. CASE New(e) /\ New(f) /\ e < f
        <3>1. e \in Nat
            BY <2>3, StepWrites DEF New, Writes
        <3> QED
            BY <2>3, <3>1
    <2>4. ASSUME NEW k, Takes(a, k), Holds(a, e), Has(acts[k].events, f)
          PROVE  e # f /\ (NoParallel => e < f)
        <3>1. /\ k \in DOMAIN acts /\ f \in DOMAIN log /\ From(k, f)
              /\ e \in DOMAIN log /\ Known(a, e) /\ e \in Nat
            BY <2>4, HandedUp, Logged, FrameFacts DEF Known
        <3>2. CASE KindOf(a) # "parallel"
            <4>1. e < f
                BY <2>4, <3>1, <3>2 DEF Takes, HeardInv
            <4> QED
                BY <3>1, <4>1
        <3>3. CASE KindOf(a) = "parallel"
            <4>1. ~NoParallel
                BY <3>3 DEF NoParallel
            <4>2. /\ acts[a].round \in DOMAIN acts[a].kids /\ k = acts[a].kids[acts[a].round]
                  /\ acts[a].round \in Nat
                <5>1. acts[a].round \in DOMAIN acts[a].kids /\ k = acts[a].kids[acts[a].round]
                    BY <2>4, <3>3 DEF Takes, Join, ResultOrder
                <5>2. acts[a].round \in Nat
                    BY FrameFacts DEF FrameType
                <5> QED
                    BY <5>1, <5>2
            <4>3. Has(acts[a].events, e)
                <5>1. acts[a].now = <<>>
                    BY <3>3 DEF ShapeInv, KidsInv
                <5> QED
                    BY <2>4, <5>1, PrecedesFew DEF Holds
            <4>4. PICK i \in DOMAIN acts[a].kids :
                     i < acts[a].round /\ Has(acts[acts[a].kids[i]].events, e)
                BY <3>1, <3>3, <4>3 DEF ParallelInv
            <4>5. ASSUME e = f PROVE FALSE
                <5>1. i = acts[a].round
                    BY <2>4, <4>2, <4>4, <4>5, OneCallee
                <5> QED
                    BY <4>2, <4>4, <5>1
            <4> QED
                BY <4>1, <4>5
        <3> QED
            BY <3>2, <3>3
    <2>5. ASSUME NEW k, Takes(a, k), Precedes(acts[k].events, e, f)
          PROVE  e # f /\ (NoParallel' => e < f)
        BY <2>5, <1>2 DEF Takes, Before
    <2>6. CASE Quiet(a)
        BY <1>4, <2>1, <2>6 DEF Quiet
    <2>7. CASE Speaks(a)
        BY <1>4, <2>1, <2>2, <2>3, <2>7 DEF Speaks
    <2>8. ASSUME NEW k, Takes(a, k) PROVE e # f /\ (NoParallel' => e < f)
        BY <1>0, <1>4, <2>1, <2>4, <2>5, <2>8 DEF Takes
    <2> QED
        BY <2>6, <2>7, <2>8, StepHolds
<1>5. CASE x = a
    BY <1>4, <1>5 DEF RowInv
<1> QED
    BY <1>1, <1>3, <1>5

\* Of the steps of a parallel agent only its joins change what it has joined.
LEMMA ParallelSteps ==
    ASSUME TreeInv, ShapeInv, NEW a \in DOMAIN acts, Step(a), KindOf(a) = "parallel"
    PROVE  Fork(a) \/ SendResult(a) \/ Join(a) \/ JoinEnds(a)
<1>1. ~FlowStep(a) /\ ~CustomStep(a) /\ ~TransferStep(a)
    BY DEF FlowStep, FlowEnded, ModelAnswers, ModelStalls, ModelFails, ToolsRun, StepEnds, At,
           CustomStep, CustomReturns, CustomFails, TransferStep, TransferUnknown,
           TransferRefused, TransferStart, TransferReturns, TransferFails, ShapeInv, KidsInv
<1> QED
    BY <1>1 DEF Step, WorkflowStep, StartSub, SequenceResumes, LoopResumes, SubFails,
                SequenceEnds, LoopPassEnds, InTurn

LEMMA StepParallel ==
    ASSUME TreeInv, ShapeInv, \A x \in DOMAIN acts : HeardInv(x) /\ ParallelInv(x),
           NEW a \in DOMAIN acts, Step(a), NEW x \in DOMAIN acts'
    PROVE  ParallelInv(x)'
<1> DEFINE out(i) == acts[acts[x].kids[i]].events
<1>1. CASE x \notin DOMAIN acts
    <2>1. /\ acts'[x].events = <<>> /\ acts'[x].kids = <<>> /\ acts'[x].round = 1
          /\ acts'[x].pc = "ready"
        BY <1>1, StepBeside DEF Beside, Fresh
    <2>2. DOMAIN acts'[x].kids = {}
        BY <2>1
    <2>3. \A e, f : ~Has(acts'[x].events, e) /\ ~Precedes(acts'[x].events, e, f)
        BY <2>1, PrecedesFew
    <2>4. ~Finished(x)'
        BY <2>1 DEF Finished
    <2> QED
        BY <2>1, <2>2, <2>3, <2>4 DEF ParallelInv
<1> SUFFICES ASSUME x \in DOMAIN acts, KindOf(x) = "parallel" PROVE ParallelInv(x)'
    BY <1>1, StepBeside DEF Beside, ParallelInv, KindOf
<1>2. /\ DOMAIN acts[x].kids \subseteq Nat \ {0} /\ acts[x].round \in Nat \ {0}
      /\ Len(acts[x].kids) \in Nat /\ DOMAIN acts[x].kids = 1 .. Len(acts[x].kids)
      /\ \A i \in DOMAIN acts[x].kids : acts[x].kids[i] \in DOMAIN acts
    <2>1. /\ Len(acts[x].kids) \in Nat /\ DOMAIN acts[x].kids = 1 .. Len(acts[x].kids)
          /\ \A i \in DOMAIN acts[x].kids : acts[x].kids[i] \in DOMAIN acts
        BY KidFacts
    <2>2. acts[x].round \in Nat \ {0}
        BY FrameFacts DEF FrameType
    <2> QED
        BY <2>1, <2>2
<1>3. ~Finished(a)
    <2>1. At(a, "ready") \/ At(a, "step") \/ At(a, "waiting")
        BY DEF Step, FlowStep, FlowEnded, ModelAnswers, ModelStalls, ModelFails, ToolsRun, StepEnds,
               TransferStep, TransferUnknown, TransferRefused, TransferStart, TransferReturns,
               TransferFails, CustomStep, CustomReturns, CustomFails, WorkflowStep,
               StartSub, SequenceResumes, LoopResumes, SubFails, SequenceEnds, LoopPassEnds, Fork,
               SendResult, Join, JoinEnds
    <2> QED
        BY <2>1 DEF At, Finished
<1>4. \A e : Has(acts[x].events, e) => e \in DOMAIN log
    BY Logged DEF Known, Holds
<1>5. \A i \in DOMAIN acts[x].kids : \A e : Has(out(i), e) => e \in DOMAIN log
    BY <1>2, Logged DEF Known, Holds
<1>6. CASE x # a
    <2>1. acts'[x] = acts[x]
        BY <1>6, StepBeside DEF Beside
    <2>2. CASE \E i \in DOMAIN acts[x].kids : acts[x].kids[i] = a
        <3>1. acts[x].round = 1 /\ ~Finished(x)
            BY <1>2, <1>3, <2>2 DEF ParallelInv
        <3>2. \A i \in DOMAIN acts[x].kids : ~(i < 1)
            BY <1>2
        <3>3. \A e : ~Has(acts[x].events, e)
            BY <1>4, <3>1, <3>2 DEF ParallelInv
        <3>4. \A e, f : ~Precedes(acts[x].events, e, f)
            BY <3>3 DEF Precedes, Has
        <3>5. acts[x].pc = "ready" => acts[x].kids = <<>> /\ acts[x].events = <<>>
            BY DEF ParallelInv
        <3>6. ~Finished(x)'
            BY <2>1, <3>1 DEF Finished
        <3> QED
            BY <2>1, <3>1, <3>2, <3>3, <3>4, <3>5, <3>6 DEF ParallelInv
    <2>3. CASE \A i \in DOMAIN acts[x].kids : acts[x].kids[i] # a
        <3>1. \A i \in DOMAIN acts[x].kids : acts'[acts[x].kids[i]] = acts[acts[x].kids[i]]
            BY <1>2, <2>3, StepBeside DEF Beside
        <3>2. \A e \in DOMAIN log' : e \notin DOMAIN log =>
                 /\ ~Has(acts[x].events, e)
                 /\ \A i \in DOMAIN acts[x].kids : ~Has(out(i), e)
            BY <1>4, <1>5
        <3>3. \A e, f : Precedes(acts[x].events, e, f) => e \in DOMAIN log /\ f \in DOMAIN log
            BY <1>4 DEF Precedes, Has
        <3> QED
            BY <2>1, <3>1, <3>2, <3>3 DEF ParallelInv, Finished
    <2> QED
        BY <2>2, <2>3
<1>7. ASSUME x = a, Fork(a) PROVE ParallelInv(x)'
    <2>1. acts[a].pc = "ready" /\ acts[a].events = <<>> /\ acts[a].round = 1
        BY <1>7 DEF ParallelInv, Fork, At
    <2>2. PICK k \in Nat : Moves(a, k, "waiting", acts[a].round, [i \in 1 .. k |-> Len(acts) + i],
                       acts[a].now, acts[a].todo, acts[a].events, acts[a].arrived)
        BY <1>7, ForkMoves
    <2>3. /\ acts'[a].pc = "waiting" /\ acts'[a].events = <<>> /\ acts'[a].round = 1
          /\ DOMAIN acts'[a].kids = 1 .. k
        BY <2>1, <2>2 DEF Moves
    <2>4. \A i \in 1 .. k : ~(i < 1)
        OBVIOUS
    <2>5. \A e, f : ~Has(acts'[a].events, e) /\ ~Precedes(acts'[a].events, e, f)
        BY <2>3, PrecedesFew
    <2>6. acts'[x].pc = "waiting" /\ acts'[x].round = 1 /\ DOMAIN acts'[x].kids = 1 .. k
        BY <1>7, <2>3
    <2>7. \A e, f : ~Has(acts'[x].events, e) /\ ~Precedes(acts'[x].events, e, f)
        BY <1>7, <2>5
    <2> HIDE <2>3, <2>5
    <2> QED
        BY <2>4, <2>6, <2>7 DEF ParallelInv, Finished
<1>8. ASSUME x = a, NEW p, acts'[a].pc = p, acts'[a].events = acts[a].events,
             acts'[a].kids = acts[a].kids, acts'[a].round = acts[a].round,
             log' = log, p # "ready",
             p \in {"returned", "failed"} =>
                 /\ \A i \in DOMAIN acts[a].kids : Finished(acts[a].kids[i])
                 /\ acts[a].round > Len(acts[a].kids)
      PROVE  ParallelInv(x)'
    <2>1. \A i \in DOMAIN acts[a].kids : acts[a].kids[i] # a
        <3>1. ASSUME NEW i \in DOMAIN acts[a].kids, acts[a].kids[i] = a PROVE FALSE
            <4>1. acts[a].parent = a
                BY <3>1 DEF ShapeInv, KidsInv
            <4>2. acts[a].parent < a /\ a \in Nat
                BY KidFacts
            <4> QED
                BY <4>1, <4>2
        <3> QED
            BY <3>1
    <2>2. \A i \in DOMAIN acts[a].kids : acts'[acts[a].kids[i]] = acts[acts[a].kids[i]]
        BY <1>2, <1>8, <2>1, StepBeside DEF Beside
    <2>3. \A i \in DOMAIN acts[a].kids :
             /\ acts'[acts[a].kids[i]].events = acts[acts[a].kids[i]].events
             /\ Finished(acts[a].kids[i]) => acts'[acts[a].kids[i]].pc \in {"returned", "failed"}
        BY <2>2 DEF Finished
    <2>5. /\ acts[a].round > 1 => \A i \in DOMAIN acts[a].kids : Finished(acts[a].kids[i])
          /\ \A e \in DOMAIN log :
                Has(acts[a].events, e)
                <=> \E i \in DOMAIN acts[a].kids :
                       i < acts[a].round /\ Has(acts[acts[a].kids[i]].events, e)
          /\ \A e, f \in DOMAIN log : Precedes(acts[a].events, e, f) =>
                \A i, j \in DOMAIN acts[a].kids :
                   Has(acts[acts[a].kids[i]].events, e) /\ Has(acts[acts[a].kids[j]].events, f)
                   => i <= j
        BY <1>8 DEF ParallelInv
    <2>6. \A i \in DOMAIN acts[a].kids :
             Finished(acts[a].kids[i]) => acts'[acts'[a].kids[i]].pc \in {"returned", "failed"}
        BY <1>8, <2>3 DEF Finished
    <2> QED
        BY <1>8, <2>3, <2>5, <2>6 DEF ParallelInv, Finished
<1>9. ASSUME x = a, SendResult(a) PROVE ParallelInv(x)'
    <2>1. /\ acts'[a].pc = "waiting" /\ acts'[a].events = acts[a].events /\ log' = log
          /\ acts'[a].kids = acts[a].kids /\ acts'[a].round = acts[a].round
        BY <1>9, SendMoves DEF Moves, SendResult
    <2> QED
        BY <1>8, <1>9, <2>1
<1>10. ASSUME x = a, JoinEnds(a) PROVE ParallelInv(x)'
    <2>1. PICK p : acts' = [acts EXCEPT ![a].pc = p] /\ p \in {"returned", "failed"}
        BY <1>10 DEF JoinEnds
    <2>2. /\ acts'[a].pc = p /\ acts'[a].events = acts[a].events /\ log' = log
          /\ acts'[a].kids = acts[a].kids /\ acts'[a].round = acts[a].round
        BY <1>10, <2>1, EndMoves DEF Moves, JoinEnds
    <2>3. \A i \in DOMAIN acts[a].kids : Finished(acts[a].kids[i])
        BY <1>10, AllArrived DEF JoinEnds, At
    <2>4. acts[a].round > Len(acts[a].kids)
        BY <1>2, <1>10 DEF JoinEnds, ResultOrder
    <2> QED
        BY <1>8, <1>10, <2>1, <2>2, <2>3, <2>4
<1>11. ASSUME x = a, Join(a) PROVE ParallelInv(x)'
    <2> DEFINE r == acts[a].round  ks == acts[a].kids
    <2>1. /\ acts'[a].pc = "waiting" /\ acts'[a].round = r + 1 /\ acts'[a].kids = ks
          /\ acts'[a].events = acts[a].events \o out(r) /\ log' = log /\ r \in DOMAIN ks
        BY <1>11, JoinMoves DEF Moves, Join, ResultOrder
    <2>2. \A i \in DOMAIN ks : Finished(ks[i]) /\ ks[i] # a
        <3>1. \A i \in DOMAIN ks : Finished(ks[i])
            BY <1>11, AllArrived DEF Join, At
        <3> QED
            BY <1>3, <3>1
    <2>3. \A i \in DOMAIN ks : acts'[ks[i]] = acts[ks[i]]
        BY <1>2, <1>11, <2>2, StepBeside DEF Beside
    <2>4. Listed(acts[a].events) /\ Listed(out(r))
        BY <1>2, <1>11, <2>1, FieldsAreLists
    <2>5. PICK es, new : es = acts[a].events /\ new = out(r)
        OBVIOUS
    <2>6. \A e : Has(acts'[a].events, e) <=> Has(es, e) \/ Has(new, e)
        <3>1. \A e : Has(es \o new, e) <=> Has(es, e) \/ Has(new, e)
            BY <2>4, <2>5, HasJoined
        <3> QED
            BY <2>1, <2>5, <3>1
    <2>7. \A e, f : Precedes(acts'[a].events, e, f) =>
             Precedes(es, e, f) \/ Precedes(new, e, f) \/ (Has(es, e) /\ Has(new, f))
        <3>1. \A e, f : Precedes(es \o new, e, f) =>
                 Precedes(es, e, f) \/ Precedes(new, e, f) \/ (Has(es, e) /\ Has(new, f))
            BY <2>4, <2>5, PrecedesJoined
        <3> QED
            BY <2>1, <2>5, <3>1
    <2>8. \A e \in DOMAIN log : Has(es, e) <=> \E i \in DOMAIN ks : i < r /\ Has(out(i), e)
        BY <1>11, <2>5 DEF ParallelInv
    <2>9. \A i \in DOMAIN ks : i < r + 1 <=> (i < r \/ i = r)
        BY <1>2, <1>11
    <2>10. \A e \in DOMAIN log : Has(acts'[a].events, e)
                                 <=> \E i \in DOMAIN ks : i < r + 1 /\ Has(out(i), e)
        <3> HIDE DEF r, ks
        <3> QED
            BY <2>1, <2>5, <2>6, <2>8, <2>9
    <2>11. ASSUME NEW e \in DOMAIN log, NEW f \in DOMAIN log, Precedes(acts'[a].events, e, f),
                  NEW i \in DOMAIN ks, NEW j \in DOMAIN ks, Has(out(i), e), Has(out(j), f)
           PROVE  i <= j
        <3>1. i \in Nat /\ j \in Nat /\ r \in Nat
            BY <1>2, <1>11
        <3>2. Has(new, e) => i = r
            BY <1>11, <2>1, <2>5, <2>11, OneCallee
        <3>3. Has(new, f) => j = r
            BY <1>11, <2>1, <2>5, <2>11, OneCallee
        <3>4. CASE Precedes(es, e, f)
            BY <1>11, <2>5, <2>11, <3>4 DEF ParallelInv
        <3>5. CASE Precedes(new, e, f)
            <4>1. Has(new, e) /\ Has(new, f)
                BY <3>5 DEF Precedes, Has
            <4> QED
                BY <3>1, <3>2, <3>3, <4>1
        <3>6. CASE Has(es, e) /\ Has(new, f)
            <4>1. PICK i2 \in DOMAIN ks : i2 < r /\ Has(out(i2), e)
                BY <2>8, <3>6
            <4>2. i = i2
                BY <1>11, <2>11, <4>1, OneCallee
            <4> QED
                BY <3>1, <3>3, <3>6, <4>1, <4>2
        <3> QED
            BY <2>7, <2>11, <3>4, <3>5, <3>6
    <2>12. ~Finished(a)'
        BY <2>1 DEF Finished
    <2>13. \A i \in DOMAIN ks : Finished(ks[i])'
        BY <1>11, <2>1, <2>2, <2>3 DEF Finished
    <2> QED
        BY <1>11, <2>1, <2>3, <2>10, <2>11, <2>12, <2>13 DEF ParallelInv
<1> QED
    BY <1>6, <1>7, <1>9, <1>10, <1>11, ParallelSteps

LEMMA SlicesInit == TreeInit => SlicesInv
<1> SUFFICES ASSUME TreeInit PROVE SlicesInv
    OBVIOUS
<1>1. PICK g \in Entry : acts = <<Frame(g, 0, 0, 0, 0)>>
    BY DEF TreeInit
<1>2. DOMAIN acts = {1} /\ acts[1] = Frame(g, 0, 0, 0, 0) /\ DOMAIN log = {}
    BY <1>1 DEF TreeInit
<1>3. /\ acts[1].cause = 0 /\ acts[1].events = <<>> /\ acts[1].kids = <<>>
      /\ acts[1].round = 1 /\ acts[1].pc = "ready" /\ acts[1].parent = 0
    BY <1>2 DEF Frame
<1>4. ~Finished(1) /\ ~Waits(1) /\ ~Transferred(1) /\ DOMAIN acts[1].kids = {}
    BY <1>3 DEF Finished, Waits, Transferred
<1>5. HeardInv(1) /\ RowInv(1) /\ CausesInv(1)
    BY <1>2, <1>4 DEF HeardInv, RowInv, CausesInv
<1>6. ParallelInv(1)
    BY <1>2, <1>3, <1>4 DEF ParallelInv
<1> QED
    BY <1>2, <1>5, <1>6 DEF SlicesInv

LEMMA SlicesNext ==
    TreeInv /\ TreeInv' /\ ShapeInv /\ ShapeInv' /\ SlicesInv /\ [TreeNext]_vars => SlicesInv'
<1> SUFFICES ASSUME TreeInv, TreeInv', ShapeInv, ShapeInv', SlicesInv, [TreeNext]_vars
             PROVE  SlicesInv'
    OBVIOUS
<1>1. CASE UNCHANGED vars
    <2>1. Within' = Within
        BY <1>1 DEF vars, Within
    <2> QED
        BY <1>1, <2>1 DEF vars, SlicesInv, HeardInv, RowInv, CausesInv, ParallelInv, Known, Holds,
                          Asked, Done, Before, AskedBefore, From, Waits, LastKid, KindOf,
                          NoParallel, Finished, Transferred
<1>2. ASSUME NEW a \in DOMAIN acts, Step(a), NEW x \in DOMAIN acts'
      PROVE  HeardInv(x)' /\ RowInv(x)' /\ CausesInv(x)' /\ ParallelInv(x)'
    BY <1>2, StepHeard, StepRow, StepCauses, StepParallel DEF SlicesInv
<1>3. CASE TreeNext
    BY <1>2, <1>3 DEF TreeNext, Step, SlicesInv
<1> QED
    BY <1>1, <1>3

LEMMA SlicesAlways == TreeSpec => [](TreeInv /\ ShapeInv /\ SlicesInv)
<1>1. TreeInit => ShapeInv
    BY ShapeInit
<1> QED
    BY <1>1, SlicesInit, InitInv, NextInv, ShapeNext, SlicesNext, PTL DEF TreeSpec

\* Each flow executes the request of one event at most once, and only of an event of its
\* own or from below it, although it scans the events of a target again that has returned;
\* flows above one another may each execute it (flow/flow.go, Flow.executeTransfer).
THEOREM TransfersHappenOnce == TreeSpec => []TransferOncePerFlow
<1>1. ASSUME TreeInv, ShapeInv, SlicesInv PROVE TransferOncePerFlow
    <2> SUFFICES ASSUME NEW a \in DOMAIN acts, Transferred(a)
                 PROVE  /\ acts[a].parent \in Within[log[acts[a].cause].act]
                        /\ \A b \in DOMAIN acts : acts[b].cause = acts[a].cause
                              /\ acts[b].parent = acts[a].parent => a = b
        BY DEF TransferOncePerFlow
    <2>1. PICK p, e : p = acts[a].parent /\ e = acts[a].cause
        OBVIOUS
    <2>2. p \in DOMAIN acts
        BY <2>1, <1>1 DEF TreeInv, CallersKnown
    <2>3. Known(p, e)
        BY <2>1 DEF Known, Done
    <2>4. e \in DOMAIN log /\ From(p, e)
        BY <1>1, <2>2, <2>3, Logged DEF SlicesInv, HeardInv
    <2>5. \A b \in DOMAIN acts : acts[b].cause = e /\ acts[b].parent = p => a = b
        BY <1>1, <2>1, <2>2 DEF SlicesInv, CausesInv
    <2> QED
        BY <2>1, <2>4, <2>5 DEF From
<1> QED
    BY <1>1, SlicesAlways, PTL

-----------------------------------------------------------------------------
(* Nothing is lost on its way up.                                          *)

\* Whoever steps has not finished.
LEMMA Running ==
    ASSUME NEW a \in DOMAIN acts, Step(a) PROVE ~Finished(a)
<1>1. At(a, "ready") \/ At(a, "step") \/ At(a, "waiting")
    BY DEF Step, FlowStep, FlowEnded, ModelAnswers, ModelStalls, ModelFails, ToolsRun, StepEnds,
           TransferStep, TransferUnknown, TransferRefused, TransferStart, TransferReturns,
           TransferFails, CustomStep, CustomReturns, CustomFails, WorkflowStep,
           StartSub, SequenceResumes, LoopResumes, SubFails, SequenceEnds, LoopPassEnds, Fork,
           SendResult, Join, JoinEnds
<1> QED
    BY <1>1 DEF At, Finished

\* Everything above an activation that has not finished waits for it.
LEMMA Callers ==
    ASSUME TreeInv, ShapeInv, NEW a \in DOMAIN acts, ~Finished(a), NEW x \in Within[a], x # a
    PROVE  /\ x \in DOMAIN acts /\ acts[x].pc = "waiting"
           /\ \E y \in Within[a] :
                 /\ ~Finished(y)
                 /\ KindOf(x) # "parallel" => LastKid(x) = y
                 /\ \E i \in DOMAIN acts[x].kids : acts[x].kids[i] = y
<1>1. PICK G : G = {y \in Within[a] : ~Finished(y)}
    OBVIOUS
<1>2. Within[a] \subseteq DOMAIN acts /\ a \in G
    BY <1>1, WithinFacts
<1>3. Upward(G)
    <2>1. ASSUME NEW y \in G, acts[y].parent # 0 PROVE acts[y].parent \in G
        <3>1. PICK p : p = acts[y].parent
            OBVIOUS
        <3>2. y \in DOMAIN acts /\ ~Finished(y) /\ p \in Within[a]
            BY <1>1, <1>2, <2>1, <3>1, WithinFacts
        <3>3. acts[p].pc = "waiting"
            BY <2>1, <3>1, <3>2 DEF ShapeInv, CallInv
        <3> QED
            BY <1>1, <3>1, <3>2, <3>3 DEF Finished
    <2> QED
        BY <1>1, <1>2, <2>1 DEF Upward
<1>4. Within[a] \subseteq G
    BY <1>2, <1>3, WithinEquation
<1>5. PICK z \in Within[a] : acts[z].parent = x
    BY WayDown
<1>6. z \in DOMAIN acts /\ x # 0 /\ x \in DOMAIN acts
    BY <1>2, InDomain
<1>7. ~Finished(z)
    BY <1>1, <1>4
<1>8. /\ acts[x].pc = "waiting" /\ (KindOf(x) # "parallel" => LastKid(x) = z)
      /\ \E i \in DOMAIN acts[x].kids : acts[x].kids[i] = z
    BY <1>5, <1>6, <1>7 DEF ShapeInv, CallInv
<1> QED
    BY <1>6, <1>7, <1>8

\* A wait ends with what the callee returned, or with a failure.
LEMMA WaitEnds ==
    ASSUME TreeInv, ShapeInv, NEW a \in DOMAIN acts, Step(a), Waits(a), acts'[a].pc # "failed"
    PROVE  Takes(a, LastKid(a))
<1>1. TransferReturns(a) \/ TransferFails(a) \/ SequenceResumes(a) \/ LoopResumes(a) \/ SubFails(a)
    BY DEF Waits, Step, FlowStep, FlowEnded, ModelAnswers, ModelStalls, ModelFails, ToolsRun,
           StepEnds, TransferStep, TransferUnknown, TransferRefused, TransferStart,
           CustomStep, CustomReturns, CustomFails, WorkflowStep, StartSub, SequenceEnds,
           LoopPassEnds, Fork, SendResult, Join, JoinEnds, At
<1>2. ~TransferFails(a)
    BY FailMoves DEF Moves, TransferFails
<1>3. ~SubFails(a)
    <2>1. SubFails(a) => acts' = [acts EXCEPT ![a].pc = "failed"]
        BY DEF SubFails
    <2> QED
        BY <2>1, EndMoves DEF Moves
<1> QED
    BY <1>1, <1>2, <1>3, TransferTakes, ResumeTakes

\* An activation that returned holds everything from below it.
LEMMA ReturnedHolds ==
    ASSUME TreeInv, ShapeInv, KeptInv, NoFailure, NEW k \in DOMAIN acts, acts[k].pc = "returned",
           NEW e \in DOMAIN log, From(k, e)
    PROVE  Has(acts[k].events, e)
<1>1. Holds(k, e)
    BY DEF KeptInv, ConservedInv, StillComes, Waits
<1>2. acts[k].now = <<>>
    BY DEF ShapeInv, KidsInv
<1> QED
    BY <1>1, <1>2, PrecedesFew DEF Holds

LEMMA StepConserved ==
    ASSUME TreeInv, TreeInv', ShapeInv, SlicesInv, KeptInv, NEW a \in DOMAIN acts, Step(a),
           NEW x \in DOMAIN acts', NoFailure', NEW e \in DOMAIN log', From(x, e)'
    PROVE  Holds(x, e)' \/ StillComes(x, e)'
<1>0. NoFailure
    <2>1. ASSUME NEW b \in DOMAIN acts, acts[b].pc = "failed" PROVE FALSE
        <3>1. b # a
            BY <2>1, Running DEF Finished
        <3>2. acts'[b] = acts[b] /\ b \in DOMAIN acts'
            BY <2>1, <3>1, StepBeside DEF Beside
        <3> QED
            BY <2>1, <3>2 DEF NoFailure
    <2> QED
        BY <2>1 DEF NoFailure
<1>1. \/ e \in DOMAIN log /\ From(x, e) /\ x \in DOMAIN acts
      \/ New(e) /\ x \in Within[a] /\ x \in DOMAIN acts
    <2>1. CASE e \in DOMAIN log
        <3>1. From(x, e) /\ log[e].act \in DOMAIN acts
            BY <2>1, FromStep, Actors
        <3> QED
            BY <2>1, <3>1, WithinFacts DEF From
    <2>2. CASE e \notin DOMAIN log
        <3>1. New(e)
            BY <2>2 DEF New
        <3> QED
            BY <3>1, FromStep, WithinFacts
    <2> QED
        BY <2>1, <2>2
<1>2. CASE x # a
    <2>1. acts'[x] = acts[x]
        BY <1>1, <1>2, StepBeside DEF Beside
    <2>2. KindOf(x)' = KindOf(x) /\ LastKid(x) = acts'[x].kids[Len(acts'[x].kids)]
          /\ (Waits(x)' <=> Waits(x)) /\ (Holds(x, e)' <=> Holds(x, e))
        BY <2>1 DEF KindOf, Waits, Holds, LastKid
    <2>3. CASE e \in DOMAIN log /\ From(x, e)
        <3>1. Holds(x, e) \/ StillComes(x, e)
            BY <1>0, <1>1, <2>3 DEF KeptInv, ConservedInv
        <3>2. \A y : From(y, e) <=> From(y, e)'
            BY <2>3, FromStep
        <3> QED
            BY <2>1, <2>2, <3>1, <3>2 DEF StillComes, LastKid, From
    <2>4. CASE New(e) /\ x \in Within[a]
        <3>1. PICK y \in Within[a] :
                 /\ ~Finished(y)
                 /\ KindOf(x) # "parallel" => LastKid(x) = y
                 /\ \E i \in DOMAIN acts[x].kids : acts[x].kids[i] = y
            BY <1>2, <2>4, Running, Callers
        <3>2. x \in DOMAIN acts /\ acts[x].pc = "waiting"
            BY <1>2, <2>4, Running, Callers
        <3>3. From(y, e)'
            BY <2>4, <3>1, FromStep
        <3>4. CASE KindOf(x) # "parallel"
            <4>1. Waits(x) /\ LastKid(x) = y
                BY <3>1, <3>2, <3>4 DEF Waits
            <4> QED
                BY <2>1, <2>2, <3>3, <4>1 DEF StillComes, LastKid, From
        <3>5. CASE KindOf(x) = "parallel"
            <4>1. PICK i \in DOMAIN acts[x].kids : acts[x].kids[i] = y
                BY <3>1
            <4>2. ~(acts[x].round > 1)
                BY <3>1, <3>2, <3>5, <4>1 DEF SlicesInv, ParallelInv
            <4>3. acts[x].round \in Nat
                BY <3>2, FrameFacts DEF FrameType
            <4>4. DOMAIN acts[x].kids = 1 .. Len(acts[x].kids)
                BY <3>2, KidFacts
            <4>5. acts[x].round <= i
                BY <4>1, <4>2, <4>3, <4>4
            <4> QED
                BY <2>1, <2>2, <3>2, <3>3, <3>5, <4>1, <4>5 DEF StillComes, From
        <3> QED
            BY <3>4, <3>5
    <2> QED
        BY <1>1, <2>3, <2>4
<1>3. CASE x = a /\ New(e)
    BY <1>3, StepHolds DEF Quiet, Takes, Speaks, New
<1>4. CASE x = a /\ Holds(a, e)
    <2>1. acts'[a].pc # "failed"
        BY <1>4 DEF NoFailure
    <2> QED
        BY <1>4, <2>1, StepHolds DEF Quiet, Takes, Speaks
<1>5. CASE x = a /\ e \in DOMAIN log /\ Waits(a) /\ From(LastKid(a), e)
    <2>1. acts'[a].pc # "failed"
        BY <1>5 DEF NoFailure
    <2>2. PICK k : k = LastKid(a)
        OBVIOUS
    <2>3. Takes(a, k) /\ k \in DOMAIN acts /\ acts[k].pc = "returned"
        BY <1>5, <2>1, <2>2, WaitEnds DEF Takes, Waits
    <2>4. Has(acts[k].events, e)
        BY <1>0, <1>5, <2>2, <2>3, ReturnedHolds
    <2> QED
        BY <1>5, <2>3, <2>4 DEF Takes
<1>6. ASSUME x = a, e \in DOMAIN log, KindOf(a) = "parallel", acts[a].pc = "waiting",
             NEW i \in DOMAIN acts[a].kids, acts[a].round <= i, From(acts[a].kids[i], e)
      PROVE  Holds(a, e)' \/ StillComes(a, e)'
    <2>0. KindOf(a)' = "parallel" /\ i \in Nat /\ acts[a].round \in Nat
        <3>1. acts[a].round \in Nat
            BY FrameFacts DEF FrameType
        <3>2. DOMAIN acts[a].kids = 1 .. Len(acts[a].kids)
            BY KidFacts
        <3> QED
            BY <1>6, <3>1, <3>2, StepBeside DEF Beside, KindOf
    <2>1. PICK k : k = acts[a].kids[i]
        OBVIOUS
    <2>2. From(k, e)'
        BY <1>6, <2>1, FromStep
    <2>3. CASE SendResult(a)
        <3>1. /\ acts'[a].pc = "waiting" /\ acts'[a].kids = acts[a].kids
              /\ acts'[a].round = acts[a].round
            BY <2>3, SendMoves DEF Moves
        <3> QED
            BY <1>6, <2>0, <2>1, <2>2, <3>1 DEF StillComes, From
    <2>4. CASE Join(a) /\ i # acts[a].round
        <3>1. /\ acts'[a].pc = "waiting" /\ acts'[a].kids = acts[a].kids
              /\ acts'[a].round = acts[a].round + 1
            BY <2>4, JoinMoves DEF Moves
        <3>2. acts[a].round + 1 <= i
            BY <1>6, <2>0, <2>4
        <3> QED
            BY <1>6, <2>0, <2>1, <2>2, <3>1, <3>2 DEF StillComes, From
    <2>5. CASE Join(a) /\ i = acts[a].round
        <3>1. Takes(a, k) /\ k \in DOMAIN acts
            BY <2>1, <2>5, JoinTakes DEF Takes
        <3>2. Finished(k)
            BY <1>6, <2>1, <2>5, AllArrived DEF Join
        <3>3. acts[k].pc = "returned"
            BY <1>0, <3>1, <3>2 DEF Finished, NoFailure
        <3>4. Has(acts[k].events, e)
            BY <1>0, <1>6, <2>1, <3>1, <3>3, ReturnedHolds
        <3> QED
            BY <3>1, <3>4 DEF Takes
    <2>6. CASE JoinEnds(a)
        <3>1. acts[a].round \notin DOMAIN acts[a].kids
            BY <2>6 DEF JoinEnds, ResultOrder
        <3>2. acts[a].round \in Nat \ {0}
            BY FrameFacts DEF FrameType
        <3>3. DOMAIN acts[a].kids = 1 .. Len(acts[a].kids) /\ Len(acts[a].kids) \in Nat
            BY KidFacts
        <3> QED
            BY <1>6, <3>1, <3>2, <3>3
    <2>7. ~Fork(a)
        BY <1>6 DEF Fork, At
    <2> QED
        BY <1>6, <2>3, <2>4, <2>5, <2>6, <2>7, ParallelSteps
<1>7. CASE x = a /\ e \in DOMAIN log /\ From(a, e)
    <2>1. Holds(a, e) \/ StillComes(a, e)
        BY <1>0, <1>7 DEF KeptInv, ConservedInv
    <2> QED
        BY <1>4, <1>5, <1>6, <1>7, <2>1 DEF StillComes
<1> QED
    BY <1>1, <1>2, <1>3, <1>7

LEMMA InTurnSteps ==
    ASSUME TreeInv, ShapeInv, NEW a \in DOMAIN acts, Step(a), KindOf(a) \in InTurn
    PROVE  \/ StartSub(a) \/ SequenceResumes(a) \/ LoopResumes(a) \/ SubFails(a)
           \/ SequenceEnds(a) \/ LoopPassEnds(a)
<1>1. ~FlowStep(a) /\ ~CustomStep(a) /\ ~TransferStep(a)
    BY DEF FlowStep, FlowEnded, ModelAnswers, ModelStalls, ModelFails, ToolsRun, StepEnds, At,
           CustomStep, CustomReturns, CustomFails, TransferStep, TransferUnknown,
           TransferRefused, TransferStart, TransferReturns, TransferFails, ShapeInv, KidsInv, InTurn
<1> QED
    BY <1>1 DEF Step, WorkflowStep, Fork, SendResult, Join, JoinEnds, InTurn

\* What a sequence or a loop waited for is added when it goes on.
LEMMA StepGathered ==
    ASSUME TreeInv, ShapeInv, \A y \in DOMAIN acts : GatheredInv(y),
           NEW a \in DOMAIN acts, Step(a), NEW x \in DOMAIN acts'
    PROVE  GatheredInv(x)'
<1>1. CASE x \notin DOMAIN acts
    <2>1. acts'[x].kids = <<>>
        BY <1>1, StepBeside DEF Beside, Fresh
    <2> QED
        BY <2>1 DEF GatheredInv
<1>2. ASSUME NEW k \in DOMAIN acts, NEW e, Has(acts[k].events, e) PROVE e \in DOMAIN log
    BY <1>2, FieldsAreLists DEF Has
<1>3. CASE x \in DOMAIN acts /\ x # a
    <2>1. acts'[x] = acts[x] /\ DOMAIN acts[x].kids = 1 .. Len(acts[x].kids)
          /\ Len(acts[x].kids) \in Nat /\ x # 0
        <3>1. acts'[x] = acts[x]
            BY <1>3, StepBeside DEF Beside
        <3>2. /\ DOMAIN acts = 1 .. Len(acts) /\ DOMAIN acts[x].kids = 1 .. Len(acts[x].kids)
              /\ Len(acts[x].kids) \in Nat
            BY <1>3, KidFacts
        <3> QED
            BY <1>3, <3>1, <3>2
    <2>2. ASSUME KindOf(x) \in InTurn, NEW i \in DOMAIN acts[x].kids,
                 NEW k, k = acts[x].kids[i], acts'[k].pc = "returned",
                 acts[x].pc = "waiting" => i # Len(acts[x].kids),
                 NEW e, Has(acts'[k].events, e)
          PROVE  Has(acts[x].events, e)
        <3>1. k \in DOMAIN acts /\ acts[k].parent = x
            BY <1>3, <2>2, KidFacts DEF ShapeInv, KidsInv
        <3>2. k # a
            <4>1. SUFFICES ASSUME k = a PROVE FALSE
                OBVIOUS
            <4>2. acts[x].pc = "waiting" /\ LastKid(x) = a
                BY <2>1, <2>2, <3>1, <4>1, Running DEF ShapeInv, CallInv, InTurn
            <4>3. i < Len(acts[x].kids)
                BY <2>1, <2>2, <4>2
            <4>4. acts[x].kids[i] < acts[x].kids[Len(acts[x].kids)]
                BY <1>3, <2>1, <4>3 DEF ShapeInv, KidsInv
            <4>5. a \in Nat
                BY KidFacts
            <4> QED
                BY <2>2, <4>1, <4>2, <4>4, <4>5 DEF LastKid
        <3>3. acts'[k] = acts[k]
            BY <3>1, <3>2, StepBeside DEF Beside
        <3> QED
            BY <1>2, <1>3, <2>2, <3>1, <3>3 DEF GatheredInv
    <2> QED
        BY <2>1, <2>2 DEF GatheredInv, KindOf
<1>4. CASE x = a
    <2>0. KindOf(a)' = KindOf(a)
        BY StepBeside DEF Beside, KindOf
    <2>1. /\ DOMAIN acts[a].kids = 1 .. Len(acts[a].kids) /\ Len(acts[a].kids) \in Nat
          /\ acts[a].kids = [i \in 1 .. Len(acts[a].kids) |-> acts[a].kids[i]]
        BY KidFacts
    <2>2. \A i \in DOMAIN acts[a].kids : acts[a].kids[i] \in DOMAIN acts
                                         /\ acts'[acts[a].kids[i]] = acts[acts[a].kids[i]]
        <3> TAKE i \in DOMAIN acts[a].kids
        <3>1. PICK k : k = acts[a].kids[i]
            OBVIOUS
        <3>2. k \in DOMAIN acts /\ acts[k].parent = a
            BY <3>1, KidFacts DEF ShapeInv, KidsInv
        <3>3. k # a
            <4>1. k \in Nat /\ acts[k].parent < k
                BY <3>2, KidFacts
            <4> QED
                BY <3>2, <4>1
        <3> QED
            BY <3>1, <3>2, <3>3, StepBeside DEF Beside
    <2>3. ASSUME KindOf(a) \in InTurn, NEW i \in DOMAIN acts[a].kids,
                 acts[acts[a].kids[i]].pc = "returned",
                 acts[a].pc = "waiting" => i # Len(acts[a].kids),
                 NEW e, Has(acts[acts[a].kids[i]].events, e)
          PROVE  Has(acts[a].events, e)
        BY <1>2, <2>2, <2>3 DEF GatheredInv
    <2>4. ASSUME KindOf(a) \in InTurn, StartSub(a) PROVE GatheredInv(a)'
        <3>1. /\ acts'[a].pc = "waiting" /\ acts'[a].kids = Append(acts[a].kids, NewId)
              /\ acts'[a].events = acts[a].events /\ acts[a].pc = "ready"
            BY <2>4, StartSubMoves DEF Moves, StartSub, At
        <3>2. PICK ks : ks = acts'[a].kids
            OBVIOUS
        <3>3. /\ DOMAIN ks = 1 .. (Len(acts[a].kids) + 1) /\ Len(ks) = Len(acts[a].kids) + 1
              /\ \A i \in 1 .. Len(acts[a].kids) : ks[i] = acts[a].kids[i]
            BY <2>1, <3>1, <3>2, Appended
        <3>5. \A i \in DOMAIN ks : i # Len(ks) => i \in DOMAIN acts[a].kids
                                                  /\ ks[i] = acts[a].kids[i]
            BY <2>1, <3>3
        <3> QED
            BY <2>2, <2>3, <2>4, <3>1, <3>2, <3>5 DEF GatheredInv
    <2>5. ASSUME KindOf(a) \in InTurn, SequenceResumes(a) \/ LoopResumes(a) PROVE GatheredInv(a)'
        <3>1. /\ acts'[a].pc # "waiting" /\ acts'[a].kids = acts[a].kids
              /\ acts'[a].events = Gathered(a)
            BY <2>5, ResumeMoves DEF Moves
        <3>2. PICK k : k = LastKid(a)
            OBVIOUS
        <3>3. k \in DOMAIN acts
            BY <2>5, <3>2, ResumeTakes DEF Takes
        <3>4. \A e : Has(Gathered(a), e) <=> Has(acts[a].events, e) \/ Has(acts[k].events, e)
            <4>1. Listed(acts[a].events) /\ Listed(acts[k].events)
                BY <3>3, FieldsAreLists
            <4>2. PICK s, t : s = acts[a].events /\ t = acts[k].events
                OBVIOUS
            <4>3. \A e : Has(s \o t, e) <=> Has(s, e) \/ Has(t, e)
                BY <4>1, <4>2, HasJoined
            <4> QED
                BY <3>2, <4>2, <4>3 DEF Gathered
        <3>5. acts[k] = acts[acts[a].kids[Len(acts[a].kids)]]
            BY <3>2 DEF LastKid
        <3> QED
            BY <2>2, <2>3, <2>5, <3>1, <3>4, <3>5 DEF GatheredInv
    <2>6. ASSUME KindOf(a) \in InTurn, SubFails(a) PROVE GatheredInv(a)'
        <3>1. acts'[a].kids = acts[a].kids /\ acts'[a].events = acts[a].events
            <4>1. acts' = [acts EXCEPT ![a].pc = "failed"]
                BY <2>6 DEF SubFails
            <4> QED
                BY <4>1, EndMoves DEF Moves
        <3>2. acts[acts[a].kids[Len(acts[a].kids)]].pc = "failed"
            BY <2>6 DEF SubFails, LastKid
        <3> QED
            BY <2>2, <2>3, <2>6, <3>1, <3>2 DEF GatheredInv
    <2>7. ASSUME KindOf(a) \in InTurn, SequenceEnds(a) \/ LoopPassEnds(a) PROVE GatheredInv(a)'
        <3>1. acts'[a].events = acts[a].events
              /\ (acts'[a].kids = acts[a].kids \/ acts'[a].kids = <<>>)
            <4>1. SequenceEnds(a) => acts' = [acts EXCEPT ![a].pc = "returned"]
                BY DEF SequenceEnds
            <4> QED
                BY <2>7, <4>1, EndMoves, LoopPassMoves DEF Moves
        <3>2. acts[a].pc = "ready"
            BY <2>7 DEF SequenceEnds, LoopPassEnds, At
        <3> QED
            BY <2>2, <2>3, <2>7, <3>1, <3>2 DEF GatheredInv
    <2> QED
        BY <1>4, <2>0, <2>4, <2>5, <2>6, <2>7, InTurnSteps DEF GatheredInv
<1> QED
    BY <1>1, <1>3, <1>4

LEMMA KeptInit == TreeInit => KeptInv
<1> SUFFICES ASSUME TreeInit PROVE KeptInv
    OBVIOUS
<1>1. PICK g \in Entry : acts = <<Frame(g, 0, 0, 0, 0)>>
    BY DEF TreeInit
<1>2. DOMAIN acts = {1} /\ acts[1].kids = <<>> /\ DOMAIN log = {}
    BY <1>1 DEF TreeInit, Frame
<1> QED
    BY <1>2 DEF KeptInv, ConservedInv, GatheredInv

LEMMA KeptNext ==
    /\ TreeInv /\ TreeInv' /\ ShapeInv /\ SlicesInv /\ KeptInv /\ [TreeNext]_vars
    => KeptInv'
<1> SUFFICES ASSUME TreeInv, TreeInv', ShapeInv, SlicesInv, KeptInv, [TreeNext]_vars
             PROVE  KeptInv'
    OBVIOUS
<1>1. CASE UNCHANGED vars
    <2>1. Within' = Within
        BY <1>1 DEF vars, Within
    <2> QED
        BY <1>1, <2>1 DEF vars, KeptInv, ConservedInv, GatheredInv, NoFailure, From, Holds,
                          StillComes, Waits, LastKid, KindOf
<1>2. ASSUME NEW a \in DOMAIN acts, Step(a), NEW x \in DOMAIN acts'
      PROVE  ConservedInv(x)' /\ GatheredInv(x)'
    <2>1. GatheredInv(x)'
        BY <1>2, StepGathered DEF KeptInv
    <2>2. ConservedInv(x)'
        BY <1>2, StepConserved DEF ConservedInv
    <2> QED
        BY <2>1, <2>2
<1>3. CASE TreeNext
    <2>1. PICK a \in DOMAIN acts : Step(a)
        BY <1>3 DEF TreeNext, Step
    <2>2. 1 \in DOMAIN acts'
        BY <2>1, StepBeside DEF Beside, KeptInv
    <2> QED
        BY <1>2, <2>1, <2>2 DEF KeptInv
<1> QED
    BY <1>1, <1>3

LEMMA KeptAlways == TreeSpec => [](TreeInv /\ ShapeInv /\ SlicesInv /\ KeptInv)
<1> QED
    BY KeptInit, InitInv, NextInv, ShapeInit, ShapeNext, SlicesInit, SlicesNext, KeptNext,
       PTL DEF TreeSpec

LEMMA CountTo == ASSUME NEW m \in Nat PROVE IsFiniteSet(1 .. m) /\ Cardinality(1 .. m) = m
<1>1. Cardinality(1 .. m) = IF 1 > m THEN 0 ELSE m - 1 + 1
    BY FS_Interval
<1>2. IsFiniteSet(1 .. m)
    BY FS_Interval
<1> QED
    BY <1>1, <1>2

\* Numbers that rise through all of 1 .. m are the places they stand at.
LEMMA InOrder ==
    ASSUME NEW m \in Nat, NEW s, DOMAIN s = 1 .. m, \A i \in 1 .. m : s[i] \in 1 .. m,
           \A k \in 1 .. m : \E i \in 1 .. m : s[i] = k,
           \A i, j \in 1 .. m : i < j => s[i] < s[j]
    PROVE  \A i \in 1 .. m : s[i] = i
<1> DEFINE Wrong == {i \in 1 .. m : s[i] # i}
<1>1. SUFFICES ASSUME Wrong # {} PROVE FALSE
    OBVIOUS
<1>2. PICK i \in Wrong : \A j \in Wrong : i <= j
    <2>1. Wrong \subseteq Nat
        OBVIOUS
    <2> QED
        BY <1>1, <2>1, LeastOf
<1>3. \A j \in 1 .. m : j < i => s[j] = j
    BY <1>2
<1>4. PICK v : v = s[i] /\ v \in 1 .. m /\ v # i
    BY <1>2
<1>5. ~(v < i)
    <2>1. v < i => s[v] = v /\ s[v] < s[i]
        BY <1>2, <1>3, <1>4
    <2> QED
        BY <1>4, <2>1
<1>6. PICK j \in 1 .. m : s[j] = i
    BY <1>2
<1>7. ~(j < i) /\ j # i
    BY <1>2, <1>3, <1>4, <1>6
<1>8. i < j
    BY <1>2, <1>7
<1>9. s[i] < s[j]
    BY <1>2, <1>6, <1>8
<1> QED
    BY <1>2, <1>4, <1>5, <1>6, <1>9

\* A run in which nothing failed returns what was produced, whole and in order.
LEMMA KeptIsTheRun == TreeInv /\ ShapeInv /\ SlicesInv /\ KeptInv => ResultIsTheRun
<1> SUFFICES ASSUME TreeInv, ShapeInv, SlicesInv, KeptInv, acts[1].pc = "returned", NoFailure
             PROVE  /\ Len(acts[1].events) = Len(log)
                    /\ {acts[1].events[i] : i \in DOMAIN acts[1].events} = DOMAIN log
                    /\ NoParallel => IsSortedRun(acts[1].events)
    BY DEF ResultIsTheRun, NoFailure, NoParallel
<1>1. 1 \in DOMAIN acts
    BY DEF KeptInv
<1>2. PICK es : es = acts[1].events
    OBVIOUS
<1>3. Listed(es) /\ \A i \in DOMAIN es : es[i] \in DOMAIN log
    BY <1>1, <1>2, FieldsAreLists
<1>4. Len(log) \in Nat /\ DOMAIN log = 1 .. Len(log)
    BY <1>1, FrameFacts
<1>5. ASSUME NEW e \in DOMAIN log PROVE \E i \in DOMAIN es : es[i] = e
    <2>1. PICK y \in DOMAIN acts : y = log[e].act
        BY Actors
    <2>2. From(1, e)
        BY <2>1, FirstIsAbove DEF From
    <2> QED
        BY <1>1, <1>2, <2>2, ReturnedHolds DEF Has
<1>6. ASSUME NEW i \in DOMAIN es, NEW j \in DOMAIN es, i < j
      PROVE  es[i] # es[j] /\ (NoParallel => es[i] < es[j])
    <2>1. Before(1, es[i], es[j])
        BY <1>2, <1>6 DEF Before, Precedes
    <2> QED
        BY <1>1, <1>3, <2>1 DEF SlicesInv, RowInv
<1>7. \A i, j \in DOMAIN es : es[i] = es[j] => i = j
    <2>1. \A i, j \in DOMAIN es : i = j \/ i < j \/ j < i
        BY <1>3 DEF Listed
    <2> QED
        BY <1>6, <2>1
<1>8. Len(es) = Len(log)
    <2>1. es \in Bijection(1 .. Len(es), 1 .. Len(log))
        <3>1. es \in [1 .. Len(es) -> 1 .. Len(log)]
            BY <1>3, <1>4 DEF Listed
        <3>2. \A i, j \in 1 .. Len(es) : es[i] = es[j] => i = j
            BY <1>3, <1>7 DEF Listed
        <3>3. \A e \in 1 .. Len(log) : \E i \in 1 .. Len(es) : es[i] = e
            BY <1>3, <1>4, <1>5 DEF Listed
        <3> QED
            BY <3>1, <3>2, <3>3 DEF Bijection, Injection, Surjection, IsInjective
    <2>2. IsFiniteSet(1 .. Len(es)) /\ Cardinality(1 .. Len(es)) = Len(es)
          /\ Cardinality(1 .. Len(log)) = Len(log)
        BY <1>3, <1>4, CountTo DEF Listed
    <2> QED
        BY <2>1, <2>2, FS_Bijection DEF ExistsBijection
<1>9. {es[i] : i \in DOMAIN es} = DOMAIN log
    BY <1>3, <1>5
<1>10. ASSUME NoParallel PROVE IsSortedRun(es)
    <2>1. DOMAIN es = DOMAIN log /\ DOMAIN es \subseteq Nat
        BY <1>3, <1>4, <1>8 DEF Listed
    <2>2. \A i \in DOMAIN es : es[i] = i
        <3>1. /\ Len(log) \in Nat /\ DOMAIN es = 1 .. Len(log)
              /\ \A i \in 1 .. Len(log) : es[i] \in 1 .. Len(log)
            BY <1>3, <1>4, <1>8 DEF Listed
        <3>2. /\ \A e \in 1 .. Len(log) : \E i \in 1 .. Len(log) : es[i] = e
              /\ \A i, j \in 1 .. Len(log) : i < j => es[i] < es[j]
            BY <1>4, <1>5, <1>6, <1>10, <3>1
        <3>3. \A i \in 1 .. Len(log) : es[i] = i
            BY <3>1, <3>2, InOrder
        <3> QED
            BY <3>1, <3>3
    <2> QED
        BY <1>3, <2>1, <2>2 DEF Listed, IsSortedRun
<1> QED
    BY <1>2, <1>8, <1>9, <1>10

\* A parallel agent returns the events of every callee, of those that failed too.
LEMMA KeptOfAll == TreeInv /\ ShapeInv /\ SlicesInv => ParallelKeepsAll
<1> SUFFICES ASSUME TreeInv, ShapeInv, SlicesInv, NEW a \in DOMAIN acts,
                    Finished(a), KindOf(a) = "parallel",
                    NEW i \in DOMAIN acts[a].kids, NEW k, k = acts[a].kids[i],
                    NEW p \in DOMAIN acts[k].events
             PROVE  \E q \in DOMAIN acts[a].events : acts[a].events[q] = acts[k].events[p]
    BY DEF ParallelKeepsAll, HandsUp
<1>1. k \in DOMAIN acts
    BY KidFacts
<1>2. PICK e : e = acts[k].events[p]
    OBVIOUS
<1>3. e \in DOMAIN log /\ Has(acts[k].events, e)
    BY <1>1, <1>2, FieldsAreLists DEF Has
<1>4. acts[a].round > Len(acts[a].kids)
    BY DEF SlicesInv, ParallelInv
<1>5. DOMAIN acts[a].kids = 1 .. Len(acts[a].kids) /\ Len(acts[a].kids) \in Nat
    BY KidFacts
<1>6. acts[a].round \in Nat
    BY FrameFacts DEF FrameType
<1>7. i < acts[a].round
    BY <1>4, <1>5, <1>6
<1>8. Has(acts[a].events, e)
    BY <1>3, <1>7 DEF SlicesInv, ParallelInv
<1> QED
    BY <1>2, <1>8 DEF Has

\* A parallel agent returns its callees' events in the order of their declaration.
LEMMA KeptInOrder == TreeInv /\ ShapeInv /\ SlicesInv => ParallelInDeclarationOrder
<1> SUFFICES ASSUME TreeInv, ShapeInv, SlicesInv, NEW a \in DOMAIN acts,
                    KindOf(a) = "parallel", Finished(a)
             PROVE  LET es == acts[a].events
                        sub(e) == CHOOSE i \in DOMAIN acts[a].kids :
                            \E p \in DOMAIN acts[acts[a].kids[i]].events :
                                acts[acts[a].kids[i]].events[p] = e
                    IN \A p, q \in DOMAIN es : p < q => sub(es[p]) <= sub(es[q])
    BY DEF ParallelInDeclarationOrder
<1> DEFINE es == acts[a].events
           sub(e) == CHOOSE i \in DOMAIN acts[a].kids :
               \E p \in DOMAIN acts[acts[a].kids[i]].events :
                   acts[acts[a].kids[i]].events[p] = e
<1>1. ASSUME NEW e \in DOMAIN log, Has(es, e)
      PROVE  sub(e) \in DOMAIN acts[a].kids /\ Has(acts[acts[a].kids[sub(e)]].events, e)
    <2>1. \E i \in DOMAIN acts[a].kids : Has(acts[acts[a].kids[i]].events, e)
        BY <1>1 DEF SlicesInv, ParallelInv
    <2> QED
        BY <2>1 DEF Has
<1>2. ASSUME NEW p \in DOMAIN es, NEW q \in DOMAIN es, p < q
      PROVE  sub(es[p]) <= sub(es[q])
    <2> HIDE DEF sub
    <2>1. PICK e, f : e = es[p] /\ f = es[q]
        OBVIOUS
    <2>2. e \in DOMAIN log /\ f \in DOMAIN log
        BY <1>2, <2>1, FieldsAreLists
    <2>3. Has(es, e) /\ Has(es, f) /\ Precedes(es, e, f)
        BY <1>2, <2>1 DEF Has, Precedes
    <2>4. /\ sub(e) \in DOMAIN acts[a].kids /\ Has(acts[acts[a].kids[sub(e)]].events, e)
          /\ sub(f) \in DOMAIN acts[a].kids /\ Has(acts[acts[a].kids[sub(f)]].events, f)
        BY <1>1, <2>2, <2>3
    <2>5. sub(e) <= sub(f)
        BY <2>2, <2>3, <2>4 DEF SlicesInv, ParallelInv
    <2> QED
        BY <2>1, <2>5
<1> QED
    BY <1>2

\* The events of a run reach whoever waits for them: all of them when nothing failed, in
\* order when nothing ran in parallel, and a parallel agent's, with failures too, in the
\* order of its sub-agents (flow/flow.go, Flow.Run; workflow/workflow.go).
THEOREM EventsReachTheCaller == TreeSpec => []EventsAreHandedUp
<1>1. TreeInv /\ ShapeInv /\ SlicesInv /\ KeptInv => EventsAreHandedUp
    BY KeptIsTheRun, KeptOfAll, KeptInOrder DEF EventsAreHandedUp
<1> QED
    BY <1>1, KeptAlways, PTL

=============================================================================
