--------------------------- MODULE ToolCallsProofs ---------------------------
(***************************************************************************)
(* What a run writes is what its events say, whatever the number of calls, *)
(* keys and batches.                                                       *)
(***************************************************************************)
EXTENDS ToolCalls, SequenceTheorems, WellFoundedInduction, TLAPS

-----------------------------------------------------------------------------
(***************************************************************************)
(* The last delta with a value at a key                                    *)
(***************************************************************************)

\* Of the deltas with a value at k, if there are any, there is a last one.
LEMMA LastExists ==
    ASSUME NEW S, NEW deltas \in Seq(S), NEW k, Sets(deltas, k) # {}
    PROVE  \E i \in Sets(deltas, k) : \A j \in Sets(deltas, k) : j <= i
<1> DEFINE less == {ss \in Nat \X Nat : ss[1] < ss[2]}
           T == {Len(deltas) - i : i \in Sets(deltas, k)}
<1>1. IsWellFoundedOn(less, Nat)
    BY NatLessThanWellFounded, Zenon DEF OpToRel
<1>2. \A i \in Sets(deltas, k) : i \in Nat /\ i <= Len(deltas)
    BY DEF Sets
<1>3. T \subseteq Nat /\ T # {}
    BY <1>2
<1>4. PICK x \in T : \A y \in T : <<y, x>> \notin less
    <2> HIDE DEF less, T
    <2> QED
        BY <1>1, <1>3, WFMin, Zenon
<1>5. PICK i \in Sets(deltas, k) : x = Len(deltas) - i
    OBVIOUS
<1>6. \A j \in Sets(deltas, k) : j <= i
    <2> SUFFICES ASSUME NEW j \in Sets(deltas, k) PROVE j <= i
        OBVIOUS
    <2>1. Len(deltas) - j \in T /\ Len(deltas) - j \in Nat /\ x \in Nat
        BY <1>2, <1>5
    <2>2. <<Len(deltas) - j, x>> \notin less
        BY <2>1, <1>4
    <2>3. ~(Len(deltas) - j < x)
        BY <2>1, <2>2
    <2> QED
        BY <2>3, <1>2, <1>5
<1> QED
    BY <1>6

\* LastOn is the value in the last of them.
LEMMA LastOnIs ==
    ASSUME NEW S, NEW deltas \in Seq(S), NEW k,
           NEW i \in Sets(deltas, k), \A j \in Sets(deltas, k) : j <= i
    PROVE  LastOn(deltas, k) = deltas[i][k] /\ LastOn(deltas, k) # Absent
<1> DEFINE P(n) == \A j \in Sets(deltas, k) : j <= n
           last == CHOOSE n \in Sets(deltas, k) : P(n)
<1>1. last \in Sets(deltas, k) /\ P(last)
    BY Zenon
<1>2. last \in Nat /\ i \in Nat
    BY <1>1 DEF Sets
<1>3. last = i
    BY <1>1, <1>2
<1>4. LastOn(deltas, k) = deltas[last][k]
    BY <1>1, Zenon DEF LastOn
<1> QED
    BY <1>3, <1>4 DEF Sets

\* There is a value exactly if some delta has one, and it is one of theirs.
LEMMA LastOnSome ==
    ASSUME NEW S, NEW deltas \in Seq(S), NEW k
    PROVE  \/ Sets(deltas, k) = {} /\ LastOn(deltas, k) = Absent
           \/ \E i \in Sets(deltas, k) :
                 /\ \A j \in Sets(deltas, k) : j <= i
                 /\ LastOn(deltas, k) = deltas[i][k]
                 /\ LastOn(deltas, k) # Absent
<1>1. CASE Sets(deltas, k) = {}
    BY <1>1 DEF LastOn
<1>2. CASE Sets(deltas, k) # {}
    <2>1. PICK i \in Sets(deltas, k) : \A j \in Sets(deltas, k) : j <= i
        BY <1>2, LastExists, Zenon
    <2> QED
        BY <2>1, LastOnIs, Zenon
<1> QED
    BY <1>1, <1>2

\* A delta at the end goes first.
LEMMA LastOnAppend ==
    ASSUME NEW S, NEW deltas \in Seq(S), NEW d \in S, NEW k
    PROVE  LastOn(Append(deltas, d), k) =
               IF d[k] # Absent THEN d[k] ELSE LastOn(deltas, k)
<1> DEFINE more == Append(deltas, d)
<1>1. /\ more \in Seq(S)
      /\ DOMAIN more = 1..Len(deltas) + 1
      /\ DOMAIN deltas = 1..Len(deltas)
      /\ \A i \in DOMAIN deltas : more[i] = deltas[i]
      /\ more[Len(deltas) + 1] = d
      /\ Len(deltas) \in Nat
    OBVIOUS
<1> HIDE DEF more
<1>2. CASE d[k] # Absent
    <2>1. Len(deltas) + 1 \in Sets(more, k)
        BY <1>1, <1>2 DEF Sets
    <2>2. \A j \in Sets(more, k) : j <= Len(deltas) + 1
        BY <1>1 DEF Sets
    <2>3. LastOn(more, k) = more[Len(deltas) + 1][k]
        BY <2>1, <2>2, <1>1, LastOnIs
    <2> QED
        BY <2>3, <1>1, <1>2 DEF more
<1>3. CASE d[k] = Absent
    <2>1. Sets(more, k) = Sets(deltas, k)
        BY <1>1, <1>3 DEF Sets
    <2>2. CASE Sets(deltas, k) = {}
        BY <2>1, <2>2, <1>3 DEF LastOn, more
    <2>3. CASE Sets(deltas, k) # {}
        <3>1. PICK i \in Sets(deltas, k) : \A j \in Sets(deltas, k) : j <= i
            BY <2>3, LastExists, Zenon
        <3>2. LastOn(deltas, k) = deltas[i][k]
            BY <3>1, LastOnIs
        <3>3. LastOn(more, k) = more[i][k]
            BY <3>1, <2>1, <1>1, LastOnIs
        <3>4. more[i] = deltas[i]
            BY <3>1, <1>1 DEF Sets
        <3> QED
            BY <3>2, <3>3, <3>4, <1>3 DEF more
    <2> QED
        BY <2>2, <2>3
<1> QED
    BY <1>2, <1>3

\* A delta at the front goes last.
LEMMA LastOnTail ==
    ASSUME NEW S, NEW deltas \in Seq(S), deltas # <<>>, NEW k
    PROVE  LastOn(deltas, k) =
               IF LastOn(Tail(deltas), k) # Absent
               THEN LastOn(Tail(deltas), k) ELSE Head(deltas)[k]
<1> DEFINE rest == Tail(deltas)
<1>1. /\ rest \in Seq(S)
      /\ DOMAIN deltas = 1..Len(deltas)
      /\ Len(deltas) \in Nat \ {0}
      /\ DOMAIN rest = 1..Len(deltas) - 1
      /\ \A i \in DOMAIN rest : rest[i] = deltas[i + 1]
      /\ Head(deltas) = deltas[1]
    OBVIOUS
<1> HIDE DEF rest
<1>2. \A i \in Nat : i \in Sets(rest, k) <=> i # 0 /\ i + 1 \in Sets(deltas, k)
    BY <1>1 DEF Sets
<1>3. CASE Sets(rest, k) # {}
    <2>1. PICK i \in Sets(rest, k) : \A j \in Sets(rest, k) : j <= i
        BY <1>1, <1>3, LastExists, Zenon
    <2>2. i \in Nat /\ i + 1 \in Sets(deltas, k) /\ rest[i] = deltas[i + 1]
        BY <2>1, <1>1, <1>2 DEF Sets
    <2>3. \A j \in Sets(deltas, k) : j <= i + 1
        <3> SUFFICES ASSUME NEW j \in Sets(deltas, k), ~(j <= i + 1) PROVE FALSE
            OBVIOUS
        <3>1. j \in Nat /\ j > 1
            BY <2>2, <1>1 DEF Sets
        <3>2. j - 1 \in Nat /\ j - 1 # 0 /\ (j - 1) + 1 = j
            BY <3>1
        <3>3. j - 1 \in Sets(rest, k)
            BY <3>2, <1>2
        <3> QED
            BY <3>1, <3>3, <2>1, <2>2
    <2>4. LastOn(rest, k) = rest[i][k] /\ LastOn(rest, k) # Absent
        BY <2>1, <1>1, LastOnIs
    <2>5. LastOn(deltas, k) = deltas[i + 1][k]
        BY <2>2, <2>3, LastOnIs
    <2> QED
        BY <2>2, <2>4, <2>5 DEF rest
<1>4. CASE Sets(rest, k) = {}
    <2>1. LastOn(rest, k) = Absent
        BY <1>4 DEF LastOn
    <2>2. \A j \in Sets(deltas, k) : j = 1
        <3> SUFFICES ASSUME NEW j \in Sets(deltas, k), j # 1 PROVE FALSE
            OBVIOUS
        <3>1. j - 1 \in Nat /\ j - 1 # 0 /\ (j - 1) + 1 = j
            BY <1>1 DEF Sets
        <3>2. j - 1 \in Sets(rest, k)
            BY <3>1, <1>2
        <3> QED
            BY <3>2, <1>4
    <2>3. CASE 1 \in Sets(deltas, k)
        <3>1. \A j \in Sets(deltas, k) : j <= 1
            BY <2>2
        <3>2. LastOn(deltas, k) = deltas[1][k]
            BY <2>3, <3>1, LastOnIs
        <3> QED
            BY <3>2, <2>1, <1>1 DEF rest
    <2>4. CASE 1 \notin Sets(deltas, k)
        <3>1. Sets(deltas, k) = {}
            BY <2>2, <2>4
        <3>2. Head(deltas)[k] = Absent
            BY <2>4, <1>1 DEF Sets
        <3> QED
            BY <3>1, <3>2, <2>1 DEF LastOn, rest
    <2> QED
        BY <2>3, <2>4
<1> QED
    BY <1>3, <1>4

-----------------------------------------------------------------------------
(***************************************************************************)
(* Values and maps                                                         *)
(***************************************************************************)

\* A heap in which everything of h still is, at the key it was made for.
Grows(h, more) ==
    /\ more \in Heap
    /\ \A r \in DOMAIN h : r \in DOMAIN more /\ more[r].key = h[r].key

\* A delta that fits a heap fits a larger one.
LEMMA GrowingKeepsTypes ==
    ASSUME NEW h, NEW more, Grows(h, more), NEW d, DeltaOK(h, d)
    PROVE  DeltaOK(more, d)
<1> SUFFICES ASSUME NEW k \in Keys PROVE d[k] \in ValueAt(more, k)
    BY DEF DeltaOK
<1>1. d[k] \in ValueAt(h, k)
    BY DEF DeltaOK
<1> QED
    BY <1>1 DEF ValueAt, Grows

\* What is not a map is a value in every heap.
LEMMA PlainValues ==
    ASSUME NEW h, NEW k
    PROVE  /\ Absent \in ValueAt(h, k)
           /\ TombstoneValue \in ValueAt(h, k) /\ TombstoneValue # Absent
           /\ \A x \in Scalars : Scalar(x) \in ValueAt(h, k) /\ Scalar(x) # Absent
BY DEF Absent, TombstoneValue, Scalar, ValueAt, Value

LEMMA NoDeltaFits ==
    ASSUME NEW h PROVE DeltaOK(h, NoDelta) /\ NoDelta \in Delta
BY PlainValues DEF DeltaOK, NoDelta, Delta, Absent, Value

\* A delta with one more key set.
LEMMA SetFits ==
    ASSUME NEW h, NEW d, DeltaOK(h, d), NEW k \in Keys, NEW v \in ValueAt(h, k)
    PROVE  DeltaOK(h, [d EXCEPT ![k] = v])
BY DEF DeltaOK, Delta, ValueAt

LEMMA OverrideFits ==
    ASSUME NEW h, NEW d1, NEW d2, DeltaOK(h, d1), DeltaOK(h, d2)
    PROVE  DeltaOK(h, Override(d1, d2))
BY DEF DeltaOK, Delta, Override

\* The last value said at a key fits the key.
LEMMA LastOnFits ==
    ASSUME NEW h, NEW deltas \in Seq(Delta), \A i \in DOMAIN deltas : DeltaOK(h, deltas[i]),
           NEW k \in Keys
    PROVE  LastOn(deltas, k) \in ValueAt(h, k)
<1>1. CASE LastOn(deltas, k) = Absent
    BY <1>1, PlainValues
<1>2. CASE LastOn(deltas, k) # Absent
    <2>1. PICK i \in Sets(deltas, k) : LastOn(deltas, k) = deltas[i][k]
        BY <1>2, LastOnSome, Zenon
    <2> QED
        BY <2>1 DEF Sets, DeltaOK
<1> QED
    BY <1>1, <1>2

LEMMA OverlaidFits ==
    ASSUME NEW h, NEW deltas \in Seq(Delta), \A i \in DOMAIN deltas : DeltaOK(h, deltas[i])
    PROVE  DeltaOK(h, Overlaid(deltas))
<1> SUFFICES ASSUME NEW k \in Keys PROVE LastOn(deltas, k) \in ValueAt(h, k)
    BY DEF Overlaid, DeltaOK, Delta, ValueAt
<1> QED
    BY LastOnFits

\* What Set stores is a value of the heap that goes with it.
LEMMA StoredFits ==
    ASSUME heap \in Heap, NEW k \in Keys, NEW x \in Inputs
    PROVE  /\ Grows(heap, HeapWith(k, x))
           /\ Stored(x) \in ValueAt(HeapWith(k, x), k)
           /\ Stored(x) # Absent
           /\ \A r \in DOMAIN heap : HeapWith(k, x)[r] = heap[r]
<1>1. CASE IsLiteral(x)
    <2>1. x \in [is: {"literal"}, of: Literals]
        BY <1>1 DEF Inputs, IsLiteral, ScalarValue, Scalar
    <2>2. x.of \in [Fields -> FieldValue]
        BY <2>1, ToolCallsAssumption DEF FieldValue
    <2> DEFINE cell == [key |-> k, fields |-> x.of]
    <2>3. cell \in Cell /\ cell.key = k
        BY <2>2 DEF Cell
    <2>4. HeapWith(k, x) = Append(heap, cell)
        BY <1>1 DEF HeapWith
    <2> HIDE DEF cell
    <2>5. /\ HeapWith(k, x) \in Heap
          /\ DOMAIN HeapWith(k, x) = 1..Len(heap) + 1
          /\ DOMAIN heap = 1..Len(heap)
          /\ \A r \in DOMAIN heap : HeapWith(k, x)[r] = heap[r]
          /\ HeapWith(k, x)[Len(heap) + 1] = cell
          /\ Len(heap) \in Nat
        BY <2>3, <2>4 DEF Heap
    <2>6. Stored(x) = Map(Len(heap) + 1)
        BY <1>1 DEF Stored
    <2> QED
        BY <2>3, <2>5, <2>6 DEF Grows, Map, ValueAt, Value, Absent
<1>2. CASE ~IsLiteral(x)
    <2>1. x \in ScalarValue
        BY <1>2 DEF Inputs, IsLiteral
    <2> QED
        BY <1>2, <2>1, PlainValues DEF Stored, HeapWith, Grows, ScalarValue
<1> QED
    BY <1>1, <1>2

LEMMA HeapCells ==
    ASSUME NEW h \in Heap, NEW r \in DOMAIN h
    PROVE  /\ h[r] \in Cell
           /\ h[r].key \in Keys /\ h[r].fields \in [Fields -> FieldValue]
           /\ DOMAIN h = 1..Len(h) /\ Len(h) \in Nat
<1> DEFINE C == Cell
<1>1. h \in Seq(C)
    BY DEF Heap
<1>2. h[r] \in C /\ DOMAIN h = 1..Len(h) /\ Len(h) \in Nat
    <2> HIDE DEF C
    <2> QED
        BY <1>1
<1> QED
    BY <1>2 DEF Cell

\* MergeStateDelta keeps the maps where they are, and what it stores fits.
LEMMA MergeFits ==
    ASSUME heap \in Heap, DeltaOK(heap, state), NEW d, DeltaOK(heap, d)
    PROVE  Grows(heap, HeapMerged(d)) /\ DeltaOK(heap, StateMerged(d))
<1>1. HeapMerged(d) \in Heap /\ DOMAIN HeapMerged(d) = DOMAIN heap
    <2>1. ASSUME NEW r \in DOMAIN heap
          PROVE  /\ HeapMerged(d)[r] \in Cell
                 /\ HeapMerged(d)[r].key = heap[r].key
        <3> DEFINE k == heap[r].key
        <3>1. heap[r] \in Cell /\ k \in Keys /\ heap[r].fields \in [Fields -> FieldValue]
            BY HeapCells
        <3>2. CASE Deepens(d, k) /\ state[k] = Map(r)
            <4>1. d[k] \in ValueAt(heap, k) /\ IsMap(d[k])
                BY <3>1, <3>2 DEF DeltaOK, Deepens
            <4>2. d[k].of \in DOMAIN heap
                BY <4>1 DEF ValueAt, IsMap
            <4>3. heap[d[k].of].fields \in [Fields -> FieldValue]
                BY <4>2, HeapCells
            <4>4. Override(heap[r].fields, heap[d[k].of].fields) \in [Fields -> FieldValue]
                BY <3>1, <4>3 DEF Override
            <4>5. HeapMerged(d)[r] =
                      [heap[r] EXCEPT !.fields =
                          Override(heap[r].fields, heap[d[k].of].fields)]
                BY <3>2 DEF HeapMerged
            <4> QED
                BY <3>1, <4>4, <4>5 DEF Cell
        <3>3. CASE ~(Deepens(d, k) /\ state[k] = Map(r))
            <4>1. HeapMerged(d)[r] = heap[r]
                BY <3>3 DEF HeapMerged
            <4> QED
                BY <4>1, <3>1
        <3> QED
            BY <3>2, <3>3
    <2> DEFINE C == Cell
               n == Len(heap)
    <2>2. n \in Nat /\ DOMAIN heap = 1..n
        <3> HIDE DEF C
        <3> QED
            BY DEF Heap
    <2>3. HeapMerged(d) = [r \in 1..n |-> HeapMerged(d)[r]]
        BY <2>2 DEF HeapMerged
    <2>4. \A r \in 1..n : HeapMerged(d)[r] \in C
        BY <2>1, <2>2
    <2>5. HeapMerged(d) \in Seq(C)
        <3> DEFINE e(r) == HeapMerged(d)[r]
        <3>1. HeapMerged(d) = [r \in 1..n |-> e(r)] /\ \A r \in 1..n : e(r) \in C
            BY <2>3, <2>4
        <3> HIDE DEF e, C, n
        <3> QED
            BY <3>1, <2>2, IsASeq
    <2> QED
        BY <2>5, <2>2, <2>3 DEF Heap
<1>2. \A r \in DOMAIN heap : HeapMerged(d)[r].key = heap[r].key
    <2> SUFFICES ASSUME NEW r \in DOMAIN heap PROVE HeapMerged(d)[r].key = heap[r].key
        OBVIOUS
    <2>1. heap[r] \in Cell
        BY HeapCells
    <2> QED
        BY <2>1 DEF HeapMerged, Cell
<1>3. DeltaOK(heap, StateMerged(d))
    BY DEF StateMerged, DeltaOK, Delta, ValueAt
<1> QED
    BY <1>1, <1>2, <1>3 DEF Grows

-----------------------------------------------------------------------------
(***************************************************************************)
(* Types                                                                   *)
(***************************************************************************)

\* What the calls of a batch have said is a sequence of deltas each.
LEMMA CallsSay ==
    ASSUME ToolTypeOK
    PROVE  /\ Results \in Seq(Delta) /\ CallDeltas \in Seq(Delta)
           /\ DOMAIN Results = DOMAIN calls /\ DOMAIN CallDeltas = DOMAIN calls
           /\ \A c \in DOMAIN calls :
                 /\ Results[c] = calls[c].result /\ CallDeltas[c] = calls[c].delta
                 /\ DeltaOK(heap, Results[c]) /\ DeltaOK(heap, CallDeltas[c])
<1> DEFINE n == Len(calls)
           dd(c) == calls[c].delta
           rr(c) == calls[c].result
<1>1. n \in Nat /\ DOMAIN calls = 1..n
    BY DEF ToolTypeOK
<1>2. \A c \in 1..n : dd(c) \in Delta /\ rr(c) \in Delta
    BY <1>1 DEF ToolTypeOK, DeltaOK
<1>3. CallDeltas = [c \in 1..n |-> dd(c)] /\ Results = [c \in 1..n |-> rr(c)]
    BY <1>1 DEF CallDeltas, Results
<1>4. CallDeltas \in Seq(Delta) /\ Results \in Seq(Delta)
    <2> HIDE DEF dd, rr, n
    <2> QED
        BY <1>1, <1>2, <1>3, IsASeq
<1> QED
    BY <1>1, <1>3, <1>4 DEF ToolTypeOK

LEMMA MergedFits ==
    ASSUME ToolTypeOK PROVE DeltaOK(heap, MergedDelta) /\ MergedDelta \in Delta
<1>1. DeltaOK(heap, Overlaid(Results)) /\ DeltaOK(heap, Overlaid(CallDeltas))
    BY CallsSay, OverlaidFits
<1>2. DeltaOK(heap, MergedDelta)
    BY <1>1, OverrideFits DEF MergedDelta
<1> QED
    BY <1>2 DEF DeltaOK

\* The parts of the type invariant that speak of one call, with a call changed.
LEMMA CallChanges ==
    ASSUME ToolTypeOK, NEW c \in DOMAIN calls, NEW call \in Call, NEW h,
           DeltaOK(h, call.delta), DeltaOK(h, call.result),
           \A d : DeltaOK(heap, d) => DeltaOK(h, d),
           NEW cs, cs = [calls EXCEPT ![c] = call]
    PROVE  /\ cs \in Seq(Call) /\ cs # <<>>
           /\ \A e \in DOMAIN cs : DeltaOK(h, cs[e].delta) /\ DeltaOK(h, cs[e].result)
<1>1. calls \in Seq(Call) /\ DOMAIN calls = 1..Len(calls) /\ Len(calls) \in Nat
    BY DEF ToolTypeOK
<1>2. cs \in Seq(Call) /\ DOMAIN cs = DOMAIN calls
    BY <1>1
<1>3. ASSUME NEW e \in DOMAIN cs
      PROVE  DeltaOK(h, cs[e].delta) /\ DeltaOK(h, cs[e].result)
    <2>1. CASE e = c
        BY <2>1, <1>1
    <2>2. CASE e # c
        BY <2>2, <1>2 DEF ToolTypeOK
    <2> QED
        BY <2>1, <2>2
<1> QED
    BY <1>1, <1>2, <1>3

\* The same for the pending events, with one more.
LEMMA EventAdded ==
    ASSUME ToolTypeOK, NEW h, NEW d, DeltaOK(h, d),
           \A e : DeltaOK(heap, e) => DeltaOK(h, e)
    PROVE  /\ Append(pending, d) \in Seq(Delta) /\ Append(pending, d) # <<>>
           /\ \A i \in DOMAIN Append(pending, d) : DeltaOK(h, Append(pending, d)[i])
<1>1. d \in Delta /\ pending \in Seq(Delta)
    BY DEF DeltaOK, ToolTypeOK
<1>2. /\ Append(pending, d) \in Seq(Delta) /\ Append(pending, d) # <<>>
      /\ DOMAIN Append(pending, d) = 1..Len(pending) + 1
      /\ \A i \in DOMAIN pending : Append(pending, d)[i] = pending[i]
      /\ Append(pending, d)[Len(pending) + 1] = d
      /\ DOMAIN pending = 1..Len(pending) /\ Len(pending) \in Nat
    BY <1>1
<1>3. \A i \in DOMAIN pending : DeltaOK(h, pending[i])
    BY DEF ToolTypeOK
<1>4. \A i \in DOMAIN Append(pending, d) : i \in DOMAIN pending \/ i = Len(pending) + 1
    BY <1>2
<1> QED
    BY <1>2, <1>3, <1>4

\* ... and with the first one gone.
LEMMA EventTaken ==
    ASSUME ToolTypeOK, pending # <<>>
    PROVE  /\ Tail(pending) \in Seq(Delta)
           /\ \A i \in DOMAIN Tail(pending) : DeltaOK(heap, Tail(pending)[i])
           /\ DeltaOK(heap, Head(pending)) /\ Head(pending) \in Delta
           /\ Len(pending) = 1 <=> Tail(pending) = <<>>
<1>1. pending \in Seq(Delta)
    BY DEF ToolTypeOK
<1>2. /\ Tail(pending) \in Seq(Delta)
      /\ DOMAIN Tail(pending) = 1..Len(pending) - 1
      /\ \A i \in DOMAIN Tail(pending) : Tail(pending)[i] = pending[i + 1]
      /\ Head(pending) = pending[1]
      /\ DOMAIN pending = 1..Len(pending) /\ Len(pending) \in Nat \ {0}
      /\ Len(Tail(pending)) = Len(pending) - 1
    BY <1>1
<1>9. Len(pending) = 1 <=> Tail(pending) = <<>>
    <2>1. Tail(pending) # <<>> => Len(Tail(pending)) \in Nat \ {0}
        BY <1>2, EmptySeq, Zenon
    <2>2. Tail(pending) = <<>> => Len(Tail(pending)) = 0
        BY EmptySeq
    <2> QED
        BY <1>2, <2>1, <2>2
<1>3. \A i \in DOMAIN Tail(pending) : i + 1 \in DOMAIN pending
    BY <1>2
<1>4. 1 \in DOMAIN pending
    BY <1>2
<1>5. \A i \in DOMAIN pending : DeltaOK(heap, pending[i])
    BY DEF ToolTypeOK
<1>6. \A i \in DOMAIN Tail(pending) : DeltaOK(heap, Tail(pending)[i])
    BY <1>2, <1>3, <1>5
<1>7. DeltaOK(heap, Head(pending))
    BY <1>2, <1>4, <1>5
<1>8. Head(pending) \in Delta
    BY <1>7 DEF DeltaOK
<1> QED
    BY <1>2, <1>6, <1>7, <1>8, <1>9

LEMMA TypesHoldFirst == Init => ToolTypeOK
<1> SUFFICES ASSUME Init PROVE ToolTypeOK
    OBVIOUS
<1>1. DeltaOK(heap, NoDelta) /\ NoDelta \in Delta
    BY NoDeltaFits
<1>2. heap \in Heap
    BY DEF Init, Heap
<1> QED
    BY <1>1, <1>2, ToolCallsAssumption DEF Init, ToolTypeOK

\* Every action but Merge and Persist leaves the deltas where they are or adds one.
LEMMA TypesAreKept == ToolTypeOK /\ [Next]_vars => ToolTypeOK'
<1> SUFFICES ASSUME ToolTypeOK, [Next]_vars PROVE ToolTypeOK'
    OBVIOUS
<1>1. /\ DeltaOK(heap, NoDelta) /\ NoDelta \in Delta
      /\ DeltaOK(heap, state) /\ DeltaOK(heap, seen) /\ DeltaOK(heap, model.delta)
      /\ heap \in Heap
    BY NoDeltaFits DEF ToolTypeOK
<1>2. ASSUME NEW k \in Keys, NEW x \in Inputs, heap' = HeapWith(k, x)
      PROVE  /\ heap' \in Heap
             /\ Stored(x) \in ValueAt(heap', k)
             /\ \A d : DeltaOK(heap, d) => DeltaOK(heap', d)
    <2>1. Grows(heap, heap') /\ Stored(x) \in ValueAt(heap', k)
        BY <1>1, <1>2, StoredFits
    <2> QED
        BY <2>1, GrowingKeepsTypes, Zenon DEF Grows
<1>3. CASE Start
    BY <1>1, <1>3, ToolCallsAssumption DEF Start, NextStep, ToolTypeOK
<1>4. ASSUME NEW k \in Keys, NEW x \in Inputs, ModelSets(k, x) PROVE ToolTypeOK'
    <2> DEFINE v == Stored(x)
    <2>1. /\ heap' \in Heap /\ v \in ValueAt(heap', k)
          /\ \A d : DeltaOK(heap, d) => DeltaOK(heap', d)
        BY <1>2, <1>4 DEF ModelSets
    <2>2. /\ DeltaOK(heap', state) /\ DeltaOK(heap', seen)
          /\ DeltaOK(heap', model.delta)
        BY <1>1, <2>1
    <2>3. DeltaOK(heap', [state EXCEPT ![k] = v])
        BY <2>1, <2>2, SetFits
    <2>4. DeltaOK(heap', [model.delta EXCEPT ![k] = v])
        BY <2>1, <2>2, SetFits
    <2>5. [model.delta EXCEPT ![k] = v] \in Delta
        BY <2>4 DEF DeltaOK
    <2>6. model'.delta = [model.delta EXCEPT ![k] = v]
        BY <1>4 DEF ModelSets
    <2>7. model' \in [delta: Delta, writes: 0..MaxWrites]
        BY <1>4, <2>5, ToolCallsAssumption DEF ModelSets, ToolTypeOK
    <2>8. /\ \A i \in DOMAIN pending : DeltaOK(heap', pending[i])
          /\ \A c \in DOMAIN calls :
                DeltaOK(heap', calls[c].delta) /\ DeltaOK(heap', calls[c].result)
        BY <2>1 DEF ToolTypeOK
    <2> QED
        BY <1>4, <2>1, <2>2, <2>3, <2>4, <2>6, <2>7, <2>8 DEF ModelSets, ToolTypeOK
<1>5. ASSUME NEW k \in Keys, ModelDeletes(k) PROVE ToolTypeOK'
    <2> DEFINE said == [model.delta EXCEPT ![k] = TombstoneValue]
    <2>1. DeltaOK(heap, [state EXCEPT ![k] = Absent])
        BY <1>1, PlainValues, SetFits
    <2>2. DeltaOK(heap, said)
        BY <1>1, PlainValues, SetFits
    <2>3. said \in Delta
        BY <2>2 DEF DeltaOK
    <2>4. model' \in [delta: Delta, writes: 0..MaxWrites] /\ model'.delta = said
        BY <1>5, <2>3, ToolCallsAssumption DEF ModelDeletes, ToolTypeOK
    <2> HIDE DEF said
    <2> QED
        BY <1>5, <2>1, <2>2, <2>4 DEF ModelDeletes, ToolTypeOK
<1>6. CASE ModelFails
    BY <1>1, <1>6, ToolCallsAssumption DEF ModelFails, ToolTypeOK
<1>7. /\ Append(pending, model.delta) \in Seq(Delta)
      /\ Append(pending, model.delta) # <<>>
      /\ \A i \in DOMAIN Append(pending, model.delta) :
            DeltaOK(heap, Append(pending, model.delta)[i])
    BY <1>1, EventAdded
<1>8. ASSUME ModelEvent
      PROVE  /\ pending' \in Seq(Delta) /\ pending' # <<>>
             /\ \A i \in DOMAIN pending' : DeltaOK(heap, pending'[i])
             /\ model' \in [delta: Delta, writes: 0..MaxWrites]
             /\ model'.delta = NoDelta
    BY <1>1, <1>7, <1>8 DEF ModelEvent, ToolTypeOK
<1>9. CASE Answer
    BY <1>1, <1>8, <1>9 DEF Answer, ToolTypeOK
<1>10. ASSUME NEW n \in 1..MaxCalls, CallTools(n) PROVE ToolTypeOK'
    <2>1. NewCall \in Call /\ NewCall.delta = NoDelta /\ NewCall.result = NoDelta
        BY <1>1, ToolCallsAssumption DEF NewCall, Call
    <2>2. n \in Nat \ {0} /\ calls' = [c \in 1..n |-> NewCall]
        BY <1>10, ToolCallsAssumption DEF CallTools
    <2>3. /\ calls' \in Seq(Call) /\ calls' # <<>>
          /\ \A c \in DOMAIN calls' : calls'[c] = NewCall
        <3> HIDE DEF NewCall
        <3> QED
            BY <2>1, <2>2
    <2>4. \A c \in DOMAIN calls' :
              DeltaOK(heap, calls'[c].delta) /\ DeltaOK(heap, calls'[c].result)
        BY <1>1, <2>1, <2>3
    <2>5. batches' \in 0..MaxBatches
        BY <1>10, ToolCallsAssumption DEF CallTools, ToolTypeOK
    <2>6. ModelEvent /\ phase' = "tools" /\ UNCHANGED <<state, heap, seen>>
        BY <1>10 DEF CallTools
    <2> QED
        BY <1>1, <1>8, <2>3, <2>4, <2>5, <2>6 DEF ToolTypeOK
<1>11. ASSUME NEW c \in DOMAIN calls, CallStep(c) PROVE ToolTypeOK'
    <2> DEFINE call == calls[c]
    <2>1. /\ call \in Call /\ DeltaOK(heap, call.delta) /\ DeltaOK(heap, call.result)
          /\ phase = "tools" /\ pending # <<>> /\ model.delta = NoDelta
        BY DEF ToolTypeOK
    <2>2. ASSUME NEW more \in Call, calls' = [calls EXCEPT ![c] = more],
                 heap' \in Heap, \A d : DeltaOK(heap, d) => DeltaOK(heap', d),
                 DeltaOK(heap', more.delta), DeltaOK(heap', more.result),
                 DeltaOK(heap', state'),
                 UNCHANGED <<phase, batches, model, pending, seen>>
          PROVE  ToolTypeOK'
        <3>1. /\ calls' \in Seq(Call) /\ calls' # <<>>
              /\ \A e \in DOMAIN calls' :
                    DeltaOK(heap', calls'[e].delta) /\ DeltaOK(heap', calls'[e].result)
            BY <2>2, CallChanges
        <3>2. /\ \A i \in DOMAIN pending : DeltaOK(heap', pending[i])
              /\ DeltaOK(heap', seen) /\ DeltaOK(heap', model.delta)
            BY <2>2 DEF ToolTypeOK
        <3> QED
            BY <2>1, <2>2, <3>1, <3>2 DEF ToolTypeOK
    <2>3. ASSUME NEW k \in Keys, NEW x \in Inputs, HookSets(c, k, x) PROVE ToolTypeOK'
        <3> DEFINE more == [call EXCEPT !.delta[k] = Stored(x), !.writes = @ + 1]
        <3>1. /\ heap' \in Heap /\ Stored(x) \in ValueAt(heap', k)
              /\ \A d : DeltaOK(heap, d) => DeltaOK(heap', d)
            BY <1>2, <2>3 DEF HookSets
        <3>2. DeltaOK(heap', [state EXCEPT ![k] = Stored(x)])
            BY <3>1, <1>1, SetFits
        <3>3. DeltaOK(heap', [call.delta EXCEPT ![k] = Stored(x)])
            BY <3>1, <2>1, SetFits
        <3>4. [call.delta EXCEPT ![k] = Stored(x)] \in Delta
            BY <3>3 DEF DeltaOK
        <3>5. more \in Call /\ more.delta = [call.delta EXCEPT ![k] = Stored(x)]
              /\ more.result = call.result
            BY <2>1, <2>3, <3>4, ToolCallsAssumption DEF HookSets, Call
        <3>6. calls' = [calls EXCEPT ![c] = more]
            BY <2>3 DEF HookSets
        <3>7. DeltaOK(heap', more.result) /\ DeltaOK(heap', more.delta)
            BY <2>1, <3>1, <3>3, <3>5
        <3> HIDE DEF more, call
        <3> QED
            BY <2>2, <2>3, <3>1, <3>2, <3>5, <3>6, <3>7 DEF HookSets
    <2>4. ASSUME NEW k \in Keys, HookDeletes(c, k) PROVE ToolTypeOK'
        <3> DEFINE more == [call EXCEPT !.delta[k] = TombstoneValue, !.writes = @ + 1]
        <3>1. DeltaOK(heap, [state EXCEPT ![k] = Absent])
            BY <1>1, PlainValues, SetFits
        <3>2. DeltaOK(heap, [call.delta EXCEPT ![k] = TombstoneValue])
            BY <2>1, PlainValues, SetFits
        <3>3. [call.delta EXCEPT ![k] = TombstoneValue] \in Delta
            BY <3>2 DEF DeltaOK
        <3>4. more \in Call /\ more.delta = [call.delta EXCEPT ![k] = TombstoneValue]
              /\ more.result = call.result
            BY <2>1, <2>4, <3>3, ToolCallsAssumption DEF HookDeletes, Call
        <3>5. calls' = [calls EXCEPT ![c] = more]
            BY <2>4 DEF HookDeletes
        <3> HIDE DEF more, call
        <3> QED
            BY <1>1, <2>1, <2>2, <2>4, <3>1, <3>2, <3>4, <3>5 DEF HookDeletes
    <2>5. ASSUME NEW k \in Keys, NEW x \in Inputs, NEW into \in {"result", "actions"},
                 ToolWrites(c, k, x, into)
          PROVE  ToolTypeOK'
        <3> DEFINE more == IF into = "result"
                           THEN [call EXCEPT !.pc = "after", !.result[k] = Stored(x)]
                           ELSE [call EXCEPT !.pc = "after", !.delta[k] = Stored(x)]
        <3>1. /\ heap' \in Heap /\ Stored(x) \in ValueAt(heap', k)
              /\ \A d : DeltaOK(heap, d) => DeltaOK(heap', d)
            BY <1>2, <2>5 DEF ToolWrites
        <3>2. /\ DeltaOK(heap', [call.delta EXCEPT ![k] = Stored(x)])
              /\ DeltaOK(heap', [call.result EXCEPT ![k] = Stored(x)])
            BY <3>1, <2>1, SetFits
        <3>3. /\ [call.delta EXCEPT ![k] = Stored(x)] \in Delta
              /\ [call.result EXCEPT ![k] = Stored(x)] \in Delta
            BY <3>2 DEF DeltaOK
        <3>4. /\ more \in Call
              /\ more.delta \in {call.delta, [call.delta EXCEPT ![k] = Stored(x)]}
              /\ more.result \in {call.result, [call.result EXCEPT ![k] = Stored(x)]}
            BY <2>1, <3>3 DEF Call
        <3>5. calls' = [calls EXCEPT ![c] = more]
            BY <2>5 DEF ToolWrites
        <3>6. DeltaOK(heap', more.result) /\ DeltaOK(heap', more.delta)
            BY <2>1, <3>1, <3>2, <3>4
        <3>7. DeltaOK(heap', state)
            BY <1>1, <3>1
        <3> HIDE DEF more, call
        <3> QED
            BY <2>2, <2>5, <3>1, <3>4, <3>5, <3>6, <3>7 DEF ToolWrites
    <2>6. CASE ToolReturns(c)
        <3> DEFINE more == [call EXCEPT !.pc = "after"]
        <3>1. more \in Call /\ more.delta = call.delta /\ more.result = call.result
            BY <2>1 DEF Call
        <3>2. calls' = [calls EXCEPT ![c] = more]
            BY <2>6 DEF ToolReturns
        <3> HIDE DEF more, call
        <3> QED
            BY <1>1, <2>1, <2>2, <2>6, <3>1, <3>2 DEF ToolReturns
    <2>7. ASSUME NEW result, DeltaOK(heap, result),
                 HooksEnd(c, result) \/ HookAnswers(c, result)
          PROVE  ToolTypeOK'
        <3> DEFINE more == [call EXCEPT !.pc = "done", !.result = result]
        <3>1. result \in Delta
            BY <2>7 DEF DeltaOK
        <3>2. more \in Call /\ more.delta = call.delta /\ more.result = result
            BY <2>1, <3>1 DEF Call
        <3>3. calls' = [calls EXCEPT ![c] = more]
            BY <2>7 DEF HooksEnd, HookAnswers
        <3> HIDE DEF more, call
        <3> QED
            BY <1>1, <2>1, <2>2, <2>7, <3>2, <3>3 DEF HooksEnd, HookAnswers
    <2>8. \A reply \in Replies : DeltaOK(heap, reply)
        BY <1>1, PlainValues, SetFits DEF Replies
    <2> QED
        BY <1>11, <2>1, <2>3, <2>4, <2>5, <2>6, <2>7, <2>8 DEF CallStep
<1>12. ASSUME NEW last \in BOOLEAN, Merge(last) PROVE ToolTypeOK'
    <2> DEFINE d == MergedDelta
    <2>1. DeltaOK(heap, d)
        BY MergedFits
    <2>2. Grows(heap, heap') /\ DeltaOK(heap, state')
        BY <1>1, <1>12, <2>1, MergeFits DEF Merge
    <2>3. heap' \in Heap /\ \A e : DeltaOK(heap, e) => DeltaOK(heap', e)
        BY <2>2, GrowingKeepsTypes, Zenon DEF Grows
    <2>4. /\ pending' \in Seq(Delta) /\ pending' # <<>>
          /\ \A i \in DOMAIN pending' : DeltaOK(heap', pending'[i])
        <3>1. pending' = Append(pending, d)
            BY <1>12 DEF Merge
        <3> HIDE DEF d
        <3> QED
            BY <2>1, <2>3, <3>1, EventAdded
    <2>5. /\ DeltaOK(heap', state') /\ DeltaOK(heap', seen) /\ DeltaOK(heap', model.delta)
          /\ DeltaOK(heap', NoDelta)
        BY <1>1, <2>2, <2>3
    <2>6. /\ seen' \in {seen, state'} /\ model'.delta \in {model.delta, NoDelta}
          /\ model' \in [delta: Delta, writes: 0..MaxWrites]
          /\ phase' \in {"model", "ending"} /\ calls' = <<>> /\ batches' = batches
          /\ phase' # "model" => model' = model
        BY <1>1, <1>12, ToolCallsAssumption DEF Merge, NextStep, ToolTypeOK
    <2>7. phase = "tools"
        BY <1>12 DEF Merge
    <2> HIDE DEF d
    <2> QED
        BY <2>3, <2>4, <2>5, <2>6, <2>7 DEF ToolTypeOK
<1>13. CASE Persist
    <2>1. pending # <<>> /\ phase # "model" /\ phase # "tools"
        BY <1>13 DEF Persist, ToolTypeOK
    <2>2. /\ Tail(pending) \in Seq(Delta)
          /\ \A i \in DOMAIN Tail(pending) : DeltaOK(heap, Tail(pending)[i])
          /\ DeltaOK(heap, Head(pending))
          /\ Len(pending) = 1 <=> Tail(pending) = <<>>
        BY <2>1, EventTaken
    <2>3. DeltaOK(heap, state')
        BY <1>1, <1>13, <2>2, OverrideFits DEF Persist
    <2> QED
        BY <1>1, <1>13, <2>1, <2>2, <2>3 DEF Persist, ToolTypeOK
<1>14. CASE UNCHANGED vars
    BY <1>14 DEF vars, ToolTypeOK
<1> QED
    BY <1>3, <1>4, <1>5, <1>6, <1>9, <1>10, <1>11, <1>12, <1>13, <1>14 DEF Next

-----------------------------------------------------------------------------
(***************************************************************************)
(* The inductive invariant                                                 *)
(***************************************************************************)

\* A hook of some call has written k.
HookWrote(k) == \E c \in DOMAIN calls : calls[c].delta[k] # Absent

\* What the events say shows in the state, but where a batch is writing: there it
\* shows again when the batch is merged.
ShowsOutsideBatch ==
    \A k \in Keys :
        /\ phase \in {"model", "tools", "ending"}
        /\ phase = "tools" => ~HookWrote(k)
        /\ Said(k) # Absent
        => Shows(heap, state[k], Said(k))

\* A change of the state is in an event, or in the actions of a call.
ChangesAreSaid ==
    \A k \in Keys :
        phase \in {"model", "tools"} /\ state[k] # seen[k] =>
            Said(k) # Absent \/ HookWrote(k)

\* What the state will have at k when all pending events are persisted.
Settled(k) ==
    IF LastOn(pending, k) # Absent THEN LastOn(pending, k) ELSE state[k]

\* v and w are both maps, or read the same.
Alike(v, w) == (IsMap(v) <=> IsMap(w)) /\ (~IsMap(v) => Reads(w) = Reads(v))

SettlesAsSeen ==
    phase \in {"ending", "persisting", "done"} =>
        \A k \in Keys : Alike(seen[k], Settled(k))

ToolInv == ToolTypeOK /\ ShowsOutsideBatch /\ ChangesAreSaid /\ SettlesAsSeen

-----------------------------------------------------------------------------
(***************************************************************************)
(* What a step does to it                                                  *)
(***************************************************************************)

\* A value shows itself, and goes on showing another while the maps stay.
LEMMA ShowsItself == ASSUME NEW h, NEW v PROVE Shows(h, v, v)
BY DEF Shows

LEMMA ShowsKept ==
    ASSUME NEW h, NEW more, \A r \in DOMAIN h : more[r] = h[r],
           NEW k, NEW w \in ValueAt(h, k), NEW v \in ValueAt(h, k), Shows(h, w, v)
    PROVE  Shows(more, w, v)
BY DEF Shows, ValueAt, IsMap

LEMMA ShownIsAlike ==
    ASSUME NEW h, NEW k, NEW w \in ValueAt(h, k), NEW v \in ValueAt(h, k), Shows(h, w, v)
    PROVE  Alike(w, v)
<1>1. CASE IsMap(v)
    BY <1>1 DEF Shows, Alike
<1>2. CASE ~IsMap(v)
    <2>1. Reads(w) = Reads(v)
        BY <1>2 DEF Shows
    <2>2. ~IsMap(w)
        BY <1>2, <2>1 DEF Reads, IsMap, Absent, TombstoneValue
    <2> QED
        BY <1>2, <2>1, <2>2 DEF Alike
<1> QED
    BY <1>1, <1>2

\* What is said of k, in terms of the events and of the model call under way.
LEMMA SaidIs ==
    ASSUME ToolTypeOK, NEW k \in Keys
    PROVE  /\ Said(k) = IF model.delta[k] # Absent THEN model.delta[k]
                        ELSE LastOn(pending, k)
           /\ Said(k) \in ValueAt(heap, k)
           /\ state[k] \in ValueAt(heap, k)
           /\ LastOn(pending, k) \in ValueAt(heap, k)
<1>1. pending \in Seq(Delta) /\ model.delta \in Delta
    BY DEF ToolTypeOK, DeltaOK
<1>2. Said(k) = IF model.delta[k] # Absent THEN model.delta[k] ELSE LastOn(pending, k)
    BY <1>1, LastOnAppend DEF Said
<1>3. LastOn(pending, k) \in ValueAt(heap, k)
    BY <1>1, LastOnFits DEF ToolTypeOK
<1> QED
    BY <1>2, <1>3 DEF ToolTypeOK, DeltaOK

\* At the end of a batch, what the merged delta has at k is what the calls say.
LEMMA MergedSays ==
    ASSUME ToolTypeOK, NEW k \in Keys
    PROVE  /\ MergedDelta[k] = IF LastOn(CallDeltas, k) # Absent
                               THEN LastOn(CallDeltas, k) ELSE LastOn(Results, k)
           /\ MergedDelta[k] = Absent => ~HookWrote(k)
<1>1. MergedDelta[k] = IF LastOn(CallDeltas, k) # Absent
                       THEN LastOn(CallDeltas, k) ELSE LastOn(Results, k)
    BY DEF MergedDelta, Override, Overlaid
<1>2. CallDeltas \in Seq(Delta) /\ DOMAIN CallDeltas = DOMAIN calls
      /\ \A c \in DOMAIN calls : CallDeltas[c] = calls[c].delta
    BY CallsSay
<1>3. ASSUME MergedDelta[k] = Absent, HookWrote(k) PROVE FALSE
    <2>1. Sets(CallDeltas, k) # {}
        BY <1>2, <1>3 DEF HookWrote, Sets
    <2>2. LastOn(CallDeltas, k) # Absent
        BY <1>2, <2>1, LastOnSome, Zenon
    <2> QED
        BY <1>1, <1>3, <2>2
<1> QED
    BY <1>1, <1>3

\* After MergeStateDelta the state shows the merged delta, and what it showed
\* before at the keys the delta does not have.
LEMMA MergeShows ==
    ASSUME heap \in Heap, DeltaOK(heap, state), NEW d, DeltaOK(heap, d), NEW k \in Keys
    PROVE  /\ d[k] # Absent => Shows(HeapMerged(d), StateMerged(d)[k], d[k])
           /\ d[k] = Absent => StateMerged(d)[k] = state[k]
           /\ \A v \in ValueAt(heap, k) :
                 d[k] = Absent /\ Shows(heap, state[k], v) =>
                    Shows(HeapMerged(d), StateMerged(d)[k], v)
<1>1. \A v \in ValueAt(heap, k) : IsMap(v) => v.of \in DOMAIN heap /\ heap[v.of].key = k
    BY DEF ValueAt, IsMap
<1>2. /\ state[k] \in ValueAt(heap, k) /\ d[k] \in ValueAt(heap, k)
      /\ state[k] \in Value /\ d[k] \in Value
    BY DEF DeltaOK, ValueAt
<1>3. d[k] = Absent => ~IsMap(d[k])
    BY DEF Absent, IsMap
<1>4. d[k] = Absent => StateMerged(d)[k] = state[k]
    BY DEF StateMerged
<1>5. ASSUME NEW v \in ValueAt(heap, k), d[k] = Absent, Shows(heap, state[k], v)
      PROVE  Shows(HeapMerged(d), StateMerged(d)[k], v)
    <2>1. \A r \in DOMAIN heap : heap[r].key = k => HeapMerged(d)[r] = heap[r]
        BY <1>3, <1>5 DEF HeapMerged, Deepens
    <2> QED
        BY <1>1, <1>2, <1>4, <1>5, <2>1 DEF Shows
<1>6. ASSUME d[k] # Absent PROVE Shows(HeapMerged(d), StateMerged(d)[k], d[k])
    <2>1. CASE ~Deepens(d, k)
        <3>1. StateMerged(d)[k] = d[k]
            BY <1>6, <2>1 DEF StateMerged
        <3> QED
            BY <3>1, ShowsItself
    <2>2. CASE Deepens(d, k)
        <3> DEFINE r == state[k].of
                   s == d[k].of
        <3>1. /\ IsMap(state[k]) /\ IsMap(d[k])
              /\ r \in DOMAIN heap /\ s \in DOMAIN heap
              /\ heap[r].key = k /\ heap[s].key = k
            BY <1>1, <1>2, <2>2 DEF Deepens
        <3>2. StateMerged(d)[k] = state[k] /\ state[k] = Map(r)
            BY <1>2, <2>2, <3>1 DEF StateMerged, Value, IsMap, Map
        <3>3. /\ heap[r] \in Cell /\ heap[s] \in Cell
              /\ heap[r].fields \in [Fields -> FieldValue]
              /\ heap[s].fields \in [Fields -> FieldValue]
            BY <3>1, HeapCells
        <3>4. HeapMerged(d)[r] =
                  [heap[r] EXCEPT !.fields = Override(heap[r].fields, heap[s].fields)]
            BY <2>2, <3>1, <3>2 DEF HeapMerged
        <3>5. HeapMerged(d)[r].fields = Override(heap[r].fields, heap[s].fields)
            BY <3>3, <3>4 DEF Cell
        <3>6. CASE s = r
            BY <3>1, <3>2, <3>6 DEF Shows
        <3>7. CASE s # r
            <4>1. state[k] # Map(s)
                BY <3>2, <3>7 DEF Map
            <4>2. HeapMerged(d)[s] = heap[s]
                BY <3>1, <4>1 DEF HeapMerged
            <4>3. \A f \in Fields :
                      heap[s].fields[f] # Absent =>
                          HeapMerged(d)[r].fields[f] = heap[s].fields[f]
                BY <3>3, <3>5 DEF Override
            <4> QED
                BY <3>1, <3>2, <4>2, <4>3 DEF Shows
        <3> QED
            BY <3>6, <3>7
    <2> QED
        BY <2>1, <2>2
<1> QED
    BY <1>4, <1>5, <1>6

\* A step of a call keeps the invariant if it writes the state only where it also
\* writes its actions, and takes nothing out of them.
LEMMA CallKeeps ==
    ASSUME ToolInv, ToolTypeOK', phase = "tools", calls # <<>>,
           UNCHANGED <<phase, model, pending, seen>>,
           \A r \in DOMAIN heap : heap'[r] = heap[r],
           \A k \in Keys : HookWrote(k) => HookWrote(k)',
           \A k \in Keys : state'[k] = state[k] \/ HookWrote(k)'
    PROVE  ShowsOutsideBatch' /\ ChangesAreSaid' /\ SettlesAsSeen'
<1>1. \A k \in Keys : Said(k)' = Said(k)
    BY DEF Said
<1>2. ASSUME NEW k \in Keys, ~HookWrote(k)', Said(k)' # Absent
      PROVE  Shows(heap', state'[k], Said(k)')
    <2>1. state'[k] = state[k] /\ ~HookWrote(k)
        BY <1>2
    <2>2. Shows(heap, state[k], Said(k))
        BY <1>1, <1>2, <2>1 DEF ToolInv, ShowsOutsideBatch
    <2>3. Said(k) \in ValueAt(heap, k) /\ state[k] \in ValueAt(heap, k)
        BY SaidIs DEF ToolInv
    <2>4. Shows(heap', state[k], Said(k))
        BY <2>2, <2>3, ShowsKept
    <2> QED
        BY <1>1, <2>1, <2>4
<1>3. ASSUME NEW k \in Keys, state'[k] # seen'[k] PROVE Said(k)' # Absent \/ HookWrote(k)'
    <2>1. CASE HookWrote(k)'
        BY <2>1
    <2>2. CASE ~HookWrote(k)'
        <3>1. state[k] # seen[k] /\ ~HookWrote(k)
            BY <1>3, <2>2
        <3>2. Said(k) # Absent
            BY <3>1 DEF ToolInv, ChangesAreSaid
        <3> QED
            BY <1>1, <3>2
    <2> QED
        BY <2>1, <2>2
<1>4. phase' = "tools"
    OBVIOUS
<1> QED
    BY <1>2, <1>3, <1>4 DEF ShowsOutsideBatch, ChangesAreSaid, SettlesAsSeen

\* A write of the model's callbacks is the last thing said.
LEMMA ModelKeeps ==
    ASSUME ToolInv, ToolTypeOK', NEW k \in Keys, NEW v, NEW w, NEW h,
           phase = "model", phase' = "model", heap' = h, UNCHANGED <<calls, pending, seen>>,
           \A r \in DOMAIN heap : h[r] = heap[r],
           model'.delta = [model.delta EXCEPT ![k] = v], v # Absent,
           state' = [state EXCEPT ![k] = w], Shows(h, w, v)
    PROVE  ShowsOutsideBatch' /\ ChangesAreSaid' /\ SettlesAsSeen'
<1>1. /\ model.delta \in Delta /\ state \in Delta /\ pending \in Seq(Delta)
      /\ model'.delta \in Delta /\ calls = <<>>
    BY DEF ToolInv, ToolTypeOK, DeltaOK
<1>2. \A j \in Keys : Said(j)' = IF model'.delta[j] # Absent THEN model'.delta[j]
                                  ELSE LastOn(pending, j)
    <2> SUFFICES ASSUME NEW j \in Keys
                 PROVE  LastOn(Append(pending, model'.delta), j) =
                            IF model'.delta[j] # Absent THEN model'.delta[j]
                            ELSE LastOn(pending, j)
        BY DEF Said
    <2> DEFINE d == model'.delta
    <2>1. d \in Delta /\ pending \in Seq(Delta)
        BY <1>1
    <2> HIDE DEF d
    <2>2. LastOn(Append(pending, d), j) = IF d[j] # Absent THEN d[j] ELSE LastOn(pending, j)
        BY <2>1, LastOnAppend
    <2> QED
        BY <2>2 DEF d
<1>3. ASSUME NEW j \in Keys, j # k
      PROVE  Said(j)' = Said(j) /\ state'[j] = state[j]
    <2>1. model'.delta[j] = model.delta[j] /\ state'[j] = state[j]
        BY <1>1, <1>3 DEF Delta
    <2>2. Said(j) = IF model.delta[j] # Absent THEN model.delta[j] ELSE LastOn(pending, j)
        BY SaidIs DEF ToolInv
    <2> QED
        BY <1>2, <2>1, <2>2
<1>4. Said(k)' = v /\ state'[k] = w
    <2>1. model'.delta[k] = v /\ state'[k] = w
        BY <1>1 DEF Delta
    <2> QED
        BY <1>2, <2>1
<1>5. ASSUME NEW j \in Keys, Said(j)' # Absent
      PROVE  Shows(heap', state'[j], Said(j)')
    <2>1. CASE j = k
        BY <1>4, <2>1
    <2>2. CASE j # k
        <3>1. Shows(heap, state[j], Said(j))
            BY <1>3, <1>5, <2>2 DEF ToolInv, ShowsOutsideBatch
        <3>2. Said(j) \in ValueAt(heap, j) /\ state[j] \in ValueAt(heap, j)
            BY SaidIs DEF ToolInv
        <3>3. Shows(h, state[j], Said(j))
            BY <3>1, <3>2, ShowsKept
        <3> QED
            BY <1>3, <2>2, <3>3
    <2> QED
        BY <2>1, <2>2
<1>6. ASSUME NEW j \in Keys, state'[j] # seen'[j] PROVE Said(j)' # Absent
    <2>1. CASE j = k
        BY <1>4, <2>1
    <2>2. CASE j # k
        <3>1. state[j] # seen[j] /\ ~HookWrote(j)
            BY <1>1, <1>3, <1>6, <2>2 DEF HookWrote
        <3>2. Said(j) # Absent
            BY <3>1 DEF ToolInv, ChangesAreSaid
        <3> QED
            BY <1>3, <2>2, <3>2
    <2> QED
        BY <2>1, <2>2
<1> QED
    BY <1>5, <1>6 DEF ShowsOutsideBatch, ChangesAreSaid, SettlesAsSeen

\* The model's event takes over what its callbacks have said.
LEMMA EventKeepsSaid ==
    ASSUME ToolTypeOK, ModelEvent, NEW k \in Keys
    PROVE  Said(k)' = Said(k) /\ LastOn(pending', k) = Said(k)
<1>1. pending \in Seq(Delta) /\ model.delta \in Delta
    BY DEF ToolTypeOK, DeltaOK
<1>2. pending' = Append(pending, model.delta) /\ model'.delta = NoDelta
    BY DEF ModelEvent, ToolTypeOK
<1>3. pending' \in Seq(Delta)
    BY <1>1, <1>2
<1>4. LastOn(Append(pending', NoDelta), k) = LastOn(pending', k)
    BY <1>3, NoDeltaFits, LastOnAppend DEF NoDelta
<1> QED
    BY <1>2, <1>4 DEF Said

\* When the run ends with the state as it is, persisting leaves it alike.
LEMMA EndSettles ==
    ASSUME ToolTypeOK', phase' = "ending", seen' = state', model'.delta = NoDelta,
           \A k \in Keys : Said(k)' # Absent => Shows(heap', state'[k], Said(k)')
    PROVE  SettlesAsSeen'
<1>1. pending' \in Seq(Delta)
    BY DEF ToolTypeOK
<1>2. ASSUME NEW k \in Keys PROVE Alike(seen'[k], Settled(k)')
    <2>1. Said(k)' = LastOn(pending', k)
        <3>1. Said(k)' = LastOn(Append(pending', NoDelta), k)
            BY DEF Said
        <3> QED
            BY <1>1, <3>1, NoDeltaFits, LastOnAppend DEF NoDelta
    <2>2. CASE Said(k)' = Absent
        <3>1. Settled(k)' = state'[k]
            BY <2>1, <2>2 DEF Settled
        <3> QED
            BY <3>1 DEF Alike
    <2>3. CASE Said(k)' # Absent
        <3>1. Settled(k)' = Said(k)'
            BY <2>1, <2>3 DEF Settled
        <3>2. state'[k] \in ValueAt(heap', k)
            BY DEF ToolTypeOK, DeltaOK
        <3>3. LastOn(pending', k) \in ValueAt(heap', k)
            BY <1>1, LastOnFits DEF ToolTypeOK
        <3>4. Shows(heap', state'[k], Said(k)')
            BY <2>3
        <3>5. Alike(state'[k], Said(k)')
            BY <2>1, <3>2, <3>3, <3>4, ShownIsAlike
        <3> QED
            BY <3>1, <3>5
    <2> QED
        BY <2>2, <2>3
<1> QED
    BY <1>2 DEF SettlesAsSeen

LEMMA InvariantHoldsFirst == Init => ToolInv
<1> SUFFICES ASSUME Init PROVE ToolInv
    OBVIOUS
<1>1. ToolTypeOK
    BY TypesHoldFirst
<1> QED
    BY <1>1 DEF Init, ToolInv, ShowsOutsideBatch, ChangesAreSaid, SettlesAsSeen

LEMMA InvariantIsKept == ToolInv /\ [Next]_vars => ToolInv'
<1> SUFFICES ASSUME ToolInv, [Next]_vars
             PROVE  ShowsOutsideBatch' /\ ChangesAreSaid' /\ SettlesAsSeen'
    BY TypesAreKept DEF ToolInv
<1>1. ToolTypeOK /\ ToolTypeOK'
    BY TypesAreKept DEF ToolInv
<1>2. /\ heap \in Heap /\ DeltaOK(heap, state) /\ calls \in Seq(Call)
      /\ state \in Delta /\ pending \in Seq(Delta)
    BY <1>1 DEF ToolTypeOK, DeltaOK
<1>3. CASE Start
    <2>1. phase' = "model" /\ state' = seen' /\ pending' = <<>> /\ model'.delta = NoDelta
        BY <1>1, <1>3 DEF Start, NextStep, ToolTypeOK
    <2>2. \A k \in Keys : Said(k)' = Absent
        <3> SUFFICES ASSUME NEW k \in Keys PROVE Said(k)' = Absent
            OBVIOUS
        <3>1. Said(k)' = LastOn(Append(<<>>, NoDelta), k)
            BY <2>1 DEF Said
        <3>2. <<>> \in Seq(Delta) /\ NoDelta \in Delta
            BY NoDeltaFits
        <3>3. LastOn(Append(<<>>, NoDelta), k) =
                  IF NoDelta[k] # Absent THEN NoDelta[k] ELSE LastOn(<<>>, k)
            BY <3>2, LastOnAppend
        <3>4. NoDelta[k] = Absent /\ LastOn(<<>>, k) = Absent
            BY DEF NoDelta, LastOn, Sets
        <3> QED
            BY <3>1, <3>3, <3>4
    <2> QED
        BY <2>1, <2>2 DEF ShowsOutsideBatch, ChangesAreSaid, SettlesAsSeen
<1>4. ASSUME NEW k \in Keys, NEW x \in Inputs, ModelSets(k, x)
      PROVE  ShowsOutsideBatch' /\ ChangesAreSaid' /\ SettlesAsSeen'
    <2> DEFINE v == Stored(x)
               h == HeapWith(k, x)
    <2>1. v # Absent /\ \A r \in DOMAIN heap : h[r] = heap[r]
        BY <1>2, StoredFits
    <2>2. /\ phase = "model" /\ phase' = "model" /\ heap' = h
          /\ UNCHANGED <<calls, pending, seen>>
          /\ model'.delta = [model.delta EXCEPT ![k] = v]
          /\ state' = [state EXCEPT ![k] = v]
        BY <1>4 DEF ModelSets
    <2>3. Shows(h, v, v)
        BY ShowsItself
    <2> HIDE DEF v, h
    <2> QED
        BY <1>1, <2>1, <2>2, <2>3, ModelKeeps
<1>5. ASSUME NEW k \in Keys, ModelDeletes(k)
      PROVE  ShowsOutsideBatch' /\ ChangesAreSaid' /\ SettlesAsSeen'
    <2> DEFINE v == TombstoneValue
               w == Absent
               h == heap
    <2>1. v # Absent /\ \A r \in DOMAIN heap : h[r] = heap[r]
        BY DEF TombstoneValue, Absent
    <2>2. /\ phase = "model" /\ phase' = "model" /\ heap' = h
          /\ UNCHANGED <<calls, pending, seen>>
          /\ model'.delta = [model.delta EXCEPT ![k] = v]
          /\ state' = [state EXCEPT ![k] = w]
        BY <1>5 DEF ModelDeletes
    <2>3. Shows(h, w, v)
        BY DEF Shows, Reads, IsMap, TombstoneValue, Absent
    <2> HIDE DEF v, w, h
    <2> QED
        BY <1>1, <2>1, <2>2, <2>3, ModelKeeps
<1>6. CASE ModelFails
    BY <1>6 DEF ModelFails, ShowsOutsideBatch, ChangesAreSaid, SettlesAsSeen
<1>7. CASE Answer
    <2>1. ModelEvent /\ phase = "model" /\ phase' = "ending" /\ seen' = state'
          /\ state' = state /\ heap' = heap
        BY <1>7 DEF Answer
    <2>2. model'.delta = NoDelta
        BY <1>1, <2>1 DEF ToolTypeOK
    <2>3. \A k \in Keys : Said(k)' # Absent => Shows(heap', state'[k], Said(k)')
        <3> SUFFICES ASSUME NEW k \in Keys, Said(k)' # Absent
                     PROVE  Shows(heap', state'[k], Said(k)')
            OBVIOUS
        <3>1. Said(k)' = Said(k)
            BY <1>1, <2>1, EventKeepsSaid
        <3>2. Shows(heap, state[k], Said(k))
            BY <2>1, <3>1 DEF ToolInv, ShowsOutsideBatch
        <3> QED
            BY <2>1, <3>1, <3>2
    <2>4. SettlesAsSeen'
        BY <1>1, <2>1, <2>2, <2>3, EndSettles
    <2> QED
        BY <2>1, <2>3, <2>4 DEF ShowsOutsideBatch, ChangesAreSaid
<1>8. ASSUME NEW n \in 1..MaxCalls, CallTools(n)
      PROVE  ShowsOutsideBatch' /\ ChangesAreSaid' /\ SettlesAsSeen'
    <2>1. ModelEvent /\ phase = "model" /\ phase' = "tools"
          /\ UNCHANGED <<state, heap, seen>>
        BY <1>8 DEF CallTools
    <2>2. \A k \in Keys : Said(k)' = Said(k)
        BY <1>1, <2>1, EventKeepsSaid
    <2>3. \A k \in Keys : ~HookWrote(k)
        BY <1>1, <2>1 DEF ToolTypeOK, HookWrote
    <2> QED
        BY <2>1, <2>2, <2>3
        DEF ToolInv, ShowsOutsideBatch, ChangesAreSaid, SettlesAsSeen
<1>9. ASSUME NEW c \in DOMAIN calls, CallStep(c)
      PROVE  ShowsOutsideBatch' /\ ChangesAreSaid' /\ SettlesAsSeen'
    <2>1. phase = "tools" /\ calls # <<>>
        BY <1>1 DEF ToolTypeOK
    <2>2. ASSUME UNCHANGED <<phase, model, pending, seen>>,
                 \A r \in DOMAIN heap : heap'[r] = heap[r],
                 \A k \in Keys : HookWrote(k) => HookWrote(k)',
                 \A k \in Keys : state'[k] = state[k] \/ HookWrote(k)'
          PROVE  ShowsOutsideBatch' /\ ChangesAreSaid' /\ SettlesAsSeen'
        BY <1>1, <2>1, <2>2, CallKeeps
    <2>3. ASSUME NEW k \in Keys, NEW v, v # Absent,
                 DOMAIN calls' = DOMAIN calls,
                 \A e \in DOMAIN calls : e # c => calls'[e] = calls[e],
                 calls'[c].delta = [calls[c].delta EXCEPT ![k] = v]
          PROVE  HookWrote(k)' /\ \A j \in Keys : HookWrote(j) => HookWrote(j)'
        <3>0. calls[c] \in Call
            BY <1>2
        <3>1. calls[c].delta \in Delta
            BY <3>0 DEF Call
        <3>2. \A e \in DOMAIN calls, j \in Keys :
                  calls[e].delta[j] # Absent => calls'[e].delta[j] # Absent
            BY <2>3, <3>1 DEF Delta
        <3>3. calls'[c].delta[k] # Absent
            BY <2>3, <3>1 DEF Delta
        <3> QED
            BY <2>3, <3>2, <3>3 DEF HookWrote
    <2>4. ASSUME DOMAIN calls' = DOMAIN calls,
                 \A e \in DOMAIN calls : calls'[e].delta = calls[e].delta
          PROVE  \A j \in Keys : HookWrote(j) => HookWrote(j)'
        BY <2>4 DEF HookWrote
    <2>5. calls[c] \in Call /\ DOMAIN calls = 1..Len(calls)
        BY <1>2
    <2>6. ASSUME NEW k \in Keys, NEW x \in Inputs, HookSets(c, k, x)
          PROVE  ShowsOutsideBatch' /\ ChangesAreSaid' /\ SettlesAsSeen'
        <3> DEFINE v == Stored(x)
        <3>1. v # Absent /\ \A r \in DOMAIN heap : heap'[r] = heap[r]
            BY <1>2, <2>6, StoredFits DEF HookSets
        <3>2. /\ calls' = [calls EXCEPT ![c].delta[k] = v, ![c].writes = @ + 1]
              /\ state' = [state EXCEPT ![k] = v]
              /\ UNCHANGED <<phase, model, pending, seen>>
            BY <2>6 DEF HookSets
        <3> HIDE DEF v
        <3>3. /\ DOMAIN calls' = DOMAIN calls
              /\ \A e \in DOMAIN calls : e # c => calls'[e] = calls[e]
              /\ calls'[c].delta = [calls[c].delta EXCEPT ![k] = v]
            BY <2>5, <3>2 DEF Call
        <3>4. HookWrote(k)' /\ \A j \in Keys : HookWrote(j) => HookWrote(j)'
            BY <2>3, <3>1, <3>3
        <3>5. \A j \in Keys : state'[j] = state[j] \/ HookWrote(j)'
            BY <1>2, <3>2, <3>4 DEF Delta
        <3> QED
            BY <2>2, <3>1, <3>2, <3>4, <3>5
    <2>7. ASSUME NEW k \in Keys, HookDeletes(c, k)
          PROVE  ShowsOutsideBatch' /\ ChangesAreSaid' /\ SettlesAsSeen'
        <3> DEFINE v == TombstoneValue
        <3>1. v # Absent
            BY DEF TombstoneValue, Absent
        <3>2. /\ calls' = [calls EXCEPT ![c].delta[k] = v, ![c].writes = @ + 1]
              /\ state' = [state EXCEPT ![k] = Absent]
              /\ heap' = heap /\ UNCHANGED <<phase, model, pending, seen>>
            BY <2>7 DEF HookDeletes
        <3> HIDE DEF v
        <3>3. /\ DOMAIN calls' = DOMAIN calls
              /\ \A e \in DOMAIN calls : e # c => calls'[e] = calls[e]
              /\ calls'[c].delta = [calls[c].delta EXCEPT ![k] = v]
            BY <2>5, <3>2 DEF Call
        <3>4. HookWrote(k)' /\ \A j \in Keys : HookWrote(j) => HookWrote(j)'
            BY <2>3, <3>1, <3>3
        <3>5. \A j \in Keys : state'[j] = state[j] \/ HookWrote(j)'
            BY <1>2, <3>2, <3>4 DEF Delta
        <3> QED
            BY <2>2, <3>2, <3>4, <3>5
    <2>8. ASSUME NEW k \in Keys, NEW x \in Inputs, NEW into \in {"result", "actions"},
                 ToolWrites(c, k, x, into)
          PROVE  ShowsOutsideBatch' /\ ChangesAreSaid' /\ SettlesAsSeen'
        <3> DEFINE v == Stored(x)
        <3>1. v # Absent /\ \A r \in DOMAIN heap : heap'[r] = heap[r]
            BY <1>2, <2>8, StoredFits DEF ToolWrites
        <3>2. /\ state' = state /\ UNCHANGED <<phase, model, pending, seen>>
              /\ calls' = IF into = "result"
                          THEN [calls EXCEPT ![c].pc = "after", ![c].result[k] = v]
                          ELSE [calls EXCEPT ![c].pc = "after", ![c].delta[k] = v]
            BY <2>8 DEF ToolWrites
        <3> HIDE DEF v
        <3>3. DOMAIN calls' = DOMAIN calls
              /\ \A e \in DOMAIN calls : e # c => calls'[e] = calls[e]
            BY <2>5, <3>2
        <3>4. CASE into = "result"
            <4>1. calls'[c].delta = calls[c].delta
                BY <2>5, <3>2, <3>4 DEF Call
            <4>2. \A j \in Keys : HookWrote(j) => HookWrote(j)'
                BY <2>4, <3>3, <4>1
            <4> QED
                BY <2>2, <3>1, <3>2, <4>2
        <3>5. CASE into = "actions"
            <4>1. calls'[c].delta = [calls[c].delta EXCEPT ![k] = v]
                BY <2>5, <3>2, <3>5 DEF Call
            <4>2. \A j \in Keys : HookWrote(j) => HookWrote(j)'
                BY <2>3, <3>1, <3>3, <4>1
            <4> QED
                BY <2>2, <3>1, <3>2, <4>2
        <3> QED
            BY <3>4, <3>5
    <2>9. ASSUME NEW result,
                 ToolReturns(c) \/ HooksEnd(c, result) \/ HookAnswers(c, result)
          PROVE  ShowsOutsideBatch' /\ ChangesAreSaid' /\ SettlesAsSeen'
        <3>1. /\ heap' = heap /\ state' = state /\ UNCHANGED <<phase, model, pending, seen>>
              /\ \/ calls' = [calls EXCEPT ![c].pc = "after"]
                 \/ calls' = [calls EXCEPT ![c].pc = "done", ![c].result = result]
            BY <2>9 DEF ToolReturns, HooksEnd, HookAnswers
        <3>2. DOMAIN calls' = DOMAIN calls
              /\ \A e \in DOMAIN calls : calls'[e].delta = calls[e].delta
            <4>1. DOMAIN calls' = DOMAIN calls
                  /\ \A e \in DOMAIN calls : e # c => calls'[e] = calls[e]
                BY <2>5, <3>1
            <4>2. calls'[c].delta = calls[c].delta
                <5>1. CASE calls' = [calls EXCEPT ![c].pc = "after"]
                    BY <2>5, <5>1 DEF Call
                <5>2. CASE calls' = [calls EXCEPT ![c].pc = "done", ![c].result = result]
                    BY <2>5, <5>2 DEF Call
                <5> QED
                    BY <3>1, <5>1, <5>2
            <4> QED
                BY <4>1, <4>2
        <3>3. \A j \in Keys : HookWrote(j) => HookWrote(j)'
            BY <2>4, <3>2
        <3> QED
            BY <2>2, <3>1, <3>3
    <2> QED
        BY <1>9, <2>6, <2>7, <2>8, <2>9 DEF CallStep
<1>10. ASSUME NEW last \in BOOLEAN, Merge(last)
       PROVE  ShowsOutsideBatch' /\ ChangesAreSaid' /\ SettlesAsSeen'
    <2> DEFINE d == MergedDelta
    <2>1. DeltaOK(heap, d) /\ d \in Delta
        BY <1>1, MergedFits
    <2>2. /\ phase = "tools" /\ pending' = Append(pending, d)
          /\ state' = StateMerged(d) /\ heap' = HeapMerged(d)
          /\ phase' \in {"model", "ending"}
          /\ phase' = "model" => seen' = seen
          /\ phase' = "ending" => seen' = state'
        BY <1>10 DEF Merge, NextStep
    <2>3. model.delta = NoDelta /\ model'.delta = NoDelta
        BY <1>1, <1>10, <2>2 DEF ToolTypeOK, Merge, NextStep
    <2>4. \A k \in Keys : d[k] = Absent => ~HookWrote(k)
        BY <1>1, MergedSays
    <2> HIDE DEF d
    <2>5. ASSUME NEW k \in Keys
          PROVE  Said(k)' = (IF d[k] # Absent THEN d[k] ELSE Said(k))
        <3>1. Said(k) = LastOn(pending, k)
            BY <1>1, <2>3, SaidIs DEF NoDelta
        <3>2. LastOn(Append(pending, d), k) =
                  IF d[k] # Absent THEN d[k] ELSE LastOn(pending, k)
            BY <1>2, <2>1, LastOnAppend
        <3>3. pending' \in Seq(Delta)
            BY <1>2, <2>1, <2>2
        <3>4. LastOn(Append(pending', NoDelta), k) = LastOn(pending', k)
            BY <3>3, NoDeltaFits, LastOnAppend DEF NoDelta
        <3> QED
            BY <2>2, <2>3, <3>1, <3>2, <3>4 DEF Said
    <2>6. ASSUME NEW k \in Keys, Said(k)' # Absent
          PROVE  Shows(heap', state'[k], Said(k)')
        <3>1. CASE d[k] # Absent
            <4>1. Shows(HeapMerged(d), StateMerged(d)[k], d[k])
                BY <1>2, <2>1, <3>1, MergeShows
            <4> QED
                BY <2>2, <2>5, <3>1, <4>1
        <3>2. CASE d[k] = Absent
            <4>1. Said(k)' = Said(k) /\ ~HookWrote(k)
                BY <2>4, <2>5, <3>2
            <4>2. Shows(heap, state[k], Said(k))
                BY <2>2, <2>6, <4>1 DEF ToolInv, ShowsOutsideBatch
            <4>3. Said(k) \in ValueAt(heap, k)
                BY <1>1, SaidIs
            <4>4. Shows(HeapMerged(d), StateMerged(d)[k], Said(k))
                BY <1>2, <2>1, <3>2, <4>2, <4>3, MergeShows
            <4> QED
                BY <2>2, <4>1, <4>4
        <3> QED
            BY <3>1, <3>2
    <2>7. ASSUME NEW k \in Keys, phase' = "model", state'[k] # seen'[k]
          PROVE  Said(k)' # Absent
        <3>1. CASE d[k] # Absent
            BY <2>5, <3>1
        <3>2. CASE d[k] = Absent
            <4>1. state'[k] = state[k]
                BY <1>2, <2>1, <2>2, <3>2, MergeShows
            <4>2. Said(k) # Absent
                BY <2>2, <2>4, <2>7, <3>2, <4>1 DEF ToolInv, ChangesAreSaid
            <4> QED
                BY <2>5, <3>2, <4>2
        <3> QED
            BY <3>1, <3>2
    <2>8. SettlesAsSeen'
        <3>1. CASE phase' = "ending"
            BY <1>1, <2>2, <2>3, <2>6, <3>1, EndSettles
        <3>2. CASE phase' = "model"
            BY <3>2 DEF SettlesAsSeen
        <3> QED
            BY <2>2, <3>1, <3>2
    <2> QED
        BY <2>2, <2>6, <2>7, <2>8 DEF ShowsOutsideBatch, ChangesAreSaid
<1>11. CASE Persist
    <2>1. /\ phase \in {"ending", "persisting"} /\ phase' \in {"persisting", "done"}
          /\ pending' = Tail(pending) /\ state' = Override(state, Head(pending))
          /\ seen' = seen /\ pending # <<>>
        BY <1>1, <1>11 DEF Persist, ToolTypeOK
    <2>2. ASSUME NEW k \in Keys PROVE Settled(k)' = Settled(k)
        <3>1. LastOn(pending, k) = IF LastOn(Tail(pending), k) # Absent
                                   THEN LastOn(Tail(pending), k) ELSE Head(pending)[k]
            BY <1>2, <2>1, LastOnTail
        <3>2. state'[k] = IF Head(pending)[k] = Absent THEN state[k] ELSE Head(pending)[k]
            BY <1>2, <2>1 DEF Override, Delta
        <3> QED
            BY <2>1, <3>1, <3>2 DEF Settled
    <2>3. \A k \in Keys : Alike(seen[k], Settled(k))
        BY <2>1 DEF ToolInv, SettlesAsSeen
    <2> QED
        BY <2>1, <2>2, <2>3 DEF ShowsOutsideBatch, ChangesAreSaid, SettlesAsSeen
<1>12. CASE UNCHANGED vars
    BY <1>12
    DEF vars, ToolInv, ShowsOutsideBatch, ChangesAreSaid, SettlesAsSeen, Said, Settled,
        HookWrote
<1> QED
    BY <1>3, <1>4, <1>5, <1>6, <1>7, <1>8, <1>9, <1>10, <1>11, <1>12 DEF Next

-----------------------------------------------------------------------------
(***************************************************************************)
(* Theorems                                                                *)
(***************************************************************************)

LEMMA InvariantAlways == Spec => []ToolInv
BY InvariantHoldsFirst, InvariantIsKept, PTL DEF Spec

\* The variables of flow.go's step and of the session always have their types: every
\* reference is to a map of its key, calls and pending events exist when they should.
THEOREM ToolTypeCorrect == Spec => []ToolTypeOK
<1>1. ToolInv => ToolTypeOK
    BY DEF ToolInv
<1> QED
    BY <1>1, InvariantAlways, PTL

\* However the goroutines of the batches ran, between batches the session shows what
\* the events to be persisted say of it (flow.go:389-392).
THEOREM EventsShow == Spec => []EventsShowInState
<1>1. ToolInv => EventsShowInState
    BY DEF ToolInv, ShowsOutsideBatch, EventsShowInState
<1> QED
    BY <1>1, InvariantAlways, PTL

\* No change that a callback, hook or tool makes during a run is missing in the
\* events of the run (flow.go:406-433, 588-590).
THEOREM WritesRide == Spec => []WritesRideOnEvents
<1>1. ToolInv => WritesRideOnEvents
    BY DEF ToolInv, ToolTypeOK, ChangesAreSaid, HookWrote, WritesRideOnEvents
<1> QED
    BY <1>1, InvariantAlways, PTL

\* Persisting the events of a run brings back no older value: scalars stay, maps stay maps,
\* what was deleted has no value or the mark of it (runner.go:176-186, session.go:495-500).
THEOREM PersistingBringsNothingBack == Spec => []NoOlderValueReturns
<1>1. ToolInv => NoOlderValueReturns
    <2> SUFFICES ASSUME ToolInv, phase = "done", NEW k \in Keys
                 PROVE  \/ state[k] = seen[k]
                        \/ IsMap(state[k]) /\ IsMap(seen[k])
                        \/ Deleted(state[k]) /\ Deleted(seen[k])
        BY DEF NoOlderValueReturns
    <2>1. pending = <<>>
        BY DEF ToolInv, ToolTypeOK
    <2>2. Settled(k) = state[k]
        BY <2>1 DEF Settled, LastOn, Sets
    <2>3. Alike(seen[k], state[k])
        BY <2>2 DEF ToolInv, SettlesAsSeen
    <2> QED
        BY <2>3 DEF Alike, Reads, Deleted
<1> QED
    BY <1>1, InvariantAlways, PTL

=============================================================================
