-------------------------- MODULE RemoteAgentProofs --------------------------
(***************************************************************************)
(* What a remote agent returns is what the remote said, for streams of any *)
(* length, any events and any number of callbacks.                         *)
(***************************************************************************)
EXTENDS RemoteAgent, SequenceTheorems, TLAPS

-----------------------------------------------------------------------------
(***************************************************************************)
(* The aggregator, for what was heard h, the events ev and the buffer p    *)
(***************************************************************************)

HeardItem == [is: PartKind \cup TaskState, chunk: BOOLEAN]

\* Statuses are no chunks.
Item(x) == x \in HeardItem /\ (x.chunk => x.is \in PartKind)

BookOK(h, ev, p) ==
    /\ h \in Seq(HeardItem) /\ p \in Seq(Nat) /\ ev \in Seq(Entry)
    /\ \A n \in DOMAIN h : Item(h[n])
    /\ \A q \in DOMAIN p : p[q] \in DOMAIN h /\ h[p[q]].chunk /\ h[p[q]].is # "call"
    /\ \A i \in DOMAIN ev : ev[i].of \in DOMAIN h

Late(h, n) == h[n].is = "working"

InOrder(h, ev) ==
    /\ \A i, j \in DOMAIN ev :
          i < j /\ ~Late(h, ev[i].of) /\ ~Late(h, ev[j].of) => ev[i].of < ev[j].of
    /\ \A i, j \in DOMAIN ev : i # j => ev[i].of # ev[j].of

HeldBack(h, ev, p) ==
    /\ \A i \in DOMAIN ev, q \in DOMAIN p :
          IF Late(h, ev[i].of) THEN ev[i].of # p[q] ELSE ev[i].of < p[q]
    /\ \A q, r \in DOMAIN p : q < r => p[q] < p[r]

NothingLost(h, ev, p) ==
    \A n \in DOMAIN h :
        \/ h[n].chunk /\ h[n].is = "call"
        \/ \E i \in DOMAIN ev : ev[i].of = n
        \/ \E q \in DOMAIN p : p[q] = n

ApartIn(h, ev) ==
    \A i \in DOMAIN ev :
        h[ev[i].of].chunk /\ ~ev[i].starts => i > 1 /\ h[ev[i - 1].of] = h[ev[i].of]

Sound(h, ev, p) ==
    BookOK(h, ev, p) /\ InOrder(h, ev) /\ HeldBack(h, ev, p) /\ NothingLost(h, ev, p)
        /\ ApartIn(h, ev)

\* The positions of a concatenation.
LEMMA Concatenated ==
    ASSUME NEW S, NEW s \in Seq(S), NEW t \in Seq(S)
    PROVE  /\ s \o t \in Seq(S)
           /\ DOMAIN s = 1..Len(s) /\ DOMAIN t = 1..Len(t)
           /\ DOMAIN (s \o t) = 1..Len(s) + Len(t)
           /\ Len(s) \in Nat /\ Len(t) \in Nat
           /\ \A i \in DOMAIN s : i \in DOMAIN (s \o t) /\ (s \o t)[i] = s[i]
           /\ \A i \in DOMAIN t :
                 Len(s) + i \in DOMAIN (s \o t) /\ (s \o t)[Len(s) + i] = t[i]
           /\ \A i \in DOMAIN (s \o t) :
                 i \in DOMAIN s \/ (i - Len(s) \in DOMAIN t /\ i > Len(s))
BY ConcatProperties

LEMMA FlushedIs ==
    ASSUME NEW h, NEW p \in Seq(Nat)
    PROVE  /\ Flushed(h, p) \in Seq(Entry) /\ DOMAIN Flushed(h, p) = DOMAIN p
           /\ Len(Flushed(h, p)) = Len(p)
           /\ \A q \in DOMAIN p : Flushed(h, p)[q].of = p[q]
           /\ \A q \in DOMAIN p : ~Flushed(h, p)[q].starts =>
                 q > 1 /\ h[p[q]].is = h[p[q - 1]].is
<1> DEFINE n == Len(p)
           e(q) == [of |-> p[q], starts |-> q = 1 \/ h[p[q]].is # h[p[q - 1]].is]
<1>1. n \in Nat /\ DOMAIN p = 1..n
    OBVIOUS
<1>2. \A q \in 1..n : e(q) \in Entry
    BY <1>1 DEF Entry
<1>3. Flushed(h, p) = [q \in 1..n |-> e(q)]
    BY <1>1 DEF Flushed
<1>4. Flushed(h, p) \in Seq(Entry)
    <2> HIDE DEF e, n
    <2> QED
        BY <1>1, <1>2, <1>3, IsASeq
<1>5. DOMAIN Flushed(h, p) = 1..n
    BY <1>3
<1>6. Len(Flushed(h, p)) = n
    BY <1>1, <1>4, <1>5, LenProperties
<1>7. \A q \in DOMAIN p : Flushed(h, p)[q] = e(q)
    BY <1>1, <1>3
<1>8. \A q \in DOMAIN p : Flushed(h, p)[q].of = p[q]
    <2>1. \A q : e(q).of = p[q]
        OBVIOUS
    <2> HIDE DEF e
    <2> QED
        BY <1>7, <2>1
<1>9. \A q \in DOMAIN p : ~Flushed(h, p)[q].starts =>
          q > 1 /\ h[p[q]].is = h[p[q - 1]].is
    <2>1. \A q : e(q).starts = (q = 1 \/ h[p[q]].is # h[p[q - 1]].is)
        OBVIOUS
    <2>2. \A q \in DOMAIN p : q \in Nat /\ (q # 1 => q > 1)
        BY <1>1
    <2> HIDE DEF e
    <2> QED
        BY <1>7, <2>1, <2>2
<1> QED
    BY <1>1, <1>4, <1>5, <1>6, <1>8, <1>9

LEMMA ConvertedIs ==
    ASSUME NEW n \in Nat, NEW len \in Nat
    PROVE  /\ Converted(n, len) \in Seq(Entry) /\ DOMAIN Converted(n, len) = 1..len
           /\ Len(Converted(n, len)) = len
           /\ \A i \in 1..len : Converted(n, len)[i].of = n + i - 1
<1> DEFINE e(i) == [of |-> n + i - 1, starts |-> i = 1]
<1>1. \A i \in 1..len : e(i) \in Entry
    BY DEF Entry
<1>2. Converted(n, len) = [i \in 1..len |-> e(i)]
    BY DEF Converted
<1>3. Converted(n, len) \in Seq(Entry)
    <2> HIDE DEF e
    <2> QED
        BY <1>1, <1>2, IsASeq
<1>4. DOMAIN Converted(n, len) = 1..len
    BY <1>2
<1>5. Len(Converted(n, len)) = len
    BY <1>3, <1>4, LenProperties
<1>6. \A i \in 1..len : Converted(n, len)[i] = e(i)
    BY <1>2
<1>7. \A i : e(i).of = n + i - 1
    OBVIOUS
<1>8. \A i \in 1..len : Converted(n, len)[i].of = n + i - 1
    <2> HIDE DEF e
    <2> QED
        BY <1>6, <1>7
<1> QED
    BY <1>3, <1>4, <1>5, <1>8

\* Flushing puts what is held back after the events, in order and apart.
LEMMA FlushSound ==
    ASSUME NEW h, NEW ev, NEW p, Sound(h, ev, p)
    PROVE  Sound(h, ev \o Flushed(h, p), <<>>)
<1> DEFINE f == Flushed(h, p)
           all == ev \o f
<1>1. /\ h \in Seq(HeardItem) /\ p \in Seq(Nat) /\ ev \in Seq(Entry)
      /\ f \in Seq(Entry) /\ DOMAIN f = DOMAIN p
      /\ \A q \in DOMAIN p : f[q].of = p[q]
      /\ \A q \in DOMAIN p : ~f[q].starts => q > 1 /\ h[p[q]].is = h[p[q - 1]].is
    BY FlushedIs DEF Sound, BookOK
<1>2. /\ all \in Seq(Entry)
      /\ DOMAIN ev = 1..Len(ev) /\ DOMAIN f = 1..Len(f) /\ DOMAIN p = 1..Len(f)
      /\ Len(ev) \in Nat /\ Len(f) \in Nat
      /\ \A i \in DOMAIN ev : i \in DOMAIN all /\ all[i] = ev[i]
      /\ \A q \in DOMAIN p : Len(ev) + q \in DOMAIN all /\ all[Len(ev) + q] = f[q]
      /\ \A i \in DOMAIN all : i \in DOMAIN ev \/ (i - Len(ev) \in DOMAIN p /\ i > Len(ev))
    BY <1>1, Concatenated
<1> HIDE DEF f, all
<1>3. \A i \in DOMAIN all :
          \/ i \in DOMAIN ev /\ all[i].of = ev[i].of
          \/ /\ i - Len(ev) \in DOMAIN p /\ i > Len(ev)
             /\ all[i].of = p[i - Len(ev)] /\ ~Late(h, all[i].of)
    <2> SUFFICES ASSUME NEW i \in DOMAIN all, i \notin DOMAIN ev
                 PROVE  /\ i - Len(ev) \in DOMAIN p /\ i > Len(ev)
                        /\ all[i].of = p[i - Len(ev)] /\ ~Late(h, all[i].of)
        BY <1>2
    <2> DEFINE q == i - Len(ev)
    <2>1. q \in DOMAIN p /\ i > Len(ev) /\ i = Len(ev) + q
        BY <1>2
    <2>2. all[i].of = p[q]
        BY <1>1, <1>2, <2>1
    <2>3. h[p[q]].is \in PartKind
        BY <2>1 DEF Sound, BookOK, Item
    <2> QED
        BY <2>1, <2>2, <2>3 DEF Late, PartKind
<1>4. BookOK(h, all, <<>>)
    <2>1. \A i \in DOMAIN all : all[i].of \in DOMAIN h
        <3>1. /\ \A i \in DOMAIN ev : ev[i].of \in DOMAIN h
              /\ \A q \in DOMAIN p : p[q] \in DOMAIN h
            BY DEF Sound, BookOK
        <3> QED
            BY <1>3, <3>1
    <2>2. <<>> \in Seq(Nat) /\ DOMAIN <<>> = {}
        OBVIOUS
    <2>3. \A n \in DOMAIN h : Item(h[n])
        BY DEF Sound, BookOK
    <2> QED
        BY <1>1, <1>2, <2>1, <2>2, <2>3 DEF BookOK
<1>5. InOrder(h, all)
    <2>1. \A i, j \in DOMAIN all :
              i < j /\ ~Late(h, all[i].of) /\ ~Late(h, all[j].of) => all[i].of < all[j].of
        BY <1>2, <1>3 DEF Sound, InOrder, HeldBack
    <2>2. \A i, j \in DOMAIN all : i < j => all[i].of # all[j].of
        <3> SUFFICES ASSUME NEW i \in DOMAIN all, NEW j \in DOMAIN all, i < j
                     PROVE  all[i].of # all[j].of
            OBVIOUS
        <3>1. CASE i \in DOMAIN ev /\ j \in DOMAIN ev
            BY <1>2, <3>1 DEF Sound, InOrder
        <3>2. CASE i \in DOMAIN ev /\ j \notin DOMAIN ev
            <4>1. j - Len(ev) \in DOMAIN p /\ all[j].of = p[j - Len(ev)]
                BY <1>3, <3>2
            <4>2. all[i].of = ev[i].of /\ ev[i].of \in Nat
                <5>1. all[i] = ev[i] /\ ev[i] \in Entry
                    BY <1>1, <1>2, <3>2
                <5> QED
                    BY <5>1 DEF Entry
            <4>3. p[j - Len(ev)] \in Nat
                BY <1>1, <4>1
            <4> QED
                BY <3>2, <4>1, <4>2, <4>3 DEF Sound, HeldBack
        <3>3. CASE i \notin DOMAIN ev
            <4>1. /\ i - Len(ev) \in DOMAIN p /\ all[i].of = p[i - Len(ev)]
                  /\ i > Len(ev)
                BY <1>3, <3>3
            <4>2. j \notin DOMAIN ev
                BY <1>2, <3>3, <4>1
            <4>3. j - Len(ev) \in DOMAIN p /\ all[j].of = p[j - Len(ev)]
                BY <1>3, <4>2
            <4>4. i - Len(ev) < j - Len(ev)
                BY <1>2
            <4>5. p[i - Len(ev)] < p[j - Len(ev)]
                BY <4>1, <4>3, <4>4 DEF Sound, HeldBack
            <4>6. p[i - Len(ev)] \in Nat /\ p[j - Len(ev)] \in Nat
                BY <1>1, <4>1, <4>3
            <4> QED
                BY <4>1, <4>3, <4>5, <4>6
        <3> QED
            BY <3>1, <3>2, <3>3
    <2>3. \A i, j \in DOMAIN all : i # j => i < j \/ j < i
        BY <1>2
    <2> QED
        BY <2>1, <2>2, <2>3 DEF InOrder
<1>6. NothingLost(h, all, <<>>)
    <2> SUFFICES ASSUME NEW n \in DOMAIN h, ~(h[n].chunk /\ h[n].is = "call")
                 PROVE  \E i \in DOMAIN all : all[i].of = n
        BY DEF NothingLost
    <2>1. CASE \E i \in DOMAIN ev : ev[i].of = n
        BY <1>2, <2>1
    <2>2. CASE \E q \in DOMAIN p : p[q] = n
        BY <1>1, <1>2, <2>2
    <2> QED
        BY <2>1, <2>2 DEF Sound, NothingLost
<1>7. ApartIn(h, all)
    <2> SUFFICES ASSUME NEW i \in DOMAIN all, h[all[i].of].chunk, ~all[i].starts
                 PROVE  i > 1 /\ h[all[i - 1].of] = h[all[i].of]
        BY DEF ApartIn
    <2>1. CASE i \in DOMAIN ev
        <3>1. i > 1 /\ h[ev[i - 1].of] = h[ev[i].of]
            BY <1>2, <2>1 DEF Sound, ApartIn
        <3> QED
            BY <1>2, <2>1, <3>1
    <2>2. CASE i \notin DOMAIN ev
        <3> DEFINE q == i - Len(ev)
        <3>1. q \in DOMAIN p /\ i = Len(ev) + q /\ all[i] = f[q]
            BY <1>2, <2>2
        <3>2. q > 1 /\ h[p[q]].is = h[p[q - 1]].is
            BY <1>1, <2>2, <3>1
        <3>3. q - 1 \in DOMAIN p /\ all[i - 1] = f[q - 1]
            BY <1>2, <3>1, <3>2
        <3>4. h[p[q]] \in HeardItem /\ h[p[q - 1]] \in HeardItem
              /\ h[p[q]].chunk = TRUE /\ h[p[q - 1]].chunk = TRUE
            BY <3>1, <3>3 DEF Sound, BookOK, Item, HeardItem
        <3>5. h[p[q]] = h[p[q - 1]]
            BY <3>2, <3>4 DEF HeardItem
        <3>6. all[i].of = p[q] /\ all[i - 1].of = p[q - 1]
            BY <1>1, <3>1, <3>3
        <3>7. i > 1
            BY <1>2, <3>1, <3>2
        <3> QED
            BY <3>5, <3>6, <3>7
    <2> QED
        BY <2>1, <2>2
<1> QED
    BY <1>4, <1>5, <1>6, <1>7 DEF Sound, HeldBack, all, f

\* An event that is no chunk is passed on, before what is held back only if it may be.
LEMMA ConvertedSound ==
    ASSUME NEW h, NEW ev, NEW p, Sound(h, ev, p),
           NEW g \in Seq(HeardItem), \A k \in DOMAIN g : g[k].chunk = FALSE,
           p = <<>> \/ \A k \in DOMAIN g : g[k].is = "working"
    PROVE  Sound(h \o g, ev \o Converted(Len(h) + 1, Len(g)), p)
<1> DEFINE h2 == h \o g
           c == Converted(Len(h) + 1, Len(g))
           all == ev \o c
           L == Len(ev)
           N == Len(h)
<1>1. h \in Seq(HeardItem) /\ p \in Seq(Nat) /\ ev \in Seq(Entry)
    BY DEF Sound, BookOK
<1>2. /\ h2 \in Seq(HeardItem)
      /\ DOMAIN h = 1..N /\ DOMAIN g = 1..Len(g) /\ DOMAIN h2 = 1..N + Len(g)
      /\ N \in Nat /\ Len(g) \in Nat
      /\ \A n \in DOMAIN h : n \in DOMAIN h2 /\ h2[n] = h[n]
      /\ \A k \in DOMAIN g : N + k \in DOMAIN h2 /\ h2[N + k] = g[k]
      /\ \A n \in DOMAIN h2 : n \in DOMAIN h \/ (n - N \in DOMAIN g /\ n > N)
    BY <1>1, Concatenated
<1>3. /\ c \in Seq(Entry) /\ Len(c) = Len(g) /\ DOMAIN c = DOMAIN g
      /\ \A k \in DOMAIN g : c[k].of = N + k
    <2>1. N + 1 \in Nat
        BY <1>2
    <2>2. /\ c \in Seq(Entry) /\ Len(c) = Len(g) /\ DOMAIN c = 1..Len(g)
          /\ \A k \in 1..Len(g) : c[k].of = (N + 1) + k - 1
        BY <1>2, <2>1, ConvertedIs
    <2> HIDE DEF c, N
    <2> QED
        BY <1>2, <2>2
<1> HIDE DEF c
<1>4. /\ all \in Seq(Entry)
      /\ DOMAIN ev = 1..L /\ DOMAIN all = 1..L + Len(g) /\ L \in Nat
      /\ \A i \in DOMAIN ev : i \in DOMAIN all /\ all[i] = ev[i]
      /\ \A k \in DOMAIN g : L + k \in DOMAIN all /\ all[L + k] = c[k]
      /\ \A i \in DOMAIN all : i \in DOMAIN ev \/ (i - L \in DOMAIN g /\ i > L)
    <2>1. /\ all \in Seq(Entry)
          /\ DOMAIN ev = 1..L /\ DOMAIN all = 1..L + Len(c) /\ L \in Nat
          /\ \A i \in DOMAIN ev : i \in DOMAIN all /\ all[i] = ev[i]
          /\ \A k \in DOMAIN c : L + k \in DOMAIN all /\ all[L + k] = c[k]
          /\ \A i \in DOMAIN all : i \in DOMAIN ev \/ (i - L \in DOMAIN c /\ i > L)
        BY <1>1, <1>3, Concatenated
    <2> HIDE DEF all, L
    <2> QED
        BY <1>3, <2>1
<1> HIDE DEF h2, all, L, N
<1>5. \A i \in DOMAIN ev : /\ all[i].of = ev[i].of /\ ev[i].of \in DOMAIN h
                           /\ h2[all[i].of] = h[ev[i].of]
    <2>1. \A i \in DOMAIN ev : ev[i].of \in DOMAIN h
        BY DEF Sound, BookOK
    <2> QED
        BY <1>2, <1>4, <2>1
<1>6. \A i \in DOMAIN all : i \notin DOMAIN ev =>
          /\ i - L \in DOMAIN g /\ i > L /\ all[i].of = N + (i - L)
          /\ h2[all[i].of] = g[i - L]
    <2> SUFFICES ASSUME NEW i \in DOMAIN all, i \notin DOMAIN ev
                 PROVE  /\ i - L \in DOMAIN g /\ i > L /\ all[i].of = N + (i - L)
                        /\ h2[all[i].of] = g[i - L]
        OBVIOUS
    <2>1. i - L \in DOMAIN g /\ i > L /\ i = L + (i - L)
        BY <1>4
    <2>2. all[i] = c[i - L]
        BY <1>4, <2>1
    <2> QED
        BY <1>2, <1>3, <2>1, <2>2
<1>7. \A q \in DOMAIN p : p[q] \in DOMAIN h /\ h2[p[q]] = h[p[q]] /\ p[q] \in Nat
    <2>1. \A q \in DOMAIN p : p[q] \in DOMAIN h
        BY DEF Sound, BookOK
    <2> QED
        BY <1>2, <2>1
<1>8. BookOK(h2, all, p)
    <2>1. \A n \in DOMAIN h2 : Item(h2[n])
        <3> SUFFICES ASSUME NEW n \in DOMAIN h2
                     PROVE  Item(h2[n])
            OBVIOUS
        <3>1. CASE n \in DOMAIN h
            BY <1>2, <3>1 DEF Sound, BookOK
        <3>2. CASE n \notin DOMAIN h
            <4>1. n - N \in DOMAIN g /\ n = N + (n - N)
                BY <1>2, <3>2
            <4>2. h2[n] = g[n - N]
                BY <1>2, <4>1
            <4>3. g[n - N] \in HeardItem /\ g[n - N].chunk = FALSE
                BY <4>1
            <4> QED
                BY <4>2, <4>3 DEF Item
        <3> QED
            BY <3>1, <3>2
    <2>2. \A q \in DOMAIN p : p[q] \in DOMAIN h2 /\ h2[p[q]].chunk /\ h2[p[q]].is # "call"
        <3>1. \A q \in DOMAIN p : h[p[q]].chunk /\ h[p[q]].is # "call"
            BY DEF Sound, BookOK
        <3> QED
            BY <1>2, <1>7, <3>1
    <2>3. \A i \in DOMAIN all : all[i].of \in DOMAIN h2
        BY <1>2, <1>4, <1>5, <1>6
    <2> QED
        BY <1>1, <1>2, <1>4, <2>1, <2>2, <2>3 DEF BookOK
<1>9. InOrder(h2, all)
    <2> SUFFICES ASSUME NEW i \in DOMAIN all, NEW j \in DOMAIN all, i < j
                 PROVE  /\ ~Late(h2, all[i].of) /\ ~Late(h2, all[j].of) =>
                              all[i].of < all[j].of
                        /\ all[i].of # all[j].of
        <3>1. \A i, j \in DOMAIN all : i # j => i < j \/ j < i
            BY <1>4
        <3> QED
            BY <3>1 DEF InOrder
    <2>1. CASE j \in DOMAIN ev
        <3>1. i \in DOMAIN ev
            BY <1>4, <2>1
        <3>2. /\ ~Late(h, ev[i].of) /\ ~Late(h, ev[j].of) => ev[i].of < ev[j].of
              /\ ev[i].of # ev[j].of
            <4>1. i # j
                BY <1>4
            <4> QED
                BY <2>1, <3>1, <4>1 DEF Sound, InOrder
        <3>3. /\ Late(h2, all[i].of) <=> Late(h, ev[i].of)
              /\ Late(h2, all[j].of) <=> Late(h, ev[j].of)
            BY <1>5, <2>1, <3>1 DEF Late
        <3> QED
            BY <1>5, <2>1, <3>1, <3>2, <3>3
    <2>2. CASE i \in DOMAIN ev /\ j \notin DOMAIN ev
        BY <1>2, <1>4, <1>5, <1>6, <2>2
    <2>3. CASE i \notin DOMAIN ev
        <3>1. j \notin DOMAIN ev
            BY <1>4, <2>3
        <3>2. all[i].of = N + (i - L) /\ all[j].of = N + (j - L)
            BY <1>6, <2>3, <3>1
        <3> QED
            BY <1>2, <1>4, <3>2
    <2> QED
        BY <2>1, <2>2, <2>3
<1>10. HeldBack(h2, all, p)
    <2>1. ASSUME NEW i \in DOMAIN all, NEW q \in DOMAIN p
          PROVE  IF Late(h2, all[i].of) THEN all[i].of # p[q] ELSE all[i].of < p[q]
        <3>1. CASE i \in DOMAIN ev
            <4>1. IF Late(h, ev[i].of) THEN ev[i].of # p[q] ELSE ev[i].of < p[q]
                BY <3>1 DEF Sound, HeldBack
            <4> QED
                BY <1>5, <3>1, <4>1 DEF Late
        <3>2. CASE i \notin DOMAIN ev
            <4>1. i - L \in DOMAIN g /\ all[i].of = N + (i - L) /\ h2[all[i].of] = g[i - L]
                BY <1>6, <3>2
            <4>2. g[i - L].is = "working"
                BY <4>1
            <4>3. all[i].of # p[q]
                BY <1>2, <1>7, <4>1
            <4> QED
                BY <4>1, <4>2, <4>3 DEF Late
        <3> QED
            BY <3>1, <3>2
    <2> QED
        BY <2>1 DEF Sound, HeldBack
<1>11. NothingLost(h2, all, p)
    <2> SUFFICES ASSUME NEW n \in DOMAIN h2
                 PROVE  \/ h2[n].chunk /\ h2[n].is = "call"
                        \/ \E i \in DOMAIN all : all[i].of = n
                        \/ \E q \in DOMAIN p : p[q] = n
        BY DEF NothingLost
    <2>1. CASE n \in DOMAIN h
        <3>1. \/ h[n].chunk /\ h[n].is = "call"
              \/ \E i \in DOMAIN ev : ev[i].of = n
              \/ \E q \in DOMAIN p : p[q] = n
            BY <2>1 DEF Sound, NothingLost
        <3> QED
            BY <1>2, <1>4, <1>5, <2>1, <3>1
    <2>2. CASE n \notin DOMAIN h
        <3>1. n - N \in DOMAIN g /\ n = N + (n - N)
            BY <1>2, <2>2
        <3>2. L + (n - N) \in DOMAIN all /\ all[L + (n - N)].of = n
            BY <1>3, <1>4, <3>1
        <3> QED
            BY <3>2
    <2> QED
        BY <2>1, <2>2
<1>12. ApartIn(h2, all)
    <2> SUFFICES ASSUME NEW i \in DOMAIN all, h2[all[i].of].chunk, ~all[i].starts
                 PROVE  i > 1 /\ h2[all[i - 1].of] = h2[all[i].of]
        BY DEF ApartIn
    <2>1. i \in DOMAIN ev
        BY <1>6
    <2>2. i > 1 /\ h[ev[i - 1].of] = h[ev[i].of]
        BY <1>4, <1>5, <2>1 DEF Sound, ApartIn
    <2>3. i - 1 \in DOMAIN ev
        BY <1>4, <2>1, <2>2
    <2> QED
        BY <1>5, <2>1, <2>2, <2>3
<1> QED
    BY <1>8, <1>9, <1>10, <1>11, <1>12 DEF Sound, h2, all, c, N

\* A chunk is held back, and a call in it is dropped.
LEMMA HeldSound ==
    ASSUME NEW h, NEW ev, NEW p, Sound(h, ev, p), NEW part \in PartKind
    PROVE  LET h2 == Append(h, Heard(part, TRUE))
           IN Sound(h2, ev, Accumulated(h2, p, Len(h2)))
<1> DEFINE h2 == Append(h, Heard(part, TRUE))
           N == Len(h)
           n == Len(h2)
           p2 == Accumulated(h2, p, n)
<1>1. h \in Seq(HeardItem) /\ p \in Seq(Nat) /\ ev \in Seq(Entry) /\ Len(p) \in Nat
    BY DEF Sound, BookOK
<1>2. Heard(part, TRUE) \in HeardItem
    BY DEF Heard, HeardItem
<1>3. /\ h2 \in Seq(HeardItem) /\ n = N + 1 /\ N \in Nat
      /\ DOMAIN h = 1..N /\ DOMAIN h2 = 1..n
      /\ \A k \in DOMAIN h : h2[k] = h[k]
      /\ h2[n] = Heard(part, TRUE)
    <2>1. ASSUME NEW x \in HeardItem
          PROVE  LET hx == Append(h, x)
                 IN /\ hx \in Seq(HeardItem) /\ Len(hx) = N + 1 /\ N \in Nat
                    /\ DOMAIN h = 1..N /\ DOMAIN hx = 1..Len(hx)
                    /\ \A k \in DOMAIN h : hx[k] = h[k]
                    /\ hx[Len(hx)] = x
        BY <1>1, AppendProperties
    <2> QED
        BY <1>2, <2>1
<1>4. Item(h2[n]) /\ h2[n].chunk /\ h2[n].is = part
    BY <1>2, <1>3 DEF Item, Heard
<1> HIDE DEF h2, N, n
<1>5. /\ p2 \in Seq(Nat)
      /\ \/ h2[n].is = "call" /\ p2 = p
         \/ h2[n].is # "call" /\ p2 = Append(p, n)
    <2>1. p2 = IF h2[n].is = "call" THEN p ELSE Append(p, n)
        BY DEF Accumulated
    <2>2. n \in Nat
        BY <1>3
    <2> HIDE DEF p2
    <2> QED
        BY <1>1, <2>1, <2>2
<1>6. /\ \A q \in DOMAIN p : q \in DOMAIN p2 /\ p2[q] = p[q]
      /\ DOMAIN p = 1..Len(p)
      /\ \A q \in DOMAIN p2 : q \in DOMAIN p \/ (q = Len(p) + 1 /\ p2[q] = n /\ h2[n].is # "call")
      /\ h2[n].is # "call" => Len(p) + 1 \in DOMAIN p2 /\ p2[Len(p) + 1] = n
    <2> DEFINE isCall == h2[n].is = "call"
    <2> HIDE DEF p2, isCall
    <2>1. n \in Nat
        BY <1>3
    <2>2. CASE isCall
        BY <1>1, <1>5, <2>2 DEF isCall
    <2>3. CASE ~isCall
        <3>1. p2 = Append(p, n)
            BY <1>5, <2>3 DEF isCall
        <3>2. /\ DOMAIN p = 1..Len(p) /\ DOMAIN p2 = 1..Len(p) + 1
              /\ \A q \in 1..Len(p) : p2[q] = p[q]
              /\ p2[Len(p) + 1] = n
            BY <1>1, <2>1, <3>1
        <3> QED
            BY <1>1, <2>3, <3>2 DEF isCall
    <2> QED
        BY <2>2, <2>3
<1> HIDE DEF p2
<1>7. \A i \in DOMAIN ev : ev[i].of \in DOMAIN h /\ h2[ev[i].of] = h[ev[i].of]
    BY <1>3 DEF Sound, BookOK
<1>8. \A q \in DOMAIN p : /\ p[q] \in DOMAIN h /\ h2[p[q]] = h[p[q]]
                          /\ h[p[q]].chunk /\ h[p[q]].is # "call"
    BY <1>3 DEF Sound, BookOK
<1>9. BookOK(h2, ev, p2)
    <2>1. \A k \in DOMAIN h2 : Item(h2[k])
        <3>1. \A k \in DOMAIN h : Item(h[k])
            BY DEF Sound, BookOK
        <3>2. \A k \in DOMAIN h2 : k \in DOMAIN h \/ k = n
            BY <1>3
        <3> QED
            BY <1>3, <1>4, <3>1, <3>2
    <2>2. \A q \in DOMAIN p2 :
              p2[q] \in DOMAIN h2 /\ h2[p2[q]].chunk /\ h2[p2[q]].is # "call"
        <3>1. n \in DOMAIN h2 /\ \A k \in DOMAIN h : k \in DOMAIN h2
            BY <1>3
        <3>2. \A q \in DOMAIN p :
                  p2[q] \in DOMAIN h2 /\ h2[p2[q]].chunk /\ h2[p2[q]].is # "call"
            BY <1>6, <1>8, <3>1
        <3>3. \A q \in DOMAIN p2 : q \notin DOMAIN p =>
                  p2[q] \in DOMAIN h2 /\ h2[p2[q]].chunk /\ h2[p2[q]].is # "call"
            BY <1>4, <1>6, <3>1
        <3> QED
            BY <3>2, <3>3
    <2>3. \A i \in DOMAIN ev : ev[i].of \in DOMAIN h2
        BY <1>3, <1>7
    <2> QED
        BY <1>1, <1>3, <1>5, <2>1, <2>2, <2>3 DEF BookOK
<1>10. InOrder(h2, ev)
    BY <1>7 DEF Sound, InOrder, Late
<1>11. HeldBack(h2, ev, p2)
    <2>1. ASSUME NEW i \in DOMAIN ev, NEW q \in DOMAIN p2
          PROVE  IF Late(h2, ev[i].of) THEN ev[i].of # p2[q] ELSE ev[i].of < p2[q]
        <3>1. CASE q \in DOMAIN p
            <4>1. IF Late(h, ev[i].of) THEN ev[i].of # p[q] ELSE ev[i].of < p[q]
                BY <3>1 DEF Sound, HeldBack
            <4> QED
                BY <1>6, <1>7, <3>1, <4>1 DEF Late
        <3>2. CASE q \notin DOMAIN p
            <4>1. p2[q] = n
                BY <1>6, <3>2
            <4>2. ev[i].of \in 1..N /\ ev[i].of < n
                BY <1>3, <1>7
            <4> QED
                BY <1>3, <4>1, <4>2
        <3> QED
            BY <3>1, <3>2
    <2>2. ASSUME NEW q \in DOMAIN p2, NEW r \in DOMAIN p2, q < r
          PROVE  p2[q] < p2[r]
        <3>1. q \in DOMAIN p
            BY <1>1, <1>6, <2>2
        <3>2. CASE r \in DOMAIN p
            BY <1>6, <2>2, <3>1, <3>2 DEF Sound, HeldBack
        <3>3. CASE r \notin DOMAIN p
            <4>1. p2[r] = n /\ p2[q] = p[q]
                BY <1>6, <3>1, <3>3
            <4>2. p[q] \in 1..N
                BY <1>3, <1>8, <3>1
            <4> QED
                BY <1>3, <4>1, <4>2
        <3> QED
            BY <3>2, <3>3
    <2> QED
        BY <2>1, <2>2 DEF HeldBack
<1>12. NothingLost(h2, ev, p2)
    <2> SUFFICES ASSUME NEW k \in DOMAIN h2
                 PROVE  \/ h2[k].chunk /\ h2[k].is = "call"
                        \/ \E i \in DOMAIN ev : ev[i].of = k
                        \/ \E q \in DOMAIN p2 : p2[q] = k
        BY DEF NothingLost
    <2>1. CASE k \in DOMAIN h
        <3>1. \/ h[k].chunk /\ h[k].is = "call"
              \/ \E i \in DOMAIN ev : ev[i].of = k
              \/ \E q \in DOMAIN p : p[q] = k
            BY <2>1 DEF Sound, NothingLost
        <3> QED
            BY <1>3, <1>6, <2>1, <3>1
    <2>2. CASE k = n
        BY <1>4, <1>6, <2>2
    <2> QED
        BY <1>3, <2>1, <2>2
<1>13. ApartIn(h2, ev)
    <2> SUFFICES ASSUME NEW i \in DOMAIN ev, h2[ev[i].of].chunk, ~ev[i].starts
                 PROVE  i > 1 /\ h2[ev[i - 1].of] = h2[ev[i].of]
        BY DEF ApartIn
    <2>1. i > 1 /\ h[ev[i - 1].of] = h[ev[i].of]
        BY <1>7 DEF Sound, ApartIn
    <2>2. i - 1 \in DOMAIN ev
        BY <1>1, <2>1
    <2> QED
        BY <1>7, <2>1, <2>2
<1> QED
    BY <1>9, <1>10, <1>11, <1>12, <1>13 DEF Sound, h2, p2, n

-----------------------------------------------------------------------------
(***************************************************************************)
(* The invariant                                                           *)
(***************************************************************************)

ControlOK ==
    /\ pc \in {"create", "streaming", "cleanup", "returned"}
    /\ stream \in Seq(StreamEvent) /\ closed \in BOOLEAN /\ sent \in 0..MaxSent
    /\ cancelled \in BOOLEAN
    /\ lastRemote \in {LastNone, LastContent, LastUnknown}
                        \cup {LastStatus(s) : s \in TaskState}
    /\ lastErr \in Err /\ cleanupErr \in BOOLEAN
    /\ told \in Seq([state: TaskState \cup {""}, reason: Reason])
    /\ Len(told) <= Callbacks

\* What the callbacks are told is what ended the stream, and no error means its end.
Telling ==
    /\ pc \in {"create", "streaming"} => lastErr = "none" /\ told = <<>>
    /\ pc = "cleanup" =>
          /\ lastErr \in Reason
          /\ \A c \in DOMAIN told : told[c].reason = lastErr
          /\ lastErr = "none" => closed /\ stream = <<>>
    /\ CleanupIsTold
    /\ SuccessHeardAll

RemoteInv == ControlOK /\ Sound(heard, allEvents, pending) /\ Telling

LEMMA InvGivesType == RemoteInv => RemoteTypeOK
BY DEF RemoteInv, RemoteTypeOK, ControlOK, Sound, BookOK, HeardItem

LEMMA InvGivesOrder == RemoteInv => OnlyStatusesOvertake
BY DEF RemoteInv, OnlyStatusesOvertake, Of, MayOvertake, Sound, InOrder, HeldBack,
       NothingLost, Late

LEMMA InvGivesApart == RemoteInv => ThoughtsStayApart
BY DEF RemoteInv, ThoughtsStayApart, Of, Sound, ApartIn

LEMMA InitInv == Init => RemoteInv
<1> SUFFICES ASSUME Init
             PROVE  RemoteInv
    OBVIOUS
<1>1. ControlOK
    <2>1. MaxSent \in Nat /\ Callbacks \in Nat
        BY RemoteAssumption
    <2>2. /\ <<>> \in Seq(StreamEvent) /\ Len(<<>>) = 0
          /\ <<>> \in Seq([state: TaskState \cup {""}, reason: Reason])
        OBVIOUS
    <2>3. /\ stream \in Seq(StreamEvent) /\ sent \in 0..MaxSent /\ Len(told) <= Callbacks
          /\ told \in Seq([state: TaskState \cup {""}, reason: Reason])
        BY <2>1, <2>2 DEF Init
    <2>4. /\ pc = "create" /\ closed \in BOOLEAN /\ cancelled \in BOOLEAN
          /\ lastRemote = LastNone /\ lastErr \in Err /\ cleanupErr \in BOOLEAN
        BY DEF Init, Err, Reason
    <2> QED
        BY <2>3, <2>4 DEF ControlOK
<1>2. Sound(heard, allEvents, pending)
    BY DEF Init, Sound, BookOK, InOrder, HeldBack, NothingLost, ApartIn
<1>3. Telling
    BY DEF Init, Telling, CleanupIsTold, SuccessHeardAll
<1> QED
    BY <1>1, <1>2, <1>3 DEF RemoteInv

-----------------------------------------------------------------------------
(***************************************************************************)
(* What is returned stays sound                                            *)
(***************************************************************************)

LEMMA StatusSound ==
    ASSUME RemoteInv, NEW s \in TaskState, ReceiveStatus(s)
    PROVE  Sound(heard, allEvents, pending)'
<1> DEFINE g == <<Heard(s, FALSE)>>
           flushed == allEvents \o Flushed(heard, pending)
<1>1. Sound(heard, allEvents, pending) /\ heard \in Seq(HeardItem)
    BY DEF RemoteInv, Sound, BookOK
<1>2. /\ g \in Seq(HeardItem) /\ Len(g) = 1
      /\ \A k \in DOMAIN g : g[k].chunk = FALSE /\ g[k].is = s
    BY DEF Heard, HeardItem
<1>3. heard' = heard \o g
    BY <1>1, <1>2, AppendIsConcat DEF ReceiveStatus, Heard, HeardItem
<1>4. CASE IsTerminal(s)
    <2>1. Sound(heard, flushed, <<>>)
        BY <1>1, FlushSound
    <2> HIDE DEF g, flushed
    <2>2. Sound(heard \o g, flushed \o Converted(Len(heard) + 1, Len(g)), <<>>)
        BY <1>2, <2>1, ConvertedSound
    <2>3. allEvents' = flushed \o Converted(Len(heard) + 1, 1) /\ pending' = <<>>
        BY <1>4 DEF ReceiveStatus, flushed
    <2> QED
        BY <1>2, <1>3, <2>2, <2>3
<1>5. CASE ~IsTerminal(s)
    <2>1. s = "working"
        BY <1>5 DEF TaskState, IsTerminal
    <2> HIDE DEF g
    <2>2. Sound(heard \o g, allEvents \o Converted(Len(heard) + 1, Len(g)), pending)
        BY <1>1, <1>2, <2>1, ConvertedSound
    <2>3. allEvents' = allEvents \o Converted(Len(heard) + 1, 1) /\ pending' = pending
        BY <1>5 DEF ReceiveStatus
    <2> QED
        BY <1>2, <1>3, <2>2, <2>3
<1> QED
    BY <1>4, <1>5

LEMMA ChunkSound ==
    ASSUME RemoteInv, NEW part \in PartKind, NEW last \in BOOLEAN, ReceiveChunk(part, last)
    PROVE  Sound(heard, allEvents, pending)'
<1> DEFINE held == Accumulated(heard', pending, Len(heard'))
<1>1. Sound(heard, allEvents, pending)
    BY DEF RemoteInv
<1>2. heard' = Append(heard, Heard(part, TRUE))
    BY DEF ReceiveChunk
<1>3. Sound(heard', allEvents, held)
    BY <1>1, <1>2, HeldSound
<1>4. CASE last
    <2>1. allEvents' = allEvents \o Flushed(heard', held) /\ pending' = <<>>
        BY <1>4 DEF ReceiveChunk
    <2> HIDE DEF held
    <2> QED
        BY <1>3, <2>1, FlushSound
<1>5. CASE ~last
    BY <1>3, <1>5 DEF ReceiveChunk
<1> QED
    BY <1>4, <1>5

LEMMA WholeSound ==
    ASSUME RemoteInv, NEW body \in Bodies, ReceiveWhole(body)
    PROVE  Sound(heard, allEvents, pending)'
<1> DEFINE g == [i \in DOMAIN body |-> Heard(body[i], FALSE)]
           flushed == allEvents \o Flushed(heard, pending)
<1>1. Sound(heard, flushed, <<>>)
    BY FlushSound DEF RemoteInv
<1>2. body \in Seq(PartKind) /\ Len(body) \in Nat /\ DOMAIN body = 1..Len(body)
    BY RemoteAssumption
<1>3. \A i \in DOMAIN body : Heard(body[i], FALSE) \in HeardItem
    BY <1>2 DEF Heard, HeardItem
<1>4. /\ g \in Seq(HeardItem) /\ Len(g) = Len(body)
      /\ \A k \in DOMAIN g : g[k].chunk = FALSE
    <2> DEFINE e(i) == Heard(body[i], FALSE)
    <2>1. g = [i \in 1..Len(body) |-> e(i)]
        BY <1>2
    <2>2. \A i \in 1..Len(body) : e(i) \in HeardItem
        BY <1>2, <1>3
    <2>3. \A i : e(i).chunk = FALSE
        BY DEF Heard
    <2> HIDE DEF e, g
    <2>4. g \in Seq(HeardItem)
        BY <1>2, <2>1, <2>2, IsASeq
    <2>5. DOMAIN g = 1..Len(body)
        BY <2>1
    <2>6. Len(g) = Len(body)
        BY <1>2, <2>4, <2>5, LenProperties
    <2> QED
        BY <2>1, <2>3, <2>4, <2>5, <2>6
<1>5. /\ heard' = heard \o g /\ pending' = <<>>
      /\ allEvents' = flushed \o Converted(Len(heard) + 1, Len(body))
    BY DEF ReceiveWhole
<1> HIDE DEF g, flushed
<1>6. Sound(heard \o g, flushed \o Converted(Len(heard) + 1, Len(g)), <<>>)
    BY <1>1, <1>4, ConvertedSound
<1> QED
    BY <1>4, <1>5, <1>6

LEMMA DestroySound ==
    ASSUME RemoteInv, NEW fails \in BOOLEAN, Destroy(fails)
    PROVE  Sound(heard, allEvents, pending)'
<1>1. Sound(heard, allEvents, pending) /\ heard' = heard
    BY DEF RemoteInv, Destroy
<1>2. Sound(heard, allEvents \o Flushed(heard, pending), <<>>)
    BY <1>1, FlushSound
<1>3. \/ allEvents' = allEvents \o Flushed(heard, pending) /\ pending' = <<>>
      \/ allEvents' = allEvents /\ pending' = pending
    BY DEF Destroy
<1> QED
    BY <1>1, <1>2, <1>3

-----------------------------------------------------------------------------
(***************************************************************************)
(* Every step                                                              *)
(***************************************************************************)

SoundVars == <<heard, pending, allEvents>>

LEMMA SoundFrame == RemoteInv /\ UNCHANGED SoundVars => Sound(heard, allEvents, pending)'
BY DEF RemoteInv, SoundVars

\* What ends the stream is in Err, and a reason if a callback can be told of it.
LEMMA ReceivesControl ==
    ASSUME RemoteInv, NEW e, Receives(e)
    PROVE  /\ pc = "streaming" /\ stream' \in Seq(StreamEvent) /\ e \in StreamEvent
           /\ lastErr = "none" /\ told = <<>> /\ Len(told) = 0
           /\ UNCHANGED <<closed, sent, cancelled, cleanupErr, told>>
<1>1. stream \in Seq(StreamEvent) /\ pc = "streaming"
    BY DEF RemoteInv, ControlOK, Receives
<1>2. stream # <<>> /\ e = Head(stream) /\ stream' = Tail(stream)
    BY DEF Receives
<1>3. e \in StreamEvent /\ stream' \in Seq(StreamEvent)
    <2> QED
        BY <1>1, <1>2, HeadTailProperties
<1> QED
    BY <1>1, <1>3 DEF Receives, RemoteInv, Telling, endVars

\* A step of the stream that goes on.
LEMMA GoesOn ==
    ASSUME RemoteInv, NEW e, Receives(e), UNCHANGED <<pc, lastErr>>,
           lastRemote' = LastContent \/ \E s \in TaskState : lastRemote' = LastStatus(s)
    PROVE  ControlOK' /\ Telling'
<1>1. /\ pc' = "streaming" /\ lastErr' = "none" /\ told' = <<>> /\ Len(told') = 0
      /\ stream' \in Seq(StreamEvent)
      /\ UNCHANGED <<closed, sent, cancelled, cleanupErr, told>>
    BY ReceivesControl
<1>2. ControlOK'
    <2>1. /\ closed \in BOOLEAN /\ sent \in 0..MaxSent /\ cancelled \in BOOLEAN
          /\ cleanupErr \in BOOLEAN
          /\ told \in Seq([state: TaskState \cup {""}, reason: Reason])
          /\ Len(told) <= Callbacks
        BY DEF RemoteInv, ControlOK
    <2>2. lastRemote' \in {LastNone, LastContent, LastUnknown}
                            \cup {LastStatus(s) : s \in TaskState}
        OBVIOUS
    <2> QED
        BY <1>1, <2>1, <2>2 DEF ControlOK, Err, Reason
<1>3. Telling'
    BY <1>1 DEF Telling, CleanupIsTold, SuccessHeardAll
<1> QED
    BY <1>2, <1>3

LEMMA EnvironmentKeeps ==
    ASSUME RemoteInv,
           RemoteCloses \/ Cancel \/ \E e \in StreamEvent : RemoteSends(e)
    PROVE  ControlOK' /\ Telling'
<1>1. CASE RemoteCloses
    BY <1>1 DEF RemoteInv, ControlOK, Telling, CleanupIsTold, SuccessHeardAll,
                RemoteCloses, endVars
<1>2. CASE Cancel
    BY <1>2 DEF RemoteInv, ControlOK, Telling, CleanupIsTold, SuccessHeardAll, Cancel,
                endVars
<1>3. ASSUME NEW e \in StreamEvent, RemoteSends(e)
      PROVE  ControlOK' /\ Telling'
    <2>1. stream' \in Seq(StreamEvent)
        <3> QED
            BY <1>3, AppendProperties DEF RemoteSends, RemoteInv, ControlOK
    <2>2. ~closed /\ closed' = closed /\ sent' \in 0..MaxSent
        <3>1. MaxSent \in Nat /\ sent \in 0..MaxSent
            BY RemoteAssumption DEF RemoteInv, ControlOK
        <3>2. ~closed /\ closed' = closed /\ sent < MaxSent /\ sent' = sent + 1
            BY <1>3 DEF RemoteSends
        <3> QED
            BY <3>1, <3>2
    <2>3. UNCHANGED <<pc, cancelled, lastRemote, lastErr, cleanupErr, told>>
        BY <1>3 DEF RemoteSends, endVars
    <2>4. ControlOK'
        <3> QED
            BY <2>1, <2>2, <2>3 DEF RemoteInv, ControlOK
    <2>5. Telling'
        BY <2>2, <2>3 DEF RemoteInv, Telling, CleanupIsTold, SuccessHeardAll
    <2> QED
        BY <2>4, <2>5
<1> QED
    BY <1>1, <1>2, <1>3

LEMMA CreateKeeps ==
    ASSUME RemoteInv, NEW fails \in BOOLEAN, CreateClient(fails)
    PROVE  ControlOK' /\ Telling'
BY DEF RemoteInv, ControlOK, Telling, CleanupIsTold, SuccessHeardAll, CreateClient,
       remoteVars, endVars, Err, Reason

LEMMA BadKeeps ==
    ASSUME RemoteInv, NEW what \in {"error", "nil", "unknown"}, ReceiveBad(what)
    PROVE  ControlOK' /\ Telling'
<1>1. /\ pc = "streaming" /\ lastErr = "none" /\ told = <<>>
      /\ stream' \in Seq(StreamEvent)
      /\ UNCHANGED <<closed, sent, cancelled, cleanupErr, told>>
    BY ReceivesControl DEF ReceiveBad
<1>2. lastErr' \in {"stream", "convert"} /\ pc' = "cleanup"
    BY DEF ReceiveBad
<1>3. lastRemote' \in {LastUnknown, lastRemote}
    BY DEF ReceiveBad
<1>4. ControlOK'
    <2> QED
        BY <1>1, <1>2, <1>3 DEF RemoteInv, ControlOK, Err, Reason
<1>5. Telling'
    BY <1>1, <1>2 DEF Telling, CleanupIsTold, SuccessHeardAll, Reason
<1> QED
    BY <1>4, <1>5

LEMMA EndsKeep ==
    ASSUME RemoteInv, StreamEnds \/ SeesCancel
    PROVE  ControlOK' /\ Telling'
<1>1. /\ pc = "streaming" /\ pc' = "cleanup" /\ lastErr = "none" /\ told = <<>>
      /\ lastErr' \in {"none", "cancelled"}
      /\ lastErr' = "none" => closed /\ stream = <<>>
      /\ UNCHANGED <<stream, closed, sent, cancelled, lastRemote, cleanupErr, told>>
    BY DEF StreamEnds, SeesCancel, remoteVars, endVars, RemoteInv, Telling
<1>2. ControlOK'
    BY <1>1 DEF RemoteInv, ControlOK, Err, Reason
<1>3. Telling'
    BY <1>1 DEF Telling, CleanupIsTold, SuccessHeardAll, Reason
<1> QED
    BY <1>2, <1>3

LEMMA CallbackKeeps ==
    ASSUME RemoteInv, NEW fails \in BOOLEAN, CleanupCallback(fails)
    PROVE  ControlOK' /\ Telling'
<1> DEFINE Told == [state: TaskState \cup {""}, reason: Reason]
           x == [state |-> lastRemote.state, reason |-> lastErr]
<1>1. /\ pc = "cleanup" /\ pc' = "cleanup" /\ lastErr \in Reason /\ Len(told) < Callbacks
      /\ told \in Seq(Told) /\ \A c \in DOMAIN told : told[c].reason = lastErr
      /\ lastErr = "none" => closed /\ stream = <<>>
    BY DEF CleanupCallback, RemoteInv, ControlOK, Telling
<1>2. UNCHANGED <<stream, closed, sent, cancelled, lastRemote, lastErr>>
    BY DEF CleanupCallback, remoteVars
<1>3. x \in Told /\ x.reason = lastErr /\ told' = Append(told, x)
    <2>1. lastRemote.state \in TaskState \cup {""}
        <3>1. lastRemote \in {LastNone, LastContent, LastUnknown}
                 \/ \E s \in TaskState : lastRemote = LastStatus(s)
            BY DEF RemoteInv, ControlOK
        <3>2. LastNone.state = "" /\ LastContent.state = "" /\ LastUnknown.state = ""
            BY DEF LastNone, LastContent, LastUnknown
        <3>3. \A s : LastStatus(s).state = s
            BY DEF LastStatus
        <3> QED
            BY <3>1, <3>2, <3>3
    <2> QED
        BY <1>1, <2>1 DEF CleanupCallback
<1> HIDE DEF Told, x
<1>4. /\ told' \in Seq(Told) /\ Len(told') = Len(told) + 1 /\ Len(told) \in Nat
      /\ \A c \in DOMAIN told' : told'[c].reason = lastErr
    BY <1>1, <1>3
<1>5. cleanupErr' \in BOOLEAN
    BY DEF CleanupCallback, RemoteInv, ControlOK
<1>6. ControlOK'
    <2>1. Len(told') <= Callbacks
        BY <1>1, <1>4, RemoteAssumption
    <2> QED
        BY <1>1, <1>2, <1>4, <1>5, <2>1 DEF RemoteInv, ControlOK, Told
<1>7. Telling'
    BY <1>1, <1>2, <1>4 DEF Telling, CleanupIsTold, SuccessHeardAll
<1> QED
    BY <1>6, <1>7

LEMMA DestroyKeeps ==
    ASSUME RemoteInv, NEW fails \in BOOLEAN, Destroy(fails)
    PROVE  ControlOK' /\ Telling'
<1>1. /\ pc' = "returned" /\ lastErr \in Reason /\ Len(told) = Callbacks
      /\ \A c \in DOMAIN told : told[c].reason = lastErr
      /\ lastErr = "none" => closed /\ stream = <<>>
    BY DEF Destroy, RemoteInv, Telling
<1>2. UNCHANGED <<stream, closed, sent, cancelled, lastRemote, cleanupErr, told>>
    BY DEF Destroy, remoteVars, endVars
<1>3. \/ lastErr # "none" /\ lastErr' = lastErr
      \/ lastErr = "none" /\ lastErr' \in {"none", "cleanup", "destroy"}
    BY DEF Destroy, FirstErr
<1>4. ControlOK'
    BY <1>1, <1>2, <1>3 DEF RemoteInv, ControlOK, Err
<1>5. DOMAIN told = 1..Callbacks
    <2> DEFINE Told == [state: TaskState \cup {""}, reason: Reason]
    <2>1. told \in Seq(Told)
        BY DEF RemoteInv, ControlOK
    <2> HIDE DEF Told
    <2>2. DOMAIN told = 1..Len(told)
        BY <2>1
    <2> QED
        BY <1>1, <2>2
<1>6. CleanupIsTold'
    BY <1>1, <1>2, <1>3, <1>5 DEF CleanupIsTold, Reason
<1>7. SuccessHeardAll'
    BY <1>1, <1>2, <1>3 DEF SuccessHeardAll
<1> QED
    BY <1>1, <1>4, <1>6, <1>7 DEF Telling

LEMMA NextInv == RemoteInv /\ [Next]_vars => RemoteInv'
<1> SUFFICES ASSUME RemoteInv, [Next]_vars
             PROVE  Sound(heard, allEvents, pending)' /\ ControlOK' /\ Telling'
    BY DEF RemoteInv
<1>1. CASE RemoteCloses \/ Cancel \/ \E e \in StreamEvent : RemoteSends(e)
    <2>1. UNCHANGED SoundVars
        BY <1>1 DEF RemoteCloses, Cancel, RemoteSends, SoundVars
    <2> QED
        BY <1>1, <2>1, SoundFrame, EnvironmentKeeps
<1>2. ASSUME NEW fails \in BOOLEAN, CreateClient(fails)
      PROVE  Sound(heard, allEvents, pending)' /\ ControlOK' /\ Telling'
    <2>1. UNCHANGED SoundVars
        BY <1>2 DEF CreateClient, SoundVars
    <2> QED
        BY <1>2, <2>1, SoundFrame, CreateKeeps
<1>3. ASSUME NEW s \in TaskState, ReceiveStatus(s)
      PROVE  Sound(heard, allEvents, pending)' /\ ControlOK' /\ Telling'
    <2>1. ControlOK' /\ Telling'
        BY <1>3, GoesOn DEF ReceiveStatus
    <2> QED
        BY <1>3, <2>1, StatusSound
<1>4. ASSUME NEW part \in PartKind, NEW last \in BOOLEAN, ReceiveChunk(part, last)
      PROVE  Sound(heard, allEvents, pending)' /\ ControlOK' /\ Telling'
    <2>1. ControlOK' /\ Telling'
        BY <1>4, GoesOn DEF ReceiveChunk
    <2> QED
        BY <1>4, <2>1, ChunkSound
<1>5. ASSUME NEW body \in Bodies, ReceiveWhole(body)
      PROVE  Sound(heard, allEvents, pending)' /\ ControlOK' /\ Telling'
    <2>1. ControlOK' /\ Telling'
        BY <1>5, GoesOn DEF ReceiveWhole
    <2> QED
        BY <1>5, <2>1, WholeSound
<1>6. ASSUME NEW what \in {"error", "nil", "unknown"}, ReceiveBad(what)
      PROVE  Sound(heard, allEvents, pending)' /\ ControlOK' /\ Telling'
    <2>1. UNCHANGED SoundVars
        BY <1>6 DEF ReceiveBad, SoundVars
    <2> QED
        BY <1>6, <2>1, SoundFrame, BadKeeps
<1>7. CASE StreamEnds \/ SeesCancel
    <2>1. UNCHANGED SoundVars
        BY <1>7 DEF StreamEnds, SeesCancel, SoundVars
    <2> QED
        BY <1>7, <2>1, SoundFrame, EndsKeep
<1>8. ASSUME NEW fails \in BOOLEAN, CleanupCallback(fails)
      PROVE  Sound(heard, allEvents, pending)' /\ ControlOK' /\ Telling'
    <2>1. UNCHANGED SoundVars
        BY <1>8 DEF CleanupCallback, SoundVars
    <2> QED
        BY <1>8, <2>1, SoundFrame, CallbackKeeps
<1>9. ASSUME NEW fails \in BOOLEAN, Destroy(fails)
      PROVE  Sound(heard, allEvents, pending)' /\ ControlOK' /\ Telling'
    BY <1>9, DestroySound, DestroyKeeps
<1>10. CASE UNCHANGED vars
    <2>1. UNCHANGED SoundVars
        BY <1>10 DEF vars, SoundVars
    <2> QED
        BY <1>10, <2>1, SoundFrame
        DEF vars, RemoteInv, ControlOK, Telling, CleanupIsTold, SuccessHeardAll
<1> QED
    BY <1>1, <1>2, <1>3, <1>4, <1>5, <1>6, <1>7, <1>8, <1>9, <1>10 DEF Next, Execute

LEMMA SpecInv == Spec => []RemoteInv
BY InitInv, NextInv, PTL DEF Spec

-----------------------------------------------------------------------------
(***************************************************************************)
(* The theorems                                                            *)
(***************************************************************************)

\* The state keeps its types (Execute, aggregator).
THEOREM RemoteTypeCorrect == Spec => []RemoteTypeOK
BY SpecInv, InvGivesType, PTL

\* Nothing the remote says is lost, repeated or overtaken but by the statuses of a task
\* at work, for every stream (aggregate.go:45-175).
THEOREM NothingOvertakes == Spec => []OnlyStatusesOvertake
BY SpecInv, InvGivesOrder, PTL

\* No event put together from chunks mixes thoughts and text (aggregate.go:105-123).
THEOREM ThoughtsApart == Spec => []ThoughtsStayApart
BY SpecInv, InvGivesApart, PTL

\* All callbacks are told the error that Execute returns (remote_agent.go:174-189).
THEOREM CallbacksAreTold == Spec => []CleanupIsTold
<1>1. RemoteInv => CleanupIsTold
    BY DEF RemoteInv, Telling
<1> QED
    BY <1>1, SpecInv, PTL

\* A call that succeeds has heard all that the remote sent (remote_agent.go:146-197).
THEOREM SuccessHasHeardAll == Spec => []SuccessHeardAll
<1>1. RemoteInv => SuccessHeardAll
    BY DEF RemoteInv, Telling
<1> QED
    BY <1>1, SpecInv, PTL

-----------------------------------------------------------------------------
(***************************************************************************)
(* What is held back at the end                                            *)
(***************************************************************************)

\* While nothing has gone wrong, text is held back only behind a chunk that came last,
\* or, until Destroy hands it out, behind the status of a task at work.
HeldInv ==
    lastErr = "none" /\ pending # <<>> =>
        \/ heard[Len(heard)].chunk
        \/ pc # "returned" /\ lastRemote = LastStatus("working")

LEMMA HeldInit == Init => HeldInv
BY DEF Init, HeldInv

LEMMA HeldNext == RemoteInv /\ HeldInv /\ [Next]_vars => HeldInv'
<1> SUFFICES ASSUME RemoteInv, HeldInv, [Next]_vars PROVE HeldInv'
    OBVIOUS
<1> USE DEF HeldInv
<1>1. CASE RemoteCloses \/ Cancel \/ \E e \in StreamEvent : RemoteSends(e)
    BY <1>1 DEF RemoteCloses, Cancel, RemoteSends
<1>2. ASSUME NEW fails \in BOOLEAN, CreateClient(fails) PROVE HeldInv'
    BY <1>2 DEF CreateClient
<1>3. ASSUME NEW s \in TaskState, ReceiveStatus(s) PROVE HeldInv'
    <2>1. CASE IsTerminal(s)
        BY <1>3, <2>1 DEF ReceiveStatus
    <2>2. CASE ~IsTerminal(s)
        <3>1. s = "working"
            BY <1>3, <2>2 DEF TaskState, IsTerminal
        <3>2. pc' = "streaming" /\ lastRemote' = LastStatus("working")
            BY <1>3, <3>1 DEF ReceiveStatus, Receives
        <3> QED
            BY <3>2
    <2> QED
        BY <2>1, <2>2
<1>4. ASSUME NEW part \in PartKind, NEW last \in BOOLEAN, ReceiveChunk(part, last)
      PROVE  HeldInv'
    <2>1. heard \in Seq(HeardItem)
        BY DEF RemoteInv, Sound, BookOK
    <2>2. heard' = Append(heard, Heard(part, TRUE)) /\ Heard(part, TRUE) \in HeardItem
        BY <1>4 DEF ReceiveChunk, Heard, HeardItem
    <2>3. heard'[Len(heard')] = Heard(part, TRUE)
        <3>1. PICK h, x : h = heard /\ x = Heard(part, TRUE)
            OBVIOUS
        <3>2. /\ Append(h, x)[Len(h) + 1] = x
              /\ Len(Append(h, x)) = Len(h) + 1
            BY <2>1, <2>2, <3>1, AppendProperties
        <3> QED
            BY <2>2, <3>1, <3>2
    <2> QED
        BY <2>3 DEF Heard
<1>5. ASSUME NEW body \in Bodies, ReceiveWhole(body) PROVE HeldInv'
    BY <1>5 DEF ReceiveWhole
<1>6. ASSUME NEW what \in {"error", "nil", "unknown"}, ReceiveBad(what) PROVE HeldInv'
    BY <1>6 DEF ReceiveBad
<1>7. CASE StreamEnds \/ SeesCancel
    BY <1>7 DEF StreamEnds, SeesCancel
<1>8. ASSUME NEW fails \in BOOLEAN, CleanupCallback(fails) PROVE HeldInv'
    BY <1>8 DEF CleanupCallback
<1>9. ASSUME NEW fails \in BOOLEAN, Destroy(fails) PROVE HeldInv'
    <2>1. lastErr' = "none" => lastErr = "none"
        BY <1>9 DEF Destroy, FirstErr
    <2>2. CASE EndsOpen
        BY <1>9, <2>2 DEF Destroy
    <2>3. CASE ~EndsOpen
        <3>1. lastRemote # LastStatus("working")
            BY <2>3 DEF EndsOpen, IsTerminal, LastStatus
        <3> QED
            BY <1>9, <2>1, <2>3, <3>1 DEF Destroy
    <2> QED
        BY <2>2, <2>3
<1>10. CASE UNCHANGED vars
    BY <1>10 DEF vars
<1> QED
    BY <1>1, <1>2, <1>3, <1>4, <1>5, <1>6, <1>7, <1>8, <1>9, <1>10 DEF Next, Execute

\* A call that succeeds keeps text to itself only behind a chunk: what waits behind a
\* status when the stream ends is handed out, for every stream (remote_agent.go:191-198).
THEOREM HeldBackBehindChunks == Spec => []HeldBackOnlyMidAnswer
<1>1. HeldInv => HeldBackOnlyMidAnswer
    BY DEF HeldInv, HeldBackOnlyMidAnswer
<1> QED
    BY <1>1, SpecInv, HeldInit, HeldNext, InitInv, NextInv, PTL DEF Spec

=============================================================================
