----------------------------- MODULE HooksProofs -----------------------------
(***************************************************************************)
(* Proofs about the hooks, for any number of them in each chain: who       *)
(* answers for a procedure.                                                *)
(***************************************************************************)
EXTENDS Hooks, SequenceTheorems, TLAPS

\* The chains up to the core, and those that may replace what the core left.
UpToCore == {"request", "enter", "core"} \cup BeforeChains

AfterCore == {"pluginError"} \cup AfterChains

Closing == {"check", "response", "again"}

\* What is logged, and what the answer is made of.
RecordTypes ==
    /\ log \in Seq([by: Authors, out: Outcomes])
    /\ answer \in [values: Seq(Authors), error: Authors \cup {None}, empty: BOOLEAN]

\* Only a chain of hooks has a place but the first.
OnePlace == Chain \notin HookChains => place = 1

\* Either a hook before the core answered, and then only a response processor did, or the
\* core did, and then only hooks behind it.
LogShape ==
    \/ log = <<>>
    \/ /\ log[1].by[1] \in BeforeChains \cup {"request"}
       /\ \A i \in DOMAIN log : i # 1 => log[i].by[1] = "response"
    \/ /\ log[1].by = <<"core", 1>>
       /\ \A i \in DOMAIN log : i # 1 => log[i].by[1] \in AfterCore \cup {"response"}

\* Who has answered when.
Answered ==
    /\ Chain \in UpToCore => log = <<>> /\ answer = NoAnswer
    /\ Chain \in AfterCore => log # <<>> /\ log[1].by = <<"core", 1>>
    /\ Chain \in Closing => log # <<>>
    /\ Done /\ (procedure = "step" => ~ended) => log # <<>>

\* What an agent's after hooks find, and what a response processor does.
AgentRan ==
    procedure \in AgentProcedures /\ Chain \in AfterChains =>
        Len(log) = 1 /\ answer.values = <<<<"core", 1>>>> /\ answer.error = None

ResponseLeft == Chain \in {"response", "again"} => answer.error = None /\ answer.values # <<>>

ToolSaysError == procedure = "tool" /\ answer.error # None => answer.values = <<answer.error>>

\* What the error and after hooks of a tool are told.
ToldThroughout ==
    procedure = "tool" =>
        /\ Chain \in AfterCore =>
              (runErr # None <=>
                  /\ \E i \in By({"core"}) : log[i].out = "error"
                  /\ \A i \in By({"pluginError"}) : log[i].out # "value")
        /\ Chain = "pluginError" => Len(log) = 1 /\ runErr = answer.error

HookInv ==
    /\ HooksTypeOK /\ RecordTypes /\ OnePlace
    /\ LogShape /\ Answered
    /\ LastWordIsWhole /\ AgentRan /\ ResponseLeft
    /\ ToolSaysError /\ FailureIsAlone /\ ToldThroughout
-----------------------------------------------------------------------------
(***************************************************************************)
(* The order of the chains                                                 *)
(***************************************************************************)

LEMMA FourOrders ==
    /\ Procedures = {"lifecycle", "execute", "step", "tool"}
    /\ Order["lifecycle"] = <<"pluginBefore", "ctxBefore", "core", "pluginAfter", "ctxAfter">>
    /\ Order["execute"] = <<"before", "core", "after">>
    /\ Order["step"] = <<"request", "enter", "pluginBefore", "ctxBefore", "before", "core",
                         "pluginError", "pluginAfter", "ctxAfter", "after", "check",
                         "response", "again">>
    /\ Order["tool"] = <<"pluginBefore", "ctxBefore", "before", "core", "pluginError",
                         "pluginAfter", "ctxAfter", "after">>
BY DEF Procedures, Order

\* A chain of a procedure.
In(chains, p, k) == k \in DOMAIN Order[p] /\ Order[p][k] \in chains

\* What comes behind a chain, of those that the procedure has.
Ordered(p, k) ==
    /\ In(UpToCore \cup AfterCore \cup Closing, p, k)
    /\ In({"request", "enter"} \cup Closing, p, k) => p = "step"
    /\ In({"pluginError"}, p, k) => p \in {"step", "tool"}
    /\ In(UpToCore \ {"core"}, p, k) => In(UpToCore, p, k + 1)
    /\ In({"core"}, p, k) => In(AfterCore, p, k + 1)
    /\ In({"core"}, p, k) /\ p \in AgentProcedures => In(AfterChains, p, k + 1)
    /\ In({"core"}, p, k) /\ p = "tool" => In({"pluginError"}, p, k + 1)
    /\ In({"pluginError"}, p, k) => In(AfterChains, p, k + 1)
    /\ In(AfterChains, p, k) =>
          \/ k = Len(Order[p]) /\ p # "step"
          \/ In(AfterChains, p, k + 1)
          \/ In({"check"}, p, k + 1)
    /\ In({"check"}, p, k) => In({"response"}, p, k + 1)
    /\ In({"response"}, p, k) => In({"again"}, p, k + 1)

LEMMA OrderedBehind ==
    ASSUME NEW p \in Procedures
    PROVE  /\ Len(Order[p]) \in Nat /\ DOMAIN Order[p] = 1..Len(Order[p])
           /\ In(UpToCore, p, 1)
           /\ \A k \in 1..Len(Order[p]) : Ordered(p, k)
<1> USE DEF Ordered, In, UpToCore, AfterCore, Closing, BeforeChains, AfterChains, AgentProcedures
<1>1. CASE p = "lifecycle"
    <2>1. \A k \in 1..5 : k = 1 \/ k = 2 \/ k = 3 \/ k = 4 \/ k = 5
        OBVIOUS
    <2> QED
        BY <1>1, <2>1, FourOrders
<1>2. CASE p = "execute"
    <2>1. \A k \in 1..3 : k = 1 \/ k = 2 \/ k = 3
        OBVIOUS
    <2> QED
        BY <1>2, <2>1, FourOrders
<1>3. CASE p = "step"
    <2>1. \A k \in 1..13 : \/ k = 1 \/ k = 2 \/ k = 3 \/ k = 4 \/ k = 5 \/ k = 6 \/ k = 7
                           \/ k = 8 \/ k = 9 \/ k = 10 \/ k = 11 \/ k = 12 \/ k = 13
        OBVIOUS
    <2> QED
        BY <1>3, <2>1, FourOrders
<1>4. CASE p = "tool"
    <2>1. \A k \in 1..8 : \/ k = 1 \/ k = 2 \/ k = 3 \/ k = 4 \/ k = 5 \/ k = 6 \/ k = 7
                          \/ k = 8
        OBVIOUS
    <2> QED
        BY <1>4, <2>1, FourOrders
<1> QED
    BY <1>1, <1>2, <1>3, <1>4, FourOrders

\* The chains that runOneStep and callModel jump to.
LEMMA Jumps ==
    ASSUME NEW chain \in {"check", "pluginBefore"}
    PROVE  LET i == CHOOSE i \in DOMAIN Order["step"] : Order["step"][i] = chain
           IN  In({chain}, "step", i)
<1>1. \E i \in DOMAIN Order["step"] : Order["step"][i] = chain
    <2>1. /\ 11 \in DOMAIN Order["step"] /\ Order["step"][11] = "check"
          /\ 3 \in DOMAIN Order["step"] /\ Order["step"][3] = "pluginBefore"
        BY FourOrders
    <2> QED
        BY <2>1
<1> QED
    BY <1>1 DEF In

-----------------------------------------------------------------------------
(***************************************************************************)
(* Where a procedure is and where it goes                                  *)
(***************************************************************************)

LEMMA Kinds ==
    /\ "done" \notin UpToCore \cup AfterCore \cup Closing
    /\ UpToCore \cap AfterCore = {} /\ UpToCore \cap Closing = {} /\ AfterCore \cap Closing = {}
    /\ BeforeChains \cup {"request"} \subseteq UpToCore /\ AfterChains \subseteq AfterCore
    /\ BeforeChains \cup {"request"} \subseteq HookChains /\ AfterCore \subseteq HookChains
    /\ "core" \in UpToCore /\ "enter" \in UpToCore
    /\ "core" \notin HookChains /\ "check" \notin HookChains /\ "again" \notin HookChains
    /\ "done" \notin HookChains /\ "enter" \notin HookChains
    /\ "response" \in HookChains
    /\ HookChains = BeforeChains \cup AfterCore \cup {"request", "response"}
    /\ "pluginBefore" \in BeforeChains
    /\ AfterCore = AfterChains \cup {"pluginError"} /\ "pluginError" \notin AfterChains
    /\ {"request", "core"} \cap BeforeChains = {}
BY DEF UpToCore, AfterCore, Closing, BeforeChains, AfterChains, HookChains

LEMMA ChainIs ==
    ASSUME HooksTypeOK
    PROVE  /\ procedure \in Procedures /\ at \in Nat
           /\ Len(Order[procedure]) \in Nat
           /\ Done <=> Chain = "done"
           /\ ~Done => /\ at \in DOMAIN Order[procedure] /\ at \in 1..Len(Order[procedure])
                       /\ Chain = Order[procedure][at]
                       /\ Ordered(procedure, at)
           /\ Chain \in UpToCore \cup AfterCore \cup Closing \cup {"done"}
           /\ Chain \in {"request", "enter"} \cup Closing => procedure = "step"
           /\ Chain = "pluginError" => procedure \in {"step", "tool"}
<1> DEFINE order == Order[procedure]
<1>1. procedure \in Procedures /\ at \in 1..(Len(order) + 1)
    BY DEF HooksTypeOK
<1>2. /\ Len(order) \in Nat /\ DOMAIN order = 1..Len(order)
      /\ \A k \in 1..Len(order) : Ordered(procedure, k)
    BY <1>1, OrderedBehind
<1>3. CASE Done
    BY <1>1, <1>2, <1>3, Kinds DEF Chain, Closing, Done
<1>4. CASE ~Done
    <2>1. at \in 1..Len(order) /\ Chain = order[at] /\ Ordered(procedure, at) /\ at \in DOMAIN order
        BY <1>1, <1>2, <1>4 DEF Done, Chain
    <2>2. /\ In(UpToCore \cup AfterCore \cup Closing, procedure, at)
          /\ In({"request", "enter"} \cup Closing, procedure, at) => procedure = "step"
          /\ In({"pluginError"}, procedure, at) => procedure \in {"step", "tool"}
        BY <2>1 DEF Ordered
    <2> HIDE DEF order
    <2>3. /\ Chain \in UpToCore \cup AfterCore \cup Closing
          /\ Chain \in {"request", "enter"} \cup Closing => procedure = "step"
          /\ Chain = "pluginError" => procedure \in {"step", "tool"}
        BY <2>1, <2>2 DEF In, order
    <2> QED
        BY <1>1, <1>2, <1>4, <2>1, <2>3, Kinds DEF order
<1> QED
    BY <1>3, <1>4

LEMMA StartsBeforeCore ==
    ASSUME HooksTypeOK, at = 1 PROVE Chain \in UpToCore
<1>1. In(UpToCore, procedure, 1) /\ Len(Order[procedure]) \in Nat
         /\ DOMAIN Order[procedure] = 1..Len(Order[procedure])
    BY OrderedBehind DEF HooksTypeOK
<1> QED
    BY <1>1 DEF In, Chain, Done

LEMMA Forward ==
    ASSUME HooksTypeOK, ~Done, GoOn, procedure' = procedure
    PROVE  /\ at' \in 1..(Len(Order[procedure]) + 1) /\ place' = 1
           /\ Chain \in UpToCore \ {"core"} => Chain' \in UpToCore
           /\ Chain = "core" => Chain' \in AfterCore
           /\ Chain = "core" /\ procedure \in AgentProcedures => Chain' \in AfterChains
           /\ Chain = "core" /\ procedure = "tool" => Chain' = "pluginError"
           /\ Chain = "pluginError" => Chain' \in AfterChains
           /\ Chain \in AfterChains => Chain' \in AfterChains \cup {"check", "done"}
           /\ Chain \in AfterChains /\ procedure = "step" => Chain' # "done"
           /\ Chain = "check" => Chain' = "response"
           /\ Chain = "response" => Chain' = "again"
           /\ Done' <=> Chain' = "done"
<1> DEFINE order == Order[procedure]
           next == IF at + 1 = Len(order) + 1 THEN "done" ELSE order[at + 1]
<1>1. /\ Len(order) \in Nat /\ at \in 1..Len(order) /\ Chain = order[at]
      /\ Ordered(procedure, at) /\ DOMAIN order = 1..Len(order) /\ procedure \in Procedures
    BY ChainIs, OrderedBehind
<1>2. at' = at + 1 /\ place' = 1
    BY DEF GoOn, GoTo
<1>3. Chain' = next /\ (Done' <=> at + 1 = Len(order) + 1)
    BY <1>2 DEF Chain, Done
<1>4. at + 1 \in 1..Len(order) => next = order[at + 1]
    BY <1>1
<1>5. \A chains : In(chains, procedure, at + 1) => next \in chains
    BY <1>1, <1>4 DEF In
<1>6. \A chains : Chain \in chains => In(chains, procedure, at)
    BY <1>1 DEF In
<1>7. at' \in 1..(Len(order) + 1)
    BY <1>1, <1>2
<1>8. at = Len(order) => next = "done"
    BY <1>1
<1>9. at # Len(order) => at + 1 \in 1..Len(order)
    BY <1>1
<1>10. at # Len(order) => next # "done" /\ at + 1 # Len(order) + 1
    <2> SUFFICES ASSUME at # Len(order) PROVE next # "done" /\ at + 1 # Len(order) + 1
        OBVIOUS
    <2>1. Ordered(procedure, at + 1)
        BY <1>1, <1>9, OrderedBehind
    <2>2. In(UpToCore \cup AfterCore \cup Closing, procedure, at + 1)
        BY <2>1 DEF Ordered
    <2>3. next \in UpToCore \cup AfterCore \cup Closing
        BY <1>5, <2>2
    <2>4. at + 1 # Len(order) + 1
        BY <1>1
    <2> HIDE DEF next, order
    <2> QED
        BY <2>3, <2>4, Kinds
<1> HIDE DEF next, order
<1>11. /\ Chain \in UpToCore \ {"core"} => next \in UpToCore
       /\ Chain = "core" => next \in AfterCore
       /\ Chain = "core" /\ procedure \in AgentProcedures => next \in AfterChains
       /\ Chain = "core" /\ procedure = "tool" => next = "pluginError"
       /\ Chain = "pluginError" => next \in AfterChains
       /\ Chain = "check" => next = "response"
       /\ Chain = "response" => next = "again"
    BY <1>1, <1>5, <1>6 DEF Ordered
<1>12. Chain \in AfterChains => next \in AfterChains \cup {"check", "done"}
    BY <1>1, <1>5, <1>6, <1>8 DEF Ordered, order
<1>13. Done' <=> next = "done"
    BY <1>1, <1>3, <1>8, <1>10
<1>14. Chain \in AfterChains /\ procedure = "step" => next # "done"
    BY <1>1, <1>6, <1>10 DEF Ordered, In, order
<1> QED
    BY <1>2, <1>3, <1>7, <1>11, <1>12, <1>13, <1>14 DEF order

LEMMA Returns ==
    ASSUME HooksTypeOK, Finish, procedure' = procedure
    PROVE  /\ at' \in 1..(Len(Order[procedure]) + 1) /\ place' = 1
           /\ Chain' = "done" /\ Done'
<1>1. Len(Order[procedure]) \in Nat
    BY ChainIs
<1> QED
    BY <1>1 DEF Finish, GoTo, Chain, Done

LEMMA JumpsTo ==
    ASSUME HooksTypeOK, procedure = "step", procedure' = procedure,
           NEW chain \in {"check", "pluginBefore"}, GoToChain(chain)
    PROVE  /\ at' \in 1..(Len(Order[procedure]) + 1) /\ place' = 1
           /\ Chain' = chain /\ ~Done'
<1> DEFINE i == CHOOSE i \in DOMAIN Order["step"] : Order["step"][i] = chain
<1>1. In({chain}, "step", i)
    BY Jumps
<1>2. at' = i /\ place' = 1
    BY DEF GoToChain, GoTo
<1>3. "step" \in Procedures
    BY FourOrders
<1>4. Len(Order["step"]) \in Nat /\ DOMAIN Order["step"] = 1..Len(Order["step"])
    BY <1>3, OrderedBehind
<1> HIDE DEF i
<1>5. i \in 1..Len(Order["step"]) /\ Order["step"][i] = chain
    BY <1>1, <1>4 DEF In
<1> QED
    BY <1>2, <1>4, <1>5 DEF Chain, Done

LEMMA Stays ==
    ASSUME procedure' = procedure, at' = at
    PROVE  Chain' = Chain /\ Done' = Done
BY DEF Chain, Done

-----------------------------------------------------------------------------
(***************************************************************************)
(* Answers and the log                                                     *)
(***************************************************************************)

LEMMA SelfIs ==
    ASSUME HooksAssumption, NoneIsNobody, HooksTypeOK, OnePlace
    PROVE  /\ Chain \in HookChains \cup {"core", "check"} =>
                 Self \in Authors /\ Self # None /\ Self[1] = Chain
           /\ Chain \in {"core", "check"} => Self = <<Chain, 1>>
<1>1. Self = <<Chain, place>> /\ Self[1] = Chain
    BY DEF Self
<1>2. place \in 1..(Hooks + 1) /\ 1 \in 1..(Hooks + 1)
    BY DEF HooksTypeOK, HooksAssumption
<1>3. Chain \in {"core", "check"} => Self = <<Chain, 1>>
    BY <1>1, Kinds DEF OnePlace
<1>4. Chain \in HookChains \cup {"core", "check"} => Self \in Authors
    BY <1>1, <1>2 DEF Authors
<1> QED
    BY <1>1, <1>3, <1>4 DEF NoneIsNobody

LEMMA Replies ==
    ASSUME NEW out \in Outcomes, Self \in Authors
    PROVE  /\ Reply(out) \in [values: Seq(Authors), error: Authors \cup {None}, empty: BOOLEAN]
           /\ Failure \in [values: Seq(Authors), error: Authors \cup {None}, empty: BOOLEAN]
           /\ Reply(out).error = IF out \in {"error", "both"} THEN Self ELSE None
           /\ Reply(out).values \in {<<>>, <<Self>>}
           /\ procedure = "tool" /\ out = "error" => Reply(out).values = <<Self>>
           /\ procedure # "tool" /\ out = "error" => Reply(out).values = <<>>
           /\ out \in {"value", "ending", "empty", "both"} => Reply(out).values = <<Self>>
           /\ Failure.error = Self /\ Failure.values = <<>> /\ ~Failure.empty
           /\ <<Self>>[1] = Self /\ Len(<<Self>>) = 1
<1>1. <<Self>> \in Seq(Authors) /\ <<>> \in Seq(Authors)
    OBVIOUS
<1>2. (out = "empty") \in BOOLEAN
    OBVIOUS
<1>3. Failure = [values |-> <<>>, error |-> Self, empty |-> FALSE]
    <2>1. ASSUME NEW r, r = [values |-> <<>>, error |-> None, empty |-> FALSE],
                 NEW e, NEW s, s = [r EXCEPT !.error = e]
          PROVE  s = [values |-> <<>>, error |-> e, empty |-> FALSE]
        BY <2>1
    <2> QED
        BY <2>1, Zenon DEF Failure, NoAnswer
<1> DEFINE v == IF out = "nothing" \/ (out = "error" /\ procedure # "tool")
                THEN <<>> ELSE <<Self>>
           e == IF out \in {"error", "both"} THEN Self ELSE None
<1>4. v \in Seq(Authors) /\ e \in Authors \cup {None} /\ v \in {<<>>, <<Self>>}
    BY <1>1
<1>5. Reply(out) = [values |-> v, error |-> e, empty |-> out = "empty"]
    BY DEF Reply
<1>6. /\ procedure = "tool" /\ out = "error" => v = <<Self>>
      /\ procedure # "tool" /\ out = "error" => v = <<>>
      /\ out \in {"value", "ending", "empty", "both"} => v = <<Self>>
    OBVIOUS
<1> HIDE DEF v
<1> QED
    BY <1>1, <1>2, <1>3, <1>4, <1>5, <1>6

\* What one more entry leaves of the log.
LEMMA Logging ==
    ASSUME RecordTypes, NEW out \in Outcomes, Self \in Authors, log' = Logged(out)
    PROVE  /\ log' \in Seq([by: Authors, out: Outcomes]) /\ log' # <<>>
           /\ Len(log) \in Nat /\ Len(log') = Len(log) + 1
           /\ DOMAIN log = 1..Len(log) /\ DOMAIN log' = 1..(Len(log) + 1)
           /\ log'[Len(log) + 1].by = Self /\ log'[Len(log) + 1].out = out
           /\ LastEntry'.by = Self /\ LastEntry'.out = out
           /\ \A i \in DOMAIN log : log'[i] = log[i]
           /\ log # <<>> => 1 \in DOMAIN log /\ log'[1] = log[1]
           /\ log = <<>> => Len(log) = 0
<1> DEFINE e == [by |-> Self, out |-> out]
<1>1. e \in [by: Authors, out: Outcomes] /\ e.by = Self /\ e.out = out
    OBVIOUS
<1>2. log \in Seq([by: Authors, out: Outcomes]) /\ log' = Append(log, e)
    BY DEF RecordTypes, Logged
<1> HIDE DEF e
<1>3. /\ log' \in Seq([by: Authors, out: Outcomes]) /\ Len(log) \in Nat
      /\ Len(log') = Len(log) + 1 /\ log'[Len(log) + 1] = e
      /\ \A i \in 1..Len(log) : log'[i] = log[i]
    BY <1>1, <1>2, AppendProperties
<1>4. DOMAIN log = 1..Len(log) /\ DOMAIN log' = 1..Len(log')
    BY <1>2, <1>3
<1>5. log' # <<>>
    BY <1>3
<1>6. LastEntry' = e
    BY <1>3 DEF LastEntry
<1>7. /\ log # <<>> => 1 \in DOMAIN log
      /\ log = <<>> => Len(log) = 0
    BY <1>2
<1> QED
    BY <1>1, <1>3, <1>4, <1>5, <1>6, <1>7

\* Of the last entry.
LEMMA LastIs ==
    ASSUME RecordTypes, log # <<>>
    PROVE  /\ Len(log) \in DOMAIN log /\ Len(log) \in Nat /\ 1 \in DOMAIN log
           /\ LastEntry = log[Len(log)]
           /\ LastEntry.by \in Authors /\ LastEntry.out \in Outcomes
<1>1. log \in Seq([by: Authors, out: Outcomes])
    BY DEF RecordTypes
<1>2. /\ Len(log) \in DOMAIN log /\ Len(log) \in Nat /\ 1 \in DOMAIN log
      /\ Len(log) \in 1..Len(log)
    BY <1>1
<1>3. log[Len(log)] \in [by: Authors, out: Outcomes]
    BY <1>1, <1>2, ElementOfSeq
<1> QED
    BY <1>2, <1>3 DEF LastEntry

\* An entry keeps the shape of the log.
LEMMA ShapeGrows ==
    ASSUME RecordTypes, NEW out \in Outcomes, Self \in Authors, log' = Logged(out), LogShape,
           \/ log = <<>> /\ Self[1] \in BeforeChains \cup {"request"}
           \/ log = <<>> /\ Self = <<"core", 1>>
           \/ log # <<>> /\ Self[1] = "response"
           \/ log # <<>> /\ log[1].by = <<"core", 1>> /\ Self[1] \in AfterCore
    PROVE  LogShape'
<1>1. /\ log' # <<>> /\ Len(log) \in Nat
      /\ DOMAIN log = 1..Len(log) /\ DOMAIN log' = 1..(Len(log) + 1)
      /\ log'[Len(log) + 1].by = Self
      /\ \A i \in DOMAIN log : log'[i] = log[i]
      /\ log # <<>> => 1 \in DOMAIN log /\ log'[1] = log[1]
      /\ log = <<>> => Len(log) = 0
    BY Logging
<1>2. \A i \in DOMAIN log' : i \in DOMAIN log \/ i = Len(log) + 1
    BY <1>1
<1>3. CASE log = <<>>
    <2>1. log'[1].by = Self /\ \A i \in DOMAIN log' : i = 1
        BY <1>1, <1>3
    <2> QED
        BY <1>3, <2>1 DEF LogShape
<1>4. CASE log # <<>>
    <2>1. <<"core", 1>>[1] = "core" /\ "core" \notin BeforeChains \cup {"request"}
        BY Kinds
    <2>2. log'[1] = log[1]
        BY <1>1, <1>4
    <2>3. \A i \in DOMAIN log' : \/ log'[i] = log[i] /\ i \in DOMAIN log
                                \/ log'[i].by = Self
        BY <1>1, <1>2
    <2> QED
        BY <1>4, <2>1, <2>2, <2>3 DEF LogShape
<1> QED
    BY <1>3, <1>4

-----------------------------------------------------------------------------
(***************************************************************************)
(* The steps that answer nothing                                           *)
(***************************************************************************)

\* What does not depend on where the procedure is, while nobody answers.
LEMMA NobodyAnswers ==
    ASSUME HookInv, UNCHANGED <<procedure, answer, runErr, log>>
    PROVE  RecordTypes' /\ LogShape' /\ LastWordIsWhole' /\ ToolSaysError'
BY DEF HookInv, RecordTypes, LogShape, LastWordIsWhole, LastEntry, ToolSaysError

LEMMA PassStep ==
    ASSUME HooksAssumption, HookInv, InChain(HookChains),
           UNCHANGED <<procedure, at, answer, runErr, log>>,
           place' = place + 1, ended' = ended
    PROVE  HookInv'
<1>0. HooksTypeOK /\ OnePlace /\ Answered /\ AgentRan /\ ResponseLeft /\ FailureIsAlone
          /\ ToldThroughout
    BY DEF HookInv
<1>1. Chain' = Chain /\ Done' = Done
    BY Stays
<1>2. Chain \in HookChains /\ ~Done /\ (Chain = "request" => procedure = "step")
    BY <1>0, ChainIs, Kinds DEF InChain
<1>3. place + 1 \in 1..(Hooks + 1)
    BY <1>0 DEF InChain, HooksTypeOK, HooksAssumption
<1>4. ended' \in BOOLEAN
    BY <1>0 DEF HooksTypeOK
<1>5. HooksTypeOK'
    BY <1>0, <1>3, <1>4 DEF HooksTypeOK
<1>6. OnePlace' /\ AgentRan' /\ ResponseLeft' /\ FailureIsAlone'
    BY <1>0, <1>1, <1>2 DEF OnePlace, AgentRan, ResponseLeft, FailureIsAlone
<1>7. Answered'
    BY <1>0, <1>1, <1>2 DEF Answered
<1>8. ToldThroughout'
    BY <1>0, <1>1 DEF ToldThroughout, By
<1> QED
    BY <1>5, <1>6, <1>7, <1>8, NobodyAnswers DEF HookInv

\* Who ends the invocation in passing leaves everything else as it is.
LEMMA EndsStep ==
    ASSUME HookInv, EndsInvocation PROVE HookInv'
<1>0. HooksTypeOK /\ OnePlace /\ Answered /\ AgentRan /\ ResponseLeft /\ FailureIsAlone
          /\ ToldThroughout
    BY DEF HookInv
<1>1. HoldsInvocation /\ ended' = TRUE /\ UNCHANGED <<procedure, at, place, answer, runErr, log>>
    BY DEF EndsInvocation
<1>2. Chain' = Chain /\ Done' = Done
    BY <1>1, Stays
<1>3. ~Done
    BY <1>0, <1>1, ChainIs, Kinds DEF HoldsInvocation, InChain
<1>4. HooksTypeOK'
    BY <1>0, <1>1 DEF HooksTypeOK
<1>5. OnePlace' /\ AgentRan' /\ ResponseLeft' /\ FailureIsAlone' /\ ToldThroughout'
    BY <1>0, <1>1, <1>2, <1>3
       DEF OnePlace, AgentRan, ResponseLeft, FailureIsAlone, ToldThroughout, By
<1>6. Answered'
    BY <1>0, <1>1, <1>2, <1>3 DEF Answered
<1> QED
    BY <1>1, <1>4, <1>5, <1>6, NobodyAnswers DEF HookInv

LEMMA EndStep ==
    ASSUME HooksAssumption, HookInv, EndOfChain PROVE HookInv'
<1>0. HooksTypeOK /\ OnePlace /\ Answered /\ AgentRan /\ ResponseLeft /\ FailureIsAlone
          /\ ToldThroughout /\ ToolSaysError
          /\ RecordTypes
    BY DEF HookInv
<1>1. Chain \in HookChains /\ GoOn /\ UNCHANGED <<procedure, answer, runErr, ended, log>>
    BY DEF EndOfChain
<1>2. ~Done
    BY <1>0, <1>1, ChainIs, Kinds
<1> DEFINE c == Chain
           d == Chain'
<1>3. /\ at' \in 1..(Len(Order[procedure]) + 1) /\ place' = 1
      /\ c \in UpToCore \ {"core"} => d \in UpToCore
      /\ c = "pluginError" => d \in AfterChains
      /\ c \in AfterChains => d \in AfterChains \cup {"check", "done"}
      /\ c \in AfterChains /\ procedure = "step" => d # "done"
      /\ c = "response" => d = "again"
      /\ Done' <=> d = "done"
    BY <1>0, <1>1, <1>2, Forward
<1>4. /\ c \in UpToCore \ {"core"} \/ c \in AfterCore \/ c = "response"
      /\ c \in UpToCore \ {"core"} /\ c \notin AfterCore /\ c # "response"
            => d \in UpToCore /\ d \notin AfterCore /\ d \notin Closing /\ d # "done"
      /\ c \in AfterCore => /\ d \in AfterChains \cup {"check", "done"}
                            /\ d \notin UpToCore /\ d \notin {"response", "again"}
                            /\ d # "pluginError"
      /\ c = "response" => d \in Closing /\ d \notin UpToCore /\ d \notin AfterCore /\ d # "done"
      /\ c = "pluginError" => d # "done"
    BY <1>1, <1>3, Kinds DEF UpToCore, AfterCore, Closing, BeforeChains, AfterChains
<1>5. c = "pluginError" => procedure \in {"step", "tool"}
    BY <1>0, ChainIs
<1> HIDE DEF c, d
<1>6. HooksTypeOK'
    BY <1>0, <1>1, <1>3 DEF HooksTypeOK, HooksAssumption
<1>7. OnePlace'
    BY <1>3 DEF OnePlace
<1>8. Answered'
    <2>1. /\ c \in UpToCore => log = <<>> /\ answer = NoAnswer
          /\ c \in AfterCore => log # <<>> /\ log[1].by = <<"core", 1>>
          /\ c \in Closing => log # <<>>
        BY <1>0 DEF Answered, c
    <2>2. /\ d \in UpToCore => log = <<>> /\ answer = NoAnswer
          /\ d \in AfterCore => log # <<>> /\ log[1].by = <<"core", 1>>
          /\ d \in Closing \/ d = "done" => log # <<>>
        BY <1>3, <1>4, <2>1, Kinds DEF Closing
    <2> QED
        BY <1>1, <1>3, <2>2 DEF Answered, d
<1>9. AgentRan'
    <2>1. d \in AfterChains /\ procedure \in AgentProcedures => c \in AfterChains
        BY <1>4, <1>5, Kinds DEF AgentProcedures
    <2> QED
        BY <1>0, <1>1, <2>1 DEF AgentRan, c, d
<1>10. ResponseLeft'
    <2>1. d \in {"response", "again"} => c = "response"
        BY <1>4, Kinds DEF UpToCore, Closing
    <2> QED
        BY <1>0, <1>1, <2>1 DEF ResponseLeft, c, d
<1>11. d = "done" => c \in AfterChains /\ procedure # "step"
    BY <1>3, <1>4, Kinds
<1>12. procedure \in {"lifecycle", "execute", "step", "tool"}
    BY <1>0, FourOrders DEF HooksTypeOK
<1>13. FailureIsAlone'
    BY <1>0, <1>1, <1>3, <1>11, <1>12
       DEF FailureIsAlone, AgentRan, ToolSaysError, AgentProcedures, c
<1>14. ToldThroughout'
    <2>1. d \in AfterCore => c \in AfterCore /\ d # "pluginError"
        BY <1>4
    <2>2. d # "pluginError"
        BY <1>4, Kinds
    <2> QED
        BY <1>0, <1>1, <2>1, <2>2 DEF ToldThroughout, By, c, d
<1> QED
    BY <1>1, <1>6, <1>7, <1>8, <1>9, <1>10, <1>13, <1>14, NobodyAnswers
    DEF HookInv

LEMMA EnterStep ==
    ASSUME HooksAssumption, HookInv, Enter PROVE HookInv'
<1>0. HooksTypeOK /\ OnePlace /\ Answered /\ RecordTypes
    BY DEF HookInv
<1>1. /\ Chain = "enter" /\ UNCHANGED <<procedure, answer, runErr, ended, log>>
      /\ IF ended THEN Finish ELSE GoOn
    BY DEF Enter
<1>2. procedure = "step" /\ ~Done /\ log = <<>> /\ answer = NoAnswer
    BY <1>0, <1>1, ChainIs, Kinds DEF Answered
<1>3. answer.error = None
    BY <1>2 DEF NoAnswer
<1>4. /\ at' \in 1..(Len(Order[procedure]) + 1) /\ place' = 1
      /\ \/ ended /\ Chain' = "done" /\ Done'
         \/ ~ended /\ Chain' \in UpToCore /\ ~Done'
    <2>1. CASE ended
        BY <1>0, <1>1, <2>1, Returns
    <2>2. CASE ~ended
        BY <1>0, <1>1, <1>2, <2>2, Forward, Kinds DEF UpToCore
    <2> QED
        BY <2>1, <2>2
<1>5. HooksTypeOK'
    BY <1>0, <1>1, <1>4 DEF HooksTypeOK, HooksAssumption
<1>6. Chain' \notin AfterCore /\ Chain' \notin Closing
    BY <1>4, Kinds
<1>7. OnePlace' /\ Answered'
    BY <1>1, <1>2, <1>4, <1>6, Kinds DEF OnePlace, Answered
<1>8. procedure \notin AgentProcedures /\ procedure # "tool"
    BY <1>2 DEF AgentProcedures
<1>9. AgentRan' /\ FailureIsAlone' /\ ToldThroughout'
    BY <1>1, <1>3, <1>8
       DEF AgentRan, FailureIsAlone, ToldThroughout
<1>10. ResponseLeft'
    BY <1>6 DEF ResponseLeft, Closing
<1> QED
    BY <1>1, <1>5, <1>7, <1>9, <1>10, NobodyAnswers DEF HookInv

-----------------------------------------------------------------------------
(***************************************************************************)
(* The steps that answer                                                   *)
(***************************************************************************)

LEMMA WordOfReply ==
    ASSUME RecordTypes, NEW out \in Outcomes, Self \in Authors, log' = Logged(out),
           \/ answer' = Reply(out)
           \/ answer' = Failure
    PROVE  /\ RecordTypes' /\ LastWordIsWhole'
           /\ log' # <<>> /\ LastEntry'.by = Self /\ LastEntry'.out = out
<1>1. /\ log' \in Seq([by: Authors, out: Outcomes]) /\ log' # <<>>
      /\ LastEntry'.by = Self /\ LastEntry'.out = out
    BY Logging
<1>2. /\ answer' \in [values: Seq(Authors), error: Authors \cup {None}, empty: BOOLEAN]
      /\ answer'.error \in {None, Self}
      /\ out = "error" => answer'.error = Self
      /\ answer'.values \in {<<>>, <<Self>>}
    BY Replies
<1>3. RecordTypes'
    BY <1>1, <1>2 DEF RecordTypes
<1>4. Len(answer'.values) \in {0, 1} /\ (answer'.values # <<>> => answer'.values[1] = Self
                                             /\ Len(answer'.values) = 1)
    <2>1. Len(<<>>) = 0 /\ Len(<<Self>>) = 1 /\ <<Self>>[1] = Self
        OBVIOUS
    <2> QED
        BY <1>2, <2>1
<1>5. LastWordIsWhole'
    <2>1. answer'.error \in {None, LastEntry'.by, <<"check", 1>>}
        BY <1>1, <1>2
    <2>2. LastEntry'.out = "error" => answer'.error = LastEntry'.by
        BY <1>1, <1>2
    <2>3. answer'.values # <<>> => answer'.values[Len(answer'.values)] = LastEntry'.by
        BY <1>1, <1>4
    <2>4. Len(answer'.values) # 2 /\ Len(answer'.values) <= 2
        <3>1. ASSUME NEW n \in {0, 1} PROVE n # 2 /\ n <= 2
            OBVIOUS
        <3> QED
            BY <1>4, <3>1, Zenon
    <2> HIDE DEF LastEntry
    <2> QED
        BY <2>1, <2>2, <2>3, <2>4 DEF LastWordIsWhole
<1> QED
    BY <1>1, <1>3, <1>5

\* The outcomes of hooks and cores.
LEMMA OutcomesAre ==
    /\ HookOutcomes \subseteq Outcomes /\ CoreOutcomes \subseteq Outcomes
    /\ procedure \in AgentProcedures => HookOutcomes = {"value", "ending", "error"}
    /\ procedure = "tool" => HookOutcomes = {"value", "error"}
    /\ procedure = "tool" => CoreOutcomes = {"value", "error"}
    /\ procedure \in AgentProcedures => CoreOutcomes = {"value", "error", "both"}
    /\ procedure = "step" /\ Chain = "request" => HookOutcomes = {"value", "error"}
BY DEF HookOutcomes, CoreOutcomes, Outcomes, AgentProcedures

LEMMA CoreStep ==
    ASSUME HooksAssumption, NoneIsNobody, HookInv, NEW out \in CoreOutcomes, RunCore(out)
    PROVE  HookInv'
<1>0. HooksTypeOK /\ OnePlace /\ Answered /\ RecordTypes /\ LogShape
    BY DEF HookInv
<1>1. /\ Chain = "core" /\ runErr' = answer'.error
      /\ log' = Logged(out) /\ procedure' = procedure /\ ended' = ended
      /\ \/ AgentFails(out) /\ answer' = Failure /\ Finish
         \/ ~AgentFails(out) /\ answer' = Reply(out) /\ GoOn
    BY DEF RunCore
<1>2. ~Done /\ log = <<>>
    BY <1>0, <1>1, ChainIs, Kinds DEF Answered
<1>3. Self \in Authors /\ Self # None /\ Self = <<"core", 1>> /\ out \in Outcomes
    BY <1>0, <1>1, SelfIs, OutcomesAre
<1>4. RecordTypes' /\ LastWordIsWhole'
    BY <1>0, <1>1, <1>3, WordOfReply
<1>5. /\ log' # <<>> /\ Len(log') = 1 /\ DOMAIN log' = {1} /\ log'[1].by = Self
      /\ log'[1].out = out /\ LastEntry'.by = Self /\ LastEntry'.out = out
    <2>1. /\ log' # <<>> /\ Len(log) = 0 /\ Len(log') = Len(log) + 1
          /\ DOMAIN log' = 1..(Len(log) + 1) /\ log'[Len(log) + 1].by = Self
          /\ log'[Len(log) + 1].out = out
          /\ LastEntry'.by = Self /\ LastEntry'.out = out
        BY <1>0, <1>1, <1>2, <1>3, Logging
    <2> QED
        BY <2>1
<1>6. LogShape'
    BY <1>0, <1>1, <1>2, <1>3, ShapeGrows
<1>7. /\ at' \in 1..(Len(Order[procedure]) + 1) /\ place' = 1
      /\ \/ /\ AgentFails(out) /\ answer' = Failure
            /\ Chain' = "done" /\ Done'
         \/ /\ ~AgentFails(out) /\ answer' = Reply(out)
            /\ procedure \in AgentProcedures => Chain' \in AfterChains
            /\ procedure = "tool" => Chain' = "pluginError"
            /\ Chain' \in AfterCore /\ ~Done'
    <2>1. CASE AgentFails(out) /\ answer' = Failure /\ Finish
        BY <1>0, <1>1, <2>1, Returns
    <2>2. CASE ~AgentFails(out) /\ answer' = Reply(out) /\ GoOn
        BY <1>0, <1>1, <1>2, <2>2, Forward, Kinds
    <2> QED
        BY <1>1, <2>1, <2>2
<1>8. /\ Reply(out).error = IF out \in {"error", "both"} THEN Self ELSE None
      /\ Reply(out).values \in {<<>>, <<Self>>}
      /\ procedure = "tool" /\ out = "error" => Reply(out).values = <<Self>>
      /\ procedure # "tool" /\ out = "error" => Reply(out).values = <<>>
      /\ out \in {"value", "ending", "empty", "both"} => Reply(out).values = <<Self>>
      /\ Reply(out).error \in Authors \cup {None}
    BY <1>3, Replies
<1>9. /\ procedure = "tool" => out \in {"value", "error"} /\ ~AgentFails(out)
      /\ procedure \in AgentProcedures /\ ~AgentFails(out) => out = "value"
      /\ procedure = "step" => ~AgentFails(out)
    BY OutcomesAre DEF AgentFails, AgentProcedures
<1>10. procedure \notin AgentProcedures => procedure \in {"step", "tool"}
    BY <1>0, FourOrders DEF HooksTypeOK, AgentProcedures
<1>11. procedure \in AgentProcedures => procedure \notin {"step", "tool"}
    BY DEF AgentProcedures
<1>12. HooksTypeOK'
    <2>1. \A i \in DOMAIN log' : log'[i].by \in Authors /\ log'[i].out \in Outcomes
        BY <1>3, <1>5
    <2>2. /\ answer'.values \in Seq(Authors) /\ answer'.error \in Authors \cup {None}
          /\ answer'.empty \in BOOLEAN
        BY <1>4 DEF RecordTypes
    <2> QED
        BY <1>0, <1>1, <1>7, <2>1, <2>2 DEF HooksTypeOK, HooksAssumption
<1>13. OnePlace'
    BY <1>7 DEF OnePlace
<1>14. Chain' \notin UpToCore /\ Chain' \notin Closing
    BY <1>7, Kinds
<1>15. Answered'
    BY <1>3, <1>5, <1>14 DEF Answered
<1>16. AgentRan'
    BY <1>1, <1>3, <1>5, <1>7, <1>8, <1>9, <1>11, Kinds DEF AgentRan
<1>17. ResponseLeft'
    BY <1>14 DEF ResponseLeft, Closing
<1>18. ToolSaysError'
    BY <1>1, <1>8, <1>9 DEF ToolSaysError
<1>19. FailureIsAlone'
    BY <1>1, <1>7, <1>9, <1>11 DEF FailureIsAlone, AgentFails
<1>20. ToldThroughout'
    <2> SUFFICES ASSUME procedure = "tool"
                 PROVE  /\ (runErr' # None <=>
                               /\ \E i \in By({"core"})' : log'[i].out = "error"
                               /\ \A i \in By({"pluginError"})' : log'[i].out # "value")
                        /\ Len(log') = 1 /\ runErr' = answer'.error
        BY <1>1 DEF ToldThroughout
    <2>1. <<"core", 1>>[1] = "core"
        OBVIOUS
    <2>2. By({"core"})' = {1} /\ By({"pluginError"})' = {}
        BY <1>3, <1>5, <2>1 DEF By
    <2> QED
        BY <1>1, <1>3, <1>5, <1>8, <1>9, <2>2
<1> QED
    BY <1>4, <1>6, <1>12, <1>13, <1>15, <1>16, <1>17, <1>18, <1>19, <1>20
    DEF HookInv

\* What every answer of a hook leaves true, wherever the procedure goes on.
LEMMA HookAnswers ==
    ASSUME HooksAssumption, NoneIsNobody, HookInv, NEW out \in Outcomes,
           Chain \in HookChains, log' = Logged(out), procedure' = procedure,
           \/ answer' = Reply(out) /\ (procedure = "tool" => out \in {"value", "error"})
           \/ answer' = Failure /\ procedure # "tool",
           runErr' \in Authors \cup {None}, ended' \in BOOLEAN,
           at' \in 1..(Len(Order[procedure]) + 1), place' = 1
    PROVE  /\ HooksTypeOK' /\ RecordTypes' /\ OnePlace' /\ LastWordIsWhole' /\ ToolSaysError'
           /\ Self \in Authors /\ Self # None /\ Self[1] = Chain
           /\ log' # <<>> /\ LastEntry'.by = Self /\ LastEntry'.out = out
<1>0. HooksTypeOK /\ OnePlace /\ RecordTypes
    BY DEF HookInv
<1>1. Self \in Authors /\ Self # None /\ Self[1] = Chain
    BY <1>0, SelfIs
<1>2. RecordTypes' /\ LastWordIsWhole' /\ log' # <<>>
         /\ LastEntry'.by = Self /\ LastEntry'.out = out
    BY <1>0, <1>1, WordOfReply
<1>3. OnePlace'
    BY DEF OnePlace
<1>4. ToolSaysError'
    <2>1. /\ Reply(out).error = IF out \in {"error", "both"} THEN Self ELSE None
          /\ procedure = "tool" /\ out = "error" => Reply(out).values = <<Self>>
        BY <1>1, Replies
    <2> QED
        BY <2>1 DEF ToolSaysError
<1>5. HooksTypeOK'
    <2>1. \A i \in DOMAIN log' : log'[i].by \in Authors /\ log'[i].out \in Outcomes
        <3>1. log' \in Seq([by: Authors, out: Outcomes])
            BY <1>2 DEF RecordTypes
        <3> SUFFICES ASSUME NEW i \in DOMAIN log'
                     PROVE  log'[i].by \in Authors /\ log'[i].out \in Outcomes
            OBVIOUS
        <3>2. ASSUME NEW E, NEW s \in Seq(E), NEW j \in DOMAIN s PROVE s[j] \in E
            OBVIOUS
        <3>3. log'[i] \in [by: Authors, out: Outcomes]
            BY <3>1, <3>2, Zenon
        <3> QED
            BY <3>3
    <2>2. /\ answer'.values \in Seq(Authors) /\ answer'.error \in Authors \cup {None}
          /\ answer'.empty \in BOOLEAN
        BY <1>2 DEF RecordTypes
    <2>3. 1 \in 1..(Hooks + 1)
        BY DEF HooksAssumption
    <2> QED
        BY <1>0, <2>1, <2>2, <2>3 DEF HooksTypeOK
<1> QED
    BY <1>1, <1>2, <1>3, <1>4, <1>5

\* An answer that ends the procedure: of a hook before the core of anything but a model
\* call, of a request or response processor, of the last chain.
LEMMA AnswersLast ==
    ASSUME Done', Chain' = "done", LogShape', log' # <<>>, procedure' = procedure,
           ToolSaysError',
           procedure = "step" /\ answer'.error # None => answer'.values = <<>>
    PROVE  /\ Answered' /\ AgentRan' /\ ResponseLeft' /\ FailureIsAlone'
           /\ ToldThroughout'
<1>1. Chain' \notin UpToCore /\ Chain' \notin AfterCore /\ Chain' \notin Closing
          /\ Chain' \notin AfterChains
    BY Kinds
<1>2. Answered' /\ AgentRan' /\ ResponseLeft' /\ ToldThroughout'
    BY <1>1, Kinds DEF Answered, AgentRan, ResponseLeft, ToldThroughout, Closing
<1>3. FailureIsAlone'
    BY DEF FailureIsAlone, ToolSaysError
<1> QED
    BY <1>2, <1>3

LEMMA BeforeStep ==
    ASSUME HooksAssumption, NoneIsNobody, HookInv, NEW out \in HookOutcomes,
           Preprocess(out) \/ AnswerBefore(out)
    PROVE  HookInv'
<1>0. HooksTypeOK /\ Answered /\ RecordTypes /\ LogShape
    BY DEF HookInv
<1>1. /\ \/ InChain({"request"}) /\ Finish
         \/ InChain(BeforeChains) /\ (IF procedure = "step" THEN GoToChain("check") ELSE Finish)
      /\ answer' = Reply(out) /\ log' = Logged(out)
      /\ UNCHANGED <<procedure, runErr, ended>>
    BY DEF Preprocess, AnswerBefore
<1>2. /\ Chain \in BeforeChains \cup {"request"} /\ Chain \in HookChains /\ Chain \in UpToCore
      /\ Chain \notin AfterChains /\ ~Done
    BY <1>0, <1>1, ChainIs, Kinds DEF InChain
<1>3. log = <<>>
    BY <1>0, <1>2 DEF Answered
<1>4. out \in Outcomes /\ (procedure = "tool" => out \in {"value", "error"})
          /\ (procedure = "step" /\ Chain = "request" => out \in {"value", "error"})
          /\ (procedure \in AgentProcedures => out \in {"value", "ending", "error"})
    BY OutcomesAre
<1>5. Chain = "request" => procedure = "step"
    BY <1>0, ChainIs
<1>6. /\ at' \in 1..(Len(Order[procedure]) + 1) /\ place' = 1
      /\ \/ Chain' = "done" /\ Done' /\ (procedure = "step" => Chain = "request")
         \/ procedure = "step" /\ Chain' = "check" /\ ~Done'
    <2>1. CASE InChain({"request"}) /\ Finish
        BY <1>0, <1>1, <2>1, Returns DEF InChain
    <2>2. CASE InChain(BeforeChains) /\ procedure = "step" /\ GoToChain("check")
        BY <1>0, <1>1, <2>2, JumpsTo
    <2>3. CASE InChain(BeforeChains) /\ procedure # "step" /\ Finish
        BY <1>0, <1>1, <2>3, Returns
    <2> QED
        BY <1>1, <2>1, <2>2, <2>3
<1>7. /\ HooksTypeOK' /\ RecordTypes' /\ OnePlace' /\ LastWordIsWhole' /\ ToolSaysError'
      /\ Self \in Authors /\ Self # None /\ Self[1] = Chain
      /\ log' # <<>> /\ LastEntry'.by = Self /\ LastEntry'.out = out
    BY <1>0, <1>1, <1>2, <1>4, <1>6, HookAnswers DEF HooksTypeOK
<1>8. LogShape'
    BY <1>0, <1>1, <1>2, <1>3, <1>4, <1>7, ShapeGrows
<1>9. /\ Reply(out).error = IF out \in {"error", "both"} THEN Self ELSE None
      /\ procedure # "tool" /\ out = "error" => Reply(out).values = <<>>
    BY <1>4, <1>7, Replies
<1>10. CASE Done' /\ Chain' = "done"
    <2>1. procedure = "step" /\ answer'.error # None => answer'.values = <<>>
        BY <1>1, <1>4, <1>6, <1>9, <1>10, Kinds
    <2>3. /\ Answered' /\ AgentRan' /\ ResponseLeft' /\ FailureIsAlone'
          /\ ToldThroughout'
        BY <1>1, <1>7, <1>8, <1>10, <2>1, AnswersLast
    <2> QED
        BY <1>7, <1>8, <2>3 DEF HookInv
<1>11. CASE procedure = "step" /\ Chain' = "check" /\ ~Done'
    <2>1. Chain' \notin UpToCore /\ Chain' \notin AfterCore /\ "step" \notin AgentProcedures
        BY <1>11, Kinds DEF Closing, AgentProcedures
    <2>2. Answered' /\ ResponseLeft'
        BY <1>7, <1>11, <2>1 DEF Answered, ResponseLeft
    <2>3. AgentRan' /\ FailureIsAlone' /\ ToldThroughout'
        BY <1>1, <1>11, <2>1
           DEF AgentRan, FailureIsAlone, ToldThroughout
    <2> QED
        BY <1>7, <1>8, <2>2, <2>3 DEF HookInv
<1> QED
    BY <1>6, <1>10, <1>11

LEMMA RecoverStep ==
    ASSUME HooksAssumption, NoneIsNobody, HookInv, NEW out \in HookOutcomes,
           RecoverModel(out) \/ RecoverTool(out)
    PROVE  HookInv'
<1>0. HooksTypeOK /\ Answered /\ RecordTypes /\ LogShape /\ ToldThroughout
    BY DEF HookInv
<1>1. /\ procedure \in {"step", "tool"} /\ InChain({"pluginError"}) /\ answer.error # None
      /\ answer' = Reply(out) /\ log' = Logged(out) /\ procedure' = procedure
      /\ ended' = ended
      /\ procedure = "step" => runErr' = runErr /\ GoToChain("check")
      /\ procedure = "tool" => GoOn /\ runErr' = IF out = "value" THEN None ELSE runErr
    BY DEF RecoverModel, RecoverTool
<1>2. /\ Chain = "pluginError" /\ Chain \in AfterCore /\ Chain \in HookChains /\ ~Done
      /\ Chain \notin UpToCore
    BY <1>0, <1>1, ChainIs, Kinds DEF InChain
<1>3. log # <<>> /\ log[1].by = <<"core", 1>>
    BY <1>0, <1>2 DEF Answered
<1>4. out \in Outcomes /\ (procedure = "tool" => out \in {"value", "error"})
    BY OutcomesAre
<1>5. /\ at' \in 1..(Len(Order[procedure]) + 1) /\ place' = 1 /\ ~Done'
      /\ procedure = "step" => Chain' = "check"
      /\ procedure = "tool" => Chain' \in AfterChains
    <2>1. CASE procedure = "step"
        BY <1>0, <1>1, <2>1, JumpsTo
    <2>2. CASE procedure = "tool"
        BY <1>0, <1>1, <1>2, <2>2, Forward, Kinds
    <2> QED
        BY <1>1, <2>1, <2>2
<1>6. /\ HooksTypeOK' /\ RecordTypes' /\ OnePlace' /\ LastWordIsWhole' /\ ToolSaysError'
      /\ Self \in Authors /\ Self # None /\ Self[1] = Chain
      /\ log' # <<>> /\ LastEntry'.by = Self /\ LastEntry'.out = out
    <2>1. runErr' \in Authors \cup {None} /\ ended' \in BOOLEAN
        BY <1>0, <1>1 DEF HooksTypeOK
    <2> QED
        BY <1>1, <1>2, <1>4, <1>5, <2>1, HookAnswers
<1>7. LogShape'
    BY <1>0, <1>1, <1>2, <1>3, <1>4, <1>6, ShapeGrows
<1>8. /\ Len(log) \in Nat /\ DOMAIN log = 1..Len(log) /\ DOMAIN log' = 1..(Len(log) + 1)
      /\ log'[Len(log) + 1].by = Self /\ log'[Len(log) + 1].out = out
      /\ \A i \in DOMAIN log : log'[i] = log[i]
      /\ 1 \in DOMAIN log /\ log'[1] = log[1]
    BY <1>0, <1>1, <1>3, <1>4, <1>6, Logging
<1>9. Chain' \notin UpToCore /\ Chain' \notin {"response", "again", "pluginError"}
          /\ (procedure = "step" => Chain' \notin AfterCore)
          /\ (procedure = "tool" => Chain' \notin Closing)
          /\ procedure \notin AgentProcedures
    BY <1>1, <1>5, Kinds DEF Closing, AgentProcedures
<1>10. Answered'
    BY <1>1, <1>3, <1>5, <1>6, <1>8, <1>9 DEF Answered
<1>11. AgentRan' /\ ResponseLeft' /\ FailureIsAlone'
    BY <1>1, <1>5, <1>9
       DEF AgentRan, ResponseLeft, FailureIsAlone
<1>12. ToldThroughout'
    <2> SUFFICES ASSUME procedure = "tool"
                 PROVE  runErr' # None <=>
                            /\ \E i \in By({"core"})' : log'[i].out = "error"
                            /\ \A i \in By({"pluginError"})' : log'[i].out # "value"
        BY <1>1, <1>9 DEF ToldThroughout
    <2>1. Len(log) = 1 /\ runErr = answer.error
        BY <1>0, <1>2 DEF ToldThroughout
    <2>2. runErr # None /\ \E i \in By({"core"}) : log[i].out = "error"
        BY <1>0, <1>1, <1>2, <2>1 DEF ToldThroughout
    <2>3. log[1].out = "error"
        BY <1>8, <2>1, <2>2 DEF By
    <2>4. DOMAIN log' = {1, 2} /\ log'[1] = log[1] /\ log'[2].by = Self /\ log'[2].out = out
        BY <1>8, <2>1
    <2>5. <<"core", 1>>[1] = "core"
        OBVIOUS
    <2>6. By({"core"})' = {1} /\ By({"pluginError"})' = {2}
        BY <1>2, <1>3, <1>6, <2>4, <2>5 DEF By
    <2> QED
        BY <1>1, <1>4, <2>2, <2>3, <2>4, <2>6
<1> QED
    BY <1>6, <1>7, <1>10, <1>11, <1>12 DEF HookInv

LEMMA AfterStep ==
    ASSUME HooksAssumption, NoneIsNobody, HookInv, NEW out \in HookOutcomes,
           AfterModel(out) \/ AfterTool(out)
    PROVE  HookInv'
<1>0. HooksTypeOK /\ Answered /\ RecordTypes /\ LogShape /\ ToldThroughout
    BY DEF HookInv
<1>1. /\ procedure \in {"step", "tool"} /\ InChain(AfterChains)
      /\ answer' = Reply(out) /\ log' = Logged(out)
      /\ UNCHANGED <<procedure, runErr, ended>>
      /\ GoOn \/ (procedure = "tool" /\ Finish)
    BY DEF AfterModel, AfterTool
<1>2. /\ Chain \in AfterChains /\ Chain \in AfterCore /\ Chain \in HookChains /\ ~Done
      /\ Chain \notin UpToCore /\ Chain \notin {"core", "pluginError"}
    BY <1>0, <1>1, ChainIs, Kinds DEF InChain
<1>3. log # <<>> /\ log[1].by = <<"core", 1>>
    BY <1>0, <1>2 DEF Answered
<1>4. out \in Outcomes /\ (procedure = "tool" => out \in {"value", "error"})
    BY OutcomesAre
<1>5. /\ at' \in 1..(Len(Order[procedure]) + 1) /\ place' = 1
      /\ Chain' \in AfterChains \cup {"check", "done"}
      /\ procedure = "step" => Chain' # "done"
      /\ Done' <=> Chain' = "done"
    <2>1. CASE GoOn
        BY <1>0, <1>1, <1>2, <2>1, Forward
    <2>2. CASE procedure = "tool" /\ Finish
        BY <1>0, <1>1, <2>2, Returns
    <2> QED
        BY <1>1, <2>1, <2>2
<1>6. /\ HooksTypeOK' /\ RecordTypes' /\ OnePlace' /\ LastWordIsWhole' /\ ToolSaysError'
      /\ Self \in Authors /\ Self # None /\ Self[1] = Chain
      /\ log' # <<>> /\ LastEntry'.by = Self /\ LastEntry'.out = out
    <2>1. runErr' \in Authors \cup {None} /\ ended' \in BOOLEAN
        BY <1>0, <1>1 DEF HooksTypeOK
    <2> QED
        BY <1>1, <1>2, <1>4, <1>5, <2>1, HookAnswers
<1>7. LogShape'
    BY <1>0, <1>1, <1>2, <1>3, <1>4, <1>6, ShapeGrows
<1>8. /\ Len(log) \in Nat /\ DOMAIN log = 1..Len(log) /\ DOMAIN log' = 1..(Len(log) + 1)
      /\ log'[Len(log) + 1].by = Self
      /\ \A i \in DOMAIN log : log'[i] = log[i]
      /\ 1 \in DOMAIN log /\ log'[1] = log[1]
    BY <1>0, <1>1, <1>3, <1>4, <1>6, Logging
<1>9. Chain' \notin UpToCore /\ Chain' \notin {"response", "again", "pluginError"}
          /\ procedure \notin AgentProcedures
    BY <1>1, <1>5, Kinds DEF Closing, AgentProcedures
<1>10. Answered'
    BY <1>3, <1>6, <1>8, <1>9 DEF Answered
<1>11. AgentRan' /\ ResponseLeft'
    BY <1>1, <1>9 DEF AgentRan, ResponseLeft
<1>12. FailureIsAlone'
    BY <1>1, <1>5, <1>6 DEF FailureIsAlone, ToolSaysError
<1>13. ToldThroughout'
    <2>1. \A chains : Chain \notin chains => By(chains)' = By(chains)
        BY <1>6, <1>8 DEF By
    <2>2. By({"core"})' = By({"core"}) /\ By({"pluginError"})' = By({"pluginError"})
        BY <1>2, <2>1
    <2>3. \A i \in By({"core"}) \cup By({"pluginError"}) : log'[i] = log[i]
        BY <1>8 DEF By
    <2> QED
        BY <1>0, <1>1, <1>2, <1>9, <2>2, <2>3 DEF ToldThroughout
<1> QED
    BY <1>6, <1>7, <1>10, <1>11, <1>12, <1>13 DEF HookInv

LEMMA AfterAgentStep ==
    ASSUME HooksAssumption, NoneIsNobody, HookInv, NEW out \in HookOutcomes, AfterAgent(out)
    PROVE  HookInv'
<1>0. HooksTypeOK /\ OnePlace /\ Answered /\ RecordTypes /\ LogShape /\ AgentRan
    BY DEF HookInv
<1>1. /\ procedure \in AgentProcedures /\ InChain(AfterChains)
      /\ answer' = IF out = "error" THEN Failure
                   ELSE [answer EXCEPT !.values = Append(answer.values, Self)]
      /\ ended' = (ended \/ out = "ending")
      /\ log' = Logged(out) /\ Finish
      /\ UNCHANGED <<procedure, runErr>>
    BY DEF AfterAgent
<1>2. /\ Chain \in AfterChains /\ Chain \in AfterCore /\ Chain \in HookChains /\ ~Done
      /\ Chain \notin UpToCore
    BY <1>0, <1>1, ChainIs, Kinds DEF InChain
<1>3. /\ log # <<>> /\ log[1].by = <<"core", 1>>
      /\ answer.values = <<<<"core", 1>>>> /\ answer.error = None
    BY <1>0, <1>1, <1>2 DEF Answered, AgentRan
<1>4. out \in Outcomes /\ procedure # "tool"
    BY <1>1, OutcomesAre DEF AgentProcedures
<1>5. /\ at' \in 1..(Len(Order[procedure]) + 1) /\ place' = 1 /\ Done' /\ Chain' = "done"
    BY <1>0, <1>1, Returns
<1>6. Self \in Authors /\ Self # None /\ Self[1] = Chain
    BY <1>0, <1>2, SelfIs
<1>7. /\ log' \in Seq([by: Authors, out: Outcomes]) /\ log' # <<>>
      /\ LastEntry'.by = Self /\ LastEntry'.out = out
    BY <1>0, <1>1, <1>4, <1>6, Logging
<1>8. LogShape'
    BY <1>0, <1>1, <1>2, <1>3, <1>4, <1>6, ShapeGrows
<1>9. ASSUME out # "error"
      PROVE  /\ answer' \in [values: Seq(Authors), error: Authors \cup {None}, empty: BOOLEAN]
             /\ Len(answer'.values) = 2 /\ answer'.values[1] = <<"core", 1>>
             /\ answer'.values[2] = Self /\ answer'.error = None
    <2>1. ASSUME NEW r, NEW v, NEW e, NEW b, r = [values |-> v, error |-> e, empty |-> b],
                 NEW w, NEW s, s = [r EXCEPT !.values = w]
          PROVE  s = [values |-> w, error |-> e, empty |-> b]
        BY <2>1
    <2>2. PICK v \in Seq(Authors), e \in Authors \cup {None}, b \in BOOLEAN :
             answer = [values |-> v, error |-> e, empty |-> b]
        BY <1>0 DEF RecordTypes
    <2> DEFINE w == Append(answer.values, Self)
    <2>3. answer.values = v /\ answer.error = e
        BY <2>2
    <2>4. Len(w) = 2 /\ w[1] = <<"core", 1>> /\ w[2] = Self
        <3>1. ASSUME NEW x, NEW y, NEW s, s = <<x>>
              PROVE  Len(Append(s, y)) = 2 /\ Append(s, y)[1] = x /\ Append(s, y)[2] = y
            BY <3>1
        <3>2. PICK x : x = <<"core", 1>>
            OBVIOUS
        <3>3. answer.values = <<x>>
            BY <1>3, <3>2
        <3>4. PICK s : s = answer.values
            OBVIOUS
        <3>5. /\ Len(Append(s, Self)) = 2 /\ Append(s, Self)[1] = x
              /\ Append(s, Self)[2] = Self
            BY <3>1, <3>3, <3>4
        <3> QED
            BY <3>2, <3>4, <3>5
    <2>5. w \in Seq(Authors)
        BY <1>6, <2>3
    <2>6. answer' = [answer EXCEPT !.values = w]
        BY <1>1, <1>9, Zenon
    <2> HIDE DEF w
    <2>7. answer' = [values |-> w, error |-> e, empty |-> b]
        BY <2>1, <2>2, <2>6, Zenon
    <2> QED
        BY <1>3, <2>3, <2>4, <2>5, <2>7
<1>10. /\ answer' \in [values: Seq(Authors), error: Authors \cup {None}, empty: BOOLEAN]
       /\ LastWordIsWhole'
       /\ answer'.error # None => answer'.values = <<>>
    <2>1. CASE out = "error"
        <3>1. answer' = Failure
            BY <1>1, <2>1
        <3> QED
            BY <1>0, <1>1, <1>4, <1>6, <3>1, WordOfReply, Replies
    <2>2. CASE out # "error"
        <3>1. /\ Len(answer'.values) = 2 /\ answer'.values[1] = <<"core", 1>>
              /\ answer'.values[2] = Self /\ answer'.error = None
            BY <1>9, <2>2
        <3>2. ASSUME NEW n, n = 2 PROVE n <= 2
            BY <3>2
        <3>3. /\ answer'.values[Len(answer'.values)] = Self
              /\ Len(answer'.values) <= 2
            BY <3>1, <3>2, Zenon
        <3>5. LastWordIsWhole'
            <4> HIDE DEF LastEntry
            <4> QED
                BY <1>1, <1>7, <2>2, <3>1, <3>3, Zenon DEF LastWordIsWhole
        <3> QED
            BY <1>9, <2>2, <3>1, <3>5
    <2> QED
        BY <2>1, <2>2
<1>11. RecordTypes'
    BY <1>7, <1>10 DEF RecordTypes
<1>12. OnePlace' /\ ToolSaysError'
    BY <1>1, <1>4, <1>5 DEF OnePlace, ToolSaysError
<1>13. HooksTypeOK'
    <2>1. \A i \in DOMAIN log' : log'[i].by \in Authors /\ log'[i].out \in Outcomes
        <3> SUFFICES ASSUME NEW i \in DOMAIN log'
                     PROVE  log'[i].by \in Authors /\ log'[i].out \in Outcomes
            OBVIOUS
        <3>1. ASSUME NEW E, NEW s \in Seq(E), NEW j \in DOMAIN s PROVE s[j] \in E
            OBVIOUS
        <3>2. log'[i] \in [by: Authors, out: Outcomes]
            BY <1>7, <3>1, Zenon
        <3> QED
            BY <3>2
    <2>2. /\ answer'.values \in Seq(Authors) /\ answer'.error \in Authors \cup {None}
          /\ answer'.empty \in BOOLEAN
        BY <1>10
    <2>3. 1 \in 1..(Hooks + 1) /\ ended' \in BOOLEAN
        BY <1>1 DEF HooksAssumption
    <2> QED
        BY <1>0, <1>1, <1>5, <2>1, <2>2, <2>3 DEF HooksTypeOK
<1>15. /\ Answered' /\ AgentRan' /\ ResponseLeft' /\ FailureIsAlone'
       /\ ToldThroughout'
    BY <1>1, <1>5, <1>7, <1>8, <1>10, <1>12, AnswersLast
<1> QED
    BY <1>8, <1>10, <1>11, <1>12, <1>13, <1>15 DEF HookInv

LEMMA PostprocessStep ==
    ASSUME HooksAssumption, NoneIsNobody, HookInv, Postprocess PROVE HookInv'
<1>0. HooksTypeOK /\ Answered /\ RecordTypes /\ LogShape
    BY DEF HookInv
<1>1. /\ InChain({"response"}) /\ answer' = Failure /\ log' = Logged("error") /\ Finish
      /\ UNCHANGED <<procedure, runErr, ended>>
    BY DEF Postprocess
<1>2. /\ Chain = "response" /\ Chain \in HookChains /\ Chain \in Closing /\ ~Done
      /\ procedure = "step"
    BY <1>0, <1>1, ChainIs, Kinds DEF InChain, Closing
<1>3. log # <<>> /\ procedure \notin AgentProcedures /\ procedure # "tool"
    BY <1>0, <1>2 DEF Answered, AgentProcedures
<1>4. "error" \in Outcomes
    BY DEF Outcomes
<1>5. at' \in 1..(Len(Order[procedure]) + 1) /\ place' = 1 /\ Done' /\ Chain' = "done"
    BY <1>0, <1>1, Returns
<1>6. /\ HooksTypeOK' /\ RecordTypes' /\ OnePlace' /\ LastWordIsWhole' /\ ToolSaysError'
      /\ Self \in Authors /\ Self[1] = Chain /\ log' # <<>>
    <2>1. runErr' \in Authors \cup {None} /\ ended' \in BOOLEAN
        BY <1>0, <1>1 DEF HooksTypeOK
    <2> QED
        BY <1>1, <1>2, <1>3, <1>4, <1>5, <2>1, HookAnswers
<1>7. LogShape'
    BY <1>0, <1>1, <1>2, <1>3, <1>4, <1>6, ShapeGrows
<1>8. answer'.values = <<>>
    BY <1>1, <1>4, <1>6, Replies
<1>9. /\ Answered' /\ AgentRan' /\ ResponseLeft' /\ FailureIsAlone'
      /\ ToldThroughout'
    BY <1>1, <1>3, <1>5, <1>6, <1>7, <1>8, AnswersLast
<1> QED
    BY <1>6, <1>7, <1>9 DEF HookInv

LEMMA CheckStep ==
    ASSUME HooksAssumption, NoneIsNobody, HookInv, Check PROVE HookInv'
<1>0. HooksTypeOK /\ OnePlace /\ Answered /\ RecordTypes /\ LogShape /\ LastWordIsWhole
    BY DEF HookInv
<1>1. /\ Chain = "check" /\ UNCHANGED <<procedure, runErr, ended, log>>
      /\ \/ /\ answer.error # None
            /\ answer' = [NoAnswer EXCEPT !.error = answer.error] /\ Finish
         \/ answer.error = None /\ answer.values = <<>> /\ answer' = Failure /\ Finish
         \/ answer.error = None /\ answer.values # <<>> /\ answer' = answer /\ GoOn
    BY DEF Check
<1>2. Chain \in Closing /\ ~Done /\ procedure = "step"
    BY <1>0, <1>1, ChainIs, Kinds DEF Closing
<1>3. log # <<>> /\ procedure \notin AgentProcedures /\ procedure # "tool"
    BY <1>0, <1>2 DEF Answered, AgentProcedures
<1>4. Self = <<"check", 1>> /\ Self \in Authors
    BY <1>0, <1>1, SelfIs
<1>5. LastEntry.by \in Authors /\ LastEntry.by # None
    BY <1>0, <1>3, LastIs DEF NoneIsNobody
<1>6. LastEntry' = LastEntry
    BY <1>1 DEF LastEntry
<1>7. answer \in [values: Seq(Authors), error: Authors \cup {None}, empty: BOOLEAN]
    BY <1>0 DEF RecordTypes
<1>8. /\ at' \in 1..(Len(Order[procedure]) + 1) /\ place' = 1
      /\ \/ /\ Done' /\ Chain' = "done" /\ answer'.values = <<>>
            /\ answer' \in [values: Seq(Authors), error: Authors \cup {None}, empty: BOOLEAN]
            /\ \/ answer.error # None /\ answer'.error = answer.error
               \/ answer.error = None /\ answer.values = <<>> /\ answer'.error = Self
         \/ /\ ~Done' /\ Chain' = "response" /\ answer' = answer
            /\ answer.error = None /\ answer.values # <<>>
    <2>1. CASE answer.error # None /\ Finish
                  /\ answer' = [NoAnswer EXCEPT !.error = answer.error]
        <3>1. ASSUME NEW r, r = [values |-> <<>>, error |-> None, empty |-> FALSE],
                     NEW e, NEW s, s = [r EXCEPT !.error = e]
              PROVE  s = [values |-> <<>>, error |-> e, empty |-> FALSE]
            BY <3>1
        <3>2. PICK e : e = answer.error
            OBVIOUS
        <3>3. answer' = [values |-> <<>>, error |-> e, empty |-> FALSE]
            BY <2>1, <3>1, <3>2, Zenon DEF NoAnswer
        <3>4. e \in Authors \cup {None} /\ <<>> \in Seq(Authors)
            BY <1>7, <3>2
        <3>5. /\ answer' \in [values: Seq(Authors), error: Authors \cup {None}, empty: BOOLEAN]
              /\ answer'.error = e /\ answer'.values = <<>>
            BY <3>3, <3>4
        <3>6. /\ at' \in 1..(Len(Order[procedure]) + 1) /\ place' = 1 /\ Done'
              /\ Chain' = "done"
            BY <1>0, <1>1, <2>1, Returns
        <3> QED
            BY <2>1, <3>2, <3>5, <3>6, Zenon
    <2>2. CASE answer.error = None /\ answer.values = <<>> /\ answer' = Failure /\ Finish
        <3>1. "error" \in Outcomes
            BY DEF Outcomes
        <3>2. /\ Failure \in [values: Seq(Authors), error: Authors \cup {None}, empty: BOOLEAN]
              /\ Failure.error = Self /\ Failure.values = <<>>
            BY <1>4, <3>1, Replies
        <3>3. /\ at' \in 1..(Len(Order[procedure]) + 1) /\ place' = 1 /\ Done'
              /\ Chain' = "done"
            BY <1>0, <1>1, <2>2, Returns
        <3> QED
            BY <2>2, <3>2, <3>3, Zenon
    <2>3. CASE answer.error = None /\ answer.values # <<>> /\ answer' = answer /\ GoOn
        BY <1>0, <1>1, <1>2, <2>3, Forward
    <2> QED
        BY <1>1, <2>1, <2>2, <2>3
<1>9. answer' \in [values: Seq(Authors), error: Authors \cup {None}, empty: BOOLEAN]
    BY <1>7, <1>8
<1>10. RecordTypes' /\ LogShape'
    BY <1>0, <1>1, <1>9 DEF RecordTypes, LogShape
<1>11. HooksTypeOK'
    <2>1. 1 \in 1..(Hooks + 1)
        BY DEF HooksAssumption
    <2>2. /\ answer'.values \in Seq(Authors) /\ answer'.error \in Authors \cup {None}
          /\ answer'.empty \in BOOLEAN
        BY <1>9
    <2> QED
        BY <1>0, <1>1, <1>8, <2>1, <2>2 DEF HooksTypeOK
<1>12. LastWordIsWhole'
    <2>1. /\ answer.error \in {None, LastEntry.by, <<"check", 1>>}
          /\ LastEntry.out = "error" => answer.error = LastEntry.by
        BY <1>0, <1>3 DEF LastWordIsWhole
    <2>2. CASE Done' /\ answer'.values = <<>>
        <3>1. /\ answer'.error \in {None, LastEntry.by, <<"check", 1>>}
              /\ LastEntry.out = "error" => answer'.error = LastEntry.by
            BY <1>4, <1>5, <1>8, <2>1, <2>2
        <3>2. Len(answer'.values) = 0
            BY <2>2
        <3>3. 0 # 2 /\ 0 <= 2
            OBVIOUS
        <3> HIDE DEF LastEntry
        <3> QED
            BY <1>6, <2>2, <3>1, <3>2, <3>3, Zenon DEF LastWordIsWhole
    <2>3. CASE answer' = answer
        BY <1>0, <1>1, <1>6, <2>3, Zenon DEF LastWordIsWhole
    <2> QED
        BY <1>8, <2>2, <2>3
<1>13. OnePlace' /\ ToolSaysError' /\ AgentRan' /\ ToldThroughout'
    BY <1>1, <1>3, <1>8
       DEF OnePlace, ToolSaysError, AgentRan, ToldThroughout
<1>14. FailureIsAlone'
    BY <1>1, <1>3, <1>8 DEF FailureIsAlone
<1>15. Chain' \notin UpToCore /\ Chain' \notin AfterCore
    BY <1>8, Kinds DEF Closing
<1>16. Answered'
    BY <1>1, <1>3, <1>15 DEF Answered
<1>17. ResponseLeft'
    BY <1>8 DEF ResponseLeft
<1> QED
    BY <1>10, <1>11, <1>12, <1>13, <1>14, <1>16, <1>17 DEF HookInv

LEMMA AgainStep ==
    ASSUME HooksAssumption, NoneIsNobody, HookInv, AskAgain PROVE HookInv'
<1>0. HooksTypeOK /\ OnePlace /\ Answered /\ RecordTypes /\ LogShape /\ LastWordIsWhole
          /\ ResponseLeft
    BY DEF HookInv
<1>1. /\ Chain = "again" /\ UNCHANGED <<procedure, runErr, ended>>
      /\ \/ GoToChain("pluginBefore") /\ answer' = NoAnswer /\ log' = <<>>
         \/ Finish /\ UNCHANGED <<answer, log>>
    BY DEF AskAgain
<1>2. /\ Chain \in Closing /\ ~Done /\ procedure = "step"
      /\ procedure \notin AgentProcedures /\ procedure # "tool"
    BY <1>0, <1>1, ChainIs, Kinds DEF Closing, AgentProcedures
<1>3. log # <<>> /\ answer.error = None
    BY <1>0, <1>1, <1>2 DEF Answered, ResponseLeft
<1>4. /\ NoAnswer.error = None /\ NoAnswer.values = <<>> /\ NoAnswer.empty = FALSE
      /\ NoAnswer \in [values: Seq(Authors), error: Authors \cup {None}, empty: BOOLEAN]
    <2>1. <<>> \in Seq(Authors)
        OBVIOUS
    <2> QED
        BY <2>1 DEF NoAnswer
<1>5. /\ at' \in 1..(Len(Order[procedure]) + 1) /\ place' = 1
      /\ \/ /\ Chain' = "pluginBefore" /\ ~Done' /\ answer' = NoAnswer /\ log' = <<>>
         \/ Done' /\ Chain' = "done" /\ answer' = answer /\ log' = log
    <2>1. CASE GoToChain("pluginBefore") /\ answer' = NoAnswer /\ log' = <<>>
        BY <1>0, <1>1, <1>2, <2>1, JumpsTo
    <2>2. CASE Finish /\ UNCHANGED <<answer, log>>
        BY <1>0, <1>1, <2>2, Returns
    <2> QED
        BY <1>1, <2>1, <2>2
<1>6. RecordTypes'
    <2>1. <<>> \in Seq([by: Authors, out: Outcomes])
        OBVIOUS
    <2> QED
        BY <1>0, <1>4, <1>5, <2>1, Zenon DEF RecordTypes
<1>7. LogShape' /\ LastWordIsWhole'
    <2>1. CASE log' = <<>>
        BY <2>1 DEF LogShape, LastWordIsWhole
    <2>2. CASE answer' = answer /\ log' = log
        <3>1. LastEntry' = LastEntry
            BY <2>2 DEF LastEntry
        <3> QED
            BY <1>0, <1>1, <2>2, <3>1 DEF LogShape, LastWordIsWhole
    <2> QED
        BY <1>5, <2>1, <2>2
<1>8. HooksTypeOK'
    <2>1. 1 \in 1..(Hooks + 1)
        BY DEF HooksAssumption
    <2>2. /\ answer'.values \in Seq(Authors) /\ answer'.error \in Authors \cup {None}
          /\ answer'.empty \in BOOLEAN
        BY <1>6 DEF RecordTypes
    <2>3. \A i \in DOMAIN log' : log'[i].by \in Authors /\ log'[i].out \in Outcomes
        <3>1. CASE log' = <<>>
            BY <3>1
        <3>2. CASE log' = log
            BY <1>0, <3>2 DEF HooksTypeOK
        <3> QED
            BY <1>5, <3>1, <3>2
    <2> QED
        BY <1>0, <1>1, <1>5, <2>1, <2>2, <2>3 DEF HooksTypeOK
<1>9. answer'.error = None
    BY <1>3, <1>4, <1>5
<1>10. OnePlace' /\ ToolSaysError' /\ AgentRan' /\ ToldThroughout' /\ FailureIsAlone'
    BY <1>1, <1>2, <1>5, <1>9
       DEF OnePlace, ToolSaysError, AgentRan, ToldThroughout, FailureIsAlone
<1>11. Chain' \notin AfterCore /\ Chain' \notin Closing
          /\ (Chain' \in UpToCore => Chain' = "pluginBefore")
    BY <1>5, Kinds
<1>12. Answered'
    BY <1>1, <1>3, <1>5, <1>11, Kinds DEF Answered
<1>13. ResponseLeft'
    BY <1>11 DEF ResponseLeft, Closing
<1> QED
    BY <1>6, <1>7, <1>8, <1>10, <1>12, <1>13 DEF HookInv

-----------------------------------------------------------------------------
(***************************************************************************)
(* The theorems                                                            *)
(***************************************************************************)

LEMMA HookInvInit ==
    ASSUME HooksAssumption, Init PROVE HookInv
<1>1. /\ procedure \in Procedures /\ at = 1 /\ place = 1 /\ answer = NoAnswer
      /\ runErr = None /\ ended = FALSE /\ log = <<>>
    BY DEF Init
<1>2. /\ Len(Order[procedure]) \in Nat /\ 1 \in 1..(Hooks + 1) /\ In(UpToCore, procedure, 1)
      /\ DOMAIN Order[procedure] = 1..Len(Order[procedure])
    BY <1>1, OrderedBehind DEF HooksAssumption
<1>3. /\ NoAnswer.error = None /\ NoAnswer.values = <<>> /\ NoAnswer.empty = FALSE
      /\ NoAnswer \in [values: Seq(Authors), error: Authors \cup {None}, empty: BOOLEAN]
      /\ <<>> \in Seq([by: Authors, out: Outcomes]) /\ <<>> \in Seq(Authors)
    <2>1. <<>> \in Seq(Authors) /\ <<>> \in Seq([by: Authors, out: Outcomes])
        OBVIOUS
    <2> QED
        BY <2>1 DEF NoAnswer
<1>4. HooksTypeOK
    <2>1. 1 \in 1..(Len(Order[procedure]) + 1)
        BY <1>2
    <2>2. \A i \in DOMAIN log : log[i].by \in Authors /\ log[i].out \in Outcomes
        BY <1>1
    <2>3. answer.values \in Seq(Authors) /\ answer.error = None /\ answer.empty \in BOOLEAN
        BY <1>1, <1>3
    <2> QED
        BY <1>1, <1>2, <2>1, <2>2, <2>3 DEF HooksTypeOK
<1>5. Chain \in UpToCore /\ ~Done
    BY <1>1, <1>2, <1>4, ChainIs, StartsBeforeCore, Kinds
<1>6. Chain \notin AfterCore /\ Chain \notin Closing /\ Chain \notin AfterChains
    BY <1>5, Kinds
<1>7. RecordTypes /\ OnePlace /\ LogShape /\ LastWordIsWhole
    BY <1>1, <1>3 DEF RecordTypes, OnePlace, LogShape, LastWordIsWhole
<1>8. Answered /\ AgentRan
    BY <1>1, <1>5, <1>6 DEF Answered, AgentRan
<1>9. ResponseLeft /\ ToolSaysError /\ FailureIsAlone
    BY <1>1, <1>3, <1>5, <1>6 DEF ResponseLeft, ToolSaysError, FailureIsAlone, Closing
<1>10. ToldThroughout
    BY <1>1, <1>5, <1>6, Kinds DEF ToldThroughout
<1> QED
    BY <1>4, <1>7, <1>8, <1>9, <1>10 DEF HookInv

LEMMA HookInvStep ==
    ASSUME HooksAssumption, NoneIsNobody, HookInv, [Next]_vars PROVE HookInv'
<1>1. CASE Pass
    BY <1>1, PassStep DEF Pass
<1>2. CASE EndOfChain
    BY <1>2, EndStep
<1>3. CASE EndsInvocation
    BY <1>3, EndsStep
<1>4. CASE Enter
    BY <1>4, EnterStep
<1>5. ASSUME NEW out \in HookOutcomes, Answer(out) PROVE HookInv'
    BY <1>5, BeforeStep, RecoverStep, AfterStep, AfterAgentStep, Zenon DEF Answer
<1>6. ASSUME NEW out \in CoreOutcomes, RunCore(out) PROVE HookInv'
    BY <1>6, CoreStep
<1>7. CASE Check
    BY <1>7, CheckStep
<1>8. CASE Postprocess
    BY <1>8, PostprocessStep
<1>9. CASE AskAgain
    BY <1>9, AgainStep
<1>10. CASE UNCHANGED vars
    BY <1>10 DEF vars, HookInv, HooksTypeOK, RecordTypes, OnePlace, LogShape, Answered,
                 LastWordIsWhole, AgentRan, ResponseLeft, ToolSaysError, FailureIsAlone,
                 ToldThroughout, Chain, Done, By, LastEntry
<1> QED
    BY <1>1, <1>2, <1>3, <1>4, <1>5, <1>6, <1>7, <1>8, <1>9, <1>10 DEF Next

LEMMA InvGivesAnswer ==
    ASSUME HookInv PROVE OneAnswerWins
<1>0. HooksTypeOK /\ RecordTypes /\ LogShape /\ Answered /\ LastWordIsWhole /\ FailureIsAlone
          /\ ToldThroughout
    BY DEF HookInv
<1>1. log # <<>> => 1 \in DOMAIN log
    BY <1>0, LastIs
<1>2. CoreUnlessAnswered
    <2> DEFINE early == By(BeforeChains \cup {"request"})
               after == By({"core", "pluginError"} \cup AfterChains)
    <2>1. /\ <<"core", 1>>[1] = "core" /\ "core" \notin BeforeChains \cup {"request"}
          /\ "response" \notin BeforeChains \cup {"request", "core", "pluginError"} \cup AfterChains
          /\ (BeforeChains \cup {"request"}) \cap ({"core", "pluginError"} \cup AfterChains) = {}
          /\ AfterCore = {"pluginError"} \cup AfterChains /\ "core" \notin AfterCore
        BY DEF BeforeChains, AfterChains, AfterCore
    <2>2. CASE log = <<>>
        <3>1. early = {} /\ after = {} /\ By({"core"}) = {} /\ (Done => procedure = "step" /\ ended)
            BY <1>0, <2>2 DEF By, Answered
        <3> QED
            BY <3>1 DEF CoreUnlessAnswered
    <2>3. CASE /\ log # <<>> /\ log[1].by[1] \in BeforeChains \cup {"request"}
               /\ \A i \in DOMAIN log : i # 1 => log[i].by[1] = "response"
        <3>1. early = {1} /\ after = {} /\ By({"core"}) = {}
            BY <1>1, <2>1, <2>3 DEF By
        <3> QED
            BY <3>1 DEF CoreUnlessAnswered
    <2>4. CASE /\ log # <<>> /\ log[1].by = <<"core", 1>>
               /\ \A i \in DOMAIN log : i # 1 => log[i].by[1] \in AfterCore \cup {"response"}
        <3>1. early = {} /\ By({"core"}) = {1} /\ 1 \in after
            <4>1. AfterCore \cap (BeforeChains \cup {"request"}) = {}
                BY DEF BeforeChains, AfterChains, AfterCore
            <4> QED
                BY <1>1, <2>1, <2>4, <4>1 DEF By
        <3> QED
            BY <2>4, <3>1 DEF CoreUnlessAnswered
    <2> QED
        BY <1>0, <2>2, <2>3, <2>4 DEF LogShape
<1>3. ToldOfToolFailure
    BY <1>0, Kinds DEF ToldThroughout, ToldOfToolFailure
<1> QED
    BY <1>0, <1>2, <1>3 DEF OneAnswerWins

\* However the hooks of a procedure answer, replace and fail, its result is one answer, of
\* the core or of the last hook that gave one (RunWithCallbackContext, callModel,
\* executeToolCall, runOneStep).
THEOREM OneAnswerAlwaysWins == Spec => []OneAnswerWins
<1>1. HookInv /\ [Next]_vars => HookInv'
    BY HooksAssumption, NoneIsNobody, HookInvStep
<1>2. Init => HookInv
    BY HooksAssumption, HookInvInit
<1>3. HookInv => OneAnswerWins
    BY InvGivesAnswer
<1> QED
    BY <1>1, <1>2, <1>3, PTL DEF Spec

=============================================================================
