--------------------------- MODULE ToolGuardsProofs ---------------------------
(***************************************************************************)
(* What the guards of a tool promise, whatever the number of its calls, of *)
(* the calls of SetConfirmed and of the failures retryreflect tolerates.   *)
(***************************************************************************)
EXTENDS ToolGuards, SequenceTheorems, TLAPS

Answered == {"hooks", "store", "after", "done"}

-----------------------------------------------------------------------------
(***************************************************************************)
(* The invariant                                                           *)
(***************************************************************************)

\* The call that read the count holds the mutex, and the count is as it read it.
Numbering ==
    /\ AttemptsAreNumbered
    /\ \A c \in Calls : calls[c].pc = "store" =>
          mutex = c /\ calls[c].count = failures + 1

\* A rejection is in both flags once SetConfirmed has returned, and stays there
\* until the next one: no call on an older approval undoes it.
FlagsAgree ==
    /\ setting = "rejected" => ~confirmedCall
    /\ setting # "none" => verdict = "setting"
    /\ verdict = "rejected" => confirmed /\ ~confirmedCall /\ setting = "none"
    /\ verdict # "none" => kind = "wrapped"

RefusedOf(x) ==
    x.refused =>
        /\ verdict = "rejected" /\ x.using = 0
        /\ x.pc \in {"look", "judge"} \/ (x.pc \in Answered /\ x.runError = "rejected")

\* A call that has read the latest approval and does not spend it any more has
\* cleared it, or another call of the same approval has.
UsingOf(x) ==
    /\ x.using <= settings
    /\ x.using # 0 => x.pc \notin {"new", "look", "judge"}
    /\ x.using = settings /\ x.using # 0 /\ x.pc # "spend" => ~confirmedCall

\* Of two calls under way each knows of the other.
OthersKnown ==
    \A c, d \in Calls : c # d /\ c \in UnderWay /\ d \in UnderWay => d \in calls[c].others

Approvals ==
    /\ FlagsAgree
    /\ \A c \in Calls : RefusedOf(calls[c]) /\ UsingOf(calls[c])
    /\ OthersKnown
    /\ SharedApprovalOverlaps

\* The error the flow keeps is the tool's until OnToolError answers it, and
\* that answer has an "error" in its result.
ErrorOf(x) ==
    /\ x.pc \in {"hooks", "store"} => x.error = x.runError
    /\ x.pc = "after" => x.error = x.runError \/ "error" \in x.result

ErrorsKept == \A c \in Calls : ErrorOf(calls[c])

VerdictOf(x) ==
    kind = "wrapped" /\ ~reflects =>
        /\ x.pc # "store"
        /\ x.pc \in Answered =>
              /\ x.runError = "required" => "confirmation_required" \in x.result
              /\ x.runError = "rejected" => "confirmation_rejected" \in x.result

VerdictsKept == \A c \in Calls : VerdictOf(calls[c])

GuardsInv == GuardsTypeOK /\ Numbering /\ Approvals /\ ErrorsKept /\ VerdictsKept

-----------------------------------------------------------------------------
(***************************************************************************)
(* Types                                                                   *)
(***************************************************************************)

\* A step of one call leaves the others' types alone.
LEMMA OneCall ==
    ASSUME GuardsTypeOK, NEW c \in Calls, NEW x \in Call, calls' = [calls EXCEPT ![c] = x]
    PROVE  calls' \in [Calls -> Call]
BY DEF GuardsTypeOK

\* The records the steps make of a call are calls.
LEMMA CallRecords ==
    ASSUME NEW x \in Call
    PROVE  /\ [x EXCEPT !.refused = FALSE] \in Call
           /\ \A c \in Calls : [x EXCEPT !.others = @ \cup {c}] \in Call
           /\ \A pc \in {"look", "inner"}, others \in SUBSET Calls, refused \in BOOLEAN :
                 [x EXCEPT !.pc = pc, !.others = others, !.refused = refused] \in Call
           /\ \A pc \in {"spend", "judge"}, using \in Nat :
                 [x EXCEPT !.pc = pc, !.using = using] \in Call
           /\ \A pc \in {"spend", "judge", "inner", "hooks", "store", "after", "done"} :
                 [x EXCEPT !.pc = pc] \in Call
           /\ \A count \in Nat : [x EXCEPT !.pc = "store", !.count = count] \in Call
           /\ \A result \in SUBSET ResultKeys, error \in Errors :
                 /\ [x EXCEPT !.pc = "hooks", !.runError = error, !.error = error,
                              !.result = result] \in Call
                 /\ [x EXCEPT !.pc = "after", !.error = error, !.result = result] \in Call
<1>1. [x EXCEPT !.refused = FALSE] \in Call
    BY DEF Call
<1>2. ASSUME NEW c \in Calls PROVE [x EXCEPT !.others = @ \cup {c}] \in Call
    BY <1>2 DEF Call
<1>3. ASSUME NEW pc \in {"look", "inner"}, NEW others \in SUBSET Calls, NEW refused \in BOOLEAN
      PROVE  [x EXCEPT !.pc = pc, !.others = others, !.refused = refused] \in Call
    BY <1>3 DEF Call
<1>4. ASSUME NEW pc \in {"spend", "judge"}, NEW using \in Nat
      PROVE  [x EXCEPT !.pc = pc, !.using = using] \in Call
    BY <1>4 DEF Call
<1>5. ASSUME NEW pc \in {"spend", "judge", "inner", "hooks", "store", "after", "done"}
      PROVE  [x EXCEPT !.pc = pc] \in Call
    BY <1>5 DEF Call
<1>6. ASSUME NEW count \in Nat PROVE [x EXCEPT !.pc = "store", !.count = count] \in Call
    BY <1>6 DEF Call
<1>7. ASSUME NEW result \in SUBSET ResultKeys, NEW error \in Errors
      PROVE  /\ [x EXCEPT !.pc = "hooks", !.runError = error, !.error = error,
                          !.result = result] \in Call
             /\ [x EXCEPT !.pc = "after", !.error = error, !.result = result] \in Call
    BY <1>7 DEF Call
<1> QED
    BY <1>1, <1>2, <1>3, <1>4, <1>5, <1>6, <1>7, Zenon

LEMMA ReturnedType ==
    ASSUME GuardsTypeOK, NEW c \in Calls, NEW result \in SUBSET ResultKeys,
           NEW error \in Errors, Returned(c, result, error)
    PROVE  calls' \in [Calls -> Call]
<1>1. calls[c] \in Call
    BY DEF GuardsTypeOK
<1> DEFINE x == [calls[c] EXCEPT !.pc = "hooks", !.runError = error, !.error = error,
                                 !.result = result]
<1>2. x \in Call
    BY <1>1, CallRecords
<1>3. calls' = [calls EXCEPT ![c] = x]
    BY DEF GuardsTypeOK, Returned
<1> QED
    BY <1>2, <1>3, OneCall, Zenon

\* What a step that only moves a call on leaves.
LEMMA MovedType ==
    ASSUME GuardsTypeOK, NEW c \in Calls,
           NEW pc \in {"spend", "judge", "inner", "hooks", "store", "after", "done"},
           calls' = [calls EXCEPT ![c].pc = pc]
    PROVE  calls' \in [Calls -> Call]
<1>1. calls[c] \in Call
    BY DEF GuardsTypeOK
<1>2. [calls[c] EXCEPT !.pc = pc] \in Call
    BY <1>1, CallRecords, Zenon
<1> QED
    BY <1>2, OneCall, Zenon

LEMMA TypeStep ==
    ASSUME GuardsAssumption, GuardsTypeOK, [Next]_vars
    PROVE  GuardsTypeOK'
<1>0. \A c \in Calls : calls[c] \in Call
    BY DEF GuardsTypeOK
<1>1. ASSUME NEW approved \in BOOLEAN, SetConfirmed(approved) PROVE GuardsTypeOK'
    <2>1. \A c \in Calls : [calls[c] EXCEPT !.refused = FALSE] \in Call
        BY <1>0, CallRecords, Zenon
    <2>2. calls' \in [Calls -> Call]
        BY <1>1, <2>1 DEF SetConfirmed
    <2>3. settings' \in 0..MaxSettings
        BY <1>1, GuardsAssumption DEF SetConfirmed, GuardsAssumption, GuardsTypeOK
    <2> QED
        BY <1>1, <2>2, <2>3 DEF SetConfirmed, GuardsTypeOK, counter
<1>2. ASSUME SetConfirmedEnds PROVE GuardsTypeOK'
    BY <1>2 DEF SetConfirmedEnds, GuardsTypeOK, counter
<1>3. ASSUME NEW c \in Calls, Begin(c) PROVE GuardsTypeOK'
    <2>1. UnderWay \in SUBSET Calls /\ (verdict = "rejected") \in BOOLEAN
        BY DEF UnderWay
    <2>2. [calls[c] EXCEPT !.pc = IF kind = "wrapped" THEN "look" ELSE "inner",
                           !.others = UnderWay, !.refused = (verdict = "rejected")] \in Call
        BY <1>3, <1>0, <2>1, CallRecords
    <2>3. \A d \in Calls : [calls[d] EXCEPT !.others = @ \cup {c}] \in Call
        BY <1>3, <1>0, CallRecords, Zenon
    <2>4. calls' \in [Calls -> Call]
        BY <1>3, <1>0, <2>2, <2>3 DEF Begin
    <2> QED
        BY <1>3, <2>4 DEF Begin, GuardsTypeOK, confirmation, counter
<1>4. ASSUME NEW c \in Calls, Look(c) PROVE GuardsTypeOK'
    <2>1. settings \in Nat
        BY DEF GuardsTypeOK
    <2> DEFINE x == [calls[c] EXCEPT !.pc = IF confirmedCall THEN "spend" ELSE "judge",
                                     !.using = IF confirmedCall THEN settings ELSE 0]
    <2>2. x \in Call
        BY <1>4, <1>0, <2>1, CallRecords
    <2>3. calls' = [calls EXCEPT ![c] = x]
        BY <1>4 DEF Look, GuardsTypeOK
    <2>4. calls' \in [Calls -> Call]
        BY <1>4, <2>2, <2>3, OneCall, Zenon
    <2> QED
        BY <1>4, <2>4 DEF Look, GuardsTypeOK, confirmation, counter
<1>5. ASSUME NEW c \in Calls, Spend(c) PROVE GuardsTypeOK'
    <2>1. calls' \in [Calls -> Call]
        BY <1>5, MovedType DEF Spend
    <2> QED
        BY <1>5, <2>1 DEF Spend, GuardsTypeOK, counter
<1>6. ASSUME NEW c \in Calls, NEW need \in BOOLEAN, Judge(c, need) PROVE GuardsTypeOK'
    <2>1. CASE confirmed
        <3>1. Execute({"confirmation_rejected", "error"}, "rejected") \in SUBSET ResultKeys
              /\ "rejected" \in Errors
            BY DEF Execute, Errors, ResultKeys
        <3>2. calls' \in [Calls -> Call]
            BY <2>1, <1>6, <3>1, ReturnedType, Zenon DEF Judge
        <3> QED
            BY <1>6, <3>2 DEF Judge, GuardsTypeOK, confirmation, counter
    <2>2. CASE ~confirmed /\ need
        <3>1. Execute({"confirmation_required"}, "required") \in SUBSET ResultKeys
              /\ "required" \in Errors
            BY DEF Execute, Errors, ResultKeys
        <3>2. calls' \in [Calls -> Call]
            BY <2>2, <1>6, <3>1, ReturnedType, Zenon DEF Judge
        <3> QED
            BY <1>6, <3>2 DEF Judge, GuardsTypeOK, confirmation, counter
    <2>3. CASE ~confirmed /\ ~need
        <3>1. calls' = [calls EXCEPT ![c].pc = "inner"]
            BY <2>3, <1>6, Zenon DEF Judge
        <3>2. calls' \in [Calls -> Call]
            BY <3>1, <1>6, MovedType
        <3> QED
            BY <1>6, <3>2 DEF Judge, GuardsTypeOK, confirmation, counter
    <2> QED
        BY <2>1, <2>2, <2>3
<1>7. ASSUME NEW c \in Calls, NEW result \in ToolResults, NEW error \in {"none", "failed"},
             Run(c, result, error)
      PROVE  GuardsTypeOK'
    <2>1. Execute(result, error) \in SUBSET ResultKeys /\ error \in Errors
        BY <1>7 DEF ToolResults, NoResult, Execute, Errors, ResultKeys
    <2>2. calls' \in [Calls -> Call]
        BY <1>7, <2>1, ReturnedType DEF Run
    <2> QED
        BY <1>7, <2>2 DEF Run, GuardsTypeOK, confirmation, counter
<1>8. ASSUME NEW c \in Calls, NEW result \in ToolResults, NEW error \in Errors,
             RunWithContext(c, result, error)
      PROVE  GuardsTypeOK'
    <2>1. ContextExecute(result, error) \in SUBSET ResultKeys
        BY <1>8 DEF ToolResults, NoResult, ContextExecute, Execute, Errors, ResultKeys
    <2>2. calls' \in [Calls -> Call]
        BY <1>8, <2>1, ReturnedType DEF RunWithContext
    <2> QED
        BY <1>8, <2>2 DEF RunWithContext, GuardsTypeOK, confirmation, counter
<1>9. ASSUME NEW c \in Calls, NEW whole \in BOOLEAN, NEW error \in {"none", "failed"},
             RunStream(c, whole, error)
      PROVE  GuardsTypeOK'
    <2>1. /\ (IF whole THEN {} ELSE {"result"}) \cup (IF error = "failed" THEN {"error"} ELSE {})
                \in SUBSET ResultKeys
          /\ error \in Errors
        BY <1>9 DEF Errors, ResultKeys
    <2>2. calls' \in [Calls -> Call]
        BY <1>9, <2>1, ReturnedType, Zenon DEF RunStream
    <2> QED
        BY <1>9, <2>2 DEF RunStream, GuardsTypeOK, confirmation, counter
<1>10. ASSUME NEW c \in Calls, OnToolError(c) PROVE GuardsTypeOK'
    <2>1. failures + 1 \in Nat
        BY DEF GuardsTypeOK
    <2> DEFINE x == [calls[c] EXCEPT !.pc = "store", !.count = failures + 1]
    <2>2. x \in Call
        BY <1>10, <1>0, <2>1, CallRecords
    <2>3. calls' = [calls EXCEPT ![c].pc = "store", ![c].count = failures + 1]
        BY <1>10, Zenon DEF OnToolError
    <2>4. calls' = [calls EXCEPT ![c] = x]
        BY <1>10, <2>3 DEF GuardsTypeOK
    <2>5. calls' \in [Calls -> Call]
        BY <1>10, <2>2, <2>4, OneCall, Zenon
    <2> QED
        BY <1>10, <2>5 DEF OnToolError, GuardsTypeOK, confirmation
<1>11. ASSUME NEW c \in Calls, StoreCount(c) PROVE GuardsTypeOK'
    <2>1. calls[c].count \in Nat
        BY <1>11, <1>0 DEF Call
    <2>2. Reflection(calls[c].count) \in SUBSET ResultKeys
        BY DEF Reflection, ResultKeys
    <2>3. attempts' \in Seq(Nat)
        BY <1>11, <2>1 DEF StoreCount, GuardsTypeOK
    <2> DEFINE x == [calls[c] EXCEPT !.pc = "after", !.error = "none",
                                     !.result = Reflection(calls[c].count)]
    <2>4. "none" \in Errors
        BY DEF Errors
    <2>5. x \in Call
        BY <1>11, <1>0, <2>2, <2>4, CallRecords
    <2>6. calls' = [calls EXCEPT ![c] = x]
        BY <1>11 DEF StoreCount, GuardsTypeOK
    <2>7. calls' \in [Calls -> Call]
        BY <1>11, <2>5, <2>6, OneCall, Zenon
    <2> QED
        BY <1>11, <2>1, <2>3, <2>7 DEF StoreCount, GuardsTypeOK, confirmation
<1>12. ASSUME NEW c \in Calls, NoOnToolError(c) PROVE GuardsTypeOK'
    <2>1. calls' = [calls EXCEPT ![c].pc = "after"]
        BY <1>12, Zenon DEF NoOnToolError
    <2>2. calls' \in [Calls -> Call]
        BY <1>12, <2>1, MovedType
    <2> QED
        BY <1>12, <2>2 DEF NoOnToolError, GuardsTypeOK, confirmation, counter
<1>13. ASSUME NEW c \in Calls, AfterTool(c) PROVE GuardsTypeOK'
    <2>1. calls' = [calls EXCEPT ![c].pc = "done"]
        BY <1>13, Zenon DEF AfterTool
    <2>2. UNCHANGED <<kind, reflects, confirmation, mutex>>
        BY <1>13, Zenon DEF AfterTool
    <2>3. (failures' = 0 /\ attempts' = <<>>) \/ (failures' = failures /\ attempts' = attempts)
        BY <1>13, Zenon DEF AfterTool
    <2>4. calls' \in [Calls -> Call]
        BY <1>13, <2>1, MovedType
    <2>5. failures' \in Nat /\ attempts' \in Seq(Nat)
        <3>1. <<>> \in Seq(Nat) /\ 0 \in Nat
            OBVIOUS
        <3> QED
            BY <2>3, <3>1, Zenon DEF GuardsTypeOK
    <2> QED
        BY <2>2, <2>4, <2>5 DEF GuardsTypeOK, confirmation
<1>14. CASE UNCHANGED vars
    BY <1>14 DEF vars, confirmation, counter, GuardsTypeOK
<1> QED
    BY <1>1, <1>2, <1>3, <1>4, <1>5, <1>6, <1>7, <1>8, <1>9, <1>10, <1>11, <1>12, <1>13, <1>14
       DEF Next, CallStep

LEMMA TypeInit ==
    ASSUME GuardsAssumption, Init
    PROVE  GuardsTypeOK
<1>1. NewCall \in Call
    BY DEF NewCall, Call, NoResult, Errors, ResultKeys
<1>2. calls \in [Calls -> Call]
    BY <1>1 DEF Init
<1>3. <<>> \in Seq(Nat) /\ 0 \in Nat /\ 0 \in 0..MaxSettings
    BY DEF GuardsAssumption
<1> QED
    BY <1>2, <1>3, Zenon DEF Init, GuardsTypeOK

-----------------------------------------------------------------------------
(***************************************************************************)
(* What the steps of a call make of it                                     *)
(***************************************************************************)

Becomes(c, pc, using, runError, error, result, count) ==
    /\ \A d \in Calls : d # c => calls'[d] = calls[d]
    /\ calls'[c].pc = pc /\ calls'[c].using = using
    /\ calls'[c].runError = runError /\ calls'[c].error = error
    /\ calls'[c].result = result /\ calls'[c].count = count
    /\ calls'[c].others = calls[c].others /\ calls'[c].refused = calls[c].refused

LEMMA MovedBecomes ==
    ASSUME GuardsTypeOK, NEW c \in Calls, NEW pc, calls' = [calls EXCEPT ![c].pc = pc]
    PROVE  Becomes(c, pc, calls[c].using, calls[c].runError, calls[c].error,
                   calls[c].result, calls[c].count)
<1>1. PICK x \in Call : x = calls[c]
    BY DEF GuardsTypeOK
<1>2. calls'[c] = [x EXCEPT !.pc = pc] /\ \A d \in Calls : d # c => calls'[d] = calls[d]
    BY <1>1 DEF GuardsTypeOK
<1> QED
    BY <1>1, <1>2 DEF Becomes, Call

LEMMA ReturnedBecomes ==
    ASSUME GuardsTypeOK, NEW c \in Calls, NEW result, NEW error, Returned(c, result, error)
    PROVE  Becomes(c, "hooks", calls[c].using, error, error, result, calls[c].count)
<1>1. PICK x \in Call : x = calls[c]
    BY DEF GuardsTypeOK
<1>2. /\ calls'[c] = [x EXCEPT !.pc = "hooks", !.runError = error, !.error = error,
                               !.result = result]
      /\ \A d \in Calls : d # c => calls'[d] = calls[d]
    BY <1>1 DEF GuardsTypeOK, Returned
<1> QED
    BY <1>1, <1>2 DEF Becomes, Call

LEMMA LookBecomes ==
    ASSUME GuardsTypeOK, NEW c \in Calls, Look(c)
    PROVE  Becomes(c, IF confirmedCall THEN "spend" ELSE "judge",
                   IF confirmedCall THEN settings ELSE 0, calls[c].runError,
                   calls[c].error, calls[c].result, calls[c].count)
<1>1. PICK x \in Call : x = calls[c]
    BY DEF GuardsTypeOK
<1>2. /\ calls'[c] = [x EXCEPT !.pc = IF confirmedCall THEN "spend" ELSE "judge",
                               !.using = IF confirmedCall THEN settings ELSE 0]
      /\ \A d \in Calls : d # c => calls'[d] = calls[d]
    BY <1>1 DEF GuardsTypeOK, Look
<1> QED
    BY <1>1, <1>2 DEF Becomes, Call

LEMMA ErrorBecomes ==
    ASSUME GuardsTypeOK, NEW c \in Calls, OnToolError(c)
    PROVE  Becomes(c, "store", calls[c].using, calls[c].runError, calls[c].error,
                   calls[c].result, failures + 1)
<1>1. PICK x \in Call : x = calls[c]
    BY DEF GuardsTypeOK
<1>2. calls' = [calls EXCEPT ![c].pc = "store", ![c].count = failures + 1]
    BY Zenon DEF OnToolError
<1>3. /\ calls'[c] = [x EXCEPT !.pc = "store", !.count = failures + 1]
      /\ \A d \in Calls : d # c => calls'[d] = calls[d]
    BY <1>1, <1>2 DEF GuardsTypeOK
<1> QED
    BY <1>1, <1>3 DEF Becomes, Call

LEMMA StoreBecomes ==
    ASSUME GuardsTypeOK, NEW c \in Calls, StoreCount(c)
    PROVE  Becomes(c, "after", calls[c].using, calls[c].runError, "none",
                   Reflection(calls[c].count), calls[c].count)
<1>1. PICK x \in Call : x = calls[c]
    BY DEF GuardsTypeOK
<1>2. /\ calls'[c] = [x EXCEPT !.pc = "after", !.error = "none",
                               !.result = Reflection(calls[c].count)]
      /\ \A d \in Calls : d # c => calls'[d] = calls[d]
    BY <1>1 DEF GuardsTypeOK, StoreCount
<1> QED
    BY <1>1, <1>2 DEF Becomes, Call

SameRun(x, y) ==
    /\ y.runError = x.runError /\ y.error = x.error
    /\ y.result = x.result /\ y.count = x.count

\* SetConfirmed and Begin touch the auxiliary fields of the calls, and no more of others.
LEMMA SetConfirmedMakes ==
    ASSUME GuardsTypeOK, NEW approved, SetConfirmed(approved), NEW d \in Calls
    PROVE  /\ calls'[d].pc = calls[d].pc /\ SameRun(calls[d], calls'[d])
           /\ calls'[d].using = calls[d].using /\ calls'[d].others = calls[d].others
           /\ ~calls'[d].refused
<1>1. PICK x \in Call : x = calls[d]
    BY DEF GuardsTypeOK
<1>2. calls'[d] = [x EXCEPT !.refused = FALSE]
    BY <1>1 DEF SetConfirmed
<1> QED
    BY <1>1, <1>2 DEF Call, SameRun

LEMMA BeginMakes ==
    ASSUME GuardsTypeOK, NEW c \in Calls, Begin(c), NEW d \in Calls
    PROVE  /\ SameRun(calls[d], calls'[d]) /\ calls'[d].using = calls[d].using
           /\ d = c =>
                 /\ calls[d].pc = "new"
                 /\ calls'[d].pc = IF kind = "wrapped" THEN "look" ELSE "inner"
                 /\ calls'[d].others = UnderWay
                 /\ calls'[d].refused = (verdict = "rejected")
           /\ d # c =>
                 /\ calls'[d].pc = calls[d].pc /\ calls'[d].refused = calls[d].refused
                 /\ calls'[d].others = calls[d].others \cup (IF d \in UnderWay THEN {c} ELSE {})
<1>1. PICK x \in Call : x = calls[d]
    BY DEF GuardsTypeOK
<1>2. CASE d = c
    <2>1. calls'[d] = [x EXCEPT !.pc = IF kind = "wrapped" THEN "look" ELSE "inner",
                                !.others = UnderWay, !.refused = (verdict = "rejected")]
        BY <1>1, <1>2 DEF Begin
    <2>2. calls[c].pc = "new"
        BY Zenon DEF Begin
    <2> QED
        BY <1>1, <1>2, <2>1, <2>2 DEF Call, SameRun
<1>3. CASE d # c /\ d \in UnderWay
    <2>1. calls'[d] = [x EXCEPT !.others = @ \cup {c}]
        BY <1>1, <1>3 DEF Begin
    <2> QED
        BY <1>1, <1>3, <2>1 DEF Call, SameRun
<1>4. CASE d # c /\ d \notin UnderWay
    <2>1. calls'[d] = x
        BY <1>1, <1>4 DEF Begin
    <2> QED
        BY <1>1, <1>4, <2>1 DEF Call, SameRun
<1> QED
    BY <1>2, <1>3, <1>4

\* A call that need not be confirmed, and one whose tool returned.
Enters(c) ==
    /\ calls[c].pc = "judge" /\ ~confirmed
    /\ calls' = [calls EXCEPT ![c].pc = "inner"]
    /\ UNCHANGED <<kind, reflects, confirmation, counter>>

Answers(c, result, error) ==
    /\ calls[c].pc \in {"judge", "inner"}
    /\ calls[c].pc = "judge" /\ confirmed => error = "rejected"
    /\ kind = "wrapped" =>
          /\ error = "required" => "confirmation_required" \in result
          /\ error = "rejected" => "confirmation_rejected" \in result
    /\ Returned(c, result, error)
    /\ UNCHANGED <<kind, reflects, confirmation, counter>>

\* The steps, those of the tools told apart only by what they answer.
LEMMA Steps ==
    ASSUME Next
    PROVE  \/ \E approved \in BOOLEAN : SetConfirmed(approved)
           \/ SetConfirmedEnds
           \/ \E c \in Calls :
                 \/ Begin(c) \/ Look(c) \/ Spend(c) \/ Enters(c)
                 \/ \E result, error : Answers(c, result, error)
                 \/ OnToolError(c) \/ StoreCount(c) \/ NoOnToolError(c) \/ AfterTool(c)
<1>1. ASSUME NEW c \in Calls, NEW need \in BOOLEAN, Judge(c, need)
      PROVE  Enters(c) \/ \E result, error : Answers(c, result, error)
    <2>1. CASE confirmed
        <3>1. "confirmation_rejected" \in Execute({"confirmation_rejected", "error"}, "rejected")
            BY DEF Execute
        <3>2. Answers(c, Execute({"confirmation_rejected", "error"}, "rejected"), "rejected")
            BY <1>1, <2>1, <3>1, Zenon DEF Judge, Answers
        <3> QED
            BY <3>2
    <2>2. CASE ~confirmed /\ need
        <3>1. "confirmation_required" \in Execute({"confirmation_required"}, "required")
            BY DEF Execute
        <3>2. Answers(c, Execute({"confirmation_required"}, "required"), "required")
            BY <1>1, <2>2, <3>1, Zenon DEF Judge, Answers
        <3> QED
            BY <3>2
    <2>3. CASE ~confirmed /\ ~need
        BY <1>1, <2>3, Zenon DEF Judge, Enters
    <2> QED
        BY <2>1, <2>2, <2>3
<1>2. ASSUME NEW c \in Calls, NEW result, NEW error \in {"none", "failed"}, Run(c, result, error)
      PROVE  Answers(c, Execute(result, error), error)
    <2>1. /\ calls[c].pc = "inner"
          /\ Returned(c, Execute(result, error), error)
          /\ UNCHANGED <<kind, reflects, confirmation, counter>>
        BY <1>2, Zenon DEF Run
    <2> QED
        BY <1>2, <2>1, Zenon DEF Answers
<1>3. ASSUME NEW c \in Calls, NEW result, NEW error, RunWithContext(c, result, error)
      PROVE  Answers(c, ContextExecute(result, error), error)
    <2>1. /\ calls[c].pc = "inner" /\ kind = "context"
          /\ Returned(c, ContextExecute(result, error), error)
          /\ UNCHANGED <<kind, reflects, confirmation, counter>>
        BY <1>3, Zenon DEF RunWithContext
    <2> QED
        BY <2>1, Zenon DEF Answers
<1>4. ASSUME NEW c \in Calls, NEW whole, NEW error \in {"none", "failed"},
             RunStream(c, whole, error)
      PROVE  \E result : Answers(c, result, error)
    <2>1. PICK result :
             /\ calls[c].pc = "inner"
             /\ Returned(c, result, error)
             /\ UNCHANGED <<kind, reflects, confirmation, counter>>
        BY <1>4, Zenon DEF RunStream
    <2>2. Answers(c, result, error)
        BY <1>4, <2>1, Zenon DEF Answers
    <2> QED
        BY <2>2
<1> QED
    BY <1>1, <1>2, <1>3, <1>4, Zenon DEF Next, CallStep

-----------------------------------------------------------------------------
(***************************************************************************)
(* The numbers of the failures                                             *)
(***************************************************************************)

LEMMA NumberingKept ==
    ASSUME Numbering, UNCHANGED counter,
           \A d \in Calls : calls'[d].pc = "store" =>
               calls[d].pc = "store" /\ calls'[d].count = calls[d].count
    PROVE  Numbering'
BY DEF Numbering, AttemptsAreNumbered, counter

LEMMA NumberingStep ==
    ASSUME GuardsAssumption, GuardsTypeOK, Numbering, [Next]_vars
    PROVE  Numbering'
<1>1. ASSUME NEW approved \in BOOLEAN, SetConfirmed(approved) PROVE Numbering'
    <2>1. \A d \in Calls : calls'[d].pc = calls[d].pc /\ calls'[d].count = calls[d].count
        BY <1>1, SetConfirmedMakes DEF SameRun
    <2> QED
        BY <1>1, <2>1, NumberingKept DEF SetConfirmed
<1>2. ASSUME SetConfirmedEnds PROVE Numbering'
    BY <1>2, NumberingKept DEF SetConfirmedEnds
<1>3. ASSUME NEW c \in Calls, Begin(c) PROVE Numbering'
    <2>1. \A d \in Calls : calls'[d].pc = "store" =>
             calls[d].pc = "store" /\ calls'[d].count = calls[d].count
        BY <1>3, BeginMakes DEF SameRun
    <2>2. UNCHANGED counter
        BY <1>3, Zenon DEF Begin
    <2> QED
        BY <2>1, <2>2, NumberingKept
<1>4. ASSUME NEW c \in Calls, Look(c) PROVE Numbering'
    <2>1. \A d \in Calls : calls'[d].pc = "store" =>
             calls[d].pc = "store" /\ calls'[d].count = calls[d].count
        BY <1>4, LookBecomes DEF Becomes
    <2>2. UNCHANGED counter
        BY <1>4, Zenon DEF Look
    <2> QED
        BY <2>1, <2>2, NumberingKept
<1>5. ASSUME NEW c \in Calls, Spend(c) PROVE Numbering'
    BY <1>5, MovedBecomes, NumberingKept DEF Spend, Becomes
<1>6. ASSUME NEW c \in Calls, Enters(c) PROVE Numbering'
    BY <1>6, MovedBecomes, NumberingKept DEF Enters, Becomes
<1>7. ASSUME NEW c \in Calls, NEW result, NEW error, Answers(c, result, error) PROVE Numbering'
    BY <1>7, ReturnedBecomes, NumberingKept DEF Answers, Becomes
<1>8. ASSUME NEW c \in Calls, OnToolError(c) PROVE Numbering'
    <2>1. mutex = None /\ mutex' = c /\ UNCHANGED <<failures, attempts>>
        BY <1>8, Zenon DEF OnToolError, MutexFree
    <2>2. Becomes(c, "store", calls[c].using, calls[c].runError, calls[c].error,
                  calls[c].result, failures + 1)
        BY <1>8, ErrorBecomes
    <2>3. \A d \in Calls : d # c => calls[d].pc # "store"
        BY <2>1, GuardsAssumption DEF Numbering, GuardsAssumption
    <2> QED
        BY <2>1, <2>2, <2>3 DEF Numbering, AttemptsAreNumbered, Becomes
<1>9. ASSUME NEW c \in Calls, StoreCount(c) PROVE Numbering'
    <2>1. /\ calls[c].pc = "store" /\ failures' = calls[c].count
          /\ attempts' = Append(attempts, calls[c].count)
        BY <1>9 DEF StoreCount
    <2>2. mutex = c /\ calls[c].count = failures + 1
        BY <1>9, <2>1 DEF Numbering
    <2>3. \A d \in Calls : d # c => calls[d].pc # "store"
        BY <2>2 DEF Numbering
    <2>4. \A d \in Calls : calls'[d].pc # "store"
        BY <1>9, <2>3, StoreBecomes DEF Becomes
    <2>5. AttemptsAreNumbered'
        BY <2>1, <2>2 DEF Numbering, AttemptsAreNumbered, GuardsTypeOK
    <2> QED
        BY <2>4, <2>5 DEF Numbering
<1>10. ASSUME NEW c \in Calls, NoOnToolError(c) PROVE Numbering'
    <2>1. calls' = [calls EXCEPT ![c].pc = "after"] /\ UNCHANGED counter
        BY <1>10, Zenon DEF NoOnToolError
    <2> QED
        BY <1>10, <2>1, MovedBecomes, NumberingKept DEF Becomes
<1>11. ASSUME NEW c \in Calls, AfterTool(c) PROVE Numbering'
    <2>1. calls' = [calls EXCEPT ![c].pc = "done"] /\ UNCHANGED mutex
        BY <1>11, Zenon DEF AfterTool
    <2>2. \/ mutex = None /\ failures' = 0 /\ attempts' = <<>>
          \/ failures' = failures /\ attempts' = attempts
        BY <1>11, Zenon DEF AfterTool, MutexFree
    <2>3. \A d \in Calls : calls'[d].pc = "store" =>
             calls[d].pc = "store" /\ calls'[d].count = calls[d].count
        BY <1>11, <2>1, MovedBecomes DEF Becomes
    <2>4. CASE failures' = failures /\ attempts' = attempts
        BY <2>1, <2>3, <2>4, NumberingKept DEF counter
    <2>5. CASE mutex = None /\ failures' = 0 /\ attempts' = <<>>
        <3>1. \A d \in Calls : calls[d].pc # "store"
            BY <2>5, GuardsAssumption DEF Numbering, GuardsAssumption
        <3>2. AttemptsAreNumbered'
            BY <2>5 DEF AttemptsAreNumbered
        <3> QED
            BY <2>3, <3>1, <3>2 DEF Numbering
    <2> QED
        BY <2>2, <2>4, <2>5
<1>12. CASE UNCHANGED vars
    BY <1>12, NumberingKept DEF vars
<1> QED
    BY <1>1, <1>2, <1>3, <1>4, <1>5, <1>6, <1>7, <1>8, <1>9, <1>10, <1>11, <1>12, Steps, Zenon

-----------------------------------------------------------------------------
(***************************************************************************)
(* The errors and the answers                                              *)
(***************************************************************************)

LEMMA ErrorsStep ==
    ASSUME GuardsTypeOK, ErrorsKept, [Next]_vars
    PROVE  ErrorsKept'
<1> SUFFICES ASSUME NEW d \in Calls PROVE ErrorOf(calls'[d])
    BY Zenon DEF ErrorsKept, ErrorOf
<1>0. ErrorOf(calls[d])
    BY DEF ErrorsKept
<1>1. ASSUME NEW approved \in BOOLEAN, SetConfirmed(approved) PROVE ErrorOf(calls'[d])
    BY <1>1, <1>0, SetConfirmedMakes DEF ErrorOf, SameRun
<1>2. ASSUME SetConfirmedEnds PROVE ErrorOf(calls'[d])
    BY <1>2, <1>0, Zenon DEF SetConfirmedEnds
<1>3. ASSUME NEW c \in Calls, Begin(c) PROVE ErrorOf(calls'[d])
    BY <1>3, <1>0, BeginMakes DEF ErrorOf, SameRun
<1>4. ASSUME NEW c \in Calls, Look(c) PROVE ErrorOf(calls'[d])
    BY <1>4, <1>0, LookBecomes DEF ErrorOf, Becomes
<1>5. ASSUME NEW c \in Calls, Spend(c) PROVE ErrorOf(calls'[d])
    BY <1>5, <1>0, MovedBecomes DEF Spend, ErrorOf, Becomes
<1>6. ASSUME NEW c \in Calls, Enters(c) PROVE ErrorOf(calls'[d])
    BY <1>6, <1>0, MovedBecomes DEF Enters, ErrorOf, Becomes
<1>7. ASSUME NEW c \in Calls, NEW result, NEW error, Answers(c, result, error)
      PROVE  ErrorOf(calls'[d])
    BY <1>7, <1>0, ReturnedBecomes DEF Answers, ErrorOf, Becomes
<1>8. ASSUME NEW c \in Calls, OnToolError(c) PROVE ErrorOf(calls'[d])
    <2>1. calls[c].pc = "hooks"
        BY <1>8, Zenon DEF OnToolError
    <2> QED
        BY <1>8, <1>0, <2>1, ErrorBecomes DEF ErrorOf, Becomes
<1>9. ASSUME NEW c \in Calls, StoreCount(c) PROVE ErrorOf(calls'[d])
    <2>1. "error" \in Reflection(calls[c].count)
        BY DEF Reflection
    <2> QED
        BY <1>9, <1>0, <2>1, StoreBecomes DEF ErrorOf, Becomes
<1>10. ASSUME NEW c \in Calls, NoOnToolError(c) PROVE ErrorOf(calls'[d])
    <2>1. calls' = [calls EXCEPT ![c].pc = "after"] /\ calls[c].pc = "hooks"
        BY <1>10, Zenon DEF NoOnToolError
    <2> QED
        BY <1>10, <1>0, <2>1, MovedBecomes DEF ErrorOf, Becomes
<1>11. ASSUME NEW c \in Calls, AfterTool(c) PROVE ErrorOf(calls'[d])
    <2>1. calls' = [calls EXCEPT ![c].pc = "done"]
        BY <1>11, Zenon DEF AfterTool
    <2> QED
        BY <1>11, <1>0, <2>1, MovedBecomes DEF ErrorOf, Becomes
<1>12. CASE UNCHANGED vars
    BY <1>12, <1>0, Zenon DEF vars
<1> QED
    BY <1>1, <1>2, <1>3, <1>4, <1>5, <1>6, <1>7, <1>8, <1>9, <1>10, <1>11, <1>12, Steps, Zenon

LEMMA KindStays ==
    ASSUME [Next]_vars
    PROVE  kind' = kind /\ reflects' = reflects
<1>1. ASSUME NEW approved, SetConfirmed(approved) PROVE kind' = kind /\ reflects' = reflects
    BY <1>1, Zenon DEF SetConfirmed
<1>2. ASSUME SetConfirmedEnds PROVE kind' = kind /\ reflects' = reflects
    BY <1>2, Zenon DEF SetConfirmedEnds
<1>3. ASSUME NEW c, Begin(c) \/ Look(c) \/ Spend(c) \/ Enters(c)
      PROVE  kind' = kind /\ reflects' = reflects
    BY <1>3, Zenon DEF Begin, Look, Spend, Enters
<1>4. ASSUME NEW c, NEW result, NEW error, Answers(c, result, error)
      PROVE  kind' = kind /\ reflects' = reflects
    BY <1>4, Zenon DEF Answers
<1>5. ASSUME NEW c, OnToolError(c) \/ StoreCount(c) \/ NoOnToolError(c) \/ AfterTool(c)
      PROVE  kind' = kind /\ reflects' = reflects
    BY <1>5, Zenon DEF OnToolError, StoreCount, NoOnToolError, AfterTool
<1>6. CASE UNCHANGED vars
    BY <1>6, Zenon DEF vars
<1> QED
    BY <1>1, <1>2, <1>3, <1>4, <1>5, <1>6, Steps, Zenon

LEMMA VerdictsStep ==
    ASSUME GuardsTypeOK, VerdictsKept, [Next]_vars
    PROVE  VerdictsKept'
<1> SUFFICES ASSUME NEW d \in Calls, kind' = "wrapped", ~reflects'
             PROVE  /\ calls'[d].pc # "store"
                    /\ calls'[d].pc \in Answered =>
                          /\ calls'[d].runError = "required" =>
                                "confirmation_required" \in calls'[d].result
                          /\ calls'[d].runError = "rejected" =>
                                "confirmation_rejected" \in calls'[d].result
    BY Zenon DEF VerdictsKept, VerdictOf
<1> DEFINE Told(x) ==
        /\ x.pc # "store"
        /\ x.pc \in Answered =>
              /\ x.runError = "required" => "confirmation_required" \in x.result
              /\ x.runError = "rejected" => "confirmation_rejected" \in x.result
<1> SUFFICES Told(calls'[d])
    BY Zenon
<1>0. kind' = kind /\ reflects' = reflects
    BY KindStays, Zenon
<1>a. ~reflects /\ kind = "wrapped"
    BY <1>0, Zenon
<1>b. \A c \in Calls : Told(calls[c])
    BY <1>a, Zenon DEF VerdictsKept, VerdictOf
<1>1. ASSUME NEW approved \in BOOLEAN, SetConfirmed(approved) PROVE Told(calls'[d])
    BY <1>1, <1>b, SetConfirmedMakes DEF SameRun
<1>2. ASSUME SetConfirmedEnds PROVE Told(calls'[d])
    BY <1>2, <1>b, Zenon DEF SetConfirmedEnds
<1>3. ASSUME NEW c \in Calls, Begin(c) PROVE Told(calls'[d])
    BY <1>3, <1>b, BeginMakes DEF SameRun, Answered
<1>4. ASSUME NEW c \in Calls, Look(c) PROVE Told(calls'[d])
    BY <1>4, <1>b, LookBecomes DEF Becomes, Answered
<1>5. ASSUME NEW c \in Calls, Spend(c) PROVE Told(calls'[d])
    BY <1>5, <1>b, MovedBecomes DEF Spend, Becomes, Answered
<1>6. ASSUME NEW c \in Calls, Enters(c) PROVE Told(calls'[d])
    BY <1>6, <1>b, MovedBecomes DEF Enters, Becomes, Answered
<1>7. ASSUME NEW c \in Calls, NEW result, NEW error, Answers(c, result, error)
      PROVE  Told(calls'[d])
    BY <1>7, <1>a, <1>b, ReturnedBecomes DEF Answers, Becomes
<1>8. ASSUME NEW c \in Calls, OnToolError(c) PROVE Told(calls'[d])
    BY <1>8, <1>a, Zenon DEF OnToolError
<1>9. ASSUME NEW c \in Calls, StoreCount(c) PROVE Told(calls'[d])
    BY <1>9, <1>b DEF StoreCount
<1>10. ASSUME NEW c \in Calls, NoOnToolError(c) PROVE Told(calls'[d])
    <2>1. calls' = [calls EXCEPT ![c].pc = "after"] /\ calls[c].pc = "hooks"
        BY <1>10, Zenon DEF NoOnToolError
    <2> QED
        BY <1>10, <1>b, <2>1, MovedBecomes DEF Becomes, Answered
<1>11. ASSUME NEW c \in Calls, AfterTool(c) PROVE Told(calls'[d])
    <2>1. calls' = [calls EXCEPT ![c].pc = "done"] /\ calls[c].pc = "after"
        BY <1>11, Zenon DEF AfterTool
    <2> QED
        BY <1>11, <1>b, <2>1, MovedBecomes DEF Becomes, Answered
<1>12. CASE UNCHANGED vars
    BY <1>12, <1>b, Zenon DEF vars
<1> QED
    BY <1>1, <1>2, <1>3, <1>4, <1>5, <1>6, <1>7, <1>8, <1>9, <1>10, <1>11, <1>12, Steps, Zenon

-----------------------------------------------------------------------------
(***************************************************************************)
(* Approvals and rejections                                                *)
(***************************************************************************)

LEMMA FlagsStep ==
    ASSUME GuardsTypeOK, FlagsAgree, [Next]_vars
    PROVE  FlagsAgree'
<1>1. ASSUME NEW approved \in BOOLEAN, SetConfirmed(approved) PROVE FlagsAgree'
    <2>1. /\ setting' = IF approved THEN "approved" ELSE "rejected"
          /\ verdict' = "setting" /\ kind = "wrapped" /\ kind' = kind
          /\ approved \/ ~confirmedCall'
        BY <1>1, Zenon DEF SetConfirmed
    <2> QED
        BY <2>1 DEF FlagsAgree
<1>2. ASSUME SetConfirmedEnds PROVE FlagsAgree'
    <2>1. /\ setting # "none" /\ setting' = "none" /\ verdict' = setting /\ kind' = kind
          /\ setting = "rejected" => confirmed'
          /\ confirmedCall' = confirmedCall
        BY <1>2, Zenon DEF SetConfirmedEnds
    <2>2. setting = "rejected" => ~confirmedCall'
        BY <2>1, Zenon DEF FlagsAgree
    <2>3. kind' = "wrapped"
        BY <2>1 DEF FlagsAgree
    <2> QED
        BY <2>1, <2>2, <2>3, Zenon DEF FlagsAgree
<1>3. ASSUME UNCHANGED <<confirmed, setting, verdict, kind>>, confirmedCall' => confirmedCall
      PROVE  FlagsAgree'
    BY <1>3, Zenon DEF FlagsAgree
<1>4. ASSUME NEW c, Spend(c) PROVE FlagsAgree'
    BY <1>3, <1>4, Zenon DEF Spend
<1>5. ASSUME UNCHANGED <<kind, confirmation>> PROVE FlagsAgree'
    BY <1>3, <1>5, Zenon DEF confirmation
<1>6. ASSUME NEW c, Begin(c) \/ Look(c) \/ Enters(c) PROVE FlagsAgree'
    BY <1>5, <1>6, Zenon DEF Begin, Look, Enters
<1>7. ASSUME NEW c, NEW result, NEW error, Answers(c, result, error) PROVE FlagsAgree'
    BY <1>5, <1>7, Zenon DEF Answers
<1>8. ASSUME NEW c, OnToolError(c) \/ StoreCount(c) \/ NoOnToolError(c) \/ AfterTool(c)
      PROVE  FlagsAgree'
    BY <1>5, <1>8, Zenon DEF OnToolError, StoreCount, NoOnToolError, AfterTool
<1>9. CASE UNCHANGED vars
    BY <1>5, <1>9, Zenon DEF vars
<1> QED
    BY <1>1, <1>2, <1>4, <1>6, <1>7, <1>8, <1>9, Steps, Zenon

LEMMA RefusedStep ==
    ASSUME GuardsTypeOK, FlagsAgree, [Next]_vars, NEW d \in Calls,
           RefusedOf(calls[d]), UsingOf(calls[d]), calls'[d].refused
    PROVE  /\ verdict' = "rejected" /\ calls'[d].using = 0
           /\ \/ calls'[d].pc \in {"look", "judge"}
              \/ calls'[d].pc \in Answered /\ calls'[d].runError = "rejected"
<1> DEFINE Good ==
        /\ verdict' = "rejected" /\ calls'[d].using = 0
        /\ \/ calls'[d].pc \in {"look", "judge"}
           \/ calls'[d].pc \in Answered /\ calls'[d].runError = "rejected"
<1> SUFFICES Good
    BY Zenon
<1>1. ASSUME NEW approved \in BOOLEAN, SetConfirmed(approved) PROVE Good
    BY <1>1, SetConfirmedMakes, Zenon
<1>2. ASSUME SetConfirmedEnds PROVE Good
    <2>1. setting # "none" /\ calls' = calls
        BY <1>2, Zenon DEF SetConfirmedEnds
    <2> QED
        BY <2>1 DEF RefusedOf, FlagsAgree
<1>3. ASSUME NEW c \in Calls, Begin(c) PROVE Good
    <2>1. verdict' = verdict
        BY <1>3, Zenon DEF Begin, confirmation
    <2>2. CASE d = c
        BY <1>3, <2>1, <2>2, BeginMakes DEF UsingOf, FlagsAgree
    <2>3. CASE d # c
        BY <1>3, <2>1, <2>3, BeginMakes DEF RefusedOf, SameRun
    <2> QED
        BY <2>2, <2>3
<1>4. ASSUME NEW c \in Calls, Look(c) PROVE Good
    <2>1. verdict' = verdict
        BY <1>4, Zenon DEF Look, confirmation
    <2>2. ~confirmedCall /\ RefusedOf(calls[d]) /\ calls[d].refused
        BY <1>4, LookBecomes DEF RefusedOf, FlagsAgree, Becomes
    <2> QED
        BY <1>4, <2>1, <2>2, LookBecomes DEF RefusedOf, Becomes
<1>5. ASSUME NEW c \in Calls, Spend(c) PROVE Good
    <2>1. verdict' = verdict /\ calls[c].pc = "spend"
        BY <1>5, Zenon DEF Spend
    <2> QED
        BY <1>5, <2>1, MovedBecomes DEF Spend, RefusedOf, Becomes, Answered
<1>6. ASSUME NEW c \in Calls, Enters(c) PROVE Good
    <2>1. verdict' = verdict /\ ~confirmed
        BY <1>6, Zenon DEF Enters, confirmation
    <2> QED
        BY <1>6, <2>1, MovedBecomes DEF Enters, RefusedOf, FlagsAgree, Becomes
<1>7. ASSUME NEW c \in Calls, NEW result, NEW error, Answers(c, result, error) PROVE Good
    <2>1. /\ verdict' = verdict /\ calls[c].pc \in {"judge", "inner"}
          /\ calls[c].pc = "judge" /\ confirmed => error = "rejected"
        BY <1>7, Zenon DEF Answers, confirmation
    <2>2. Becomes(c, "hooks", calls[c].using, error, error, result, calls[c].count)
        BY <1>7, ReturnedBecomes DEF Answers
    <2> QED
        BY <2>1, <2>2, Zenon DEF RefusedOf, FlagsAgree, Becomes, Answered
<1>8. ASSUME NEW c \in Calls, OnToolError(c) PROVE Good
    <2>1. verdict' = verdict /\ calls[c].pc = "hooks"
        BY <1>8, Zenon DEF OnToolError, confirmation
    <2> QED
        BY <1>8, <2>1, ErrorBecomes DEF RefusedOf, Becomes, Answered
<1>9. ASSUME NEW c \in Calls, StoreCount(c) PROVE Good
    <2>1. verdict' = verdict /\ calls[c].pc = "store"
        BY <1>9, Zenon DEF StoreCount, confirmation
    <2> QED
        BY <1>9, <2>1, StoreBecomes DEF RefusedOf, Becomes, Answered
<1>10. ASSUME NEW c \in Calls, NoOnToolError(c) PROVE Good
    <2>1. /\ verdict' = verdict /\ calls[c].pc = "hooks"
          /\ calls' = [calls EXCEPT ![c].pc = "after"]
        BY <1>10, Zenon DEF NoOnToolError, confirmation
    <2> QED
        BY <1>10, <2>1, MovedBecomes DEF RefusedOf, Becomes, Answered
<1>11. ASSUME NEW c \in Calls, AfterTool(c) PROVE Good
    <2>1. /\ verdict' = verdict /\ calls[c].pc = "after"
          /\ calls' = [calls EXCEPT ![c].pc = "done"]
        BY <1>11, Zenon DEF AfterTool, confirmation
    <2> QED
        BY <1>11, <2>1, MovedBecomes DEF RefusedOf, Becomes, Answered
<1>12. CASE UNCHANGED vars
    BY <1>12, Zenon DEF vars, confirmation, RefusedOf
<1> QED
    BY <1>1, <1>2, <1>3, <1>4, <1>5, <1>6, <1>7, <1>8, <1>9, <1>10, <1>11, <1>12, Steps, Zenon

\* All steps but SetConfirmed and Look leave the approvals the calls have read.
LEMMA UsingStep ==
    ASSUME GuardsTypeOK, [Next]_vars, NEW d \in Calls, UsingOf(calls[d])
    PROVE  UsingOf(calls[d])'
<1> DEFINE Good ==
        /\ calls'[d].using <= settings'
        /\ calls'[d].using # 0 => calls'[d].pc \notin {"new", "look", "judge"}
        /\ calls'[d].using = settings' /\ calls'[d].using # 0 /\ calls'[d].pc # "spend" =>
              ~confirmedCall'
<1> SUFFICES Good
    BY Zenon DEF UsingOf
<1>0. calls[d].using \in Nat /\ settings \in Nat
    <2>1. PICK x \in Call : x = calls[d]
        BY DEF GuardsTypeOK
    <2> QED
        BY <2>1 DEF Call, GuardsTypeOK
<1>1. ASSUME NEW approved \in BOOLEAN, SetConfirmed(approved) PROVE Good
    <2>1. settings' = settings + 1
        BY <1>1, Zenon DEF SetConfirmed
    <2>2. calls'[d].pc = calls[d].pc /\ calls'[d].using = calls[d].using
        BY <1>1, SetConfirmedMakes
    <2> QED
        BY <1>0, <2>1, <2>2 DEF UsingOf
<1>2. ASSUME /\ settings' = settings
             /\ confirmedCall' => confirmedCall
             /\ calls'[d].using = calls[d].using
             /\ calls'[d].pc \in {"new", "look", "judge"} =>
                   calls[d].pc \in {"new", "look", "judge"}
             /\ calls[d].pc = "spend" => calls'[d].pc = "spend" \/ ~confirmedCall'
      PROVE  Good
    BY <1>2, Zenon DEF UsingOf
<1>3. ASSUME SetConfirmedEnds PROVE Good
    BY <1>2, <1>3, Zenon DEF SetConfirmedEnds
<1>4. ASSUME NEW c \in Calls, Begin(c) PROVE Good
    <2>1. settings' = settings /\ confirmedCall' = confirmedCall
        BY <1>4, Zenon DEF Begin, confirmation
    <2>2. /\ calls'[d].using = calls[d].using
          /\ calls'[d].pc = calls[d].pc \/ calls[d].pc = "new"
        BY <1>4, BeginMakes
    <2> QED
        BY <1>2, <2>1, <2>2
<1>5. ASSUME NEW c \in Calls, Look(c) PROVE Good
    <2>1. settings' = settings /\ confirmedCall' = confirmedCall
        BY <1>5, Zenon DEF Look, confirmation
    <2> QED
        BY <1>5, <1>0, <2>1, LookBecomes DEF Becomes, UsingOf
<1>6. ASSUME NEW c \in Calls, Spend(c) PROVE Good
    <2>1. settings' = settings /\ ~confirmedCall' /\ calls[c].pc = "spend"
        BY <1>6, Zenon DEF Spend
    <2>2. /\ calls'[d].using = calls[d].using
          /\ calls'[d].pc = calls[d].pc \/ calls'[d].pc = "inner"
        BY <1>6, MovedBecomes DEF Spend, Becomes
    <2> QED
        BY <1>2, <2>1, <2>2
<1>7. ASSUME NEW c \in Calls, NEW pc \in {"inner"} \cup Answered, calls[c].pc # "spend",
             UNCHANGED confirmation,
             calls'[c].pc = pc /\ calls'[c].using = calls[c].using,
             \A e \in Calls : e # c => calls'[e] = calls[e]
      PROVE  Good
    <2>1. settings' = settings /\ confirmedCall' = confirmedCall
        BY <1>7, Zenon DEF confirmation
    <2> QED
        BY <1>2, <1>7, <2>1 DEF Answered
<1>8. ASSUME NEW c \in Calls, Enters(c) PROVE Good
    <2>1. /\ calls[c].pc = "judge" /\ UNCHANGED confirmation
          /\ calls' = [calls EXCEPT ![c].pc = "inner"]
        BY <1>8, Zenon DEF Enters
    <2>2. /\ calls'[c].pc = "inner" /\ calls'[c].using = calls[c].using
          /\ \A e \in Calls : e # c => calls'[e] = calls[e]
        BY <1>8, <2>1, MovedBecomes DEF Becomes
    <2>3. calls[c].pc # "spend" /\ "inner" \in {"inner"} \cup Answered
        BY <2>1
    <2> QED
        BY <1>7, <1>8, <2>1, <2>2, <2>3, Zenon
<1>9. ASSUME NEW c \in Calls, NEW result, NEW error, Answers(c, result, error) PROVE Good
    <2>1. calls[c].pc # "spend" /\ UNCHANGED confirmation
        BY <1>9 DEF Answers
    <2>2. Becomes(c, "hooks", calls[c].using, error, error, result, calls[c].count)
        BY <1>9, ReturnedBecomes DEF Answers
    <2> QED
        BY <1>7, <1>9, <2>1, <2>2 DEF Becomes, Answered
<1>10. ASSUME NEW c \in Calls, OnToolError(c) PROVE Good
    <2>1. calls[c].pc = "hooks" /\ UNCHANGED confirmation
        BY <1>10, Zenon DEF OnToolError
    <2> QED
        BY <1>7, <1>10, <2>1, ErrorBecomes DEF Becomes, Answered
<1>11. ASSUME NEW c \in Calls, StoreCount(c) PROVE Good
    <2>1. calls[c].pc = "store" /\ UNCHANGED confirmation
        BY <1>11, Zenon DEF StoreCount
    <2> QED
        BY <1>7, <1>11, <2>1, StoreBecomes DEF Becomes, Answered
<1>12. ASSUME NEW c \in Calls, NoOnToolError(c) PROVE Good
    <2>1. /\ calls[c].pc = "hooks" /\ UNCHANGED confirmation
          /\ calls' = [calls EXCEPT ![c].pc = "after"]
        BY <1>12, Zenon DEF NoOnToolError
    <2> QED
        BY <1>7, <1>12, <2>1, MovedBecomes DEF Becomes, Answered
<1>13. ASSUME NEW c \in Calls, AfterTool(c) PROVE Good
    <2>1. /\ calls[c].pc = "after" /\ UNCHANGED confirmation
          /\ calls' = [calls EXCEPT ![c].pc = "done"]
        BY <1>13, Zenon DEF AfterTool
    <2> QED
        BY <1>7, <1>13, <2>1, MovedBecomes DEF Becomes, Answered
<1>14. CASE UNCHANGED vars
    BY <1>2, <1>14, Zenon DEF vars, confirmation
<1> QED
    BY <1>1, <1>3, <1>4, <1>5, <1>6, <1>8, <1>9, <1>10, <1>11, <1>12, <1>13, <1>14, Steps, Zenon

\* Only Begin puts a call under way, only Look reads an approval, and no step
\* forgets the company of a call that is under way.
LEMMA CompanyStep ==
    ASSUME GuardsTypeOK, [Next]_vars, NEW d \in Calls
    PROVE  \/ Begin(d)
           \/ /\ d \in UnderWay' => d \in UnderWay
              /\ calls[d].others \subseteq calls'[d].others
              /\ calls'[d].using = calls[d].using \/ Look(d)
<1> DEFINE Good ==
        /\ d \in UnderWay' => d \in UnderWay
        /\ calls[d].others \subseteq calls'[d].others
        /\ calls'[d].using = calls[d].using \/ Look(d)
<1> SUFFICES Begin(d) \/ Good
    BY Zenon
<1>0. ASSUME /\ calls'[d].pc = calls[d].pc \/ calls[d].pc \notin {"new", "done"}
             /\ calls'[d].others = calls[d].others
             /\ calls'[d].using = calls[d].using \/ Look(d)
      PROVE  Good
    <2>1. d \in UnderWay' <=> calls'[d].pc \notin {"new", "done"}
        BY DEF UnderWay
    <2>2. d \in UnderWay <=> calls[d].pc \notin {"new", "done"}
        BY DEF UnderWay
    <2> QED
        BY <1>0, <2>1, <2>2, Zenon
<1>1. ASSUME NEW approved \in BOOLEAN, SetConfirmed(approved) PROVE Good
    BY <1>0, <1>1, SetConfirmedMakes
<1>2. ASSUME SetConfirmedEnds PROVE Good
    BY <1>0, <1>2, Zenon DEF SetConfirmedEnds
<1>3. ASSUME NEW c \in Calls, Begin(c), c # d PROVE Good
    <2>1. d \in UnderWay' <=> calls'[d].pc \notin {"new", "done"}
        BY DEF UnderWay
    <2>2. d \in UnderWay <=> calls[d].pc \notin {"new", "done"}
        BY DEF UnderWay
    <2> QED
        BY <1>3, <2>1, <2>2, BeginMakes
<1>4. ASSUME NEW c \in Calls, NEW pc, NEW using, NEW runError, NEW error, NEW result, NEW count,
             Becomes(c, pc, using, runError, error, result, count),
             calls[c].pc \notin {"new", "done"}, using = calls[c].using \/ Look(c)
      PROVE  Good
    BY <1>0, <1>4, Zenon DEF Becomes
<1>5. ASSUME NEW c \in Calls, Look(c) PROVE Good
    <2>1. calls[c].pc \notin {"new", "done"}
        BY <1>5 DEF Look
    <2> QED
        BY <1>4, <1>5, <2>1, LookBecomes, Zenon
<1>6. ASSUME NEW c \in Calls, NEW pc, calls[c].pc \notin {"new", "done"},
             calls' = [calls EXCEPT ![c].pc = pc]
      PROVE  Good
    BY <1>4, <1>6, MovedBecomes, Zenon
<1>7. ASSUME NEW c \in Calls, Spend(c) \/ Enters(c) PROVE Good
    <2>1. calls[c].pc \notin {"new", "done"}
        BY <1>7 DEF Spend, Enters
    <2>2. calls' = [calls EXCEPT ![c].pc = "inner"]
        BY <1>7, Zenon DEF Spend, Enters
    <2> QED
        BY <1>6, <1>7, <2>1, <2>2, Zenon
<1>8. ASSUME NEW c \in Calls, NEW result, NEW error, Answers(c, result, error) PROVE Good
    <2>1. calls[c].pc \notin {"new", "done"} /\ Returned(c, result, error)
        BY <1>8 DEF Answers
    <2> QED
        BY <1>4, <1>8, <2>1, ReturnedBecomes, Zenon
<1>9. ASSUME NEW c \in Calls, OnToolError(c) PROVE Good
    <2>1. calls[c].pc = "hooks"
        BY <1>9, Zenon DEF OnToolError
    <2>2. calls[c].pc \notin {"new", "done"}
        BY <2>1
    <2> QED
        BY <1>4, <1>9, <2>2, ErrorBecomes, Zenon
<1>10. ASSUME NEW c \in Calls, StoreCount(c) PROVE Good
    <2>1. calls[c].pc \notin {"new", "done"}
        BY <1>10 DEF StoreCount
    <2> QED
        BY <1>4, <1>10, <2>1, StoreBecomes, Zenon
<1>11. ASSUME NEW c \in Calls, NoOnToolError(c) \/ AfterTool(c) PROVE Good
    <2>1. calls[c].pc = "hooks" \/ calls[c].pc = "after"
        BY <1>11, Zenon DEF NoOnToolError, AfterTool
    <2>2. \E pc : calls' = [calls EXCEPT ![c].pc = pc]
        BY <1>11, Zenon DEF NoOnToolError, AfterTool
    <2>3. calls[c].pc \notin {"new", "done"}
        BY <2>1
    <2> QED
        BY <1>6, <1>11, <2>2, <2>3, Zenon
<1>12. CASE UNCHANGED vars
    BY <1>0, <1>12, Zenon DEF vars
<1> QED
    BY <1>1, <1>2, <1>3, <1>5, <1>7, <1>8, <1>9, <1>10, <1>11, <1>12, Steps, Zenon

LEMMA OthersStep ==
    ASSUME GuardsTypeOK, OthersKnown, [Next]_vars
    PROVE  OthersKnown'
<1> SUFFICES ASSUME NEW c \in Calls, NEW d \in Calls, c # d, c \in UnderWay', d \in UnderWay'
             PROVE  d \in calls'[c].others
    BY Zenon DEF OthersKnown
<1>1. CASE Begin(c)
    <2>1. d \in UnderWay' <=> calls'[d].pc \notin {"new", "done"}
        BY DEF UnderWay
    <2>2. d \in UnderWay <=> calls[d].pc \notin {"new", "done"}
        BY DEF UnderWay
    <2> QED
        BY <1>1, <2>1, <2>2, BeginMakes
<1>2. CASE Begin(d)
    <2>1. c \in UnderWay' <=> calls'[c].pc \notin {"new", "done"}
        BY DEF UnderWay
    <2>2. c \in UnderWay <=> calls[c].pc \notin {"new", "done"}
        BY DEF UnderWay
    <2> QED
        BY <1>2, <2>1, <2>2, BeginMakes
<1>3. CASE ~Begin(c) /\ ~Begin(d)
    BY <1>3, CompanyStep, Zenon DEF OthersKnown
<1> QED
    BY <1>1, <1>2, <1>3

\* Who reads an approval finds every other call of it still about to spend it.
LEMMA OverlapStep ==
    ASSUME GuardsTypeOK, OthersKnown, SharedApprovalOverlaps, [Next]_vars,
           \A c \in Calls : UsingOf(calls[c])
    PROVE  SharedApprovalOverlaps'
<1> SUFFICES ASSUME NEW c \in Calls, NEW d \in Calls, c # d,
                    calls'[c].using # 0, calls'[c].using = calls'[d].using
             PROVE  d \in calls'[c].others
    BY Zenon DEF SharedApprovalOverlaps
<1>1. ASSUME NEW e \in Calls, Begin(e) PROVE d \in calls'[c].others
    <2>1. calls'[c].using = calls[c].using /\ calls'[d].using = calls[d].using
        BY <1>1, BeginMakes
    <2>2. c # e
        BY <1>1, <2>1, BeginMakes DEF UsingOf
    <2>3. d \in calls[c].others
        BY <2>1 DEF SharedApprovalOverlaps
    <2> QED
        BY <1>1, <2>2, <2>3, BeginMakes
<1>2. ASSUME NEW e \in Calls, NEW f \in Calls, Look(e), f # e, calls'[e].using = calls'[f].using,
             calls'[e].using # 0
      PROVE  e \in UnderWay /\ f \in UnderWay
    <2>1. calls[e].pc = "look" /\ settings' = settings
        BY <1>2, Zenon DEF Look, confirmation
    <2>2. confirmedCall /\ calls'[e].using = settings /\ calls'[f] = calls[f]
        BY <1>2, LookBecomes DEF Becomes
    <2>3. calls[f].pc = "spend"
        BY <1>2, <2>2 DEF UsingOf
    <2> QED
        BY <2>1, <2>3 DEF UnderWay
<1>3. CASE ~Begin(c) /\ ~Begin(d)
    <2>1. CASE Look(c) \/ Look(d)
        <3>1. c \in UnderWay /\ d \in UnderWay
            BY <1>2, <2>1
        <3> QED
            BY <1>3, <3>1, CompanyStep, Zenon DEF OthersKnown
    <2>2. CASE ~Look(c) /\ ~Look(d)
        BY <1>3, <2>2, CompanyStep, Zenon DEF SharedApprovalOverlaps
    <2> QED
        BY <2>1, <2>2
<1> QED
    BY <1>1, <1>3

-----------------------------------------------------------------------------
(***************************************************************************)
(* The theorems                                                            *)
(***************************************************************************)

LEMMA InvInit ==
    ASSUME GuardsAssumption, Init
    PROVE  GuardsInv
<1>1. GuardsTypeOK
    BY TypeInit
<1>2. \A c \in Calls : /\ calls[c].pc = "new" /\ calls[c].using = 0
                       /\ ~calls[c].refused
    BY DEF Init, NewCall
<1>3. Numbering
    BY <1>2 DEF Init, Numbering, AttemptsAreNumbered
<1>4. FlagsAgree
    BY DEF Init, FlagsAgree
<1>5. \A c \in Calls : RefusedOf(calls[c])
    BY <1>2 DEF RefusedOf
<1>6. settings = 0
    BY DEF Init
<1>7. ASSUME NEW c \in Calls PROVE UsingOf(calls[c])
    <2>1. calls[c].using = 0 /\ calls[c].using <= settings
        BY <1>2, <1>6, <1>7
    <2> QED
        BY <2>1, Zenon DEF UsingOf
<1>8. UnderWay = {}
    BY <1>2 DEF UnderWay
<1>9. OthersKnown
    BY <1>8 DEF OthersKnown
<1>10. SharedApprovalOverlaps
    BY <1>2 DEF SharedApprovalOverlaps
<1>11. ErrorsKept
    BY <1>2 DEF ErrorsKept, ErrorOf
<1>12. VerdictsKept
    BY <1>2 DEF VerdictsKept, VerdictOf, Answered
<1> QED
    BY <1>1, <1>3, <1>4, <1>5, <1>7, <1>9, <1>10, <1>11, <1>12, Zenon DEF GuardsInv, Approvals

LEMMA InvStep ==
    ASSUME GuardsAssumption, GuardsInv, [Next]_vars
    PROVE  GuardsInv'
<1>1. GuardsTypeOK /\ Numbering /\ ErrorsKept /\ VerdictsKept
    BY Zenon DEF GuardsInv
<1>2. /\ FlagsAgree /\ OthersKnown /\ SharedApprovalOverlaps
      /\ \A c \in Calls : RefusedOf(calls[c]) /\ UsingOf(calls[c])
    BY Zenon DEF GuardsInv, Approvals
<1>3. GuardsTypeOK' /\ Numbering' /\ ErrorsKept' /\ VerdictsKept'
    BY <1>1, TypeStep, NumberingStep, ErrorsStep, VerdictsStep, Zenon
<1>4. FlagsAgree' /\ OthersKnown' /\ SharedApprovalOverlaps'
    BY <1>1, <1>2, FlagsStep, OthersStep, OverlapStep, Zenon
<1>5. ASSUME NEW c \in Calls PROVE RefusedOf(calls[c])'
    BY <1>1, <1>2, <1>5, RefusedStep, Zenon DEF RefusedOf
<1>6. ASSUME NEW c \in Calls PROVE UsingOf(calls[c])'
    BY <1>1, <1>2, <1>6, UsingStep, Zenon
<1>7. Approvals'
    BY <1>4, <1>5, <1>6, Zenon DEF Approvals
<1> QED
    BY <1>3, <1>7, Zenon DEF GuardsInv

LEMMA InvariantAlways == Spec => []GuardsInv
<1>1. GuardsAssumption
    BY GuardsAssumption
<1>2. Init => GuardsInv
    BY <1>1, InvInit
<1>3. GuardsInv /\ [Next]_vars => GuardsInv'
    BY <1>1, InvStep
<1> QED
    BY <1>2, <1>3, PTL DEF Spec

(***************************************************************************)
(* The calls of executeToolCall and the fields of the tool and the plugin  *)
(* keep their types.                                                       *)
(***************************************************************************)
THEOREM GuardsTypeCorrect == Spec => []GuardsTypeOK
<1>1. GuardsInv => GuardsTypeOK
    BY DEF GuardsInv
<1> QED
    BY <1>1, InvariantAlways, PTL

(***************************************************************************)
(* However many calls share a wrapped tool: those that run on one approval *)
(* were under way together, and a call that begins after a rejection is    *)
(* refused (confirmationTool.Run and SetConfirmed).                        *)
(***************************************************************************)
THEOREM ApprovalsAlwaysHold == Spec => []ApprovalsHold
<1>1. ASSUME GuardsInv PROVE ApprovalsHold
    <2>1. SharedApprovalOverlaps /\ \A c \in Calls : RefusedOf(calls[c])
        BY <1>1, Zenon DEF GuardsInv, Approvals
    <2>2. RejectionHolds
        BY <2>1, Zenon DEF RefusedOf, RejectionHolds
    <2> QED
        BY <2>1, <2>2, Zenon DEF ApprovalsHold
<1> QED
    BY <1>1, InvariantAlways, PTL

(***************************************************************************)
(* However many failures run in parallel, retryreflect numbers them one by *)
(* one since the last success.                                             *)
(***************************************************************************)
THEOREM AttemptsNumbered == Spec => []AttemptsAreNumbered
<1>1. GuardsInv => AttemptsAreNumbered
    BY DEF GuardsInv, Numbering
<1> QED
    BY <1>1, InvariantAlways, PTL

(***************************************************************************)
(* Without retryreflect no answer of a wrapped tool hides that the call    *)
(* waits for confirmation or was refused.                                  *)
(***************************************************************************)
THEOREM VerdictsAreTold == Spec => []VerdictIsTold
<1>1. ASSUME GuardsInv PROVE VerdictIsTold
    <2>1. \A c \in Calls : VerdictOf(calls[c])
        BY <1>1, Zenon DEF GuardsInv, VerdictsKept
    <2>2. "done" \in Answered
        BY DEF Answered
    <2> QED
        BY <2>1, <2>2, Zenon DEF VerdictOf, VerdictIsTold
<1> QED
    BY <1>1, InvariantAlways, PTL

(***************************************************************************)
(* Nothing but a call whose tool returned without an error resets the      *)
(* count, although the flow has by then cleared the errors that            *)
(* OnToolError answered.                                                   *)
(***************************************************************************)
THEOREM SuccessResets == Spec => OnlySuccessResets
<1>1. ASSUME GuardsInv, [Next]_vars, failures' < failures
      PROVE  \E c \in Calls : /\ calls[c].pc = "after" /\ calls'[c].pc = "done"
                              /\ calls[c].runError = "none"
    <2>1. GuardsTypeOK /\ Numbering /\ ErrorsKept
        BY <1>1, Zenon DEF GuardsInv
    <2>2. failures \in Nat
        BY <2>1 DEF GuardsTypeOK
    <2>3. failures' # failures
        BY <1>1, <2>2
    <2>4. PICK c \in Calls : StoreCount(c) \/ AfterTool(c)
        <3>1. ASSUME UNCHANGED counter PROVE FALSE
            BY <2>3, <3>1, Zenon DEF counter
        <3>2. ASSUME NEW approved, SetConfirmed(approved) PROVE FALSE
            BY <3>1, <3>2, Zenon DEF SetConfirmed
        <3>3. ASSUME SetConfirmedEnds PROVE FALSE
            BY <3>1, <3>3, Zenon DEF SetConfirmedEnds
        <3>4. ASSUME NEW c, Begin(c) \/ Look(c) \/ Spend(c) \/ Enters(c) PROVE FALSE
            BY <3>1, <3>4, Zenon DEF Begin, Look, Spend, Enters
        <3>5. ASSUME NEW c, NEW result, NEW error, Answers(c, result, error) PROVE FALSE
            BY <3>1, <3>5, Zenon DEF Answers
        <3>6. ASSUME NEW c, OnToolError(c) \/ NoOnToolError(c) PROVE FALSE
            BY <2>3, <3>1, <3>6, Zenon DEF OnToolError, NoOnToolError
        <3>7. ASSUME UNCHANGED vars PROVE FALSE
            BY <3>1, <3>7, Zenon DEF vars
        <3> QED
            BY <1>1, <3>2, <3>3, <3>4, <3>5, <3>6, <3>7, Steps, Zenon
    <2>5. ~StoreCount(c)
        <3> SUFFICES ASSUME StoreCount(c) PROVE FALSE
            OBVIOUS
        <3>1. calls[c].pc = "store" /\ failures' = calls[c].count
            BY DEF StoreCount
        <3>2. failures' = failures + 1
            BY <2>1, <3>1 DEF Numbering
        <3> QED
            BY <1>1, <2>2, <3>2
    <2>6. AfterTool(c)
        BY <2>4, <2>5
    <2>7. /\ calls[c].pc = "after" /\ Succeeded(c)
          /\ calls' = [calls EXCEPT ![c].pc = "done"]
        BY <2>3, <2>6, Zenon DEF AfterTool
    <2>8. calls'[c].pc = "done"
        BY <2>1, <2>7, MovedBecomes DEF Becomes
    <2>9. calls[c].runError = "none"
        BY <2>1, <2>7 DEF Succeeded, ErrorsKept, ErrorOf
    <2> QED
        BY <2>7, <2>8, <2>9
<1>2. GuardsInv /\ [Next]_vars =>
        [failures' < failures =>
            \E c \in Calls : /\ calls[c].pc = "after" /\ calls'[c].pc = "done"
                             /\ calls[c].runError = "none"]_vars
    BY <1>1
<1> QED
    BY <1>2, InvariantAlways, PTL DEF Spec, OnlySuccessResets
=============================================================================
