------------------------------ MODULE ToolGuards ------------------------------
(***************************************************************************)
(* Parallel calls of one tool, and the two guards that keep state across   *)
(* calls: the confirmation of a wrapped tool (tool/tool.go), whose flags   *)
(* no lock protects, and retryreflect's count of failures                  *)
(* (plugin/retryreflect), which a mutex does.                              *)
(*                                                                         *)
(* The calls are of any batches, runs and sessions: they share the tool    *)
(* and the plugin.  SetConfirmed is called by the program at any time.  A  *)
(* result is the set of its keys.                                          *)
(***************************************************************************)
EXTENDS Naturals, Sequences

CONSTANTS
    Calls,      \* the calls of the tool
    None,       \* nobody holds the mutex
    MaxRetries, \* retryreflect's Config.MaxRetries
    MaxSettings \* bound: calls of SetConfirmed

ASSUME GuardsAssumption ==
    /\ None \notin Calls
    /\ {MaxRetries, MaxSettings} \subseteq Nat

VARIABLES
    kind,          \* how executeToolCall dispatches the tool
    reflects,      \* the flow has a plugin manager with retryreflect
    confirmedCall, \* an approval that no call has spent
    confirmed,     \* TRUE after a rejection
    setting,       \* the SetConfirmed between its two assignments
    failures,      \* retryreflect's count for the tool
    mutex,         \* the call that holds retryreflect's mutex
    calls,
    verdict,       \* auxiliary: what the last SetConfirmed said, once it has returned
    settings,      \* auxiliary: the number of calls of SetConfirmed
    attempts       \* auxiliary: the failures numbered since the last reset

confirmation == <<confirmedCall, confirmed, setting, verdict, settings>>
counter == <<failures, mutex, attempts>>
vars == <<kind, reflects, confirmation, counter, calls>>

Kinds == {"wrapped", "context", "stream", "plain"}

ResultKeys == {"result", "error", "confirmation_required", "confirmation_rejected",
               "reflection", "reflection_exceeded"}

NoResult == {}

Errors == {"none", "failed", "required", "rejected"}

(***************************************************************************)
(* A call.  runError is what the tool returned, error and result what the  *)
(* flow makes of it, count the local of OnToolError.  Auxiliary: using is  *)
(* the SetConfirmed whose approval the call has read, others the calls     *)
(* that were under way with it, and refused says that it began after a     *)
(* rejection and none was set since.                                       *)
(***************************************************************************)
Call == [ pc: {"new", "look", "spend", "judge", "inner", "hooks", "store", "after", "done"},
          runError: Errors, error: Errors, result: SUBSET ResultKeys, count: Nat,
          using: Nat, others: SUBSET Calls, refused: BOOLEAN ]

NewCall == [ pc |-> "new", runError |-> "none", error |-> "none", result |-> NoResult,
             count |-> 0, using |-> 0, others |-> {}, refused |-> FALSE ]

GuardsTypeOK ==
    /\ kind \in Kinds
    /\ reflects \in BOOLEAN
    /\ confirmedCall \in BOOLEAN
    /\ confirmed \in BOOLEAN
    /\ setting \in {"none", "approved", "rejected"}
    /\ failures \in Nat
    /\ mutex \in Calls \cup {None}
    /\ calls \in [Calls -> Call]
    /\ verdict \in {"none", "setting", "approved", "rejected"}
    /\ settings \in 0..MaxSettings
    /\ attempts \in Seq(Nat)

UnderWay == {c \in Calls : calls[c].pc \notin {"new", "done"}}

-----------------------------------------------------------------------------
(***************************************************************************)
(* SetConfirmed: two assignments, and the tool's calls in between.         *)
(***************************************************************************)

SetConfirmed(approved) ==
    /\ kind = "wrapped"
    /\ setting = "none" /\ settings < MaxSettings
    /\ confirmedCall' = approved
    /\ setting' = IF approved THEN "approved" ELSE "rejected"
    /\ verdict' = "setting"
    /\ settings' = settings + 1
    /\ calls' = [c \in Calls |-> [calls[c] EXCEPT !.refused = FALSE]]
    /\ UNCHANGED <<kind, reflects, confirmed, counter>>

SetConfirmedEnds ==
    /\ setting # "none"
    /\ confirmed' = (setting = "rejected")
    /\ verdict' = setting
    /\ setting' = "none"
    /\ UNCHANGED <<kind, reflects, confirmedCall, settings, counter, calls>>

-----------------------------------------------------------------------------
(***************************************************************************)
(* The call of the tool                                                    *)
(***************************************************************************)

Begin(c) ==
    /\ calls[c].pc = "new"
    /\ calls' = [d \in Calls |->
          IF d = c THEN [calls[c] EXCEPT !.pc = IF kind = "wrapped" THEN "look" ELSE "inner",
                                         !.others = UnderWay,
                                         !.refused = (verdict = "rejected")]
          ELSE IF d \in UnderWay THEN [calls[d] EXCEPT !.others = @ \cup {c}]
          ELSE calls[d]]
    /\ UNCHANGED <<kind, reflects, confirmation, counter>>

\* confirmationTool.Run reads confirmedCall.
Look(c) ==
    /\ calls[c].pc = "look"
    /\ calls' = [calls EXCEPT ![c].pc = IF confirmedCall THEN "spend" ELSE "judge",
                              ![c].using = IF confirmedCall THEN settings ELSE 0]
    /\ UNCHANGED <<kind, reflects, confirmation, counter>>

\* Mutant: the approval is not spent.
SpendNot(c) ==
    /\ calls[c].pc = "spend"
    /\ calls' = [calls EXCEPT ![c].pc = "inner"]
    /\ UNCHANGED <<kind, reflects, confirmation, counter>>

\* It clears confirmedCall, whatever was set since.
Spend(c) ==
    /\ calls[c].pc = "spend"
    /\ confirmedCall' = FALSE
    /\ calls' = [calls EXCEPT ![c].pc = "inner"]
    /\ UNCHANGED <<kind, reflects, confirmed, setting, verdict, settings, counter>>

\* What the tool returned: a result, and an error or "none".
Returned(c, result, error) ==
    calls' = [calls EXCEPT ![c].pc = "hooks", ![c].runError = error,
                           ![c].error = error, ![c].result = result]

\* Mutant: Execute keeps only the error of a failed call.
ExecuteErrorOnly(result, error) == IF error = "none" THEN result ELSE {"error"}

\* Execute: an error is added to the result, or is the result if there is none.
Execute(result, error) == IF error = "none" THEN result ELSE result \cup {"error"}

\* ContextExecute keeps the result of a tool that asks for confirmation or was refused.
ContextExecute(result, error) ==
    CASE error \in {"none", "failed"} -> Execute(result, error)
      [] result # NoResult -> result
      [] error = "required" -> {"error", "confirmation_required"}
      [] OTHER -> {"error", "confirmation_rejected"}

\* It refuses after a rejection, asks if the provider says so (need), and runs otherwise.
Judge(c, need) ==
    /\ calls[c].pc = "judge"
    /\ IF confirmed
       THEN Returned(c, Execute({"confirmation_rejected", "error"}, "rejected"), "rejected")
       ELSE IF need
       THEN Returned(c, Execute({"confirmation_required"}, "required"), "required")
       ELSE calls' = [calls EXCEPT ![c].pc = "inner"]
    /\ UNCHANGED <<kind, reflects, confirmation, counter>>

\* The tool itself, run by Execute: with a result or none, with an error or none.
Run(c, result, error) ==
    /\ calls[c].pc = "inner" /\ kind \in {"wrapped", "plain"}
    /\ Returned(c, Execute(result, error), error)
    /\ UNCHANGED <<kind, reflects, confirmation, counter>>

\* A tool with a context may itself ask for confirmation or refuse.
RunWithContext(c, result, error) ==
    /\ calls[c].pc = "inner" /\ kind = "context"
    /\ Returned(c, ContextExecute(result, error), error)
    /\ UNCHANGED <<kind, reflects, confirmation, counter>>

\* ExecuteStream: the stream fails as a whole, or a chunk of it does, or none.
RunStream(c, whole, error) ==
    /\ calls[c].pc = "inner" /\ kind = "stream"
    /\ Returned(c, (IF whole THEN {} ELSE {"result"})
                   \cup (IF error = "failed" THEN {"error"} ELSE {}), error)
    /\ whole => error = "failed"
    /\ UNCHANGED <<kind, reflects, confirmation, counter>>

-----------------------------------------------------------------------------
(***************************************************************************)
(* retryreflect's hooks, called by applyAfterToolPluginAndCallbacks        *)
(***************************************************************************)

\* Mutant: the count is not under the mutex.
MutexIgnored == TRUE

MutexFree == mutex = None

\* OnToolError locks and reads the count.
OnToolError(c) ==
    /\ calls[c].pc = "hooks" /\ calls[c].error # "none" /\ reflects
    /\ MutexFree
    /\ mutex' = c
    /\ calls' = [calls EXCEPT ![c].pc = "store", ![c].count = failures + 1]
    /\ UNCHANGED <<kind, reflects, confirmation, failures, attempts>>

Reflection(count) ==
    {"error", IF count <= MaxRetries THEN "reflection" ELSE "reflection_exceeded"}

\* It stores the count and unlocks.  The flow takes its result for a recovery.
StoreCount(c) ==
    /\ calls[c].pc = "store"
    /\ failures' = calls[c].count
    /\ attempts' = Append(attempts, calls[c].count)
    /\ mutex' = None
    /\ calls' = [calls EXCEPT ![c].pc = "after", ![c].error = "none",
                              ![c].result = Reflection(calls[c].count)]
    /\ UNCHANGED <<kind, reflects, confirmation>>

NoOnToolError(c) ==
    /\ calls[c].pc = "hooks"
    /\ calls[c].error = "none" \/ ~reflects
    /\ calls' = [calls EXCEPT ![c].pc = "after"]
    /\ UNCHANGED <<kind, reflects, confirmation, counter>>

\* AfterTool: no runErr, and a result without an "error"
Succeeded(c) ==
    calls[c].error = "none" /\ calls[c].result # NoResult /\ "error" \notin calls[c].result

AfterTool(c) ==
    /\ calls[c].pc = "after"
    /\ calls' = [calls EXCEPT ![c].pc = "done"]
    /\ IF reflects /\ Succeeded(c)
       THEN MutexFree /\ failures' = 0 /\ attempts' = <<>>
       ELSE UNCHANGED <<failures, attempts>>
    /\ UNCHANGED <<kind, reflects, confirmation, mutex>>

-----------------------------------------------------------------------------
Init ==
    /\ kind \in Kinds
    /\ reflects \in BOOLEAN
    /\ confirmedCall = FALSE /\ confirmed = FALSE
    /\ setting = "none" /\ verdict = "none" /\ settings = 0
    /\ failures = 0 /\ mutex = None /\ attempts = <<>>
    /\ calls = [c \in Calls |-> NewCall]

\* What a tool may return besides its error
ToolResults == {NoResult, {"result"}, {"result", "error"}}

CallStep(c) ==
    \/ Begin(c) \/ Look(c) \/ Spend(c)
    \/ \E need \in BOOLEAN : Judge(c, need)
    \/ \E result \in ToolResults :
          \/ \E error \in {"none", "failed"} : Run(c, result, error)
          \/ \E error \in Errors : RunWithContext(c, result, error)
    \/ \E whole \in BOOLEAN, error \in {"none", "failed"} : RunStream(c, whole, error)
    \/ OnToolError(c) \/ StoreCount(c) \/ NoOnToolError(c) \/ AfterTool(c)

Next ==
    \/ \E approved \in BOOLEAN : SetConfirmed(approved)
    \/ SetConfirmedEnds
    \/ \E c \in Calls : CallStep(c)

Spec == Init /\ [][Next]_vars

-----------------------------------------------------------------------------
(***************************************************************************)
(* Two calls that run on one approval were under way together: the flag is *)
(* read and cleared without a lock (confirmationTool.Run), which lets      *)
(* concurrent calls share an approval, but a call that begins when one     *)
(* that ran on it has ended needs a new one.                               *)
(***************************************************************************)
SharedApprovalOverlaps ==
    \A c, d \in Calls :
        c # d /\ calls[c].using # 0 /\ calls[c].using = calls[d].using =>
            d \in calls[c].others

(***************************************************************************)
(* A call that begins after a rejection, with no SetConfirmed since, is    *)
(* refused, also when calls that began on an earlier approval are still    *)
(* under way (SetConfirmed and confirmationTool.Run).                      *)
(***************************************************************************)
RejectionHolds ==
    kind = "wrapped" =>
        \A c \in Calls : calls[c].refused =>
            /\ calls[c].using = 0
            /\ calls[c].pc \in {"look", "judge"} \/ calls[c].runError = "rejected"

(***************************************************************************)
(* What holds of the confirmation without a lock: only calls that overlap  *)
(* run on one approval, and a call on an older approval never undoes a     *)
(* rejection, since both flags keep it (tool.go:402-430).  Of an approval  *)
(* less holds, which the next two statements show.                         *)
(***************************************************************************)
ApprovalsHold == SharedApprovalOverlaps /\ RejectionHolds

(***************************************************************************)
(* "a second call with SetConfirmed(true) executes the actual handler"     *)
(* (README.md:375): an approval is of one call.  Overlapping calls read    *)
(* confirmedCall before one of them clears it (tool.go:404-405): this does *)
(* not hold.                                                               *)
(***************************************************************************)
ApprovalRunsOneCall ==
    \A c, d \in Calls : c # d /\ calls[c].using # 0 => calls[c].using # calls[d].using

(***************************************************************************)
(* "Call after SetConfirmed(true): executes the inner tool normally"       *)
(* (.rive-artifacts/11-tool-context-confirmation.md:17): an approval is    *)
(* there until a call has run on it.  A call on an older approval clears   *)
(* the newer one, and the next call asks again (tool.go:405): this does    *)
(* not hold.                                                               *)
(***************************************************************************)
ApprovalReachesACall ==
    verdict = "approved" => confirmedCall \/ \E c \in Calls : calls[c].using = settings

(***************************************************************************)
(* The failures of parallel calls are numbered one by one since the last   *)
(* success: no number is given twice and none is left out, and the count   *)
(* is the last number given (retryreflect's OnToolError and its mutex).    *)
(***************************************************************************)
AttemptsAreNumbered ==
    /\ failures = Len(attempts)
    /\ \A i \in DOMAIN attempts : attempts[i] = i

(***************************************************************************)
(* Only a call whose tool returned without an error resets the count.  The *)
(* flow clears the error of each failure that OnToolError answered before  *)
(* AfterTool looks at it, so that the result alone tells.                  *)
(***************************************************************************)
OnlySuccessResets ==
    [][failures' < failures =>
          \E c \in Calls : /\ calls[c].pc = "after" /\ calls'[c].pc = "done"
                           /\ calls[c].runError = "none"]_vars

(***************************************************************************)
(* Without retryreflect the answer to a call that waits for confirmation   *)
(* or was refused tells the model so, beside whatever error it carries.    *)
(***************************************************************************)
VerdictIsTold ==
    kind = "wrapped" /\ ~reflects =>
        \A c \in Calls : calls[c].pc = "done" =>
            /\ calls[c].runError = "required" => "confirmation_required" \in calls[c].result
            /\ calls[c].runError = "rejected" => "confirmation_rejected" \in calls[c].result

(***************************************************************************)
(* The same of every flow: "On first call the tool returns                 *)
(* {"confirmation_required": true}" (README.md).  retryreflect replaces    *)
(* that result by a reflection on a failure.                               *)
(***************************************************************************)
PromptReachesModel ==
    \A c \in Calls : kind = "wrapped" /\ calls[c].pc = "done" =>
        (calls[c].runError = "required" => "confirmation_required" \in calls[c].result)
=============================================================================
