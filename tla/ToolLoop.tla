------------------------------ MODULE ToolLoop ------------------------------
(***************************************************************************)
(* One generation with tools (internal/loop/tools.go, ToolProvider.Handle; *)
(* host_correction.go; plan_gate.go): the actor is asked again and again,  *)
(* and every response is a plan operation, a batch of external calls, a    *)
(* page of the catalog, a final text, or something to be corrected.        *)
(*                                                                         *)
(* Responses, evaluators, validation, the plan's own rules and the MCP     *)
(* server are free to answer anything.  A response is handled in one step: *)
(* nothing else runs meanwhile.  A cancelled run ends at the next check of *)
(* its context.                                                            *)
(***************************************************************************)
EXTENDS Catalog, Sequences, FiniteSets, TLC

CONSTANTS
    MaxCorrections,         \* tools.go: 2
    MaxRecoveryTurns,       \* tools.go: 2
    MaxPlanningRejections,  \* tools.go: 32
    MaxHostCorrection,      \* host_correction.go: 10
    MaxPageSelections,      \* tools.go: 32
    MaxInvocations,         \* mcp/policy.go: 32
    MaxBatchCalls,          \* mcp/policy.go: 8
    MaxLineage,             \* planning.go: 8, the depth of the task stack
    ToolCounts              \* the sizes of catalog to consider

ASSUME ToolLoopAssumption ==
    /\ MaxCorrections \in Nat /\ MaxRecoveryTurns \in Nat
    /\ MaxHostCorrection \in Nat /\ MaxPageSelections \in Nat
    /\ MaxInvocations \in Nat /\ MaxBatchCalls \in Nat \ {0}
    /\ MaxLineage \in Nat \ {0} /\ ToolCounts \subseteq Nat
    /\ MaxPlanningRejections \in Nat
    /\ MaxHostCorrection + 1 < MaxPlanningRejections

VARIABLES
    pc,              \* "head", "generate", "batch", "reconcile", "done", "failed"
    plans,           \* how the plan of each task of the stack stands
    pending,         \* the host correction, or NoCorrection
    corrections,
    recovery,        \* "none", or "pending" after a failed invocation
    recoveryTurns,
    planRejections,
    pageSelections,
    catalog,         \* number of tools
    catalogPage,
    invocations,     \* calls sent by the runtime
    outcomes,        \* what became of the calls of the batch so far
    queue,           \* calls of the batch that are left
    accepted         \* the planning action accepted in this turn

vars == <<pc, plans, pending, corrections, recovery, recoveryTurns, planRejections,
          pageSelections, catalog, catalogPage, invocations, outcomes, queue, accepted>>

planVars == <<plans, accepted>>
batchVars == <<invocations, outcomes, queue>>
pageVars == <<pageSelections, catalog, catalogPage>>
recoveryVars == <<recovery, recoveryTurns>>

-----------------------------------------------------------------------------
(* Plans, planning commands and corrections. *)

\* No step, an unfinished step, none unfinished, all satisfied and evaluated.
PlanStatus == {"none", "open", "finished", "satisfied"}

Active == plans[Len(plans)]
HasUnresolvedSteps == Active = "open"

\* A patch is a revision here, and a revision that leaves no step unfinished
\* "conclude"s.  "opaque" arguments do not decode; "misstated" ones do not
\* either but hold a readable plan; "broken" ones are no JSON, or too long.
PlanCommand == {"revise", "conclude", "create_child", "complete_child", "abandon_child",
                "opaque", "misstated", "broken"}

Revision == {"revise", "conclude"}
ChildOperation == {"create_child", "complete_child", "abandon_child"}

NoCorrection == [kind |-> "none", attempts |-> 0, intent |-> "none", arguments |-> "none"]

\* What is retained of rejected arguments: the action they ask for, or that
\* they hold a plan to be repaired.
Retained(cmd) ==
    IF cmd \in Revision \cup {"misstated"} THEN "revise"
    ELSE IF cmd = "broken" THEN "none" ELSE cmd

NewHostCorrection(cmd) ==
    [NoCorrection EXCEPT !.kind = "rejected", !.arguments = Retained(cmd)]

Correcting == pending.kind /= "none"

\* Mutant: an operation that was rejected is corrected by the same operation,
\* whatever the actor declared.
ValidateWithoutIntent(p, cmd) ==
    /\ cmd \in Revision \cup ChildOperation
    /\ p.arguments = "revise" => cmd \in Revision
    /\ p.arguments \in ChildOperation => cmd = p.arguments

\* What can be known of validateHostCorrection without its evaluators: an
\* operation that was rejected is corrected by the same operation, and what
\* the actor declared or proposed by a revision.
ValidateHostCorrection(p, cmd) ==
    /\ cmd \in Revision \cup ChildOperation
    /\ p.intent /= "none" => cmd \in Revision
    /\ p.arguments = "revise" => cmd \in Revision
    /\ p.arguments \in ChildOperation => cmd = p.arguments

\* A required plan is a plan with unfinished work, unless the task ends.
MeetsRequirement(p, cmd) ==
    p.kind = "required" => cmd \in {"revise", "complete_child", "abandon_child"}

\* What may get to managePlan while p is pending.
MayCorrect(p, cmd) == MeetsRequirement(p, cmd) /\ ValidateHostCorrection(p, cmd)

\* managePlan, as far as it does not depend on the contents of the plan.
MayAccept(cmd) ==
    \/ cmd = "revise"
    \/ cmd = "conclude" /\ HasUnresolvedSteps
    \/ cmd = "create_child" /\ Len(plans) < MaxLineage
    \/ cmd = "complete_child" /\ Len(plans) > 1 /\ Active = "satisfied"
    \/ cmd = "abandon_child" /\ Len(plans) > 1

\* The plans an accepted command may leave.
Managed(cmd) ==
    CASE cmd = "revise" -> {[plans EXCEPT ![Len(plans)] = "open"]}
      [] cmd = "conclude" -> {[plans EXCEPT ![Len(plans)] = st] : st \in {"finished", "satisfied"}}
      [] cmd = "create_child" -> {Append(plans, "none")}
      [] OTHER -> {SubSeq(plans, 1, Len(plans) - 1)}

-----------------------------------------------------------------------------
(* Responses: planning calls, other calls, whether they select a page, text. *)

Texts == {"empty", "prose", "long", "markup"}

\* What comes with a planning call is told apart only by whether it is there,
\* and what comes with two of them not at all.
Response ==
    [planCalls : {0}, others : 0..(MaxBatchCalls + 1), page : {"none"}, text : Texts,
     command : {"none"}]
    \cup [planCalls : {0}, others : {1}, page : {"valid", "invalid"}, text : Texts,
          command : {"none"}]
    \cup [planCalls : {1}, others : {0, 1}, page : {"none"}, text : Texts,
          command : PlanCommand]
    \cup [planCalls : {2}, others : {0}, page : {"none"}, text : {"empty"}, command : {"none"}]

NoCalls(r) == r.planCalls = 0 /\ r.others = 0
Standalone(r) == r.planCalls = 1 /\ r.others = 0

Init ==
    /\ pc = "head"
    /\ plans = <<"none">>
    /\ pending = NoCorrection
    /\ corrections = 0
    /\ recovery = "none" /\ recoveryTurns = 0
    /\ planRejections = 0
    /\ pageSelections = 0
    /\ catalog \in ToolCounts
    /\ catalogPage \in (IF Paged(catalog) THEN SelectedPage(catalog) ELSE {0})
    /\ invocations = 0
    /\ outcomes = <<>> /\ queue = 0
    /\ accepted = "none"

-----------------------------------------------------------------------------
(* Ends and corrections every response may lead to. *)

Fail ==
    /\ pc' = "failed"
    /\ UNCHANGED <<planVars, pending, corrections, recoveryVars, planRejections,
                   pageVars, batchVars>>

\* Mutant: every response starts with fresh corrections.
CorrectAfresh == corrections' = 0

\* A response that counts against the corrections of the generation.
Correct == corrections < MaxCorrections /\ corrections' = corrections + 1

\* Another turn: nothing but corrections and what the conjunct names changes.
CorrectOrFail ==
    /\ UNCHANGED <<planVars, pending, planRejections, pageVars, batchVars>>
    /\ \/ Correct /\ pc' = "head"
       \/ corrections >= MaxCorrections /\ pc' = "failed" /\ UNCHANGED corrections

\* A response was delivered while an invocation failure is outstanding.
Delivered ==
    /\ recovery' = recovery
    /\ recoveryTurns' = IF recovery = "pending" /\ ~ Correcting THEN recoveryTurns + 1
                                                                ELSE recoveryTurns

-----------------------------------------------------------------------------
(* The head of a turn. *)

\* Mutant: a plan is asked for only when there is none.
AtBoundaryUnplanned == ~ Correcting /\ Active = "none"

AtBoundary == ~ Correcting /\ ~ HasUnresolvedSteps

\* The objective is evaluated; without it a plan is required.
EvaluateBoundary ==
    /\ pc = "head" /\ AtBoundary
    /\ \/ Fail
       \/ /\ pc' = "done"
          /\ UNCHANGED pending
       \/ /\ pending' = [NoCorrection EXCEPT !.kind = "required"]
          /\ UNCHANGED pc
    /\ UNCHANGED <<planVars, corrections, recoveryVars, planRejections, pageVars, batchVars>>

Exhausted ==
    \/ planRejections >= MaxPlanningRejections
    \/ Correcting /\ pending.attempts >= MaxHostCorrection
    \/ ~ Correcting /\ recovery = "pending" /\ recoveryTurns >= MaxRecoveryTurns

GiveUp == pc = "head" /\ ~ AtBoundary /\ Exhausted /\ Fail

\* The request: the planning tool alone while a correction is pending.
Ask ==
    /\ pc = "head" /\ ~ AtBoundary /\ ~ Exhausted
    /\ pc' = "generate"
    /\ accepted' = "none"
    /\ UNCHANGED <<plans, pending, corrections, recoveryVars, planRejections, pageVars,
                   batchVars>>

GenerationFails ==
    /\ pc = "generate"
    /\ Fail \/ (CorrectOrFail /\ UNCHANGED recoveryVars)

\* Two planning operations in one response are ambiguous.
Ambiguous == pc = "generate" /\ Delivered /\ pc' = "failed"
             /\ UNCHANGED <<planVars, pending, corrections, planRejections, pageVars, batchVars>>

-----------------------------------------------------------------------------
(* While a correction is pending. *)

Unusable(r) ==
    /\ pc = "generate" /\ Correcting
    /\ NoCalls(r) /\ r.text \in {"empty", "markup"}
    /\ Delivered /\ CorrectOrFail

\* The first planning call that a required plan is answered with is retained.
CaptureArguments(r) ==
    IF pending.kind = "required" /\ r.planCalls = 1 /\ pending.arguments = "none"
    THEN Retained(r.command) ELSE pending.arguments

\* Nothing but a planning call alone: no call is executed, and the intent a
\* required plan is answered with is kept.
Bypass(r) ==
    /\ pc = "generate" /\ Correcting
    /\ r.planCalls <= 1 /\ ~ Standalone(r)
    /\ NoCalls(r) => r.text \in {"prose", "long"}
    /\ Delivered
    /\ pending' = [pending EXCEPT
                     !.attempts = @ + 1,
                     !.arguments = CaptureArguments(r),
                     !.intent = IF pending.kind = "required" /\ @ = "none"
                                   /\ r.text \in {"prose", "markup"} THEN "kept" ELSE @]
    /\ pc' = "head"
    /\ UNCHANGED <<planVars, corrections, planRejections, pageVars, batchVars>>

Answered(r) == [pending EXCEPT !.attempts = @ + 1, !.arguments = CaptureArguments(r)]

\* The operation is not a correction: the evaluators and the diagnostics may
\* find that of any.
RefuseCorrection(r) ==
    /\ pc = "generate" /\ Correcting /\ Standalone(r)
    /\ Delivered
    /\ pending' = Answered(r)
    /\ pc' = "head"
    /\ UNCHANGED <<planVars, corrections, planRejections, pageVars, batchVars>>

-----------------------------------------------------------------------------
(* Planning operations. *)

\* An operation alone that is a correction, if one is pending, gets to managePlan.
Submitted(r) ==
    /\ pc = "generate" /\ Standalone(r)
    /\ Correcting => MayCorrect(Answered(r), r.command)

PlanAccepted(r) ==
    /\ Submitted(r)
    /\ MayAccept(r.command)
    /\ Delivered
    /\ plans' \in Managed(r.command)
    /\ accepted' = r.command
    /\ pending' = NoCorrection
    /\ planRejections' = 0
    /\ pc' = "head"
    /\ UNCHANGED <<corrections, pageVars, batchVars>>

\* Mutant: a rejected operation alone starts no correction.
PlanRejectedForgotten(r) ==
    /\ Submitted(r)
    /\ Delivered
    /\ planRejections' = planRejections + 1
    /\ pending' = IF Correcting THEN Answered(r) ELSE NoCorrection
    /\ pc' = "head"
    /\ UNCHANGED <<planVars, corrections, pageVars, batchVars>>

PlanRejected(r) ==
    /\ Submitted(r)
    /\ Delivered
    /\ planRejections' = planRejections + 1
    /\ pending' = IF Correcting THEN Answered(r) ELSE NewHostCorrection(r.command)
    /\ pc' = "head"
    /\ UNCHANGED <<planVars, corrections, pageVars, batchVars>>

\* The diagnostics of a planning operation cannot be written.
FlushFails(r) == Submitted(r) /\ Fail

\* A planning operation with company: none of the calls executes.
Companion(r) ==
    /\ pc = "generate" /\ ~ Correcting
    /\ r.planCalls = 1 /\ r.others > 0
    /\ Delivered
    /\ pending' = NewHostCorrection(r.command)
    /\ pc' = "head"
    /\ UNCHANGED <<planVars, corrections, planRejections, pageVars, batchVars>>

-----------------------------------------------------------------------------
(* External calls, pages and final texts. *)

Unimpeded(r) == pc = "generate" /\ ~ Correcting /\ r.planCalls = 0

\* Calls with a text that declares a procedure which is not in the plan.
CaptureIntent(r) ==
    /\ Unimpeded(r) /\ r.others > 0 /\ r.text /= "empty"
    /\ Delivered
    /\ \/ /\ pending' = [NoCorrection EXCEPT !.kind = "rejected",
                           !.intent = IF r.text = "long" THEN "long" ELSE "kept"]
          /\ pc' = "head"
       \/ r.text /= "long" /\ pc' = "failed" /\ UNCHANGED pending
    /\ UNCHANGED <<planVars, corrections, planRejections, pageVars, batchVars>>

PrintedMarkup(r) ==
    /\ Unimpeded(r) /\ NoCalls(r) /\ r.text = "markup"
    /\ Delivered /\ CorrectOrFail

FinalResponse(r) ==
    /\ Unimpeded(r) /\ NoCalls(r) /\ r.text /= "markup"
    /\ Delivered
    /\ pc' = "done"
    /\ UNCHANGED <<planVars, pending, corrections, planRejections, pageVars, batchVars>>

\* The text of calls that go on declares nothing, or nothing new.
Proceeds(r) == Unimpeded(r) /\ r.others > 0 /\ r.text /= "long"

SelectPage(r) ==
    /\ Proceeds(r) /\ r.page /= "none"
    /\ Delivered
    /\ \/ /\ pageSelections >= MaxPageSelections /\ pc' = "failed"
          /\ UNCHANGED <<corrections, pageVars>>
       \/ /\ pageSelections < MaxPageSelections /\ r.page = "valid"
          /\ catalogPage' \in SelectedPage(catalog)
          /\ pageSelections' = pageSelections + 1
          /\ pc' = "head"
          /\ UNCHANGED <<corrections, catalog>>
       \/ /\ pageSelections < MaxPageSelections /\ r.page = "invalid"
          /\ UNCHANGED pageVars
          /\ \/ Correct /\ pc' = "head"
             \/ corrections >= MaxCorrections /\ pc' = "failed" /\ UNCHANGED corrections
    /\ UNCHANGED <<planVars, pending, planRejections, batchVars>>

\* Mutant: the batch is not checked against what is left of the budget.
WithinBatch(n) == n <= MaxBatchCalls

WithinBudget(n) == n <= MaxBatchCalls /\ n <= MaxInvocations - invocations

\* A batch beyond the budget or with a sensitive value ends the generation,
\* an invalid one is corrected.
PreflightFails(r) ==
    /\ Proceeds(r) /\ r.page = "none"
    /\ Delivered
    /\ \/ /\ WithinBudget(r.others) /\ CorrectOrFail
       \/ /\ pc' = "failed"
          /\ UNCHANGED <<planVars, pending, corrections, planRejections, pageVars, batchVars>>

\* The whole batch is queued, or none of it.
QueueBatch(r) ==
    /\ Proceeds(r) /\ r.page = "none"
    /\ WithinBudget(r.others)
    /\ Delivered
    /\ queue' = r.others
    /\ outcomes' = <<>>
    /\ pc' = "batch"
    /\ UNCHANGED <<planVars, pending, corrections, planRejections, pageVars, invocations>>

-----------------------------------------------------------------------------
(* The batch, call by call. *)

SkipRemaining == \E i \in DOMAIN outcomes : outcomes[i] = "failed"

Settle(outcome) ==
    /\ outcomes' = Append(outcomes, outcome)
    /\ queue' = queue - 1
    /\ UNCHANGED <<pc, planVars, pending, corrections, planRejections, pageVars>>

\* A valid result, admitted: whatever failed before is over.
Invoke ==
    /\ pc = "batch" /\ queue > 0 /\ ~ SkipRemaining
    /\ invocations' = invocations + 1
    /\ recovery' = "none" /\ recoveryTurns' = 0
    /\ Settle("result")

InvocationFails ==
    /\ pc = "batch" /\ queue > 0 /\ ~ SkipRemaining
    /\ invocations' = invocations + 1
    /\ recovery' = "pending" /\ UNCHANGED recoveryTurns
    /\ Settle("failed")

\* Mutant: the calls behind a failed one are tried all the same.
InvokeRegardless ==
    /\ pc = "batch" /\ queue > 0 /\ SkipRemaining
    /\ invocations' = invocations + 1
    /\ recovery' = "none" /\ recoveryTurns' = 0
    /\ Settle("result")

\* A call behind the failed one is recorded, and not sent.
SkipCall ==
    /\ pc = "batch" /\ queue > 0 /\ SkipRemaining
    /\ UNCHANGED <<invocations, recoveryVars>>
    /\ Settle("not_attempted")

\* A result with a sensitive value, or a step of the task store that fails.
BatchFails == pc = "batch" /\ Fail

EndBatch ==
    /\ pc = "batch" /\ queue = 0
    /\ pc' = "reconcile"
    /\ UNCHANGED <<planVars, pending, corrections, recoveryVars, planRejections, pageVars,
                   batchVars>>

\* Steps may be found done, and with them the last one.
Reconcile ==
    /\ pc = "reconcile"
    /\ \/ Fail
       \/ /\ pc' = "head"
          /\ plans' \in {[plans EXCEPT ![Len(plans)] = st] : st \in {"open", "finished"}}
    /\ UNCHANGED <<accepted, pending, corrections, recoveryVars, planRejections, pageVars,
                   batchVars>>

-----------------------------------------------------------------------------
\* A cancelled run ends at the next check of its context.
Cancel == pc \notin {"done", "failed"} /\ Fail

Respond ==
    \E r \in Response :
       /\ r.page /= "none" => Paged(catalog)
       /\ \/ r.planCalls = 2 /\ Ambiguous
          \/ Unusable(r) \/ Bypass(r) \/ RefuseCorrection(r)
          \/ PlanAccepted(r) \/ PlanRejected(r) \/ FlushFails(r) \/ Companion(r)
          \/ CaptureIntent(r) \/ PrintedMarkup(r) \/ FinalResponse(r)
          \/ SelectPage(r) \/ PreflightFails(r) \/ QueueBatch(r)

Step ==
    \/ EvaluateBoundary \/ GiveUp \/ Ask \/ GenerationFails \/ Respond
    \/ Invoke \/ InvocationFails \/ SkipCall \/ BatchFails \/ EndBatch
    \/ Reconcile

Next == Step \/ Cancel

Spec == Init /\ [][Next]_vars

\* Every request, evaluation and call returns: each has its timeout.
FairSpec == Spec /\ WF_vars(Step)

-----------------------------------------------------------------------------
TypeOK ==
    /\ pc \in {"head", "generate", "batch", "reconcile", "done", "failed"}
    /\ plans \in Seq(PlanStatus) /\ Len(plans) \in 1..MaxLineage
    /\ pending \in [kind : {"none", "rejected", "required"}, attempts : 0..MaxHostCorrection,
                    intent : {"none", "kept", "long"},
                    arguments : {"none", "revise", "opaque"} \cup ChildOperation]
    /\ corrections \in 0..MaxCorrections
    /\ recovery \in {"none", "pending"} /\ recoveryTurns \in 0..MaxRecoveryTurns
    /\ planRejections \in 0..(MaxHostCorrection + 1)
    /\ pageSelections \in 0..MaxPageSelections
    /\ catalog \in Nat /\ catalogPage \in Nat
    /\ invocations \in 0..MaxInvocations
    /\ outcomes \in Seq({"result", "failed", "not_attempted"})
    /\ queue \in 0..MaxBatchCalls
    /\ accepted \in PlanCommand \cup {"none"}

\* "Standalone correction now bounds repeated invalid proposals before the
\* general 32-rejection allowance can be exhausted": rejections are counted
\* only as far as the correction they are part of, and none is left behind by
\* one that ended.  Failed calls, pages and plan operations in between, at
\* most two responses are delivered to an unresolved failure.
Allowances ==
    /\ planRejections <= (IF Correcting THEN pending.attempts + 1 ELSE 0)
    /\ planRejections < MaxPlanningRejections
    /\ recoveryTurns <= (IF recovery = "pending" THEN MaxRecoveryTurns ELSE 0)

\* No call is dispatched and no text becomes the response of the generation
\* while a correction is pending or the plan of the active task has no
\* unfinished step, whatever the actor was asked before.
NoBypass ==
    [][(pc = "generate" /\ pc' \in {"batch", "done"}) => HasUnresolvedSteps /\ ~ Correcting]_vars

\* What the actor declared, or proposed and had rejected, stays until an
\* accepted revision stands for it; a rejected operation on a child until it
\* is accepted itself.
IntentKept ==
    [][Correcting /\ pending' /= pending =>
         IF Correcting'
         THEN /\ pending.intent /= "none" => pending'.intent = pending.intent
              /\ pending.arguments /= "none" => pending'.arguments = pending.arguments
         ELSE /\ pending.intent /= "none" \/ pending.arguments = "revise" =>
                    accepted' \in Revision
              /\ pending.arguments \in ChildOperation => accepted' = pending.arguments]_vars

\* Every call of a batch has one outcome, in order: results up to the first
\* failure, nothing attempted behind it, and the failure is outstanding for as
\* long as no later batch brings a result.
BatchHonest ==
    /\ \A i, j \in DOMAIN outcomes : i < j =>
          /\ outcomes[i] /= "result" => outcomes[j] = "not_attempted"
          /\ outcomes[j] = "not_attempted" => \E k \in DOMAIN outcomes : outcomes[k] = "failed"
    /\ outcomes /= <<>> => (SkipRemaining <=> recovery = "pending")

\* Every tool of the catalog is on exactly one page that can be selected, no
\* request carries more definitions than the limit, and the page shown exists.
CatalogComplete ==
    /\ \A t \in 1..catalog : \E page \in SelectedPage(catalog) :
          /\ t \in CatalogPage(catalog, page)
          /\ \A other \in SelectedPage(catalog) \ {page} :
                Paged(catalog) => t \notin CatalogPage(catalog, other)
    /\ Paged(catalog) => catalogPage \in SelectedPage(catalog)
    /\ Cardinality(CatalogPage(catalog, catalogPage)) + Pinned
          + (IF Paged(catalog) THEN 1 ELSE 0) <= CatalogLimit

\* A generation ends unless the actor has planning operations accepted forever:
\* everything else it may do draws on an allowance.
EndsUnlessReplanning ==
    []<>(accepted /= "none") \/ <>(pc \in {"done", "failed"})

\* The correction of a required plan says: "Submit or resubmit
\* grodt_manage_plan alone with action revise or patch and at least one
\* unfinished step" (host_correction.go).  Such a revision may be accepted.
RevisionCorrects ==
    pending.kind = "required" => MayCorrect(pending, "revise")

=============================================================================
