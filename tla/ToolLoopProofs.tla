--------------------------- MODULE ToolLoopProofs ---------------------------
(***************************************************************************)
(* The safety properties of ToolLoop, for every allowance, every size of   *)
(* batch and lineage, and every catalog.                                   *)
(*                                                                         *)
(* TypeOK is not inductive: that the counters stay within their allowances *)
(* rests on what the head of a turn checks, and holds while the response   *)
(* is being handled.  TurnInv says what that is.                           *)
(*                                                                         *)
(* First come the pages of a catalog, for every number of tools, page size *)
(* and number of pinned definitions.                                       *)
(***************************************************************************)
EXTENDS ToolLoop, FiniteSetTheorems, TLAPS

LEMMA PageSizeType ==
    /\ PageSize \in Nat /\ PageSize >= 1
    /\ Pinned \in Nat
    /\ PageSize + Pinned + 1 = CatalogLimit
  BY CatalogAssumption DEF CatalogAssumption, PageSize

\* Multiplication is monotonic and distributes, which is all the arithmetic of
\* pages beside division.
LEMMA PageStart ==
    ASSUME NEW p \in Nat, NEW a \in Nat, NEW b \in Nat, a < b
    PROVE  /\ p * a \in Nat /\ p * b \in Nat
           /\ p * (a + 1) = p * a + p
           /\ p * (a + 1) <= p * b
  <1>1. PICK d \in Nat : b = a + 1 + d
    <2>1. b - a - 1 \in Nat /\ b = a + 1 + (b - a - 1)
      OBVIOUS
    <2> QED
      BY <2>1
  <1>2. p * d \in Nat /\ p * a \in Nat /\ p * b \in Nat
    OBVIOUS
  <1>3. p * (a + 1) = p * a + p
    OBVIOUS
  <1>4. p * b = p * (a + 1) + p * d
    BY <1>1
  <1> QED
    BY <1>2, <1>3, <1>4

\* Every tool is on one page that can be selected.
LEMMA OnAPage ==
    ASSUME NEW tools \in Nat, NEW t \in 1..tools
    PROVE  \E page \in SelectedPage(tools) : t \in CatalogPage(tools, page)
  <1> DEFINE P == PageSize
  <1>1. P \in Nat /\ P >= 1 /\ t \in Nat /\ t >= 1 /\ t <= tools
    BY PageSizeType
  <1> DEFINE page == (t - 1) \div P
             count == (tools + P - 1) \div P
  <1>2. page \in Nat /\ P * page <= t - 1 /\ t - 1 < P * page + P
    BY <1>1 DEF P
  <1>3. count \in Nat /\ P * count <= tools + P - 1 /\ tools + P - 1 < P * count + P
    BY <1>1
  <1>4. P * (page + 1) = P * page + P
    BY <1>1, <1>2
  <1>5. page < count
    <2> SUFFICES ASSUME count <= page PROVE FALSE
      BY <1>2, <1>3
    <2>1. P * count <= P * page
      <3>1. CASE count = page
        BY <3>1, <1>1, <1>2
      <3>2. CASE count < page
        BY <3>2, <1>1, <1>2, <1>3, PageStart
      <3> QED
        BY <1>2, <1>3, <3>1, <3>2
    <2>2. P * count \in Nat /\ P * page \in Nat
      BY <1>1, <1>2, <1>3
    <2> QED
      BY <1>1, <1>2, <1>3, <2>1, <2>2
  <1>6. page \in SelectedPage(tools)
    BY <1>2, <1>3, <1>5 DEF SelectedPage, PageCount
  <1>7. P * page \in Nat
    BY <1>1, <1>2
  <1>8. P * page < t /\ t <= P * (page + 1)
    BY <1>1, <1>2, <1>4, <1>7
  <1> HIDE DEF page
  <1> QED
    BY <1>6, <1>8 DEF CatalogPage

\* No tool is on two pages of a catalog that has pages.
LEMMA OnOnePage ==
    ASSUME NEW tools \in Nat, Paged(tools),
           NEW a \in Nat, NEW b \in Nat, a < b
    PROVE  CatalogPage(tools, a) \cap CatalogPage(tools, b) = {}
  <1> SUFFICES ASSUME NEW t \in 1..tools, t <= PageSize * (a + 1), PageSize * b < t
               PROVE  FALSE
    BY DEF CatalogPage
  <1>1. PageSize * (a + 1) <= PageSize * b /\ PageSize * b \in Nat /\ PageSize * a + PageSize \in Nat
        /\ PageSize * (a + 1) = PageSize * a + PageSize
    BY PageSizeType, PageStart
  <1> QED
    BY <1>1

\* A page, the pinned definitions and the selector are no more definitions
\* than a request may carry.
LEMMA PageFits ==
    ASSUME NEW tools \in Nat, NEW page \in Nat
    PROVE  Cardinality(CatalogPage(tools, page)) + Pinned
             + (IF Paged(tools) THEN 1 ELSE 0) <= CatalogLimit
  <1>1. CatalogLimit \in Nat
    BY CatalogAssumption DEF CatalogAssumption
  <1>2. CASE ~ Paged(tools)
    <2>1. CatalogPage(tools, page) = 1..tools
      BY <1>2 DEF CatalogPage
    <2>2. Cardinality(1..tools) = tools
      BY FS_Interval
    <2> QED
      BY <1>1, <1>2, <2>1, <2>2, PageSizeType DEF Paged
  <1>3. CASE Paged(tools)
    <2> DEFINE first == PageSize * page + 1
               last == PageSize * page + PageSize
    <2>1. first \in Nat /\ last \in Nat /\ PageSize * (page + 1) = last
      BY PageSizeType
    <2>2. CatalogPage(tools, page) \subseteq first..last
      BY <1>3, <2>1, PageSizeType DEF CatalogPage
    <2>3. IsFiniteSet(first..last) /\ Cardinality(first..last) = PageSize
      BY <2>1, PageSizeType, FS_Interval
    <2>4. /\ Cardinality(CatalogPage(tools, page)) \in Nat
          /\ Cardinality(CatalogPage(tools, page)) <= PageSize
      BY <2>2, <2>3, FS_Subset, FS_CardinalityType
    <2> QED
      BY <1>1, <1>3, <2>4, PageSizeType
  <1> QED
    BY <1>2, <1>3

-----------------------------------------------------------------------------
(* The turns *)

\* What the head of a turn has established while a response is awaited, and
\* what the preflight has while a batch lasts.
TurnInv ==
    /\ pc = "generate" =>
         IF Correcting THEN pending.attempts < MaxHostCorrection
         ELSE /\ HasUnresolvedSteps
              /\ recovery = "pending" => recoveryTurns < MaxRecoveryTurns
    /\ pc \in {"batch", "reconcile"} => ~ Correcting
    /\ pc = "batch" => invocations + queue <= MaxInvocations
    /\ catalogPage \in Nat

LoopInv == TypeOK /\ Allowances /\ TurnInv

\* The parts of a response.
LEMMA ResponseType ==
    ASSUME NEW r \in Response
    PROVE  /\ r.planCalls \in 0..2
           /\ r.others \in 0 .. (MaxBatchCalls + 1)
           /\ r.page \in {"none", "valid", "invalid"}
           /\ r.command \in PlanCommand \cup {"none"}
           /\ r.planCalls = 1 => r.command \in PlanCommand
  BY ToolLoopAssumption DEF ToolLoopAssumption, Response

\* The stack of tasks is never empty, and its top is a plan.
LEMMA ActiveType ==
    ASSUME TypeOK
    PROVE  /\ Len(plans) \in Nat /\ Len(plans) >= 1 /\ Active \in PlanStatus
           /\ MaxLineage \in Nat
  BY ToolLoopAssumption DEF ToolLoopAssumption, TypeOK, Active

\* What an accepted operation leaves of the stack.
LEMMA ManagedType ==
    ASSUME TypeOK, NEW cmd \in PlanCommand, MayAccept(cmd), NEW stack \in Managed(cmd)
    PROVE  stack \in Seq(PlanStatus) /\ Len(stack) \in 1..MaxLineage
  <1>1. /\ plans \in Seq(PlanStatus) /\ Len(plans) \in 1..MaxLineage
        /\ Len(plans) \in Nat /\ MaxLineage \in Nat
    BY ActiveType DEF TypeOK
  <1>2. CASE cmd \in {"revise", "conclude"}
    <2>1. PICK st \in PlanStatus : stack = [plans EXCEPT ![Len(plans)] = st]
      BY <1>2 DEF Managed, PlanStatus
    <2> QED
      BY <1>1, <2>1
  <1>3. CASE cmd = "create_child"
    <2>1. stack = Append(plans, "none") /\ Len(plans) < MaxLineage /\ "none" \in PlanStatus
      BY <1>3 DEF Managed, MayAccept, PlanStatus
    <2> QED
      BY <1>1, <2>1
  <1>4. CASE cmd \in {"complete_child", "abandon_child"}
    <2>1. stack = SubSeq(plans, 1, Len(plans) - 1) /\ Len(plans) > 1
      BY <1>4 DEF Managed, MayAccept
    <2> QED
      BY <1>1, <2>1
  <1> QED
    BY <1>2, <1>3, <1>4 DEF MayAccept

Arguments == {"none", "revise", "opaque"} \cup ChildOperation
Corrections ==
    [kind : {"none", "rejected", "required"}, attempts : 0..MaxHostCorrection,
     intent : {"none", "kept", "long"}, arguments : Arguments]

\* What is retained of arguments, and what a correction may become.
LEMMA CorrectionType ==
    ASSUME TypeOK, NEW r \in Response
    PROVE  /\ pending \in Corrections
           /\ CaptureArguments(r) \in Arguments
           /\ r.planCalls = 1 => NewHostCorrection(r.command) \in Corrections
           /\ NoCorrection \in Corrections
  <1>1. \A cmd \in PlanCommand : Retained(cmd) \in Arguments
    BY DEF Retained, PlanCommand, Revision, ChildOperation, Arguments
  <1>2. pending \in Corrections
    BY DEF TypeOK, Corrections, Arguments
  <1>3. NoCorrection \in Corrections
    BY ToolLoopAssumption DEF ToolLoopAssumption, NoCorrection, Corrections, Arguments
  <1>4. CaptureArguments(r) \in Arguments
    BY <1>1, <1>2, ResponseType DEF CaptureArguments, Corrections
  <1>5. r.planCalls = 1 => NewHostCorrection(r.command) \in Corrections
    BY <1>1, <1>3, ResponseType DEF NewHostCorrection, Corrections
  <1> QED
    BY <1>2, <1>3, <1>4, <1>5

\* A correction that one more response was given to.
LEMMA CorrectionCounts ==
    ASSUME NEW p \in Corrections, NEW n \in 0..MaxHostCorrection, NEW arguments \in Arguments
    PROVE  /\ [p EXCEPT !.attempts = n, !.arguments = arguments] \in Corrections
           /\ [p EXCEPT !.attempts = n, !.arguments = arguments].attempts = n
           /\ [p EXCEPT !.attempts = n, !.arguments = arguments].kind = p.kind
  BY DEF Corrections

LEMMA RequiredCorrection ==
    LET q == [NoCorrection EXCEPT !.kind = "required"]
    IN  q \in Corrections /\ q.attempts = 0 /\ q.kind = "required"
  BY ToolLoopAssumption DEF ToolLoopAssumption, NoCorrection, Corrections, Arguments

LEMMA IntentCounts ==
    ASSUME NEW p \in Corrections, NEW n \in 0..MaxHostCorrection, NEW arguments \in Arguments,
           NEW intent \in {"none", "kept", "long"}
    PROVE  LET q == [p EXCEPT !.attempts = n, !.arguments = arguments, !.intent = intent]
           IN  q \in Corrections /\ q.attempts = n /\ q.kind = p.kind
  BY DEF Corrections

-----------------------------------------------------------------------------
(* The invariant *)

RecoveryInv ==
    /\ recovery \in {"none", "pending"} /\ recoveryTurns \in 0..MaxRecoveryTurns
    /\ recoveryTurns <= (IF recovery = "pending" THEN MaxRecoveryTurns ELSE 0)

\* A response that is delivered counts as a recovery turn only below the limit.
LEMMA DeliveredStep ==
    ASSUME LoopInv, pc = "generate", Delivered
    PROVE  RecoveryInv'
  BY ToolLoopAssumption
     DEF ToolLoopAssumption, LoopInv, TypeOK, Allowances, TurnInv, Delivered, RecoveryInv

LEMMA FailStep ==
    ASSUME LoopInv, Fail
    PROVE  LoopInv'
  BY DEF LoopInv, TypeOK, Allowances, TurnInv, Fail, Correcting, planVars, batchVars, pageVars,
         recoveryVars

LEMMA PageType ==
    ASSUME TypeOK, NEW page \in SelectedPage(catalog)
    PROVE  page \in Nat
  <1>1. PageCount(catalog) \in Nat
    BY PageSizeType DEF TypeOK, PageCount
  <1> QED
    BY <1>1 DEF SelectedPage

LEMMA RespondStep ==
    ASSUME LoopInv, Respond
    PROVE  LoopInv'
  <1> PICK r \in Response :
         /\ r.page /= "none" => Paged(catalog)
         /\ \/ r.planCalls = 2 /\ Ambiguous
            \/ Unusable(r) \/ Bypass(r) \/ RefuseCorrection(r)
            \/ PlanAccepted(r) \/ PlanRejected(r) \/ FlushFails(r) \/ Companion(r)
            \/ CaptureIntent(r) \/ PrintedMarkup(r) \/ FinalResponse(r)
            \/ SelectPage(r) \/ PreflightFails(r) \/ QueueBatch(r)
    BY DEF Respond
  <1>a. pc = "generate" /\ Delivered => RecoveryInv'
    BY DeliveredStep
  <1>b. /\ r.planCalls \in 0..2
        /\ r.others \in 0 .. (MaxBatchCalls + 1)
        /\ r.planCalls = 1 => r.command \in PlanCommand
    BY ResponseType
  <1>c. /\ pending \in Corrections
        /\ CaptureArguments(r) \in Arguments
        /\ r.planCalls = 1 => NewHostCorrection(r.command) \in Corrections
        /\ NoCorrection \in Corrections
    BY CorrectionType DEF LoopInv
  <1>d. MaxHostCorrection \in Nat /\ MaxPlanningRejections \in Nat
        /\ MaxHostCorrection + 1 < MaxPlanningRejections
    BY ToolLoopAssumption DEF ToolLoopAssumption
  <1>e. pc = "generate" /\ Correcting =>
           /\ Answered(r) \in Corrections
           /\ Answered(r).attempts = pending.attempts + 1
           /\ Answered(r).kind = pending.kind
    <2> SUFFICES ASSUME pc = "generate", Correcting
                 PROVE  /\ Answered(r) \in Corrections
                        /\ Answered(r).attempts = pending.attempts + 1
                        /\ Answered(r).kind = pending.kind
      OBVIOUS
    <2>1. pending.attempts + 1 \in 0..MaxHostCorrection
      BY <1>c, <1>d DEF Corrections, LoopInv, TurnInv
    <2>2. Answered(r) = [pending EXCEPT !.attempts = pending.attempts + 1,
                                        !.arguments = CaptureArguments(r)]
      BY <1>c DEF Answered, Corrections
    <2>3. pending \in Corrections /\ CaptureArguments(r) \in Arguments
      BY <1>c
    <2> DEFINE q == [pending EXCEPT !.attempts = pending.attempts + 1,
                                    !.arguments = CaptureArguments(r)]
    <2>4. q \in Corrections /\ q.attempts = pending.attempts + 1 /\ q.kind = pending.kind
      BY <2>1, <2>3, CorrectionCounts
    <2> HIDE DEF q
    <2>5. Answered(r) = q
      BY <2>2 DEF q
    <2> QED
      BY <2>4, <2>5
  <1>f. TypeOK /\ pending' \in Corrections => pending' \in [kind : {"none", "rejected", "required"},
                    attempts : 0..MaxHostCorrection,
                    intent : {"none", "kept", "long"},
                    arguments : {"none", "revise", "opaque"} \cup ChildOperation]
    BY DEF Corrections, Arguments
  <1> USE ToolLoopAssumption, <1>f
      DEF ToolLoopAssumption, LoopInv, TypeOK, Allowances, TurnInv, Correcting,
          planVars, batchVars, pageVars, recoveryVars
  <1>1. CASE Ambiguous
    BY <1>1, <1>a DEF Ambiguous, RecoveryInv
  <1>2. CASE Unusable(r)
    BY <1>2, <1>a DEF Unusable, CorrectOrFail, Correct, RecoveryInv
  <1>3. CASE Bypass(r)
    <2>1. /\ pending' \in Corrections
          /\ pending'.attempts = pending.attempts + 1
          /\ pending'.kind = pending.kind
      <3>1. pending.attempts + 1 \in 0..MaxHostCorrection
        <4>1. pc = "generate" /\ Correcting
          BY <1>3 DEF Bypass
        <4> QED
          BY <4>1, <1>c, <1>d DEF Corrections
      <3>2. PICK intent \in {"none", "kept", "long"} :
               pending' = [pending EXCEPT !.attempts = pending.attempts + 1,
                                          !.arguments = CaptureArguments(r),
                                          !.intent = intent]
        BY <1>3, <1>c DEF Bypass, Corrections
      <3> HIDE DEF TypeOK
      <3> QED
        BY <1>c, <3>1, <3>2, IntentCounts
    <2>2. pc = "generate" /\ Delivered /\ Correcting /\ pc' = "head"
          /\ UNCHANGED <<planVars, corrections, planRejections, pageVars, batchVars>>
      BY <1>3 DEF Bypass
    <2> QED
      BY <1>a, <1>d, <1>f, <2>1, <2>2 DEF RecoveryInv
  <1>4. CASE RefuseCorrection(r)
    BY <1>4, <1>a, <1>c, <1>d, <1>e DEF RefuseCorrection, RecoveryInv
  <1>5. CASE PlanAccepted(r)
    <2>1. r.command \in PlanCommand /\ MayAccept(r.command) /\ plans' \in Managed(r.command)
      BY <1>5, <1>b DEF PlanAccepted, Submitted, Standalone
    <2>2. plans' \in Seq(PlanStatus) /\ Len(plans') \in 1..MaxLineage
      BY <2>1, ManagedType
    <2> QED
      BY <1>5, <1>a, <1>c, <2>1, <2>2 DEF PlanAccepted, Submitted, NoCorrection, RecoveryInv
  <1>6. CASE PlanRejected(r)
    <2>1. r.planCalls = 1 /\ pc = "generate" /\ planRejections' = planRejections + 1
      BY <1>6 DEF PlanRejected, Submitted, Standalone
    <2>2. CASE Correcting
      <3>1. pending' = Answered(r)
        BY <1>6, <2>2 DEF PlanRejected
      <3> QED
        BY <1>6, <1>a, <1>d, <1>e, <2>1, <2>2, <3>1 DEF PlanRejected, RecoveryInv
    <2>3. CASE ~ Correcting
      <3>1. pending' \in Corrections /\ pending'.attempts = 0 /\ pending'.kind = "rejected"
        BY <1>6, <1>c, <2>1, <2>3 DEF PlanRejected, NewHostCorrection, NoCorrection
      <3> QED
        BY <1>6, <1>a, <1>d, <2>1, <2>3, <3>1 DEF PlanRejected, RecoveryInv
    <2> QED
      BY <2>2, <2>3
  <1>7. CASE FlushFails(r)
    BY <1>7, FailStep DEF FlushFails
  <1>8. CASE Companion(r)
    <2>1. pending' \in Corrections /\ pending'.attempts = 0 /\ pending'.kind = "rejected"
      BY <1>8, <1>c DEF Companion, NewHostCorrection, NoCorrection
    <2> QED
      BY <1>8, <1>a, <1>d, <2>1 DEF Companion, RecoveryInv
  <1>9. CASE CaptureIntent(r)
    <2>1. CASE pc' = "failed" /\ UNCHANGED pending
      BY <1>9, <1>a, <2>1 DEF CaptureIntent, Unimpeded, RecoveryInv
    <2>2. CASE pc' = "head" /\ pending' = [NoCorrection EXCEPT !.kind = "rejected",
                                 !.intent = IF r.text = "long" THEN "long" ELSE "kept"]
      <3>1. pending' \in Corrections /\ pending'.attempts = 0 /\ pending'.kind = "rejected"
        BY <1>c, <2>2 DEF NoCorrection, Corrections
      <3> QED
        <4>1. pc = "generate" /\ Delivered /\ ~ Correcting
              /\ UNCHANGED <<planVars, corrections, planRejections, pageVars, batchVars>>
          BY <1>9 DEF CaptureIntent, Unimpeded
        <4>2. pc' = "head"
          BY <2>2
        <4> QED
          BY <1>a, <1>d, <1>f, <3>1, <4>1, <4>2 DEF RecoveryInv
    <2> QED
      BY <1>9, <2>1, <2>2 DEF CaptureIntent
  <1>10. CASE PrintedMarkup(r)
    BY <1>10, <1>a DEF PrintedMarkup, Unimpeded, CorrectOrFail, Correct, RecoveryInv
  <1>11. CASE FinalResponse(r)
    BY <1>11, <1>a DEF FinalResponse, Unimpeded, RecoveryInv
  <1>12. CASE SelectPage(r)
    <2>1. pc = "generate" /\ Delivered /\ UNCHANGED <<planVars, pending, planRejections, batchVars>>
      BY <1>12 DEF SelectPage, Proceeds, Unimpeded
    <2>2. CASE pc' = "failed" /\ UNCHANGED <<corrections, pageVars>>
      BY <1>a, <2>1, <2>2 DEF RecoveryInv
    <2>3. CASE /\ pageSelections < MaxPageSelections
               /\ catalogPage' \in SelectedPage(catalog)
               /\ pageSelections' = pageSelections + 1
               /\ pc' = "head"
               /\ UNCHANGED <<corrections, catalog>>
      BY <1>a, <2>1, <2>3, PageType DEF RecoveryInv
    <2>4. CASE /\ UNCHANGED pageVars
               /\ \/ Correct /\ pc' = "head"
                  \/ corrections >= MaxCorrections /\ pc' = "failed" /\ UNCHANGED corrections
      BY <1>a, <2>1, <2>4 DEF RecoveryInv, Correct
    <2> QED
      BY <1>12, <2>2, <2>3, <2>4 DEF SelectPage
  <1>13. CASE PreflightFails(r)
    <2>1. pc = "generate" /\ Delivered /\ UNCHANGED <<planVars, pending, planRejections, pageVars, batchVars>>
      BY <1>13 DEF PreflightFails, Proceeds, Unimpeded, CorrectOrFail
    <2>2. \/ Correct /\ pc' = "head"
          \/ pc' = "failed" /\ UNCHANGED corrections
      BY <1>13 DEF PreflightFails, CorrectOrFail
    <2> QED
      BY <1>a, <2>1, <2>2 DEF Correct, RecoveryInv
  <1>14. CASE QueueBatch(r)
    BY <1>14, <1>a, <1>b DEF QueueBatch, Proceeds, Unimpeded, WithinBudget, RecoveryInv
  <1> QED
    BY <1>1, <1>2, <1>3, <1>4, <1>5, <1>6, <1>7, <1>8, <1>9, <1>10, <1>11, <1>12, <1>13, <1>14

LEMMA LoopStep ==
    ASSUME LoopInv, [Next]_vars
    PROVE  LoopInv'
  <1> USE ToolLoopAssumption
      DEF ToolLoopAssumption, LoopInv, TypeOK, Allowances, TurnInv, Correcting, NoCorrection,
          planVars, batchVars, pageVars, recoveryVars
  <1>1. CASE EvaluateBoundary
    <2>1. CASE Fail
      BY <2>1, FailStep
    <2>2. CASE pc' = "done" /\ UNCHANGED pending
      BY <1>1, <2>2 DEF EvaluateBoundary
    <2>3. CASE pending' = [NoCorrection EXCEPT !.kind = "required"] /\ UNCHANGED pc
      <3>1. /\ pending' \in Corrections /\ pending'.attempts = 0 /\ pending'.kind = "required"
        BY <2>3, RequiredCorrection
      <3>2. pending' \in [kind : {"none", "rejected", "required"}, attempts : 0..MaxHostCorrection,
                          intent : {"none", "kept", "long"},
                          arguments : {"none", "revise", "opaque"} \cup ChildOperation]
        BY <3>1 DEF Corrections, Arguments
      <3>3. pc = "head" /\ pc' = "head" /\ pending.kind = "none"
            /\ UNCHANGED <<planVars, corrections, recoveryVars, planRejections, pageVars, batchVars>>
        BY <1>1, <2>3 DEF EvaluateBoundary, AtBoundary
      <3> HIDE DEF NoCorrection
      <3> QED
        BY <3>1, <3>2, <3>3
    <2> QED
      BY <1>1, <2>1, <2>2, <2>3 DEF EvaluateBoundary
  <1>2. CASE GiveUp \/ BatchFails \/ Cancel
    BY <1>2, FailStep DEF GiveUp, BatchFails, Cancel
  <1>3. CASE Ask
    BY <1>3 DEF Ask, AtBoundary, Exhausted, HasUnresolvedSteps, Active
  <1>4. CASE GenerationFails
    <2>1. CASE Fail
      BY <2>1, FailStep
    <2>2. CASE CorrectOrFail /\ UNCHANGED recoveryVars
      BY <1>4, <2>2 DEF GenerationFails, CorrectOrFail, Correct
    <2> QED
      BY <1>4, <2>1, <2>2 DEF GenerationFails
  <1>5. CASE Respond
    BY <1>5, RespondStep
  <1>6. CASE Invoke
    BY <1>6 DEF Invoke, Settle
  <1>7. CASE InvocationFails
    BY <1>7 DEF InvocationFails, Settle
  <1>8. CASE SkipCall
    BY <1>8 DEF SkipCall, Settle
  <1>9. CASE EndBatch
    BY <1>9 DEF EndBatch
  <1>10. CASE Reconcile
    <2>1. CASE Fail
      BY <2>1, FailStep
    <2>2. ASSUME NEW st \in {"open", "finished"}, plans' = [plans EXCEPT ![Len(plans)] = st]
          PROVE  plans' \in Seq(PlanStatus) /\ Len(plans') \in 1..MaxLineage
      BY <2>2, ActiveType DEF PlanStatus
    <2> QED
      BY <1>10, <2>1, <2>2 DEF Reconcile
  <1>11. CASE UNCHANGED vars
    BY <1>11 DEF vars, HasUnresolvedSteps, Active
  <1> QED
    BY <1>1, <1>2, <1>3, <1>4, <1>5, <1>6, <1>7, <1>8, <1>9, <1>10, <1>11 DEF Next, Step

LEMMA LoopInit ==
    Init => LoopInv
  <1> SUFFICES ASSUME Init PROVE LoopInv
    OBVIOUS
  <1>1. catalog \in Nat /\ catalogPage \in Nat
    <2>1. catalog \in Nat
      BY ToolLoopAssumption DEF ToolLoopAssumption, Init
    <2>2. PageCount(catalog) \in Nat
      BY <2>1, PageSizeType DEF PageCount
    <2> QED
      BY <2>1, <2>2 DEF Init, SelectedPage
  <1>2. plans \in Seq(PlanStatus) /\ Len(plans) \in 1..MaxLineage
    BY ToolLoopAssumption DEF ToolLoopAssumption, Init, PlanStatus
  <1>3. outcomes \in Seq({"result", "failed", "not_attempted"})
    BY DEF Init
  <1> QED
    BY <1>1, <1>2, <1>3, ToolLoopAssumption
       DEF ToolLoopAssumption, Init, LoopInv, TypeOK, Allowances, TurnInv, Correcting, NoCorrection

LEMMA LoopInvariant == Spec => []LoopInv
  BY LoopInit, LoopStep, PTL DEF Spec

\* Every counter stays within its allowance, whatever the actor answers and
\* whatever is refused.
THEOREM TypeCorrect == Spec => []TypeOK
  <1>1. LoopInv => TypeOK
    BY DEF LoopInv
  <1> QED
    BY <1>1, LoopInvariant, PTL

\* The exclusive correction bounds rejected proposals before the general
\* allowance does, and a failure is answered at most MaxRecoveryTurns times.
THEOREM AllowancesHold == Spec => []Allowances
  <1>1. LoopInv => Allowances
    BY DEF LoopInv
  <1> QED
    BY <1>1, LoopInvariant, PTL

-----------------------------------------------------------------------------
(* Action properties *)

\* Calls are dispatched and final texts returned only with unfinished work in
\* the plan and no correction pending.
THEOREM NoBypassHolds == Spec => NoBypass
  <1>1. ASSUME LoopInv, [Next]_vars, pc = "generate", pc' \in {"batch", "done"}
        PROVE  HasUnresolvedSteps /\ ~ Correcting
    <2>1. (\E r \in Response : QueueBatch(r) \/ FinalResponse(r)) => ~ Correcting
      BY DEF QueueBatch, FinalResponse, Proceeds, Unimpeded
    <2>2. \E r \in Response : QueueBatch(r) \/ FinalResponse(r)
      BY <1>1 DEF Next, Step, vars, EvaluateBoundary, GiveUp, Ask, GenerationFails, Fail,
           CorrectOrFail, Respond, Ambiguous, Unusable, Bypass, RefuseCorrection, PlanAccepted,
           PlanRejected, FlushFails, Companion, CaptureIntent, PrintedMarkup, SelectPage,
           PreflightFails, Invoke, InvocationFails, SkipCall, Settle, BatchFails, EndBatch,
           Reconcile, Cancel
    <2> QED
      BY <1>1, <2>1, <2>2 DEF LoopInv, TurnInv
  <1> QED
    BY <1>1, LoopInvariant, PTL DEF Spec, NoBypass

\* A pending correction ends only with the operation that stands for what was
\* declared or rejected, and until then none of that is lost.
THEOREM IntentKeptHolds == Spec => IntentKept
  <1> DEFINE Kept ==
        Correcting /\ pending' /= pending =>
          IF Correcting'
          THEN /\ pending.intent /= "none" => pending'.intent = pending.intent
               /\ pending.arguments /= "none" => pending'.arguments = pending.arguments
          ELSE /\ pending.intent /= "none" \/ pending.arguments = "revise" =>
                     accepted' \in Revision
               /\ pending.arguments \in ChildOperation => accepted' = pending.arguments
  <1>1. ASSUME LoopInv, [Next]_vars
        PROVE  Kept
    <2>1. pending \in Corrections
      BY <1>1, CorrectionType DEF LoopInv, TypeOK, Corrections, Arguments
    <2>2. ASSUME NEW r \in Response, Bypass(r)
          PROVE  Kept
      BY <2>1, <2>2 DEF Bypass, CaptureArguments, Corrections, Correcting
    <2>3. ASSUME NEW r \in Response, RefuseCorrection(r)
          PROVE  Kept
      BY <2>1, <2>3 DEF RefuseCorrection, Answered, CaptureArguments, Corrections, Correcting
    <2>4. ASSUME NEW r \in Response, PlanRejected(r)
          PROVE  Kept
      BY <2>1, <2>4 DEF PlanRejected, Answered, CaptureArguments, Corrections, Correcting
    <2>5. ASSUME NEW r \in Response, PlanAccepted(r)
          PROVE  Kept
      <3> SUFFICES ASSUME Correcting
                   PROVE  /\ ~ Correcting'
                          /\ pending.intent /= "none" \/ pending.arguments = "revise" =>
                                accepted' \in Revision
                          /\ pending.arguments \in ChildOperation => accepted' = pending.arguments
        OBVIOUS
      <3>1. ~ Correcting'
        BY <2>5 DEF PlanAccepted, NoCorrection, Correcting
      <3>2. accepted' = r.command /\ ValidateHostCorrection(Answered(r), r.command)
        BY <2>5 DEF PlanAccepted, Submitted, MayCorrect
      <3>3. Answered(r).intent = pending.intent
            /\ (pending.arguments # "none" => Answered(r).arguments = pending.arguments)
        BY <2>1 DEF Answered, CaptureArguments, Corrections
      <3> QED
        BY <3>1, <3>2, <3>3 DEF ValidateHostCorrection, ChildOperation, Revision
    <2>6. ASSUME ~ Correcting \/ UNCHANGED pending
          PROVE  Kept
      BY <2>6
    <2>7. \/ \E r \in Response : Bypass(r) \/ RefuseCorrection(r) \/ PlanRejected(r) \/ PlanAccepted(r)
          \/ ~ Correcting
          \/ UNCHANGED pending
      BY <1>1 DEF Next, Step, vars, EvaluateBoundary, AtBoundary, GiveUp, Ask, GenerationFails, Fail,
           CorrectOrFail, Respond, Ambiguous, Unusable, FlushFails, Companion, CaptureIntent,
           Unimpeded, PrintedMarkup, FinalResponse, SelectPage, Proceeds, PreflightFails,
           QueueBatch, Invoke, InvocationFails, SkipCall, Settle, BatchFails, EndBatch,
           Reconcile, Cancel
    <2> HIDE DEF Kept
    <2> QED
      BY <2>2, <2>3, <2>4, <2>5, <2>6, <2>7
  <1> QED
    BY <1>1, LoopInvariant, PTL DEF Spec, IntentKept

-----------------------------------------------------------------------------
(* The batch *)

\* BatchHonest says what stands behind a failed call; a call that was not
\* attempted is behind one wherever it stands.
BatchInv ==
    /\ BatchHonest
    /\ \A j \in DOMAIN outcomes : outcomes[j] = "not_attempted" => SkipRemaining

\* A call that was sent, all before it having brought results.
LEMMA SentStep ==
    ASSUME TypeOK, BatchInv, ~ SkipRemaining, NEW outcome \in {"result", "failed"},
           outcomes' = Append(outcomes, outcome),
           recovery' = "pending" <=> outcome = "failed"
    PROVE  BatchInv'
  <1> DEFINE last == Len(outcomes) + 1
  <1>1. /\ outcomes \in Seq({"result", "failed", "not_attempted"})
        /\ \A i \in DOMAIN outcomes : outcomes[i] = "result"
    BY DEF TypeOK, BatchInv, SkipRemaining
  <1>2. /\ DOMAIN outcomes = 1..Len(outcomes) /\ Len(outcomes) \in Nat
        /\ DOMAIN outcomes' = 1..last /\ outcomes'[last] = outcome
        /\ \A i \in 1..Len(outcomes) : outcomes'[i] = "result"
    BY <1>1
  <1>3. \A i \in DOMAIN outcomes' : outcomes'[i] = "result" \/ (i = last /\ outcomes'[i] = outcome)
    BY <1>2
  <1>4. SkipRemaining' <=> outcome = "failed"
    BY <1>2, <1>3 DEF SkipRemaining
  <1>5. \A i, j \in DOMAIN outcomes' : i < j => outcomes'[i] = "result"
    BY <1>2
  <1>6. \A j \in DOMAIN outcomes' : outcomes'[j] # "not_attempted"
    BY <1>3
  <1> QED
    BY <1>4, <1>5, <1>6 DEF BatchInv, BatchHonest

\* A call that was skipped.
LEMMA SkippedStep ==
    ASSUME TypeOK, BatchInv, SkipRemaining, outcomes' = Append(outcomes, "not_attempted"),
           recovery' = recovery
    PROVE  BatchInv'
  <1> DEFINE last == Len(outcomes) + 1
  <1>1. outcomes \in Seq({"result", "failed", "not_attempted"})
    BY DEF TypeOK
  <1>2. /\ DOMAIN outcomes = 1..Len(outcomes) /\ Len(outcomes) \in Nat
        /\ DOMAIN outcomes' = 1..last /\ outcomes'[last] = "not_attempted"
        /\ \A i \in 1..Len(outcomes) : outcomes'[i] = outcomes[i]
    BY <1>1
  <1>3. PICK k \in 1..Len(outcomes) : outcomes[k] = "failed"
    BY <1>2 DEF SkipRemaining
  <1>4. k \in DOMAIN outcomes' /\ outcomes'[k] = "failed"
    BY <1>2, <1>3
  <1>5. SkipRemaining'
    BY <1>4 DEF SkipRemaining
  <1>6. recovery' = "pending"
    BY <1>1, <1>2, <1>3 DEF BatchInv, BatchHonest
  <1>7. ASSUME NEW i \in DOMAIN outcomes', NEW j \in DOMAIN outcomes', i < j,
               outcomes'[i] # "result"
        PROVE  outcomes'[j] = "not_attempted"
    <2>1. CASE j = last
      BY <1>2, <2>1
    <2>2. CASE j # last
      BY <1>2, <1>7, <2>2 DEF BatchInv, BatchHonest
    <2> QED
      BY <2>1, <2>2
  <1> QED
    BY <1>4, <1>5, <1>6, <1>7 DEF BatchInv, BatchHonest

\* Results up to the first failure, nothing attempted behind it, and the
\* failure is outstanding as long as no later batch brings a result.
THEOREM BatchHonestHolds == Spec => []BatchHonest
  <1>1. Init => BatchInv
    BY DEF Init, BatchInv, BatchHonest, SkipRemaining
  <1>2. ASSUME LoopInv, BatchInv, [Next]_vars
        PROVE  BatchInv'
    <2>1. TypeOK
      BY <1>2 DEF LoopInv
    <2>2. CASE Invoke
      BY <1>2, <2>1, <2>2, SentStep DEF Invoke, Settle
    <2>3. CASE InvocationFails
      BY <1>2, <2>1, <2>3, SentStep DEF InvocationFails, Settle
    <2>4. CASE SkipCall
      BY <1>2, <2>1, <2>4, SkippedStep DEF SkipCall, Settle, recoveryVars
    <2>5. ASSUME outcomes' = <<>>
          PROVE  BatchInv'
      BY <2>5 DEF BatchInv, BatchHonest, SkipRemaining
    <2>6. ASSUME UNCHANGED <<outcomes, recovery>>
          PROVE  BatchInv'
      BY <1>2, <2>6 DEF BatchInv, BatchHonest, SkipRemaining
    <2>7. \/ Invoke \/ InvocationFails \/ SkipCall
          \/ outcomes' = <<>>
          \/ UNCHANGED <<outcomes, recovery>>
      <3>1. CASE Respond
        BY <3>1 DEF Respond, Delivered, Ambiguous, Unusable, Bypass, RefuseCorrection, PlanAccepted,
             PlanRejected, FlushFails, Fail, Companion, CaptureIntent, PrintedMarkup, FinalResponse,
             SelectPage, PreflightFails, QueueBatch, CorrectOrFail, batchVars, recoveryVars
      <3> QED
        BY <1>2, <3>1 DEF Next, Step, vars, EvaluateBoundary, GiveUp, Ask, GenerationFails, Fail,
             CorrectOrFail, BatchFails, EndBatch, Reconcile, Cancel, batchVars, recoveryVars
    <2> QED
      BY <2>2, <2>3, <2>4, <2>5, <2>6, <2>7
  <1>3. BatchInv => BatchHonest
    BY DEF BatchInv
  <1> QED
    BY <1>1, <1>2, <1>3, LoopInvariant, PTL DEF Spec

-----------------------------------------------------------------------------
(* The catalog *)

\* The page that is shown is one that can be selected.
PageInv == catalog \in Nat /\ (Paged(catalog) => catalogPage \in SelectedPage(catalog))

\* No tool of a catalog is out of reach or offered twice, and no request
\* exceeds the limit on definitions.
THEOREM CatalogCompleteHolds == Spec => []CatalogComplete
  <1>1. Init => PageInv
    BY ToolLoopAssumption DEF ToolLoopAssumption, Init, PageInv
  <1>2. ASSUME PageInv, [Next]_vars
        PROVE  PageInv'
    <2>1. \/ UNCHANGED <<catalog, catalogPage>>
          \/ UNCHANGED catalog /\ catalogPage' \in SelectedPage(catalog)
      <3>1. CASE Respond
        BY <3>1 DEF Respond, Delivered, Ambiguous, Unusable, Bypass, RefuseCorrection, PlanAccepted,
             PlanRejected, FlushFails, Fail, Companion, CaptureIntent, PrintedMarkup, FinalResponse,
             SelectPage, PreflightFails, QueueBatch, CorrectOrFail, pageVars
      <3> QED
        BY <1>2, <3>1 DEF Next, Step, vars, EvaluateBoundary, GiveUp, Ask, GenerationFails, Fail,
             CorrectOrFail, BatchFails, EndBatch, Reconcile, Cancel, Invoke, InvocationFails,
             SkipCall, Settle, pageVars
    <2> QED
      BY <1>2, <2>1 DEF PageInv
  <1>3. ASSUME PageInv, TypeOK
        PROVE  CatalogComplete
    <2>1. catalog \in Nat /\ catalogPage \in Nat
      BY <1>3 DEF PageInv, TypeOK
    <2>2. \A page \in SelectedPage(catalog) : page \in Nat
      BY DEF SelectedPage
    <2>3. ASSUME NEW t \in 1..catalog
          PROVE  \E page \in SelectedPage(catalog) :
                    /\ t \in CatalogPage(catalog, page)
                    /\ \A other \in SelectedPage(catalog) \ {page} :
                          Paged(catalog) => t \notin CatalogPage(catalog, other)
      <3>1. PICK page \in SelectedPage(catalog) : t \in CatalogPage(catalog, page)
        BY <2>1, OnAPage
      <3>2. ASSUME NEW other \in SelectedPage(catalog) \ {page}, Paged(catalog)
            PROVE  t \notin CatalogPage(catalog, other)
        <4>1. page \in Nat /\ other \in Nat /\ other # page
          BY <2>2
        <4>2. CASE other < page
          BY <2>1, <3>1, <3>2, <4>1, <4>2, OnOnePage
        <4>3. CASE page < other
          BY <2>1, <3>1, <3>2, <4>1, <4>3, OnOnePage
        <4> QED
          BY <4>1, <4>2, <4>3
      <3> QED
        BY <3>1, <3>2
    <2>4. Cardinality(CatalogPage(catalog, catalogPage)) + Pinned
            + (IF Paged(catalog) THEN 1 ELSE 0) <= CatalogLimit
      BY <2>1, PageFits
    <2> QED
      BY <1>3, <2>3, <2>4 DEF CatalogComplete, PageInv
  <1>4. LoopInv => TypeOK
    BY DEF LoopInv
  <1> QED
    BY <1>1, <1>2, <1>3, <1>4, LoopInvariant, PTL DEF Spec
=============================================================================
