------------------------------- MODULE Plans -------------------------------
(***************************************************************************)
(* Plans as the store and the planning operations compute on them          *)
(* (internal/state/plan.go, internal/loop/plan_patch.go, plan_intent.go,   *)
(* planning.go, reconciliation.go): what a proposal must satisfy to be     *)
(* accepted over the plan of the active task, and what is then stored.     *)
(* There is no state here: knowledge, the accepted plan and the proposal   *)
(* are arguments.                                                          *)
(*                                                                         *)
(* A description and its completion criteria are one value, an intent.  An *)
(* outcome is stated or not, and information gaps are there or not.  A     *)
(* list of evidence references is a set, each reference a version of a     *)
(* partition: the path in it is taken to resolve.  Lengths of texts and    *)
(* lists other than the steps are within bounds, and an empty list is not  *)
(* told from an absent one.                                                *)
(***************************************************************************)
EXTENDS Integers, FiniteSets, Sequences

CONSTANTS
    StepId,
    Intent,       \* descriptions with criteria, and unresolved focuses
    Partition,
    MaxSteps,     \* plan.go: 32
    MaxMutations  \* plan_patch.go, reconciliation.go: 8

ASSUME PlansAssumption ==
    /\ MaxSteps \in Nat \ {0}
    /\ MaxMutations \in Nat \ {0}
    /\ {"none", "keep"} \cap (StepId \cup Intent) = {}

Status == {"pending", "active", "partial", "satisfied", "invalidated", "failed"}
Evidence == [partition : Partition, version : Nat]
Metadata == [version : Nat, stale : BOOLEAN]

Step == [id : StepId, intent : Intent, status : Status,
         outcome : {"none", "stated"}, evidence : SUBSET Evidence,
         gaps : {"none", "some"}]

Plan == [revision : Nat, intent : Intent, status : Status,
         outcome : {"none", "stated"}, evidence : SUBSET Evidence,
         gaps : {"none", "some"}, focus : Intent \cup {"none"}, steps : Seq(Step),
         current : StepId \cup {"none"}]

\* A task without a plan has one with no steps: an accepted plan has some.
NoPlan == [revision |-> 0, intent |-> "none", status |-> "none", outcome |-> "none",
           evidence |-> {}, gaps |-> "none", focus |-> "none", steps |-> <<>>,
           current |-> "none"]

Steps(plan) == {plan.steps[i] : i \in DOMAIN plan.steps}
StepIds(plan) == {s.id : s \in Steps(plan)}
Named(plan, id) == CHOOSE s \in Steps(plan) : s.id = id

-----------------------------------------------------------------------------
(* plan.go *)

StepUnresolved(step) == step.status \in {"pending", "active", "partial"}
Unresolved(plan) == {s \in Steps(plan) : StepUnresolved(s)}

\* A completed plan, or a completed step: its history is immutable.
Completed(x) == x.status \in {"satisfied", "invalidated"}

\* Mutant: a later version than the current one will do.
ResolveEvidenceNewer(knowledge, ref) ==
    /\ ~ knowledge[ref.partition].stale
    /\ knowledge[ref.partition].version <= ref.version

\* A reference resolves at the current version of a partition that is not stale.
ResolveEvidence(knowledge, ref) ==
    /\ ~ knowledge[ref.partition].stale
    /\ knowledge[ref.partition].version = ref.version

\* A plan or step that claims satisfaction states an outcome, cites evidence
\* and has no gaps.
Supported(x) == x.outcome = "stated" /\ x.evidence /= {} /\ x.gaps = "none"

\* The only change a completed plan or step allows in place.
UnchangedOrInvalidated(old, new) ==
    new = old \/ new = [old EXCEPT !.status = "invalidated"]

\* A completed plan reopens for a new unfinished step.
Renews(old, new) ==
    /\ new.status \in {"active", "partial"}
    /\ \E s \in Unresolved(new) : s.id \notin StepIds(old)

\* Mutant: a completed step may be restated on current evidence.
CheckStepRestated(knowledge, old, step) ==
    /\ step.status = "pending" => step.evidence = {}
    /\ step.status = "satisfied" => Supported(step)
    /\ \/ \E s \in Steps(old) : s.id = step.id /\ UnchangedOrInvalidated(s, step)
       \/ \A ref \in step.evidence : ResolveEvidence(knowledge, ref)

CheckStep(knowledge, old, step) ==
    /\ step.status = "pending" => step.evidence = {}
    /\ LET previous == {s \in Steps(old) : s.id = step.id /\ Completed(s)}
       IN  IF previous /= {}
             THEN \A s \in previous : UnchangedOrInvalidated(s, step)
             ELSE /\ step.status = "satisfied" => Supported(step)
                  /\ \A ref \in step.evidence : ResolveEvidence(knowledge, ref)

\* Mutant: a completed plan does not reopen.
CheckPlanFinal(knowledge, old, new) ==
    /\ new \in Plan /\ Len(new.steps) \in 1..MaxSteps
    /\ new.revision = old.revision
    /\ Completed(old) => UnchangedOrInvalidated(old, new)
    /\ new.status = "satisfied" => Supported(new) /\ new.focus = "none"
    /\ \A ref \in new.evidence : ResolveEvidence(knowledge, ref)
    /\ \A s \in Steps(new) : CheckStep(knowledge, old, s)
    /\ \A s \in Steps(old) : Completed(s) => s.id \in StepIds(new)
    /\ new.current /= "none" => \E s \in Unresolved(new) : s.id = new.current
    /\ new.status = "satisfied" => \A s \in Steps(new) : s.status = "satisfied"

CheckPlan(knowledge, old, new) ==
    /\ new \in Plan /\ Len(new.steps) \in 1..MaxSteps
    /\ new.revision = old.revision
    /\ Completed(old) => Renews(old, new) \/ UnchangedOrInvalidated(old, new)
    /\ new.status = "satisfied" => Supported(new) /\ new.focus = "none"
    /\ \A ref \in new.evidence : ResolveEvidence(knowledge, ref)
    /\ \A i, j \in DOMAIN new.steps :
          new.steps[i].id = new.steps[j].id => i = j
    /\ \A s \in Steps(new) : CheckStep(knowledge, old, s)
    /\ \A s \in Steps(old) : Completed(s) => s.id \in StepIds(new)
    /\ new.current /= "none" => \E s \in Unresolved(new) : s.id = new.current
    /\ new.status = "satisfied" => \A s \in Steps(new) : s.status = "satisfied"

\* An actionable selection is kept, otherwise the accepted order is followed.
AdvanceCurrentStep(plan) ==
    IF \E s \in Unresolved(plan) : s.id = plan.current
      THEN plan
      ELSE [plan EXCEPT !.current =
              IF Unresolved(plan) = {} THEN "none"
              ELSE plan.steps[CHOOSE i \in DOMAIN plan.steps :
                      /\ StepUnresolved(plan.steps[i])
                      /\ \A j \in 1..(i - 1) : ~ StepUnresolved(plan.steps[j])].id]

\* A retained selection moves on when its step is resolved; a new one does not.
NormalizeCurrentStep(old, new) ==
    IF \/ new.current = "none"
       \/ /\ new.current = old.current
          /\ \E s \in Steps(new) : s.id = new.current /\ ~ StepUnresolved(s)
      THEN AdvanceCurrentStep(new)
      ELSE new

\* What RevisePlan stores once CheckPlan has accepted the proposal.
RevisePlan(old, new) ==
    [AdvanceCurrentStep(NormalizeCurrentStep(old, new)) EXCEPT !.revision = @ + 1]

-----------------------------------------------------------------------------
(* planning.go: new claims of satisfaction *)

\* Mutant: only steps of the accepted plan are looked at.
NewClaimsOfOld(old, new) ==
    {s \in Steps(new) :
        /\ s.status = "satisfied"
        /\ \E o \in Steps(old) : o.id = s.id /\ o.status /= "satisfied"}

NewClaims(old, new) ==
    {s \in Steps(new) :
        /\ s.status = "satisfied"
        /\ ~ \E o \in Steps(old) : o.id = s.id /\ o.status = "satisfied"}

ClaimsPlan(old, new) == new.status = "satisfied" /\ old.status /= "satisfied"

ClaimsCompletion(old, new) == NewClaims(old, new) /= {} \/ ClaimsPlan(old, new)

-----------------------------------------------------------------------------
(* plan_intent.go: intent that a proposal withdraws or rewrites *)

IntentChanged(new, step) ==
    IF Completed(step)
      THEN /\ step.status = "satisfied"
           /\ \E s \in Steps(new) : s.id = step.id /\ s.status = "invalidated"
      ELSE ~ \E s \in Steps(new) :
                /\ s.id = step.id
                /\ s.intent = step.intent
                /\ s.status \in {"failed", "invalidated"} => s.status = step.status

Reordered(old, new) ==
    \E i, j \in DOMAIN old.steps, k, l \in DOMAIN new.steps :
       /\ i < j /\ k > l
       /\ old.steps[i].id = new.steps[k].id
       /\ old.steps[j].id = new.steps[l].id

\* Whether a reason and an evaluation are asked for ("accepted_plan").
PlanIntentChanges(old, new) ==
    /\ old /= NoPlan
    /\ \/ \E s \in Steps(old) : IntentChanged(new, s)
       \/ Reordered(old, new)
       \/ old.focus /= "none" /\ new.focus /= old.focus
       \/ new.intent /= old.intent

-----------------------------------------------------------------------------
(* plan_patch.go *)

\* revise is a snapshot of the whole plan: it leaves no accepted step out.
RequireSnapshotSteps(old, new) == StepIds(old) \subseteq StepIds(new)

\* The fields an update names, over those it leaves alone.
MergeFields(target, update) ==
    [f \in DOMAIN target |-> IF f \in DOMAIN update THEN update[f] ELSE target[f]]

\* A patch: [revision, remove (ids), update (changed fields of an id), add
\* (new steps), order (ids, <<>> when absent), plan (changed fields)].
PatchedSteps(old, patch) ==
    LET Kept(s) == s.id \notin patch.remove
        kept == SelectSeq(old.steps, Kept)
        updated == [i \in DOMAIN kept |->
                      IF kept[i].id \in DOMAIN patch.update
                        THEN MergeFields(kept[i], patch.update[kept[i].id])
                        ELSE kept[i]]
    IN  updated \o patch.add

\* The unresolved steps change places among themselves; the others stay.
OrderUnresolved(steps, order) ==
    LET Rank(i) == Cardinality({j \in 1..i : StepUnresolved(steps[j])})
    IN  [i \in DOMAIN steps |->
           IF StepUnresolved(steps[i])
             THEN CHOOSE s \in {steps[j] : j \in DOMAIN steps} : s.id = order[Rank(i)]
             ELSE steps[i]]

PatchAllowed(old, patch) ==
    LET steps == PatchedSteps(old, patch)
        added == {patch.add[i].id : i \in DOMAIN patch.add}
        mutations == Cardinality(patch.remove) + Cardinality(DOMAIN patch.update)
                        + Len(patch.add)
        open == {s.id : s \in {t \in {steps[i] : i \in DOMAIN steps} : StepUnresolved(t)}}
    IN  /\ old /= NoPlan
        /\ patch.revision = old.revision
        /\ mutations <= MaxMutations
        /\ mutations > 0 \/ patch.order /= <<>> \/ DOMAIN patch.plan /= {}
        \* each id is touched once
        /\ Cardinality(added) = Len(patch.add)
        /\ patch.remove \cap DOMAIN patch.update = {}
        /\ added \cap (patch.remove \cup StepIds(old)) = {}
        /\ patch.remove \subseteq {s.id : s \in Unresolved(old)}
        /\ DOMAIN patch.update \subseteq StepIds(old)
        /\ patch.order /= <<>> =>
              /\ {patch.order[i] : i \in DOMAIN patch.order} = open
              /\ Len(patch.order) = Cardinality(open)
        /\ steps /= <<>>
        /\ "current" \in DOMAIN patch.plan => patch.plan.current \in open

ApplyPlanPatch(old, patch) ==
    LET steps == PatchedSteps(old, patch)
        ordered == IF patch.order = <<>> THEN steps
                                         ELSE OrderUnresolved(steps, patch.order)
        plan == MergeFields([old EXCEPT !.steps = ordered], patch.plan)
    IN  IF "current" \in DOMAIN patch.plan THEN plan ELSE AdvanceCurrentStep(plan)

-----------------------------------------------------------------------------
(* reconciliation.go: a decision [updates (steps by id), current, focus    *)
(* ("keep" or a focus)] of progress over the accepted plan; shown are the  *)
(* ids of the steps, supplied the evidence, that its input presented.      *)

\* Mutant: a plan that is reconciled is active again.
RetainedPlanActive(old, objective) ==
    IF old = NoPlan THEN [NoPlan EXCEPT !.intent = objective, !.status = "active"]
                    ELSE [old EXCEPT !.status = "active"]

RetainedPlan(old, objective) ==
    IF old = NoPlan THEN [NoPlan EXCEPT !.intent = objective, !.status = "active"]
                    ELSE old

\* A version-only replay of a completed step is that step.
ReplayedStep(old, step) ==
    IF /\ Completed(old)
       /\ step = [old EXCEPT !.evidence = step.evidence]
       /\ Cardinality(step.evidence) = Cardinality(old.evidence)
       /\ {ref.partition : ref \in step.evidence} = {ref.partition : ref \in old.evidence}
      THEN old ELSE step

ReconciledPlan(old, objective, decision) ==
    LET base == RetainedPlan(old, objective)
        steps == [i \in DOMAIN base.steps |->
                    LET s == base.steps[i]
                    IN  IF s.id \in DOMAIN decision.updates
                          THEN ReplayedStep(s, decision.updates[s.id]) ELSE s]
        plan == [base EXCEPT
                    !.steps = steps,
                    !.focus = IF decision.focus = "keep" THEN @ ELSE decision.focus,
                    !.current = IF decision.current = "none" THEN @ ELSE decision.current]
    IN  AdvanceCurrentStep(
           IF \E s \in Steps(plan) : s.id = plan.current /\ ~ StepUnresolved(s)
             THEN [plan EXCEPT !.current = "none"] ELSE plan)

ReconciliationPlan(knowledge, old, objective, shown, supplied, decision) ==
    LET new == ReconciledPlan(old, objective, decision)
    IN  /\ Cardinality(DOMAIN decision.updates) <= MaxMutations
        /\ \/ DOMAIN decision.updates /= {}
           \/ decision.focus /= "keep"
           \/ decision.current /= "none"
        /\ DOMAIN decision.updates \subseteq StepIds(old) \cap shown
        /\ \A id \in DOMAIN decision.updates :
              LET s == decision.updates[id]
                  accepted == Named(old, id)
              IN  /\ s.intent = accepted.intent
                  /\ s.evidence \subseteq supplied \cup accepted.evidence
        /\ new = old \/ CheckPlan(knowledge, old, new)
=============================================================================
