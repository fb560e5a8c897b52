----------------------------- MODULE PlanStore ------------------------------
(***************************************************************************)
(* The plan of one reasoning task while its run lasts (internal/state/     *)
(* plan.go, attempt.go; internal/loop/planning.go, plan_intent.go,         *)
(* reconciliation.go): the actor revises or patches it, batches of tool    *)
(* calls move the knowledge its evidence cites, reconciliation records     *)
(* progress in it, and attempts are counted.  A reconciliation that fails  *)
(* ends the run.                                                           *)
(*                                                                         *)
(* One planning command, one admission and one accepted reconciliation are *)
(* one step each: nothing else touches the store in between, since the     *)
(* evaluator only reads.  The evaluator is free to answer anything.        *)
(***************************************************************************)
EXTENDS Plans, TLC

CONSTANTS
    Objective,            \* the task's objective, an intent
    ReplanAfterNoProgress,  \* attempt.go: 3
    Content,              \* what a step may be proposed to hold
    Heading,              \* what a plan may be proposed to hold beside its steps
    MaxVersion,           \* model bound: admissions into a partition
    MaxRevision,          \* model bound: accepted revisions
    MaxAttempts           \* model bound: batches

ASSUME PlanStoreAssumption ==
    /\ Objective \in Intent
    /\ Content \subseteq [status : Status, outcome : {"none", "stated"},
                         evidence : SUBSET Evidence, gaps : {"none", "some"}]
    /\ ReplanAfterNoProgress \in Nat \ {0}
    /\ MaxVersion \in Nat /\ MaxRevision \in Nat /\ MaxAttempts \in Nat

VARIABLES
    pc,          \* "turn", "batch", "reconcile" or "failed"
    knowledge,   \* metadata of every partition
    plan,
    attempts,    \* the attempt summary of the task
    before,      \* the plan in the snapshot taken before the batch, while it lasts
    confirmed,   \* history: the satisfied steps the evaluator has confirmed
    outcomes     \* history: whether each reconciled batch changed a step

vars == <<pc, knowledge, plan, attempts, before, confirmed, outcomes>>

NoAttempt == [total |-> 0, streak |-> 0, outcome |-> "none", revision |-> 0,
              step |-> "none", replan |-> FALSE]

Init ==
    /\ pc = "turn"
    /\ knowledge = [p \in Partition |-> [version |-> 0, stale |-> FALSE]]
    /\ plan = NoPlan
    /\ attempts = NoAttempt
    /\ before = NoPlan
    /\ confirmed = {}
    /\ outcomes = <<>>

-----------------------------------------------------------------------------
(* What actor and reconciler may propose: edits of the accepted plan. *)

Fill(id, intent, c) ==
    [id |-> id, intent |-> intent, status |-> c.status, outcome |-> c.outcome,
     evidence |-> c.evidence, gaps |-> c.gaps]

\* At most one step changed, at most one added.
Edits(steps) ==
    {steps} \cup {[steps EXCEPT ![i] = Fill(@.id, t, c)] :
                    i \in DOMAIN steps, t \in Intent, c \in Content}

Additions(steps) ==
    {steps} \cup
    {Append(steps, Fill(id, Objective, c)) : id \in StepId \ StepIds(plan), c \in Content}

Snapshots ==
    {[plan EXCEPT !.steps = steps, !.intent = Objective, !.status = h.status,
                  !.outcome = h.outcome, !.evidence = h.evidence, !.gaps = h.gaps,
                  !.focus = h.focus] :
       steps \in UNION {Additions(e) : e \in Edits(plan.steps)}, h \in Heading}

NoPatch == [revision |-> plan.revision, remove |-> {}, update |-> <<>>, add |-> <<>>,
            order |-> <<>>, plan |-> <<>>]

Patches ==
    {[NoPatch EXCEPT !.remove = {id}] : id \in StepId}
    \cup {[NoPatch EXCEPT !.update = id :> [status |-> st]] : id \in StepId, st \in {"failed", "invalidated", "satisfied"}}
    \cup {[NoPatch EXCEPT !.add = <<Fill(id, Objective, c)>>] : id \in StepId, c \in Content}
    \cup {[NoPatch EXCEPT !.order = <<i, j>>] : i, j \in StepId}
    \cup {[NoPatch EXCEPT !.plan = [current |-> id]] : id \in StepId}

\* The plans a planning command may ask for: revise, and patch.
Proposals ==
    {new \in Snapshots : RequireSnapshotSteps(plan, new)}
    \cup {ApplyPlanPatch(plan, p) : p \in {q \in Patches : PatchAllowed(plan, q)}}

\* The decisions of the reconciler: at most one step updated.
Updates ==
    {<<>>} \cup UNION {[{id} -> {Fill(id, Named(plan, id).intent, x) : x \in Content}] :
                         id \in StepIds(plan)}

Decisions ==
    [updates : Updates, focus : {"keep", "none"} \cup Intent,
     current : {"none"} \cup StepIds(plan)]

\* The evidence a reconciliation is supplied with: all of it current.
Supplied ==
    {[partition |-> p, version |-> knowledge[p].version] :
       p \in {q \in Partition : ~ knowledge[q].stale}}

-----------------------------------------------------------------------------
ConfirmClaims(new) == confirmed \cup NewClaims(plan, new)

\* acceptPlan up to the judgment of claims: unfinished work, intent kept or
\* its change explained and found valid, a valid plan.
Acceptable(new, explained) ==
    /\ new.steps /= <<>>
    /\ Unresolved(new) /= {} \/ Unresolved(plan) /= {}
    /\ PlanIntentChanges(plan, new) => explained
    /\ CheckPlan(knowledge, plan, NormalizeCurrentStep(plan, new))

AcceptPlan(new) ==
    /\ plan.revision < MaxRevision
    /\ plan' = RevisePlan(plan, new)
    /\ confirmed' = ConfirmClaims(new)
    /\ UNCHANGED <<pc, knowledge, attempts, before, outcomes>>

\* The evaluator does not confirm the claims: nothing of the proposal is kept.
CompletionRejected(new) ==
    /\ ClaimsCompletion(plan, new)
    /\ UNCHANGED vars

\* The actor explains the changes of intent it has to, and the evaluator finds
\* them valid; a command refused for any other reason changes nothing.
ManagePlan ==
    /\ pc = "turn"
    /\ \E new \in Proposals :
          /\ Acceptable(new, TRUE)
          /\ AcceptPlan(new) \/ CompletionRejected(new)

-----------------------------------------------------------------------------
\* Mutant: a revision of the plan erases the streak.
QueueBatchAfresh ==
    /\ pc = "turn"
    /\ Unresolved(plan) /= {}
    /\ attempts.total < MaxAttempts
    /\ LET streak == IF plan.revision = attempts.revision THEN attempts.streak ELSE 0
       IN  attempts' = [total |-> attempts.total + 1, streak |-> streak,
                        outcome |-> "in_progress", revision |-> plan.revision,
                        step |-> plan.current,
                        replan |-> streak >= ReplanAfterNoProgress]
    /\ before' = plan
    /\ pc' = "batch"
    /\ UNCHANGED <<knowledge, plan, confirmed, outcomes>>

\* An admitted batch opens an attempt (beginAttempt); the gate asks for an
\* unfinished step first.
QueueBatch ==
    /\ pc = "turn"
    /\ Unresolved(plan) /= {}
    /\ attempts.total < MaxAttempts
    /\ attempts' = [total |-> attempts.total + 1, streak |-> attempts.streak,
                    outcome |-> "in_progress", revision |-> plan.revision,
                    step |-> plan.current,
                    replan |-> attempts.streak >= ReplanAfterNoProgress]
    /\ before' = plan
    /\ pc' = "batch"
    /\ UNCHANGED <<knowledge, plan, confirmed, outcomes>>

\* A module processes an event, and may change its partition.
Admit(p, mutation) ==
    /\ pc = "batch"
    /\ mutation => knowledge[p].version < MaxVersion
    /\ knowledge' = [knowledge EXCEPT
                       ![p] = [version |-> IF mutation THEN @.version + 1 ELSE @.version,
                               stale |-> FALSE]]
    /\ UNCHANGED <<pc, plan, attempts, before, confirmed, outcomes>>

\* A module fails on an event: its partition is stale until it processes one.
ModuleFails(p) ==
    /\ pc = "batch"
    /\ ~ knowledge[p].stale
    /\ knowledge' = [knowledge EXCEPT ![p].stale = TRUE]
    /\ UNCHANGED <<pc, plan, attempts, before, confirmed, outcomes>>

EndBatch ==
    /\ pc = "batch"
    /\ pc' = "reconcile"
    /\ UNCHANGED <<knowledge, plan, attempts, before, confirmed, outcomes>>

-----------------------------------------------------------------------------
\* FinishAttempt: only an attempt in progress is settled.
FinishAttempt(progress) ==
    attempts' =
      IF attempts.outcome /= "in_progress" THEN attempts
      ELSE LET streak == IF progress THEN 0 ELSE attempts.streak + 1
           IN  [attempts EXCEPT
                  !.outcome = IF progress THEN "progress" ELSE "no_progress",
                  !.streak = streak,
                  !.replan = streak >= ReplanAfterNoProgress]

\* Progress is a step of the plan before the batch that is different now.
StepChanged(old, new) ==
    \E s \in Steps(old), t \in Steps(new) : s.id = t.id /\ s /= t

\* A decision is accepted: the evaluator found it continuous and its claims
\* supported.  A representation that does not change is not revised.
Reconcile(new) ==
    /\ pc = "reconcile"
    /\ new /= plan => plan.revision < MaxRevision
    /\ plan' = IF new = plan THEN plan ELSE RevisePlan(plan, new)
    /\ confirmed' = ConfirmClaims(new)
    /\ FinishAttempt(StepChanged(before, new))
    /\ outcomes' = Append(outcomes, \E s \in Steps(before) : s \notin Steps(new))
    /\ pc' = "turn"
    /\ before' = NoPlan
    /\ UNCHANGED knowledge

Progress(decision) ==
    /\ ReconciliationPlan(knowledge, plan, Objective, StepIds(plan), Supplied, decision)
    /\ Reconcile(ReconciledPlan(plan, Objective, decision))

NoProgress == Reconcile(plan)

ReconciliationFails ==
    /\ pc = "reconcile"
    /\ pc' = "failed"
    /\ UNCHANGED <<knowledge, plan, attempts, before, confirmed, outcomes>>

-----------------------------------------------------------------------------
Next ==
    \/ ManagePlan
    \/ QueueBatch
    \/ \E p \in Partition : ModuleFails(p) \/ \E mutation \in BOOLEAN : Admit(p, mutation)
    \/ EndBatch
    \/ NoProgress \/ \E d \in Decisions : Progress(d)
    \/ ReconciliationFails

Spec == Init /\ [][Next]_vars
-----------------------------------------------------------------------------
TypeOK ==
    /\ pc \in {"turn", "batch", "reconcile", "failed"}
    /\ knowledge \in [Partition -> [version : 0..MaxVersion, stale : BOOLEAN]]
    /\ plan \in Plan \cup {NoPlan} /\ before \in Plan \cup {NoPlan}
    /\ Len(plan.steps) <= MaxSteps /\ plan.revision \in 0..MaxRevision
    /\ attempts.total \in 0..MaxAttempts /\ attempts.streak \in 0..MaxAttempts
    /\ attempts.outcome \in {"none", "in_progress", "progress", "no_progress"}
    /\ confirmed \subseteq Step

\* No sequence of revisions, patches, renewals and reconciliations drops or
\* rewrites what was confirmed: every step ever confirmed as satisfied is in
\* the plan with the outcome and evidence it was confirmed with, or
\* invalidated with them.
ConfirmedKept ==
    \A s \in confirmed : \E t \in Steps(plan) : UnchangedOrInvalidated(s, t)

\* A step is satisfied only if an evaluator confirmed it, as it stands, and a
\* plan only with every one of its steps.
SatisfiedWasConfirmed ==
    /\ \A s \in Steps(plan) : s.status = "satisfied" => s \in confirmed
    /\ plan.status = "satisfied" => plan.steps /= <<>> /\ Steps(plan) \subseteq confirmed

\* Neither plan nor step cites an observation that has not been made.
EvidenceObserved ==
    \A ref \in plan.evidence \cup UNION {s.evidence : s \in Steps(plan)} :
       ref.version <= knowledge[ref.partition].version

\* The streak is what the reconciled batches say, whatever happened to the
\* plan in between: replanning is asked for when the last
\* ReplanAfterNoProgress of them changed no step, and only then.
LastWithoutProgress(n) ==
    /\ n <= Len(outcomes)
    /\ \A i \in (Len(outcomes) - n + 1)..Len(outcomes) : ~ outcomes[i]

StreakHonest ==
    /\ \A n \in 1..MaxAttempts : attempts.streak >= n <=> LastWithoutProgress(n)
    /\ attempts.replan <=> LastWithoutProgress(ReplanAfterNoProgress)
    /\ attempts.total = Len(outcomes) + (IF pc = "turn" THEN 0 ELSE 1)

\* The procedure can always go on.  Its position is an unfinished step for as
\* long as there is one, and below the step limit one more step is accepted
\* without an explanation and without a judgment, once the evidence of steps
\* that are not complete is left out, however stale it has become.
Continued(id) ==
    [plan EXCEPT
       !.intent = IF plan = NoPlan THEN Objective ELSE @,
       !.status = "active", !.evidence = {},
       !.steps = Append([i \in DOMAIN @ |-> IF Completed(@[i]) THEN @[i]
                                            ELSE [@[i] EXCEPT !.evidence = {}]],
                        Fill(id, Objective, [status |-> "pending", outcome |-> "none",
                                             evidence |-> {}, gaps |-> "none"]))]

Continuable ==
    /\ IF Unresolved(plan) = {} THEN plan.current = "none"
                                ELSE plan.current \in {s.id : s \in Unresolved(plan)}
    /\ Len(plan.steps) < MaxSteps =>
          \A id \in StepId \ StepIds(plan) :
             /\ Acceptable(Continued(id), FALSE)
             /\ ~ ClaimsCompletion(plan, Continued(id))

\* Reconciliation records progress in the procedure the actor declared: it
\* adds, removes, reorders and rewrites no step, and a batch changes no plan.
ReconciliationKeepsProcedure ==
    [][pc /= "turn" => /\ DOMAIN plan'.steps = DOMAIN plan.steps
                       /\ \A i \in DOMAIN plan.steps :
                             /\ plan'.steps[i].id = plan.steps[i].id
                             /\ plan'.steps[i].intent = plan.steps[i].intent
                       /\ plan'.intent = plan.intent
                       /\ plan'.status = plan.status]_vars

=============================================================================
