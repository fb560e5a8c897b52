-------------------------- MODULE PlanStoreProofs --------------------------
(***************************************************************************)
(* The properties of PlanStore for any steps, intents, partitions and      *)
(* bounds.  What a proposal is and how a patch computes it does not        *)
(* matter: CheckPlan alone is what the accepted plan rests on.             *)
(***************************************************************************)
EXTENDS PlanStore, FiniteSetTheorems, WellFoundedInduction, TLAPS

AnyPlan == Plan \cup {NoPlan}

\* A set of numbers has a smallest one.
LEMMA Earliest ==
    ASSUME NEW T \in SUBSET Nat, T # {}
    PROVE  \E i \in T : \A j \in T : i <= j
  <1> DEFINE R == OpToRel(<, Nat)
  <1>1. PICK i \in T : \A j \in T : <<j, i>> \notin R
    BY NatLessThanWellFounded, WFMin
  <1>2. \A j \in T : <<j, i>> \in R <=> j < i
    BY DEF OpToRel
  <1>3. \A j \in T : ~ (j < i)
    BY <1>1, <1>2
  <1> QED
    BY <1>3

-----------------------------------------------------------------------------
(* What is stored of a proposal *)

LEMMA PlanSteps ==
    ASSUME NEW p \in AnyPlan
    PROVE  /\ p.steps \in Seq(Step) /\ DOMAIN p.steps = 1..Len(p.steps) /\ Len(p.steps) \in Nat
           /\ Steps(p) \subseteq Step
           /\ p.current \in StepId \cup {"none"}
           /\ p.revision \in Nat
  <1>1. /\ p.steps \in Seq(Step)
        /\ p.current \in StepId \cup {"none"} /\ p.revision \in Nat
    <2>1. CASE p \in Plan
      BY <2>1 DEF Plan
    <2>2. CASE p = NoPlan
      <3>1. p.steps = <<>> /\ p.current = "none" /\ p.revision = 0
        BY <2>2 DEF NoPlan
      <3> QED
        BY <3>1
    <2> QED
      BY <2>1, <2>2 DEF AnyPlan
  <1> QED
    BY <1>1 DEF Steps

\* The current step of a plan: an unfinished one as long as there is one.
Position(p) ==
    IF Unresolved(p) = {} THEN p.current = "none" ELSE \E s \in Unresolved(p) : s.id = p.current

\* Nothing but the selection changes, and it becomes the plan's position.
LEMMA AdvanceKeeps ==
    ASSUME NEW p \in Plan
    PROVE  \E c \in StepId \cup {"none"} :
              /\ AdvanceCurrentStep(p) = [p EXCEPT !.current = c]
              /\ IF Unresolved(p) = {} THEN c = "none" ELSE \E s \in Unresolved(p) : s.id = c
  <1>1. /\ p.steps \in Seq(Step) /\ DOMAIN p.steps = 1..Len(p.steps) /\ Len(p.steps) \in Nat
        /\ p.current \in StepId \cup {"none"}
    BY DEF Plan
  <1>2. CASE \E s \in Unresolved(p) : s.id = p.current
    <2>1. p = [p EXCEPT !.current = p.current]
      BY DEF Plan
    <2>2. AdvanceCurrentStep(p) = p
      BY <1>2 DEF AdvanceCurrentStep
    <2> QED
      BY <1>1, <1>2, <2>1, <2>2
  <1>3. CASE Unresolved(p) = {}
    BY <1>3 DEF AdvanceCurrentStep
  <1>4. CASE Unresolved(p) # {} /\ ~ \E s \in Unresolved(p) : s.id = p.current
    <2> DEFINE T == {i \in DOMAIN p.steps : StepUnresolved(p.steps[i])}
               First(i) == /\ StepUnresolved(p.steps[i])
                           /\ \A j \in 1..(i - 1) : ~ StepUnresolved(p.steps[j])
               i == CHOOSE i \in DOMAIN p.steps : First(i)
    <2>1. T \in SUBSET Nat /\ T # {}
      BY <1>1, <1>4 DEF Unresolved, Steps
    <2>2. PICK m \in T : \A j \in T : m <= j
      BY <2>1, Earliest
    <2>3. m \in DOMAIN p.steps /\ First(m)
      <3>1. m \in 1..Len(p.steps) /\ StepUnresolved(p.steps[m])
        BY <1>1
      <3>2. ASSUME NEW j \in 1..(m - 1) PROVE ~ StepUnresolved(p.steps[j])
        <4>1. j \in 1..Len(p.steps) /\ ~ (m <= j)
          BY <1>1, <3>1
        <4> QED
          BY <1>1, <2>2, <4>1
      <3> QED
        BY <1>1, <3>1, <3>2
    <2>4. i \in DOMAIN p.steps /\ First(i)
      BY <2>3
    <2>5. AdvanceCurrentStep(p) = [p EXCEPT !.current = p.steps[i].id]
      BY <1>4 DEF AdvanceCurrentStep
    <2> HIDE DEF i
    <2>6. p.steps[i] \in Unresolved(p) /\ p.steps[i].id \in StepId
      <3>1. i \in 1..Len(p.steps) /\ StepUnresolved(p.steps[i])
        BY <1>1, <2>4
      <3>2. p.steps[i] \in Step
        BY <1>1, <3>1
      <3>3. p.steps[i].id \in StepId
        BY <3>2 DEF Step
      <3> QED
        BY <1>1, <3>1, <3>3 DEF Unresolved, Steps
    <2> QED
      BY <1>4, <2>5, <2>6
  <1> QED
    BY <1>2, <1>3, <1>4

\* A proposal is normalised before it is checked; that moves its position only.
LEMMA NormalizeKeeps ==
    ASSUME NEW old, NEW new, NormalizeCurrentStep(old, new) \in Plan
    PROVE  NormalizeCurrentStep(old, new).steps = new.steps
  <1>1. CASE NormalizeCurrentStep(old, new) = new
    BY <1>1
  <1>2. ASSUME NEW c, NormalizeCurrentStep(old, new) = [new EXCEPT !.current = c]
        PROVE  NormalizeCurrentStep(old, new).steps = new.steps
    <2>1. DOMAIN [new EXCEPT !.current = c] = DOMAIN new
      OBVIOUS
    <2>2. "steps" \in DOMAIN new
      BY <1>2, <2>1 DEF Plan
    <2> QED
      BY <1>2, <2>2
  <1> QED
    BY <1>1, <1>2 DEF NormalizeCurrentStep, AdvanceCurrentStep

\* What RevisePlan stores of a plan that was normalised.
LEMMA StoredPlan ==
    ASSUME NEW old, NEW new, NormalizeCurrentStep(old, new) \in Plan
    PROVE  LET n == NormalizeCurrentStep(old, new)
               stored == RevisePlan(old, new)
           IN  /\ stored \in Plan
               /\ stored.steps = new.steps
               /\ stored.status = n.status /\ stored.intent = n.intent
               /\ stored.evidence = n.evidence
               /\ stored.revision = n.revision + 1
               /\ Position(stored)
  <1> DEFINE n == NormalizeCurrentStep(old, new)
             stored == RevisePlan(old, new)
  <1>1. PICK c \in StepId \cup {"none"} :
           /\ AdvanceCurrentStep(n) = [n EXCEPT !.current = c]
           /\ IF Unresolved(n) = {} THEN c = "none" ELSE \E s \in Unresolved(n) : s.id = c
    BY AdvanceKeeps
  <1>2. stored = [[n EXCEPT !.current = c] EXCEPT !.revision = @ + 1]
    BY <1>1 DEF RevisePlan
  <1>3. n \in Plan /\ n.steps = new.steps
    BY NormalizeKeeps
  <1> HIDE DEF n, stored
  <1>4. /\ stored \in Plan /\ stored.steps = n.steps
        /\ stored.status = n.status /\ stored.intent = n.intent
        /\ stored.evidence = n.evidence
        /\ stored.revision = n.revision + 1
        /\ stored.current = c
    <2> DEFINE q == [n EXCEPT !.current = c]
    <2>1. /\ q \in Plan /\ q.steps = n.steps /\ q.status = n.status /\ q.intent = n.intent
          /\ q.evidence = n.evidence /\ q.revision = n.revision /\ q.current = c
      BY <1>3 DEF Plan
    <2>2. stored = [q EXCEPT !.revision = q.revision + 1]
      BY <1>2, <2>1 DEF Plan
    <2> HIDE DEF q
    <2>3. stored \in Plan
      <3>1. q.revision + 1 \in Nat
        BY <2>1 DEF Plan
      <3>2. ASSUME NEW r \in Nat PROVE [q EXCEPT !.revision = r] \in Plan
        BY <2>1 DEF Plan
      <3> QED
        BY <2>2, <3>1, <3>2
    <2>4. /\ stored.steps = q.steps /\ stored.status = q.status /\ stored.intent = q.intent
          /\ stored.evidence = q.evidence /\ stored.current = q.current
          /\ stored.revision = q.revision + 1
      BY <2>1, <2>2 DEF Plan
    <2> QED
      BY <2>1, <2>3, <2>4
  <1>5. Unresolved(stored) = Unresolved(n)
    BY <1>4 DEF Unresolved, Steps
  <1>6. Position(stored)
    BY <1>1, <1>4, <1>5 DEF Position
  <1> QED
    BY <1>3, <1>4, <1>6 DEF n, stored

-----------------------------------------------------------------------------
(* What CheckPlan protects *)

LEMMA InvalidationKeeps ==
    ASSUME NEW s \in Step, NEW t \in Step, UnchangedOrInvalidated(s, t)
    PROVE  /\ t.id = s.id /\ t.intent = s.intent /\ t.evidence = s.evidence
           /\ t.status \in {s.status, "invalidated"}
  BY DEF UnchangedOrInvalidated, Step

LEMMA InvalidationComposes ==
    ASSUME NEW s \in Step, NEW t \in Step, NEW u \in Step,
           UnchangedOrInvalidated(s, t), UnchangedOrInvalidated(t, u)
    PROVE  UnchangedOrInvalidated(s, u)
  BY DEF UnchangedOrInvalidated, Step

\* Every completed step of the plan is in a plan that is accepted over it, as
\* it was or invalidated; every other step cites current observations alone.
LEMMA CheckedHistory ==
    ASSUME NEW k, NEW old \in AnyPlan, NEW new, CheckPlan(k, old, new)
    PROVE  /\ \A t \in Steps(old) : Completed(t) =>
                 \E u \in Steps(new) : UnchangedOrInvalidated(t, u)
           /\ \A u \in Steps(new) :
                 \/ \E t \in Steps(old) : Completed(t) /\ UnchangedOrInvalidated(t, u)
                 \/ /\ \A ref \in u.evidence : ResolveEvidence(k, ref)
                    /\ ~ \E t \in Steps(old) : t.id = u.id /\ Completed(t)
           /\ \A u \in Steps(new) : u.status = "satisfied" =>
                 u \in Steps(old) \/ u \in NewClaims(old, new)
           /\ new.status = "satisfied" => \A u \in Steps(new) : u.status = "satisfied"
  <1>1. new \in Plan /\ Steps(new) \subseteq Step /\ Steps(old) \subseteq Step
    BY PlanSteps DEF CheckPlan, AnyPlan
  <1>2. ASSUME NEW u \in Steps(new), NEW t \in Steps(old), t.id = u.id, Completed(t)
        PROVE  UnchangedOrInvalidated(t, u)
    BY <1>2 DEF CheckPlan, CheckStep
  <1>3. ASSUME NEW t \in Steps(old), Completed(t)
        PROVE  \E u \in Steps(new) : UnchangedOrInvalidated(t, u)
    <2>1. t.id \in StepIds(new)
      BY <1>3 DEF CheckPlan
    <2>2. PICK u \in Steps(new) : u.id = t.id
      BY <2>1 DEF StepIds
    <2> QED
      BY <1>2, <1>3, <2>2
  <1>4. ASSUME NEW u \in Steps(new)
        PROVE  \/ \E t \in Steps(old) : Completed(t) /\ UnchangedOrInvalidated(t, u)
               \/ /\ \A ref \in u.evidence : ResolveEvidence(k, ref)
                  /\ ~ \E t \in Steps(old) : t.id = u.id /\ Completed(t)
    <2>1. CASE \E t \in Steps(old) : t.id = u.id /\ Completed(t)
      BY <1>2, <2>1
    <2>2. CASE ~ \E t \in Steps(old) : t.id = u.id /\ Completed(t)
      BY <2>2 DEF CheckPlan, CheckStep
    <2> QED
      BY <2>1, <2>2
  <1>5. ASSUME NEW u \in Steps(new), u.status = "satisfied"
        PROVE  u \in Steps(old) \/ u \in NewClaims(old, new)
    <2>1. CASE \E t \in Steps(old) : t.id = u.id /\ t.status = "satisfied"
      <3>1. PICK t \in Steps(old) : t.id = u.id /\ t.status = "satisfied"
        BY <2>1
      <3>2. UnchangedOrInvalidated(t, u)
        BY <1>2, <3>1 DEF Completed
      <3> QED
        BY <1>1, <1>5, <3>2 DEF UnchangedOrInvalidated, Step
    <2> QED
      BY <1>5, <2>1 DEF NewClaims
  <1>6. new.status = "satisfied" => \A u \in Steps(new) : u.status = "satisfied"
    BY DEF CheckPlan
  <1> QED
    BY <1>3, <1>4, <1>5, <1>6

-----------------------------------------------------------------------------
(* The steps that change the plan *)

\* The plan is replaced by one that CheckPlan accepted over it.
Accepts(checked) ==
    /\ CheckPlan(knowledge, plan, checked)
    /\ plan.revision < MaxRevision
    /\ plan' \in Plan /\ Position(plan')
    /\ plan'.steps = checked.steps /\ plan'.status = checked.status
    /\ plan'.intent = checked.intent /\ plan'.evidence = checked.evidence
    /\ plan'.revision = checked.revision + 1
    /\ confirmed' = confirmed \cup NewClaims(plan, checked)
    /\ knowledge' = knowledge

LEMMA SameSteps ==
    ASSUME NEW old, NEW a, NEW b, a.steps = b.steps
    PROVE  NewClaims(old, a) = NewClaims(old, b)
  BY DEF NewClaims, Steps

LEMMA ReconcileStep ==
    ASSUME plan \in AnyPlan, NEW new, new = plan \/ CheckPlan(knowledge, plan, new), Reconcile(new)
    PROVE  \/ UNCHANGED <<plan, confirmed>>
           \/ \E checked \in Plan : Accepts(checked)
  <1>1. CASE new = plan
    <2>1. NewClaims(plan, plan) = {}
      BY DEF NewClaims
    <2> QED
      BY <1>1, <2>1 DEF Reconcile, ConfirmClaims
  <1>2. CASE new # plan
    <2> DEFINE n == NormalizeCurrentStep(plan, new)
    <2>1. new \in Plan /\ CheckPlan(knowledge, plan, new)
      BY <1>2 DEF CheckPlan
    <2>2. PICK c \in StepId \cup {"none"} : AdvanceCurrentStep(new) = [new EXCEPT !.current = c]
      BY <2>1, AdvanceKeeps
    <2>3. n = new \/ n = [new EXCEPT !.current = c]
      BY <2>2 DEF NormalizeCurrentStep
    <2>4. /\ n \in Plan /\ n.status = new.status /\ n.intent = new.intent
          /\ n.evidence = new.evidence /\ n.revision = new.revision
      BY <2>1, <2>3 DEF Plan
    <2>5. plan' = RevisePlan(plan, new)
      BY <1>2 DEF Reconcile
    <2> HIDE DEF n
    <2>6. /\ plan' \in Plan /\ Position(plan')
          /\ plan'.steps = new.steps /\ plan'.status = new.status
          /\ plan'.intent = new.intent /\ plan'.evidence = new.evidence
          /\ plan'.revision = new.revision + 1
      BY <2>4, <2>5, StoredPlan DEF n
    <2> QED
      BY <1>2, <2>1, <2>6 DEF Reconcile, ConfirmClaims, Accepts
  <1> QED
    BY <1>1, <1>2

LEMMA ManageStep ==
    ASSUME plan \in AnyPlan, ManagePlan
    PROVE  \/ UNCHANGED <<plan, confirmed>>
           \/ \E checked \in Plan : Accepts(checked)
  <1>1. PICK new \in Proposals : Acceptable(new, TRUE) /\ (AcceptPlan(new) \/ CompletionRejected(new))
    BY DEF ManagePlan
  <1>2. CASE CompletionRejected(new)
    BY <1>2 DEF CompletionRejected, vars
  <1>3. CASE AcceptPlan(new)
    <2> DEFINE n == NormalizeCurrentStep(plan, new)
    <2>1. n \in Plan /\ CheckPlan(knowledge, plan, n)
      BY <1>1 DEF Acceptable, CheckPlan
    <2>2. n.steps = new.steps
      BY <2>1, NormalizeKeeps
    <2>3. plan' = RevisePlan(plan, new) /\ confirmed' = confirmed \cup NewClaims(plan, new)
          /\ plan.revision < MaxRevision /\ knowledge' = knowledge
      BY <1>3 DEF AcceptPlan, ConfirmClaims
    <2>4. /\ plan' \in Plan /\ Position(plan')
          /\ plan'.steps = new.steps /\ plan'.status = n.status
          /\ plan'.intent = n.intent /\ plan'.evidence = n.evidence
          /\ plan'.revision = n.revision + 1
      BY <2>1, <2>3, StoredPlan
    <2>5. NewClaims(plan, new) = NewClaims(plan, n)
      BY <2>2, SameSteps
    <2> HIDE DEF n
    <2> QED
      BY <2>1, <2>2, <2>3, <2>4, <2>5 DEF Accepts
  <1> QED
    BY <1>1, <1>2, <1>3

LEMMA PlanStep ==
    ASSUME plan \in AnyPlan, [Next]_vars
    PROVE  \/ UNCHANGED <<plan, confirmed>>
           \/ \E checked \in Plan : Accepts(checked)
  <1>1. CASE NoProgress
    BY <1>1, ReconcileStep DEF NoProgress
  <1>2. ASSUME NEW d \in Decisions, Progress(d)
        PROVE  \/ UNCHANGED <<plan, confirmed>>
               \/ \E checked \in Plan : Accepts(checked)
    BY <1>2, ReconcileStep DEF Progress, ReconciliationPlan
  <1> QED
    BY <1>1, <1>2, ManageStep DEF Next, vars, QueueBatch, ModuleFails, Admit, EndBatch,
       ReconciliationFails

-----------------------------------------------------------------------------
(* History *)

HistoryInv ==
    /\ plan \in AnyPlan
    /\ confirmed \subseteq Step
    /\ \A s \in confirmed : s.status = "satisfied"
    /\ ConfirmedKept
    /\ SatisfiedWasConfirmed

LEMMA HistoryStep ==
    ASSUME HistoryInv, [Next]_vars
    PROVE  HistoryInv'
  <1>1. CASE UNCHANGED <<plan, confirmed>>
    BY <1>1 DEF HistoryInv, ConfirmedKept, SatisfiedWasConfirmed
  <1>2. ASSUME NEW checked \in Plan, Accepts(checked)
        PROVE  HistoryInv'
    <2>1. /\ plan \in AnyPlan /\ CheckPlan(knowledge, plan, checked)
          /\ plan' \in Plan /\ plan'.status = checked.status
          /\ confirmed' = confirmed \cup NewClaims(plan, checked)
          /\ Steps(plan)' = Steps(checked) /\ plan'.steps = checked.steps
      BY <1>2 DEF Accepts, HistoryInv, Steps
    <2>2. Steps(plan) \subseteq Step /\ Steps(checked) \subseteq Step
      BY <2>1, PlanSteps DEF AnyPlan
    <2>3. NewClaims(plan, checked) \subseteq Steps(checked)
          /\ \A s \in NewClaims(plan, checked) : s.status = "satisfied"
      BY DEF NewClaims
    <2>4. ConfirmedKept'
      <3> SUFFICES ASSUME NEW s \in confirmed \cup NewClaims(plan, checked)
                   PROVE  \E u \in Steps(checked) : UnchangedOrInvalidated(s, u)
        BY <2>1 DEF ConfirmedKept
      <3>1. CASE s \in NewClaims(plan, checked)
        BY <2>3, <3>1 DEF UnchangedOrInvalidated
      <3>2. CASE s \in confirmed
        <4>1. PICK t \in Steps(plan) : UnchangedOrInvalidated(s, t)
          BY <3>2 DEF HistoryInv, ConfirmedKept
        <4>2. s \in Step /\ t \in Step /\ s.status = "satisfied"
          BY <2>2, <3>2 DEF HistoryInv
        <4>3. Completed(t)
          BY <4>1, <4>2, InvalidationKeeps DEF Completed
        <4>4. PICK u \in Steps(checked) : UnchangedOrInvalidated(t, u)
          BY <2>1, <4>3, CheckedHistory
        <4> QED
          BY <2>2, <4>1, <4>2, <4>4, InvalidationComposes
      <3> QED
        BY <3>1, <3>2
    <2>5. \A s \in Steps(checked) : s.status = "satisfied" => s \in confirmed'
      BY <2>1, CheckedHistory DEF HistoryInv, SatisfiedWasConfirmed
    <2>6. plan'.status = "satisfied" => plan'.steps # <<>> /\ Steps(checked) \subseteq confirmed'
      <3>1. checked.steps # <<>>
        BY <2>1 DEF CheckPlan
      <3>2. checked.status = "satisfied" => \A u \in Steps(checked) : u.status = "satisfied"
        BY <2>1, CheckedHistory
      <3> QED
        BY <2>1, <2>5, <3>1, <3>2
    <2>7. SatisfiedWasConfirmed'
      BY <2>1, <2>5, <2>6 DEF SatisfiedWasConfirmed
    <2>8. /\ confirmed' \subseteq Step
          /\ \A s \in confirmed' : s.status = "satisfied"
      BY <2>1, <2>2, <2>3 DEF HistoryInv
    <2> QED
      BY <2>1, <2>4, <2>7, <2>8 DEF HistoryInv, AnyPlan
  <1> QED
    BY <1>1, <1>2, PlanStep DEF HistoryInv

LEMMA HistoryInvariant == Spec => []HistoryInv
  <1>1. Init => HistoryInv
    BY DEF Init, HistoryInv, ConfirmedKept, SatisfiedWasConfirmed, AnyPlan, NoPlan, Steps
  <1> QED
    BY <1>1, HistoryStep, PTL DEF Spec

\* No sequence of revisions, patches, renewals and reconciliations drops or
\* rewrites a step that was confirmed as satisfied.
THEOREM ConfirmedKeptHolds == Spec => []ConfirmedKept
  <1>1. HistoryInv => ConfirmedKept
    BY DEF HistoryInv
  <1> QED
    BY <1>1, HistoryInvariant, PTL

\* Nothing is satisfied that no evaluator confirmed as it stands.
THEOREM SatisfiedWasConfirmedHolds == Spec => []SatisfiedWasConfirmed
  <1>1. HistoryInv => SatisfiedWasConfirmed
    BY DEF HistoryInv
  <1> QED
    BY <1>1, HistoryInvariant, PTL

-----------------------------------------------------------------------------
(* Evidence *)

EvidenceInv ==
    /\ plan \in AnyPlan
    /\ knowledge \in [Partition -> Metadata]
    /\ EvidenceObserved

\* Versions only grow.
LEMMA KnowledgeGrows ==
    ASSUME knowledge \in [Partition -> Metadata], [Next]_vars
    PROVE  /\ knowledge' \in [Partition -> Metadata]
           /\ \A p \in Partition : knowledge[p].version <= knowledge'[p].version
  <1>1. \A p \in Partition : knowledge[p].version \in Nat
    BY DEF Metadata
  <1>2. CASE knowledge' = knowledge
    BY <1>1, <1>2
  <1>3. ASSUME NEW p \in Partition, NEW mutation \in BOOLEAN, Admit(p, mutation)
        PROVE  /\ knowledge' \in [Partition -> Metadata]
               /\ \A q \in Partition : knowledge[q].version <= knowledge'[q].version
    <2> DEFINE v == IF mutation THEN knowledge[p].version + 1 ELSE knowledge[p].version
    <2>1. v \in Nat /\ knowledge[p].version <= v
      BY <1>1
    <2>2. knowledge' = [knowledge EXCEPT ![p] = [version |-> v, stale |-> FALSE]]
      BY <1>3 DEF Admit
    <2> HIDE DEF v
    <2>3. [version |-> v, stale |-> FALSE] \in Metadata
      BY <2>1 DEF Metadata
    <2> QED
      BY <1>1, <2>1, <2>2, <2>3
  <1>4. ASSUME NEW p \in Partition, ModuleFails(p)
        PROVE  /\ knowledge' \in [Partition -> Metadata]
               /\ \A q \in Partition : knowledge[q].version <= knowledge'[q].version
    <2>1. knowledge' = [knowledge EXCEPT ![p] = [knowledge[p] EXCEPT !.stale = TRUE]]
      BY <1>4 DEF ModuleFails, Metadata
    <2>2. [knowledge[p] EXCEPT !.stale = TRUE] \in Metadata
          /\ [knowledge[p] EXCEPT !.stale = TRUE].version = knowledge[p].version
      BY DEF Metadata
    <2> QED
      BY <1>1, <2>1, <2>2
  <1> QED
    BY <1>2, <1>3, <1>4 DEF Next, vars, ManagePlan, AcceptPlan, CompletionRejected, QueueBatch,
       EndBatch, NoProgress, Progress, Reconcile, ReconciliationFails

LEMMA EvidenceStep ==
    ASSUME EvidenceInv, [Next]_vars
    PROVE  EvidenceInv'
  <1>1. /\ knowledge \in [Partition -> Metadata] /\ knowledge' \in [Partition -> Metadata]
        /\ \A p \in Partition : knowledge[p].version <= knowledge'[p].version
    BY KnowledgeGrows DEF EvidenceInv
  <1>2. \A p \in Partition : knowledge[p].version \in Nat /\ knowledge'[p].version \in Nat
    BY <1>1 DEF Metadata
  <1>3. ASSUME NEW p \in AnyPlan
        PROVE  \A ref \in p.evidence \cup UNION {s.evidence : s \in Steps(p)} :
                  ref.partition \in Partition /\ ref.version \in Nat
    <2>1. p.evidence \subseteq Evidence
      BY DEF AnyPlan, Plan, NoPlan
    <2>2. \A s \in Steps(p) : s.evidence \subseteq Evidence
      BY PlanSteps DEF Step
    <2> QED
      BY <2>1, <2>2 DEF Evidence
  <1>4. CASE UNCHANGED <<plan, confirmed>>
    <2> SUFFICES ASSUME NEW ref \in plan.evidence \cup UNION {s.evidence : s \in Steps(plan)}
                 PROVE  ref.version <= knowledge'[ref.partition].version
      BY <1>1, <1>4 DEF EvidenceInv, EvidenceObserved
    <2>1. ref.version <= knowledge[ref.partition].version
      BY DEF EvidenceInv, EvidenceObserved
    <2>2. ref.partition \in Partition /\ ref.version \in Nat
      BY <1>3 DEF EvidenceInv
    <2> QED
      BY <1>1, <1>2, <2>1, <2>2
  <1>5. ASSUME NEW checked \in Plan, Accepts(checked)
        PROVE  EvidenceInv'
    <2>1. /\ plan \in AnyPlan /\ CheckPlan(knowledge, plan, checked)
          /\ plan' \in Plan /\ plan'.evidence = checked.evidence
          /\ Steps(plan)' = Steps(checked) /\ knowledge' = knowledge
      BY <1>5 DEF Accepts, EvidenceInv, Steps
    <2>2. \A ref : ResolveEvidence(knowledge, ref) => ref.version = knowledge[ref.partition].version
      BY DEF ResolveEvidence
    <2>3. ASSUME NEW ref \in checked.evidence
          PROVE  ref.version <= knowledge[ref.partition].version
      <3>1. ref.version = knowledge[ref.partition].version
        BY <2>1, <2>2 DEF CheckPlan
      <3> QED
        BY <1>2, <1>3, <3>1 DEF AnyPlan
    <2>4. ASSUME NEW u \in Steps(checked), NEW ref \in u.evidence
          PROVE  ref.version <= knowledge[ref.partition].version
      <3>1. CASE ResolveEvidence(knowledge, ref)
        BY <1>2, <1>3, <2>2, <3>1 DEF AnyPlan
      <3>2. CASE \E t \in Steps(plan) : UnchangedOrInvalidated(t, u)
        <4>1. PICK t \in Steps(plan) : UnchangedOrInvalidated(t, u)
          BY <3>2
        <4>2. t \in Step /\ u \in Step
          BY <2>1, PlanSteps DEF AnyPlan
        <4>3. ref \in t.evidence
          BY <4>1, <4>2, InvalidationKeeps
        <4> QED
          BY <4>3 DEF EvidenceInv, EvidenceObserved
      <3> QED
        BY <2>1, <3>1, <3>2, CheckedHistory
    <2>5. EvidenceObserved'
      BY <2>1, <2>3, <2>4 DEF EvidenceObserved
    <2> QED
      BY <1>1, <2>1, <2>5 DEF EvidenceInv, AnyPlan
  <1> QED
    BY <1>1, <1>4, <1>5, PlanStep DEF EvidenceInv

\* Neither plan nor step ever cites an observation that has not been made.
THEOREM EvidenceObservedHolds == Spec => []EvidenceObserved
  <1>1. Init => EvidenceInv
    BY DEF Init, EvidenceInv, EvidenceObserved, AnyPlan, NoPlan, Steps, Metadata
  <1>2. EvidenceInv => EvidenceObserved
    BY DEF EvidenceInv
  <1> QED
    BY <1>1, <1>2, EvidenceStep, PTL DEF Spec

-----------------------------------------------------------------------------
(* Procedure *)

UniqueIds(p) ==
    \A i, j \in DOMAIN p.steps : p.steps[i].id = p.steps[j].id => i = j

\* An accepted plan is well formed, and stays what it was while a batch lasts.
ProcedureInv ==
    /\ plan \in AnyPlan /\ before \in AnyPlan
    /\ pc \in {"turn", "batch", "reconcile", "failed"}
    /\ UniqueIds(plan) /\ Position(plan)
    /\ Len(plan.steps) <= MaxSteps /\ plan.revision <= MaxRevision
    /\ pc \in {"batch", "reconcile"} => plan \in Plan /\ before = plan

LEMMA ProcedureStep ==
    ASSUME ProcedureInv, [Next]_vars
    PROVE  ProcedureInv'
  <1>1. CASE QueueBatch
    <2>1. plan # NoPlan
      BY <1>1 DEF QueueBatch, NoPlan, Unresolved, Steps
    <2> QED
      BY <1>1, <2>1 DEF QueueBatch, ProcedureInv, AnyPlan
  <1>2. CASE UNCHANGED plan /\ ~ QueueBatch
    <2>1. UniqueIds(plan)' /\ Position(plan)'
      BY <1>2 DEF ProcedureInv, UniqueIds, Position, Unresolved, Steps
    <2>2. /\ pc' \in {"turn", "batch", "reconcile", "failed"}
          /\ pc' \in {"batch", "reconcile"} => pc \in {"batch", "reconcile"} /\ before' = before
          /\ before' \in AnyPlan
      BY <1>2 DEF Next, vars, ManagePlan, AcceptPlan, CompletionRejected, ModuleFails, Admit, EndBatch,
         NoProgress, Progress, Reconcile, ReconciliationFails, ProcedureInv, AnyPlan
    <2> QED
      BY <1>2, <2>1, <2>2 DEF ProcedureInv
  <1>3. ASSUME NEW checked \in Plan, Accepts(checked), ~ UNCHANGED plan
        PROVE  ProcedureInv'
    <2>1. /\ CheckPlan(knowledge, plan, checked) /\ plan.revision < MaxRevision
          /\ plan' \in Plan /\ Position(plan') /\ plan'.steps = checked.steps
          /\ plan'.revision = checked.revision + 1
      BY <1>3 DEF Accepts
    <2>2. UniqueIds(plan') /\ Len(plan'.steps) <= MaxSteps
      BY <2>1 DEF CheckPlan, UniqueIds
    <2>3. plan'.revision <= MaxRevision
      <3>1. checked.revision = plan.revision /\ plan.revision \in Nat /\ MaxRevision \in Nat
        BY <2>1, PlanSteps, PlanStoreAssumption DEF CheckPlan, ProcedureInv, PlanStoreAssumption
      <3> QED
        BY <2>1, <3>1
    <2>4. pc' = "turn" /\ before' \in AnyPlan
      BY <1>3 DEF Next, vars, ManagePlan, AcceptPlan, CompletionRejected, QueueBatch, ModuleFails, Admit,
         EndBatch, NoProgress, Progress, Reconcile, ReconciliationFails, ProcedureInv, AnyPlan
    <2> QED
      BY <2>1, <2>2, <2>3, <2>4 DEF ProcedureInv, AnyPlan
  <1> QED
    BY <1>1, <1>2, <1>3, PlanStep DEF ProcedureInv

LEMMA ProcedureInit == Init => ProcedureInv
  BY PlansAssumption, PlanStoreAssumption
     DEF PlansAssumption, PlanStoreAssumption, Init, ProcedureInv, AnyPlan, NoPlan, UniqueIds, Position, Unresolved, Steps

LEMMA ProcedureInvariant == Spec => []ProcedureInv
  BY ProcedureInit, ProcedureStep, PTL DEF Spec

\* What a decision of the reconciler holds.
LEMMA DecisionType ==
    ASSUME plan \in Plan, NEW d \in Decisions
    PROVE  /\ d.focus \in {"keep", "none"} \cup Intent
           /\ d.current \in StepId \cup {"none"}
           /\ \A id \in DOMAIN d.updates :
                 /\ id \in StepIds(plan)
                 /\ d.updates[id] \in Step /\ d.updates[id].id = id
                 /\ d.updates[id].intent = Named(plan, id).intent
  <1>1. Steps(plan) \subseteq Step /\ StepIds(plan) \subseteq StepId
    BY PlanSteps DEF AnyPlan, StepIds, Step
  <1>2. ASSUME NEW id \in StepIds(plan), NEW x \in Content
        PROVE  LET f == Fill(id, Named(plan, id).intent, x)
               IN  f \in Step /\ f.id = id /\ f.intent = Named(plan, id).intent
    <2>1. Named(plan, id) \in Steps(plan)
      BY DEF Named, StepIds
    <2>2. Named(plan, id).intent \in Intent
      BY <1>1, <2>1 DEF Step
    <2>3. /\ x.status \in Status /\ x.outcome \in {"none", "stated"}
          /\ x.evidence \in SUBSET Evidence /\ x.gaps \in {"none", "some"}
      BY PlanStoreAssumption DEF PlanStoreAssumption
    <2> QED
      BY <1>1, <2>2, <2>3 DEF Fill, Step
  <1>3. /\ d.updates \in Updates /\ d.focus \in {"keep", "none"} \cup Intent
        /\ d.current \in {"none"} \cup StepIds(plan)
    BY DEF Decisions
  <1> DEFINE u == d.updates
  <1>5. ASSUME u = <<>>
        PROVE  DOMAIN u = {}
    BY <1>5
  <1>6. ASSUME NEW id \in StepIds(plan),
               u \in [{id} -> {Fill(id, Named(plan, id).intent, x) : x \in Content}]
        PROVE  \A n \in DOMAIN u :
                 /\ n \in StepIds(plan)
                 /\ u[n] \in Step /\ u[n].id = n
                 /\ u[n].intent = Named(plan, n).intent
    <2>1. PICK x \in Content : u[id] = Fill(id, Named(plan, id).intent, x)
      BY <1>6
    <2>2. DOMAIN u = {id}
      BY <1>6
    <2> QED
      BY <1>2, <2>1, <2>2
  <1>7. \/ u = <<>>
        \/ \E id \in StepIds(plan) :
              u \in [{id} -> {Fill(id, Named(plan, id).intent, x) : x \in Content}]
    BY <1>3 DEF Updates
  <1>8. \A n \in DOMAIN u :
           /\ n \in StepIds(plan)
           /\ u[n] \in Step /\ u[n].id = n
           /\ u[n].intent = Named(plan, n).intent
    BY <1>5, <1>6, <1>7
  <1> QED
    BY <1>1, <1>3, <1>8

\* A decision changes no step but in its progress, and of the plan only its
\* position and focus.
LEMMA ReconciledSteps ==
    ASSUME plan \in Plan, UniqueIds(plan), NEW d \in Decisions
    PROVE  LET new == ReconciledPlan(plan, Objective, d)
           IN  /\ DOMAIN new.steps = DOMAIN plan.steps
               /\ \A i \in DOMAIN plan.steps :
                     /\ new.steps[i].id = plan.steps[i].id
                     /\ new.steps[i].intent = plan.steps[i].intent
               /\ new.intent = plan.intent /\ new.status = plan.status
  <1> DEFINE new == ReconciledPlan(plan, Objective, d)
             base == RetainedPlan(plan, Objective)
             steps == [i \in DOMAIN base.steps |->
                         LET s == base.steps[i]
                         IN  IF s.id \in DOMAIN d.updates
                               THEN ReplayedStep(s, d.updates[s.id]) ELSE s]
             focus == IF d.focus = "keep" THEN plan.focus ELSE d.focus
             current == IF d.current = "none" THEN plan.current ELSE d.current
             moved == [plan EXCEPT !.steps = steps, !.focus = focus, !.current = current]
             open == IF \E s \in Steps(moved) : s.id = moved.current /\ ~ StepUnresolved(s)
                       THEN [moved EXCEPT !.current = "none"] ELSE moved
  <1>1. base = plan
    <2>1. plan # NoPlan
      BY DEF Plan, NoPlan, Status
    <2> QED
      BY <2>1 DEF RetainedPlan
  <1>2. new = AdvanceCurrentStep(open)
    BY <1>1 DEF ReconciledPlan
  <1>3. plan.steps \in Seq(Step) /\ DOMAIN plan.steps = 1..Len(plan.steps) /\ Len(plan.steps) \in Nat
    BY PlanSteps DEF AnyPlan
  <1>4. ASSUME NEW i \in DOMAIN plan.steps
        PROVE  /\ steps[i] \in Step
               /\ steps[i].id = plan.steps[i].id
               /\ steps[i].intent = plan.steps[i].intent
    <2> DEFINE s == plan.steps[i]
    <2>1. s \in Step /\ s \in Steps(plan)
      BY <1>3 DEF Steps
    <2>2. steps[i] \in {s} \/ (s.id \in DOMAIN d.updates /\ steps[i] = d.updates[s.id])
      BY <1>1 DEF ReplayedStep
    <2>3. Named(plan, s.id) = s
      <3>1. Named(plan, s.id) \in Steps(plan) /\ Named(plan, s.id).id = s.id
        BY <2>1 DEF Named
      <3> QED
        BY <2>1, <3>1 DEF Steps, UniqueIds
    <2>4. s.id \in DOMAIN d.updates =>
             /\ d.updates[s.id] \in Step /\ d.updates[s.id].id = s.id
             /\ d.updates[s.id].intent = s.intent
      BY <2>3, DecisionType
    <2> QED
      BY <2>1, <2>2, <2>4
  <1>5. DOMAIN steps = DOMAIN plan.steps /\ steps \in Seq(Step)
    <2>1. DOMAIN steps = DOMAIN plan.steps
      BY <1>1
    <2>2. steps = [i \in DOMAIN plan.steps |-> steps[i]]
      BY <1>1
    <2> HIDE DEF steps
    <2>3. steps \in [1..Len(plan.steps) -> Step]
      BY <1>3, <1>4, <2>1, <2>2
    <2>4. steps \in Seq(Step)
      BY <1>3, <2>3
    <2> QED
      BY <2>1, <2>4
  <1>6. focus \in Intent \cup {"none"} /\ current \in StepId \cup {"none"}
    BY DecisionType DEF Plan
  <1> HIDE DEF steps, focus, current
  <1>7. /\ moved \in Plan /\ moved.steps = steps
        /\ moved.intent = plan.intent /\ moved.status = plan.status
    BY <1>5, <1>6 DEF Plan
  <1> HIDE DEF moved
  <1>8. /\ open \in Plan /\ open.steps = steps
        /\ open.intent = plan.intent /\ open.status = plan.status
    BY <1>7 DEF Plan
  <1> HIDE DEF open
  <1>9. PICK c \in StepId \cup {"none"} : new = [open EXCEPT !.current = c]
    BY <1>2, <1>8, AdvanceKeeps
  <1> HIDE DEF new
  <1>10. new.steps = steps /\ new.intent = plan.intent /\ new.status = plan.status
    BY <1>8, <1>9 DEF Plan
  <1> QED
    BY <1>4, <1>5, <1>10 DEF new

\* What a step that changes the plan outside a turn makes of it.
LEMMA ReconciliationStep ==
    ASSUME ProcedureInv, [Next]_vars, pc # "turn", plan' # plan
    PROVE  \E d \in Decisions :
              LET new == ReconciledPlan(plan, Objective, d)
              IN  /\ plan' = RevisePlan(plan, new)
                  /\ NormalizeCurrentStep(plan, new) \in Plan
                  /\ pc = "reconcile"
  <1>1. PICK d \in Decisions : Progress(d) /\ ReconciledPlan(plan, Objective, d) # plan
    BY DEF Next, vars, ManagePlan, QueueBatch, ModuleFails, Admit, EndBatch, NoProgress, Progress,
       Reconcile, ReconciliationFails
  <1> DEFINE new == ReconciledPlan(plan, Objective, d)
  <1>2. new \in Plan
    BY <1>1 DEF Progress, ReconciliationPlan, CheckPlan
  <1>3. plan' = RevisePlan(plan, new) /\ pc = "reconcile"
    BY <1>1 DEF Progress, Reconcile
  <1> HIDE DEF new
  <1>4. PICK c \in StepId \cup {"none"} : AdvanceCurrentStep(new) = [new EXCEPT !.current = c]
    BY <1>2, AdvanceKeeps
  <1>5. NormalizeCurrentStep(plan, new) \in Plan
    BY <1>2, <1>4 DEF NormalizeCurrentStep, Plan
  <1> QED
    BY <1>3, <1>5 DEF new

\* Reconciliation adds, removes, reorders and rewrites no step, and a batch
\* changes no plan.
THEOREM ReconciliationKeepsProcedureHolds == Spec => ReconciliationKeepsProcedure
  <1> DEFINE Kept ==
        pc /= "turn" => /\ DOMAIN plan'.steps = DOMAIN plan.steps
                        /\ \A i \in DOMAIN plan.steps :
                              /\ plan'.steps[i].id = plan.steps[i].id
                              /\ plan'.steps[i].intent = plan.steps[i].intent
                        /\ plan'.intent = plan.intent
                        /\ plan'.status = plan.status
  <1>1. ASSUME ProcedureInv, [Next]_vars
        PROVE  Kept
    <2> SUFFICES ASSUME pc # "turn", plan' # plan
                 PROVE  Kept
      OBVIOUS
    <2>1. PICK d \in Decisions :
             /\ plan' = RevisePlan(plan, ReconciledPlan(plan, Objective, d))
             /\ NormalizeCurrentStep(plan, ReconciledPlan(plan, Objective, d)) \in Plan
             /\ pc = "reconcile"
      BY <1>1, ReconciliationStep
    <2> DEFINE new == ReconciledPlan(plan, Objective, d)
               n == NormalizeCurrentStep(plan, new)
    <2>2. plan \in Plan /\ UniqueIds(plan)
      BY <1>1, <2>1 DEF ProcedureInv
    <2>3. /\ DOMAIN new.steps = DOMAIN plan.steps
          /\ \A i \in DOMAIN plan.steps :
                /\ new.steps[i].id = plan.steps[i].id
                /\ new.steps[i].intent = plan.steps[i].intent
          /\ new.intent = plan.intent /\ new.status = plan.status
      BY <2>2, ReconciledSteps
    <2>4. /\ plan'.steps = new.steps /\ plan'.status = n.status /\ plan'.intent = n.intent
      BY <2>1, StoredPlan
    <2>5. n.intent = new.intent /\ n.status = new.status
      BY <2>1 DEF NormalizeCurrentStep, AdvanceCurrentStep, Plan
    <2> QED
      BY <2>3, <2>4, <2>5
  <1> QED
    BY <1>1, ProcedureInvariant, PTL DEF Spec, ReconciliationKeepsProcedure

-----------------------------------------------------------------------------
(* Attempts *)

AttemptInv ==
    /\ attempts \in [total : Nat, streak : Nat,
                     outcome : {"none", "in_progress", "progress", "no_progress"},
                     revision : Nat, step : StepId \cup {"none"}, replan : BOOLEAN]
    /\ outcomes \in Seq(BOOLEAN)
    /\ attempts.total = Len(outcomes) + (IF pc = "turn" THEN 0 ELSE 1)
    /\ attempts.total <= MaxAttempts
    /\ pc \in {"batch", "reconcile"} => attempts.outcome = "in_progress"
    /\ \A n \in Nat : attempts.streak >= n <=> LastWithoutProgress(n)
    /\ attempts.replan <=> attempts.streak >= ReplanAfterNoProgress

\* A batch is without progress exactly if each step is still there as it was.
LEMMA ProgressIsChange ==
    ASSUME UniqueIds(plan), NEW new, DOMAIN new.steps = DOMAIN plan.steps,
           \A i \in DOMAIN plan.steps : new.steps[i].id = plan.steps[i].id
    PROVE  StepChanged(plan, new) <=> \E s \in Steps(plan) : s \notin Steps(new)
  <1>1. ASSUME NEW i \in DOMAIN plan.steps, NEW j \in DOMAIN plan.steps,
               plan.steps[i].id = new.steps[j].id
        PROVE  i = j
    BY <1>1 DEF UniqueIds
  <1>2. ASSUME NEW i \in DOMAIN plan.steps, NEW j \in DOMAIN plan.steps,
               plan.steps[i].id = new.steps[j].id, plan.steps[i] # new.steps[j]
        PROVE  plan.steps[i] \notin Steps(new)
    BY <1>1, <1>2 DEF Steps
  <1>3. StepChanged(plan, new) => \E s \in Steps(plan) : s \notin Steps(new)
    BY <1>2 DEF StepChanged, Steps
  <1>4. ASSUME NEW i \in DOMAIN plan.steps, plan.steps[i] \notin Steps(new)
        PROVE  StepChanged(plan, new)
    <2>1. new.steps[i] \in Steps(new) /\ plan.steps[i] \in Steps(plan)
      BY DEF Steps
    <2> QED
      BY <1>4, <2>1 DEF StepChanged
  <1> QED
    BY <1>3, <1>4 DEF Steps

\* A settled attempt counts on, or starts over.
LEMMA SettledStreak ==
    ASSUME AttemptInv, pc = "reconcile", pc' = "turn", NEW progress \in BOOLEAN,
           FinishAttempt(progress), outcomes' = Append(outcomes, progress)
    PROVE  AttemptInv'
  <1> DEFINE streak == IF progress THEN 0 ELSE attempts.streak + 1
             len == Len(outcomes)
  <1>1. /\ outcomes \in Seq(BOOLEAN) /\ len \in Nat /\ attempts.streak \in Nat
        /\ outcomes' \in Seq(BOOLEAN) /\ Len(outcomes') = len + 1
        /\ outcomes'[len + 1] = progress
        /\ \A i \in 1..len : outcomes'[i] = outcomes[i]
    BY DEF AttemptInv
  <1>2. attempts' = [attempts EXCEPT
                       !.outcome = IF progress THEN "progress" ELSE "no_progress",
                       !.streak = streak,
                       !.replan = streak >= ReplanAfterNoProgress]
    BY DEF AttemptInv, FinishAttempt
  <1>3. streak \in Nat
    BY <1>1
  <1>4. /\ attempts'.streak = streak /\ attempts'.total = attempts.total
        /\ attempts'.replan = (streak >= ReplanAfterNoProgress)
        /\ attempts' \in [total : Nat, streak : Nat,
                          outcome : {"none", "in_progress", "progress", "no_progress"},
                          revision : Nat, step : StepId \cup {"none"}, replan : BOOLEAN]
    <2> HIDE DEF streak
    <2>1. (streak >= ReplanAfterNoProgress) \in BOOLEAN
      OBVIOUS
    <2> QED
      BY <1>2, <1>3, <2>1 DEF AttemptInv
  <1>5. ASSUME NEW n \in Nat
        PROVE  streak >= n <=> LastWithoutProgress(n)'
    <2>1. CASE n = 0
      BY <1>1, <1>3, <2>1 DEF LastWithoutProgress
    <2>2. CASE n > 0 /\ progress
      BY <1>1, <2>2 DEF LastWithoutProgress
    <2>3. CASE n > 0 /\ ~ progress
      <3>1. attempts.streak >= n - 1 <=> LastWithoutProgress(n - 1)
        BY <2>3 DEF AttemptInv
      <3>2. LastWithoutProgress(n)' <=> LastWithoutProgress(n - 1)
        BY <1>1, <2>3 DEF LastWithoutProgress
      <3> QED
        BY <1>1, <2>3, <3>1, <3>2
    <2> QED
      BY <2>1, <2>2, <2>3
  <1>6. attempts.total = len + 1 /\ attempts.total <= MaxAttempts
    BY DEF AttemptInv
  <1> HIDE DEF streak
  <1> QED
    BY <1>1, <1>4, <1>5, <1>6 DEF AttemptInv

LEMMA AttemptStep ==
    ASSUME AttemptInv, ProcedureInv, [Next]_vars
    PROVE  AttemptInv'
  <1>1. CASE QueueBatch
    <2> DEFINE replan == attempts.streak >= ReplanAfterNoProgress
    <2>1. /\ attempts' = [total |-> attempts.total + 1, streak |-> attempts.streak,
                          outcome |-> "in_progress", revision |-> plan.revision,
                          step |-> plan.current, replan |-> replan]
          /\ pc = "turn" /\ pc' = "batch" /\ outcomes' = outcomes
          /\ attempts.total < MaxAttempts
      BY <1>1 DEF QueueBatch
    <2>2. plan.revision \in Nat /\ plan.current \in StepId \cup {"none"}
      BY PlanSteps DEF ProcedureInv
    <2>3. replan \in BOOLEAN
      OBVIOUS
    <2>4. \A n \in Nat : LastWithoutProgress(n)' <=> LastWithoutProgress(n)
      BY <2>1 DEF LastWithoutProgress
    <2>5. MaxAttempts \in Nat /\ attempts.total \in Nat /\ attempts.streak \in Nat /\ Len(outcomes) \in Nat
      BY PlanStoreAssumption DEF PlanStoreAssumption, AttemptInv
    <2>6. attempts' \in [total : Nat, streak : Nat,
                         outcome : {"none", "in_progress", "progress", "no_progress"},
                         revision : Nat, step : StepId \cup {"none"}, replan : BOOLEAN]
      <3> HIDE DEF replan
      <3> QED
        BY <2>1, <2>2, <2>3, <2>5
    <2>7. attempts'.streak = attempts.streak /\ attempts'.total = attempts.total + 1
          /\ attempts'.outcome = "in_progress" /\ (attempts'.replan <=> replan)
      BY <2>1
    <2> QED
      BY <2>1, <2>4, <2>5, <2>6, <2>7 DEF AttemptInv
  <1>2. CASE UNCHANGED <<attempts, outcomes>> /\ (pc' \in {"batch", "reconcile", "failed"} <=> pc # "turn")
             /\ pc \in {"turn", "batch", "reconcile", "failed"} /\ (pc = "turn" => pc' = "turn")
             /\ (pc' \in {"batch", "reconcile"} => pc \in {"batch", "reconcile"})
    <2>1. \A n \in Nat : LastWithoutProgress(n)' <=> LastWithoutProgress(n)
      BY <1>2 DEF LastWithoutProgress
    <2> QED
      BY <1>2, <2>1 DEF AttemptInv
  <1>3. ASSUME NEW new, Reconcile(new), plan \in Plan, UniqueIds(plan), before = plan,
               DOMAIN new.steps = DOMAIN plan.steps,
               \A i \in DOMAIN plan.steps : new.steps[i].id = plan.steps[i].id
        PROVE  AttemptInv'
    <2> DEFINE progress == \E s \in Steps(plan) : s \notin Steps(new)
    <2>1. progress <=> StepChanged(plan, new)
      BY <1>3, ProgressIsChange
    <2>2. progress \in BOOLEAN /\ StepChanged(plan, new) \in BOOLEAN
      BY DEF StepChanged
    <2>3. FinishAttempt(StepChanged(plan, new)) /\ outcomes' = Append(outcomes, progress)
          /\ pc = "reconcile" /\ pc' = "turn"
      BY <1>3 DEF Reconcile
    <2> HIDE DEF progress
    <2>4. StepChanged(plan, new) = progress
      BY <2>1, <2>2
    <2> QED
      BY <2>2, <2>3, <2>4, SettledStreak
  <1>4. CASE NoProgress
    <2>1. plan \in Plan /\ UniqueIds(plan) /\ before = plan
      BY <1>4 DEF NoProgress, Reconcile, ProcedureInv
    <2> QED
      BY <1>3, <1>4, <2>1 DEF NoProgress
  <1>5. ASSUME NEW d \in Decisions, Progress(d)
        PROVE  AttemptInv'
    <2>1. plan \in Plan /\ UniqueIds(plan) /\ before = plan
      BY <1>5 DEF Progress, Reconcile, ProcedureInv
    <2> QED
      BY <1>3, <1>5, <2>1, ReconciledSteps DEF Progress
  <1> QED
    BY <1>1, <1>2, <1>4, <1>5 DEF Next, vars, ManagePlan, AcceptPlan, CompletionRejected, ModuleFails,
       Admit, EndBatch, ReconciliationFails, ProcedureInv

LEMMA AttemptInvariant == Spec => []AttemptInv
  <1>1. Init => AttemptInv
    <2> SUFFICES ASSUME Init PROVE AttemptInv
      OBVIOUS
    <2>1. \A n \in Nat : 0 >= n <=> LastWithoutProgress(n)
      BY DEF Init, LastWithoutProgress
    <2> QED
      BY <2>1, PlanStoreAssumption DEF PlanStoreAssumption, Init, AttemptInv, NoAttempt
  <1> QED
    BY <1>1, AttemptStep, ProcedureInvariant, PTL DEF Spec

\* The streak is what the reconciled batches say, whatever happened to the
\* plan in between, and replanning is asked for by it alone.
THEOREM StreakHonestHolds == Spec => []StreakHonest
  <1>1. AttemptInv => StreakHonest
    BY PlanStoreAssumption DEF PlanStoreAssumption, AttemptInv, StreakHonest
  <1> QED
    BY <1>1, AttemptInvariant, PTL

-----------------------------------------------------------------------------
(* The procedure can always go on *)

\* The steps of a plan that is continued by one, each as it was or, when it
\* is not complete, without its evidence.
LEMMA ContinuedSteps ==
    ASSUME ProcedureInv, NEW id \in StepId \ StepIds(plan)
    PROVE  LET new == Continued(id)
               last == Len(plan.steps) + 1
           IN  /\ new \in Plan /\ new.revision = plan.revision /\ new.status = "active"
               /\ new.evidence = {} /\ new.current = plan.current /\ new.focus = plan.focus
               /\ plan # NoPlan => new.intent = plan.intent
               /\ Len(new.steps) = last /\ DOMAIN new.steps = 1..last
               /\ \A i \in DOMAIN plan.steps :
                     /\ i \in 1..Len(plan.steps) /\ i # last
                     /\ plan.steps[i] \in Step /\ new.steps[i] \in Step
                     /\ IF Completed(plan.steps[i]) THEN new.steps[i] = plan.steps[i]
                                                   ELSE new.steps[i].evidence = {}
                     /\ new.steps[i].id = plan.steps[i].id
                     /\ new.steps[i].intent = plan.steps[i].intent
                     /\ new.steps[i].status = plan.steps[i].status
               /\ new.steps[last].id = id /\ new.steps[last].status = "pending"
               /\ new.steps[last].evidence = {} /\ new.steps[last] \in Step
  <1> DEFINE new == Continued(id)
             last == Len(plan.steps) + 1
             kept == [i \in DOMAIN plan.steps |->
                        IF Completed(plan.steps[i]) THEN plan.steps[i]
                        ELSE [plan.steps[i] EXCEPT !.evidence = {}]]
             fresh == Fill(id, Objective, [status |-> "pending", outcome |-> "none",
                                           evidence |-> {}, gaps |-> "none"])
             steps == Append(kept, fresh)
             intent == IF plan = NoPlan THEN Objective ELSE plan.intent
  <1>1. /\ plan \in AnyPlan /\ plan.steps \in Seq(Step)
        /\ DOMAIN plan.steps = 1..Len(plan.steps) /\ Len(plan.steps) \in Nat
    BY PlanSteps DEF ProcedureInv
  <1>2. ASSUME NEW i \in DOMAIN plan.steps
        PROVE  /\ i \in 1..Len(plan.steps) /\ i # last
               /\ plan.steps[i] \in Step /\ kept[i] \in Step
               /\ IF Completed(plan.steps[i]) THEN kept[i] = plan.steps[i]
                                             ELSE kept[i].evidence = {}
               /\ kept[i].id = plan.steps[i].id
               /\ kept[i].intent = plan.steps[i].intent
               /\ kept[i].status = plan.steps[i].status
    <2>1. i \in 1..Len(plan.steps) /\ i # last /\ plan.steps[i] \in Step
      BY <1>1
    <2>2. CASE Completed(plan.steps[i])
      BY <2>1, <2>2
    <2>3. CASE ~ Completed(plan.steps[i])
      <3>1. kept[i] = [plan.steps[i] EXCEPT !.evidence = {}]
        BY <2>3
      <3> HIDE DEF kept
      <3> QED
        BY <2>1, <2>3, <3>1 DEF Step
    <2> QED
      BY <2>2, <2>3
  <1>3. /\ fresh \in Step /\ fresh.id = id /\ fresh.status = "pending" /\ fresh.evidence = {}
    BY PlanStoreAssumption DEF PlanStoreAssumption, Fill, Step, Status
  <1>4. kept \in Seq(Step) /\ Len(kept) = Len(plan.steps)
    <2>1. kept = [i \in DOMAIN plan.steps |-> kept[i]]
      OBVIOUS
    <2> HIDE DEF kept
    <2>2. kept \in [1..Len(plan.steps) -> Step]
      BY <1>1, <1>2, <2>1
    <2> QED
      BY <1>1, <2>2
  <1> HIDE DEF kept, fresh
  <1>5. /\ steps \in Seq(Step) /\ Len(steps) = last /\ DOMAIN steps = 1..last
        /\ steps[last] = fresh /\ \A i \in DOMAIN plan.steps : steps[i] = kept[i]
    BY <1>1, <1>3, <1>4
  <1>6. intent \in Intent
    BY <1>1, PlanStoreAssumption DEF PlanStoreAssumption, AnyPlan, Plan
  <1>7. new = [plan EXCEPT !.intent = intent, !.status = "active", !.evidence = {}, !.steps = steps]
    <2>1. new = [plan EXCEPT !.intent = IF plan = NoPlan THEN Objective ELSE plan.intent,
                             !.status = "active", !.evidence = {},
                             !.steps = Append([i \in DOMAIN plan.steps |->
                                                 IF Completed(plan.steps[i]) THEN plan.steps[i]
                                                 ELSE [plan.steps[i] EXCEPT !.evidence = {}]],
                                              fresh)]
      BY <1>1 DEF Continued, fresh, AnyPlan, Plan, NoPlan
    <2> QED
      BY <2>1 DEF kept
  <1> HIDE DEF new, steps, intent
  <1>8. /\ new \in Plan /\ new.steps = steps /\ new.intent = intent /\ new.status = "active"
        /\ new.evidence = {} /\ new.revision = plan.revision /\ new.current = plan.current
        /\ new.focus = plan.focus
    <2>1. CASE plan \in Plan
      BY <1>5, <1>6, <1>7, <2>1 DEF Plan, Status
    <2>2. CASE plan = NoPlan
      BY <1>5, <1>6, <1>7, <2>2 DEF Plan, NoPlan, Status
    <2> QED
      BY <1>1, <2>1, <2>2 DEF AnyPlan
  <1>9. plan # NoPlan => intent = plan.intent
    BY DEF intent
  <1> QED
    BY <1>2, <1>3, <1>5, <1>8, <1>9 DEF new

\* One more step is accepted without an explanation and without a judgment.
LEMMA ContinuedAccepted ==
    ASSUME ProcedureInv, Len(plan.steps) < MaxSteps, NEW id \in StepId \ StepIds(plan)
    PROVE  /\ Acceptable(Continued(id), FALSE)
           /\ ~ ClaimsCompletion(plan, Continued(id))
  <1> DEFINE new == Continued(id)
             last == Len(plan.steps) + 1
             n == NormalizeCurrentStep(plan, new)
  <1>1. /\ new \in Plan /\ new.revision = plan.revision /\ new.status = "active"
        /\ new.evidence = {} /\ new.current = plan.current /\ new.focus = plan.focus
        /\ plan # NoPlan => new.intent = plan.intent
        /\ Len(new.steps) = last /\ DOMAIN new.steps = 1..last
        /\ \A i \in DOMAIN plan.steps :
              /\ i \in 1..Len(plan.steps) /\ i # last
              /\ plan.steps[i] \in Step /\ new.steps[i] \in Step
              /\ IF Completed(plan.steps[i]) THEN new.steps[i] = plan.steps[i]
                                            ELSE new.steps[i].evidence = {}
              /\ new.steps[i].id = plan.steps[i].id
              /\ new.steps[i].intent = plan.steps[i].intent
              /\ new.steps[i].status = plan.steps[i].status
        /\ new.steps[last].id = id /\ new.steps[last].status = "pending"
        /\ new.steps[last].evidence = {} /\ new.steps[last] \in Step
    BY ContinuedSteps
  <1> HIDE DEF new
  <1>2. /\ plan \in AnyPlan /\ DOMAIN plan.steps = 1..Len(plan.steps) /\ Len(plan.steps) \in Nat
        /\ UniqueIds(plan)
    BY PlanSteps DEF ProcedureInv
  <1>3. \A i \in DOMAIN new.steps : i \in DOMAIN plan.steps \/ i = last
    BY <1>1, <1>2
  <1>4. last \in DOMAIN new.steps
    BY <1>1, <1>2
  <1>5. \A i \in DOMAIN plan.steps : i \in DOMAIN new.steps /\ plan.steps[i].id # id
    BY <1>1, <1>2 DEF StepIds, Steps
  <1>6. ASSUME NEW i \in DOMAIN plan.steps, NEW j \in DOMAIN new.steps,
               plan.steps[i].id = new.steps[j].id
        PROVE  i = j
    BY <1>1, <1>2, <1>3, <1>5, <1>6 DEF UniqueIds
  <1>7. new.steps[last] \in Unresolved(new)
    BY <1>1, <1>4 DEF Unresolved, Steps, StepUnresolved
  \* The plan as it is checked: only its position is another.
  <1>8. /\ n \in Plan /\ n.steps = new.steps /\ n.revision = plan.revision
        /\ n.status = "active" /\ n.evidence = {}
        /\ n.current # "none" => \E s \in Unresolved(n) : s.id = n.current
    <2>1. CASE plan.current = "none"
      <3>1. n = AdvanceCurrentStep(new)
        BY <1>1, <2>1 DEF NormalizeCurrentStep
      <3>2. PICK c \in StepId \cup {"none"} :
               /\ n = [new EXCEPT !.current = c]
               /\ \E s \in Unresolved(new) : s.id = c
        BY <1>1, <1>7, <3>1, AdvanceKeeps
      <3> HIDE DEF n
      <3>3. /\ n \in Plan /\ n.steps = new.steps /\ n.revision = new.revision
            /\ n.status = new.status /\ n.evidence = new.evidence /\ n.current = c
        BY <1>1, <3>2 DEF Plan
      <3>4. Unresolved(n) = Unresolved(new)
        BY <3>3 DEF Unresolved, Steps
      <3> QED
        BY <1>1, <3>2, <3>3, <3>4
    <2>2. CASE plan.current # "none"
      <3>1. PICK i \in DOMAIN plan.steps :
               StepUnresolved(plan.steps[i]) /\ plan.steps[i].id = plan.current
        BY <2>2 DEF ProcedureInv, Position, Unresolved, Steps
      <3>2. new.steps[i] \in Unresolved(new) /\ new.steps[i].id = new.current
        BY <1>1, <1>5, <3>1 DEF Unresolved, Steps, StepUnresolved
      <3>3. ASSUME NEW s \in Steps(new), s.id = new.current
            PROVE  StepUnresolved(s)
        <4>1. PICK j \in DOMAIN new.steps : s = new.steps[j]
          BY DEF Steps
        <4>2. i = j
          BY <1>1, <1>6, <3>1, <3>3, <4>1
        <4> QED
          BY <3>2, <4>1, <4>2 DEF Unresolved
      <3>4. n = new
        BY <1>1, <2>2, <3>3 DEF NormalizeCurrentStep
      <3> QED
        BY <1>1, <3>2, <3>4
    <2> QED
      BY <2>1, <2>2
  <1> HIDE DEF n
  <1>9. Steps(n) = Steps(new) /\ StepIds(n) = StepIds(new)
    BY <1>8 DEF Steps, StepIds
  <1>10. ASSUME NEW j \in DOMAIN new.steps
         PROVE  CheckStep(knowledge, plan, new.steps[j])
    <2>1. CASE j \in DOMAIN plan.steps /\ Completed(plan.steps[j])
      <3>1. new.steps[j] = plan.steps[j]
        BY <1>1, <2>1
      <3>2. \A s \in Steps(plan) : s.id = plan.steps[j].id => s = plan.steps[j]
        BY <1>2, <2>1 DEF Steps, UniqueIds
      <3>3. plan.steps[j] \in {s \in Steps(plan) : s.id = new.steps[j].id /\ Completed(s)}
        BY <2>1, <3>1 DEF Steps
      <3>4. plan.steps[j].status # "pending"
        BY <2>1 DEF Completed
      <3> QED
        BY <3>1, <3>2, <3>3, <3>4 DEF CheckStep, UnchangedOrInvalidated
    <2>2. CASE j \in DOMAIN plan.steps /\ ~ Completed(plan.steps[j])
      <3>1. new.steps[j].evidence = {} /\ new.steps[j].status # "satisfied"
            /\ new.steps[j].id = plan.steps[j].id
        BY <1>1, <2>2 DEF Completed
      <3>2. {s \in Steps(plan) : s.id = new.steps[j].id /\ Completed(s)} = {}
        BY <1>2, <2>2, <3>1 DEF Steps, UniqueIds
      <3> QED
        BY <3>1, <3>2 DEF CheckStep
    <2>3. CASE j = last
      <3>1. {s \in Steps(plan) : s.id = new.steps[j].id /\ Completed(s)} = {}
        BY <1>1, <1>5, <2>3 DEF Steps
      <3> QED
        BY <1>1, <2>3, <3>1 DEF CheckStep
    <2> QED
      BY <1>3, <2>1, <2>2, <2>3
  <1>11. CheckPlan(knowledge, plan, n)
    <2>1. Len(n.steps) \in 1..MaxSteps
      BY <1>1, <1>2, <1>8, PlansAssumption DEF PlansAssumption
    <2>2. Renews(plan, n)
      <3>1. new.steps[last] \in Unresolved(n) /\ new.steps[last].id \notin StepIds(plan)
        BY <1>1, <1>7, <1>9 DEF Unresolved
      <3> QED
        BY <1>8, <3>1 DEF Renews
    <2>3. \A i, j \in DOMAIN n.steps : n.steps[i].id = n.steps[j].id => i = j
      BY <1>1, <1>3, <1>5, <1>6, <1>8
    <2>4. \A s \in Steps(n) : CheckStep(knowledge, plan, s)
      BY <1>9, <1>10 DEF Steps
    <2>5. \A s \in Steps(plan) : s.id \in StepIds(n)
      <3> SUFFICES ASSUME NEW i \in DOMAIN plan.steps
                   PROVE  plan.steps[i].id \in StepIds(new)
        BY <1>9 DEF Steps
      <3>1. new.steps[i] \in Steps(new) /\ new.steps[i].id = plan.steps[i].id
        BY <1>1, <1>5 DEF Steps
      <3> QED
        BY <3>1 DEF StepIds
    <2> QED
      BY <1>8, <2>1, <2>2, <2>3, <2>4, <2>5 DEF CheckPlan
  <1>12. ~ PlanIntentChanges(plan, new)
    <2> SUFFICES ASSUME plan # NoPlan, PlanIntentChanges(plan, new)
                 PROVE  FALSE
      BY DEF PlanIntentChanges
    <2>1. ASSUME NEW i \in DOMAIN plan.steps
          PROVE  ~ IntentChanged(new, plan.steps[i])
      <3>1. CASE Completed(plan.steps[i])
        <4>1. ASSUME NEW s \in Steps(new), s.id = plan.steps[i].id
              PROVE  s.status = plan.steps[i].status
          BY <1>1, <1>6, <4>1 DEF Steps
        <4> QED
          BY <3>1, <4>1 DEF IntentChanged
      <3>2. CASE ~ Completed(plan.steps[i])
        <4>1. /\ new.steps[i] \in Steps(new) /\ new.steps[i].id = plan.steps[i].id
              /\ new.steps[i].intent = plan.steps[i].intent
              /\ new.steps[i].status = plan.steps[i].status
          BY <1>1, <1>5 DEF Steps
        <4> QED
          BY <3>2, <4>1 DEF IntentChanged
      <3> QED
        BY <3>1, <3>2
    <2>2. ~ Reordered(plan, new)
      <3> SUFFICES ASSUME NEW i \in DOMAIN plan.steps, NEW j \in DOMAIN plan.steps,
                          NEW k \in DOMAIN new.steps, NEW l \in DOMAIN new.steps,
                          i < j, k > l,
                          plan.steps[i].id = new.steps[k].id,
                          plan.steps[j].id = new.steps[l].id
                   PROVE  FALSE
        BY DEF Reordered
      <3>1. i = k /\ j = l
        BY <1>6
      <3>2. i \in Nat /\ j \in Nat
        BY <1>2
      <3> QED
        BY <3>1, <3>2
    <2> QED
      BY <1>1, <2>1, <2>2 DEF PlanIntentChanges, Steps
  <1>13. Acceptable(new, FALSE)
    <2>1. new.steps # <<>>
      BY <1>1, <1>2
    <2> QED
      BY <1>7, <1>11, <1>12, <2>1 DEF Acceptable, n
  <1>14. ~ ClaimsCompletion(plan, new)
    <2>1. ASSUME NEW s \in Steps(new), s.status = "satisfied"
          PROVE  \E o \in Steps(plan) : o.id = s.id /\ o.status = "satisfied"
      <3>1. PICK j \in DOMAIN new.steps : s = new.steps[j]
        BY DEF Steps
      <3>2. j \in DOMAIN plan.steps
        BY <1>1, <1>3, <2>1, <3>1
      <3> QED
        BY <1>1, <2>1, <3>1, <3>2 DEF Steps
    <2>2. NewClaims(plan, new) = {}
      BY <2>1 DEF NewClaims
    <2> QED
      BY <1>1, <2>2 DEF ClaimsCompletion, ClaimsPlan
  <1> QED
    BY <1>13, <1>14 DEF new

\* The procedure can always go on, however stale its evidence has become.
THEOREM ContinuableHolds == Spec => []Continuable
  <1>1. ASSUME ProcedureInv
        PROVE  Continuable
    <2>1. IF Unresolved(plan) = {} THEN plan.current = "none"
                                   ELSE plan.current \in {s.id : s \in Unresolved(plan)}
      BY <1>1 DEF ProcedureInv, Position
    <2> QED
      BY <1>1, <2>1, ContinuedAccepted DEF Continuable
  <1> QED
    BY <1>1, ProcedureInvariant, PTL

-----------------------------------------------------------------------------
(* Types *)

VersionInv == knowledge \in [Partition -> [version : 0..MaxVersion, stale : BOOLEAN]]

LEMMA VersionStep ==
    ASSUME VersionInv, [Next]_vars
    PROVE  VersionInv'
  <1>1. ASSUME NEW p \in Partition, NEW mutation \in BOOLEAN, Admit(p, mutation)
        PROVE  VersionInv'
    <2> DEFINE v == IF mutation THEN knowledge[p].version + 1 ELSE knowledge[p].version
    <2>1. v \in 0..MaxVersion
      BY <1>1, PlanStoreAssumption DEF PlanStoreAssumption, VersionInv, Admit
    <2>2. knowledge' = [knowledge EXCEPT ![p] = [version |-> v, stale |-> FALSE]]
      BY <1>1 DEF Admit
    <2> HIDE DEF v
    <2> QED
      BY <2>1, <2>2 DEF VersionInv
  <1>2. ASSUME NEW p \in Partition, ModuleFails(p)
        PROVE  VersionInv'
    BY <1>2 DEF VersionInv, ModuleFails
  <1> QED
    BY <1>1, <1>2 DEF Next, vars, ManagePlan, AcceptPlan, CompletionRejected, QueueBatch, EndBatch,
       NoProgress, Progress, Reconcile, ReconciliationFails, VersionInv

\* Plan, knowledge, attempts and history are always of their types, and within
\* their bounds.
THEOREM TypeCorrect == Spec => []TypeOK
  <1>1. Init => VersionInv
    BY PlanStoreAssumption DEF PlanStoreAssumption, Init, VersionInv
  <1>2. Spec => []VersionInv
    BY <1>1, VersionStep, PTL DEF Spec
  <1>3. ASSUME ProcedureInv, AttemptInv, HistoryInv, VersionInv
        PROVE  TypeOK
    <2>1. /\ Len(plan.steps) \in Nat /\ plan.revision \in Nat /\ MaxRevision \in Nat /\ MaxAttempts \in Nat
      BY <1>3, PlanSteps, PlanStoreAssumption DEF PlanStoreAssumption, ProcedureInv
    <2>2. attempts.total \in 0..MaxAttempts /\ attempts.streak \in 0..MaxAttempts
      <3>1. /\ attempts.streak \in Nat /\ attempts.total \in Nat /\ Len(outcomes) \in Nat
            /\ Len(outcomes) <= attempts.total /\ attempts.total <= MaxAttempts
        BY <1>3 DEF AttemptInv
      <3>2. attempts.streak <= Len(outcomes)
        BY <1>3, <3>1 DEF AttemptInv, LastWithoutProgress
      <3> QED
        BY <2>1, <3>1, <3>2
    <2> QED
      BY <1>3, <2>1, <2>2 DEF TypeOK, ProcedureInv, AttemptInv, HistoryInv, VersionInv, AnyPlan
  <1> QED
    BY <1>2, <1>3, ProcedureInvariant, AttemptInvariant, HistoryInvariant, PTL
=============================================================================
