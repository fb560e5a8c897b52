-------------------------- MODULE ReconcileProofs --------------------------
(***************************************************************************)
(* Reconciliation, for every set of sources, trees, budgets and results    *)
(* and every number of attempts: what it adds to a plan was shown, what it *)
(* accepts accounts for every result, how often it asks, and what its      *)
(* projection calls complete.  What an accepted decision leaves in the     *)
(* plan is followed step by step of the plan, place by place.              *)
(***************************************************************************)
EXTENDS Reconcile, FiniteSetTheorems, SequenceTheorems, TLAPS

-----------------------------------------------------------------------------
(* Plans in a reconciliation *)

\* A plan with the fields of a plan, and nothing said of what they hold.
Shaped(p) ==
    p = [revision |-> p.revision, intent |-> p.intent, status |-> p.status, outcome |-> p.outcome,
         evidence |-> p.evidence, gaps |-> p.gaps, focus |-> p.focus, steps |-> p.steps,
         current |-> p.current]

ShapedStep(s) ==
    s = [id |-> s.id, intent |-> s.intent, status |-> s.status, outcome |-> s.outcome,
         evidence |-> s.evidence, gaps |-> s.gaps]

DistinctIds(p) == \A i, j \in DOMAIN p.steps : p.steps[i].id = p.steps[j].id => i = j

\* What is under reconciliation: a plan there is, whose steps have ids of their own.
UnderWay(p) ==
    /\ Shaped(p) /\ p # NoPlan /\ DistinctIds(p)
    /\ p.steps = [i \in DOMAIN p.steps |-> p.steps[i]]
    /\ \A i \in DOMAIN p.steps : ShapedStep(p.steps[i])

LEMMA NamedStep ==
    ASSUME NEW p, DistinctIds(p), NEW i \in DOMAIN p.steps
    PROVE  /\ Named(p, p.steps[i].id) = p.steps[i]
           /\ p.steps[i] \in Steps(p) /\ p.steps[i].id \in StepIds(p)
  <1>1. p.steps[i] \in Steps(p) /\ p.steps[i].id \in StepIds(p)
    BY DEF Steps, StepIds
  <1>2. \A s \in Steps(p) : s.id = p.steps[i].id => s = p.steps[i]
    BY DEF Steps, DistinctIds
  <1>3. Named(p, p.steps[i].id) \in Steps(p) /\ Named(p, p.steps[i].id).id = p.steps[i].id
    BY <1>1 DEF Named
  <1> QED
    BY <1>1, <1>2, <1>3

LEMMA StepPlace ==
    ASSUME NEW p, NEW id \in StepIds(p)
    PROVE  \E i \in DOMAIN p.steps : p.steps[i].id = id
  BY DEF StepIds, Steps

LEMMA CurrentChanges ==
    ASSUME NEW p, Shaped(p), NEW c
    PROVE  Shaped([p EXCEPT !.current = c]) /\ [p EXCEPT !.current = c].steps = p.steps
  BY DEF Shaped

LEMMA StepsChange ==
    ASSUME NEW p, Shaped(p), NEW c
    PROVE  Shaped([p EXCEPT !.steps = c]) /\ [p EXCEPT !.steps = c].steps = c
  BY DEF Shaped

LEMMA FocusChanges ==
    ASSUME NEW p, Shaped(p), NEW c
    PROVE  Shaped([p EXCEPT !.focus = c]) /\ [p EXCEPT !.focus = c].steps = p.steps
  BY DEF Shaped

LEMMA RevisionChanges ==
    ASSUME NEW p, Shaped(p), NEW c
    PROVE  [p EXCEPT !.revision = c].steps = p.steps
  BY DEF Shaped

LEMMA AdvanceKeepsSteps ==
    ASSUME NEW p, Shaped(p)
    PROVE  Shaped(AdvanceCurrentStep(p)) /\ AdvanceCurrentStep(p).steps = p.steps
  <1>1. PICK c : AdvanceCurrentStep(p) = [p EXCEPT !.current = c] \/ AdvanceCurrentStep(p) = p
    BY DEF AdvanceCurrentStep
  <1>2. CASE AdvanceCurrentStep(p) = p
    BY <1>2
  <1>3. CASE AdvanceCurrentStep(p) = [p EXCEPT !.current = c]
    BY <1>3, CurrentChanges
  <1> QED
    BY <1>1, <1>2, <1>3

LEMMA ReviseKeepsSteps ==
    ASSUME NEW old, NEW p, Shaped(p)
    PROVE  RevisePlan(old, p).steps = p.steps
  <1>1. Shaped(NormalizeCurrentStep(old, p)) /\ NormalizeCurrentStep(old, p).steps = p.steps
    BY AdvanceKeepsSteps DEF NormalizeCurrentStep
  <1> DEFINE q == AdvanceCurrentStep(NormalizeCurrentStep(old, p))
  <1>2. Shaped(q) /\ q.steps = p.steps
    BY <1>1, AdvanceKeepsSteps
  <1>3. RevisePlan(old, p) = [q EXCEPT !.revision = q.revision + 1]
    BY DEF RevisePlan
  <1> HIDE DEF q
  <1> QED
    BY <1>2, <1>3, RevisionChanges

\* Step i of a plan after the decision d.
StepAfter(p, d, i) ==
    IF p.steps[i].id \in DOMAIN d.updates
    THEN ReplayedStep(p.steps[i], d.updates[p.steps[i].id]) ELSE p.steps[i]

LEMMA ReconciledSteps ==
    ASSUME NEW p, NEW d, Shaped(p), p # NoPlan
    PROVE  LET new == ReconciledPlan(p, "goal", d)
           IN  Shaped(new) /\ new.steps = [i \in DOMAIN p.steps |-> StepAfter(p, d, i)]
  <1> DEFINE steps == [i \in DOMAIN p.steps |-> StepAfter(p, d, i)]
             focus == IF d.focus = "keep" THEN p.focus ELSE d.focus
             current == IF d.current = "none" THEN p.current ELSE d.current
             q == [p EXCEPT !.steps = steps, !.focus = focus, !.current = current]
             resolved == \E s \in Steps(q) : s.id = q.current /\ ~ StepUnresolved(s)
             r == IF resolved THEN [q EXCEPT !.current = "none"] ELSE q
  <1>1. ReconciledPlan(p, "goal", d) = AdvanceCurrentStep(r)
    BY DEF ReconciledPlan, RetainedPlan, StepAfter
  <1>2. Shaped(q) /\ q.steps = steps
    <2> HIDE DEF steps, focus, current
    <2> DEFINE a == [p EXCEPT !.steps = steps]
               b == [a EXCEPT !.focus = focus]
    <2>1. Shaped(a) /\ a.steps = steps
      BY StepsChange
    <2>2. Shaped(b) /\ b.steps = a.steps
      <3> HIDE DEF a
      <3> QED
        BY <2>1, FocusChanges
    <2>3. q = [b EXCEPT !.current = current]
      BY DEF Shaped
    <2> HIDE DEF a, b, q
    <2> QED
      BY <2>1, <2>2, <2>3, CurrentChanges
  <1> HIDE DEF q
  <1>3. Shaped(r) /\ r.steps = steps
    <2> HIDE DEF resolved, steps
    <2> QED
      BY <1>2, CurrentChanges
  <1> HIDE DEF r
  <1>4. Shaped(AdvanceCurrentStep(r)) /\ AdvanceCurrentStep(r).steps = steps
    BY <1>3, AdvanceKeepsSteps
  <1> QED
    BY <1>1, <1>4

\* A decision the model may propose: what it updates keeps its name, and an
\* entry of its accounting reports an update or none.
Proposed(d) ==
    /\ d.action \in {"progress", "no_progress"}
    /\ \A id \in DOMAIN d.updates \cap StepIds(plan) : d.updates[id].id = id
    /\ \A i \in DOMAIN d.accounting : d.accounting[i].disposition \in {"update", "no_progress"}

\* The steps of the plan after an accepted decision, place by place.
LEMMA ResultingSteps ==
    ASSUME UnderWay(plan), NEW d, Proposed(d), HostAccepts(d)
    PROVE  /\ Resulting(d).steps = [i \in DOMAIN plan.steps |-> StepAfter(plan, d, i)]
           /\ DistinctIds(Resulting(d))
           /\ \A i \in DOMAIN plan.steps : Resulting(d).steps[i].id = plan.steps[i].id
  <1> DEFINE new == ReconciledPlan(plan, "goal", d)
             steps == [i \in DOMAIN plan.steps |-> StepAfter(plan, d, i)]
  <1>1. Shaped(new) /\ new.steps = steps
    BY ReconciledSteps DEF UnderWay
  <1>2. d.action = "no_progress" => d.updates = <<>> /\ plan.steps = steps
    <2> SUFFICES ASSUME d.action = "no_progress" PROVE d.updates = <<>> /\ plan.steps = steps
      OBVIOUS
    <2>1. d.updates = <<>> /\ DOMAIN d.updates = {}
      BY DEF HostAccepts
    <2>2. \A i \in DOMAIN plan.steps : StepAfter(plan, d, i) = plan.steps[i]
      BY <2>1 DEF StepAfter
    <2>3. plan.steps = [i \in DOMAIN plan.steps |-> plan.steps[i]]
      BY DEF UnderWay
    <2> QED
      BY <2>1, <2>2, <2>3
  <1>3. Resulting(d).steps = steps
    <2> HIDE DEF new, steps
    <2>1. Resulting(d) = IF d.action = "no_progress" \/ new = plan THEN plan ELSE RevisePlan(plan, new)
      BY DEF Resulting, new
    <2> QED
      BY <1>1, <1>2, <2>1, ReviseKeepsSteps
  <1>4. ASSUME NEW i \in DOMAIN plan.steps PROVE steps[i].id = plan.steps[i].id
    <2>1. plan.steps[i].id \in StepIds(plan)
      BY NamedStep DEF UnderWay
    <2> QED
      BY <2>1 DEF StepAfter, ReplayedStep, Proposed
  <1>5. DistinctIds(Resulting(d))
    <2> HIDE DEF steps
    <2>1. DOMAIN steps = DOMAIN plan.steps
      BY DEF steps
    <2> QED
      BY <1>3, <1>4, <2>1 DEF DistinctIds, UnderWay
  <1> QED
    BY <1>3, <1>4, <1>5

-----------------------------------------------------------------------------
(* What the model proposes *)

LEMMA PlainDispositions ==
    ASSUME NEW id, NEW disposition, NEW i \in DOMAIN Plainly(id, disposition)
    PROVE  Plainly(id, disposition)[i].disposition = disposition
  BY DEF Plainly

LEMMA ProposedUpdate ==
    ASSUME UnderWay(plan), NEW id, NEW concerned, NEW status, NEW cites,
           NEW disposition \in {"update", "no_progress"}
    PROVE  Proposed(Decision("progress", [k \in {id} |-> Filled(k, status, cites)], "keep",
                             Plainly(concerned, disposition)))
  <1> DEFINE d == Decision("progress", [k \in {id} |-> Filled(k, status, cites)], "keep",
                           Plainly(concerned, disposition))
  <1>1. d.updates = [k \in {id} |-> Filled(k, status, cites)] /\ d.action = "progress"
        /\ d.accounting = Plainly(concerned, disposition)
    BY DEF Decision
  <1>2. \A i \in DOMAIN d.accounting : d.accounting[i].disposition \in {"update", "no_progress"}
    BY <1>1, PlainDispositions
  <1>3. ASSUME NEW k \in DOMAIN d.updates \cap StepIds(plan) PROVE d.updates[k].id = k
    <2>1. k = id /\ d.updates[k] = Filled(id, status, cites)
      BY <1>1, <1>3
    <2>2. PICK i \in DOMAIN plan.steps : plan.steps[i].id = k
      BY <1>3, StepPlace
    <2>3. Named(plan, id) = plan.steps[i] /\ ShapedStep(plan.steps[i])
      BY <2>1, <2>2, NamedStep DEF UnderWay
    <2>4. Filled(id, status, cites).id = plan.steps[i].id
      BY <2>3 DEF Filled, ShapedStep
    <2> QED
      BY <2>1, <2>2, <2>4
  <1>4. Proposed(d)
    <2> HIDE DEF d
    <2> QED
      BY <1>1, <1>2, <1>3 DEF Proposed
  <1> QED
    BY <1>4

LEMMA ProposedAccounting ==
    ASSUME UnderWay(plan), NEW action \in {"progress", "no_progress"}, NEW focus,
           NEW updates \in {<<>>} \cup {[k \in {id} |-> Named(plan, k)] : id \in StepId},
           NEW accounting \in Accountings
    PROVE  Proposed(Decision(action, updates, focus, accounting))
  <1> DEFINE d == Decision(action, updates, focus, accounting)
  <1>1. d.updates = updates /\ d.action = action /\ d.accounting = accounting
    BY DEF Decision
  <1>2. PICK m \in 0..2 : accounting \in [1..m -> Entry]
    BY DEF Accountings, BoundedSeq, SeqOf
  <1>3. ASSUME NEW i \in DOMAIN accounting
        PROVE  accounting[i].disposition \in {"update", "no_progress"}
    <2>1. accounting[i] \in Entry
      BY <1>2
    <2> QED
      BY <2>1 DEF Entry
  <1>4. ASSUME NEW k \in DOMAIN updates \cap StepIds(plan) PROVE updates[k].id = k
    <2>1. updates # <<>>
      BY <1>4
    <2>2. PICK id \in StepId : updates = [j \in {id} |-> Named(plan, j)]
      BY <2>1
    <2>3. k = id /\ updates[k] = Named(plan, k)
      BY <1>4, <2>2
    <2>4. PICK i \in DOMAIN plan.steps : plan.steps[i].id = k
      BY <1>4, StepPlace
    <2> QED
      BY <2>3, <2>4, NamedStep DEF UnderWay
  <1>5. Proposed(d)
    <2> HIDE DEF d
    <2> QED
      BY <1>1, <1>3, <1>4 DEF Proposed
  <1> QED
    BY <1>5

-----------------------------------------------------------------------------
(* What an accepted decision leaves in the plan *)

\* A step is what it was or what the decision makes it, and then it cites what
\* the input supplied or what it cited before.
LEMMA StepCites ==
    ASSUME UnderWay(plan), NEW d, Proposed(d), HostAccepts(d), NEW i \in DOMAIN plan.steps
    PROVE  StepAfter(plan, d, i).evidence \subseteq input.supplied \cup plan.steps[i].evidence
  <1> DEFINE id == plan.steps[i].id
  <1>1. Named(plan, id) = plan.steps[i]
    BY NamedStep DEF UnderWay
  <1>2. CASE id \in DOMAIN d.updates
    <2>0. d.action = "no_progress" => d.updates = <<>>
      BY DEF HostAccepts
    <2>1. d.action = "progress"
      BY <1>2, <2>0 DEF Proposed
    <2>2. d.updates[id].evidence \subseteq input.supplied \cup Named(plan, id).evidence
      BY <1>2, <2>1 DEF HostAccepts, ReconciliationPlan
    <2> QED
      BY <1>1, <2>2 DEF StepAfter, ReplayedStep
  <1>3. CASE id \notin DOMAIN d.updates
    BY <1>3 DEF StepAfter
  <1> QED
    BY <1>2, <1>3

\* A replay of a completed step leaves what the update claims: an outcome and
\* evidence for it.
LEMMA ReplayKeepsClaims ==
    ASSUME NEW old, ShapedStep(old), NEW step, step.outcome = "stated", step.evidence # {}
    PROVE  LET s == ReplayedStep(old, step)
           IN  s.outcome = "stated" /\ s.evidence # {}
  <1>1. CASE ReplayedStep(old, step) = step
    BY <1>1
  <1>2. CASE ReplayedStep(old, step) # step
    <2>1. /\ ReplayedStep(old, step) = old
          /\ step = [old EXCEPT !.evidence = step.evidence]
          /\ {ref.partition : ref \in step.evidence} = {ref.partition : ref \in old.evidence}
      BY <1>2 DEF ReplayedStep
    <2>2. [old EXCEPT !.evidence = step.evidence].outcome = old.outcome
      BY DEF ShapedStep
    <2>3. old.outcome = "stated"
      BY <2>1, <2>2
    <2>4. PICK ref \in step.evidence : TRUE
      OBVIOUS
    <2>5. ref.partition \in {r.partition : r \in old.evidence}
      BY <2>1, <2>4
    <2>6. old.evidence # {}
      BY <2>5
    <2> QED
      BY <2>1, <2>3, <2>6
  <1> QED
    BY <1>1, <1>2

-----------------------------------------------------------------------------
(* The invariant: until a decision is accepted nothing of it is kept, and    *)
(* one under judgment is one that the host accepts.                          *)

Kept ==
    /\ UnderWay(before)
    /\ input.supplied = Supplied(input.trees, input.evidence)
    /\ input.steps \subseteq StepIds(before)
    /\ pc # "accepted" => plan = before /\ outcome = "in_progress"
    /\ pc = "evaluate" => Proposed(decision) /\ HostAccepts(decision)

ReconcileInv == Kept /\ EvidenceShown /\ AcceptedWhole

LEMMA Undecided == Kept /\ pc # "accepted" => EvidenceShown /\ AcceptedWhole
  <1> SUFFICES ASSUME Kept, pc # "accepted" PROVE EvidenceShown /\ AcceptedWhole
    OBVIOUS
  <1>1. plan = before /\ outcome = "in_progress" /\ UnderWay(before)
    BY DEF Kept
  <1>2. ASSUME NEW t \in Steps(plan) PROVE Named(before, t.id) = t
    <2>1. PICK i \in DOMAIN plan.steps : t = plan.steps[i]
      BY DEF Steps
    <2> QED
      BY <1>1, <2>1, NamedStep DEF UnderWay
  <1> QED
    BY <1>1, <1>2 DEF EvidenceShown, AcceptedWhole

LEMMA UndecidedNext == (Kept /\ pc # "accepted" => EvidenceShown /\ AcceptedWhole)'
  BY Undecided, PTL

LEMMA AcceptedEvidence ==
    ASSUME Kept, EvaluationAccepts
    PROVE  EvidenceShown'
  <1>1. PICK d : d = decision
    OBVIOUS
  <1>2. plan = before /\ UnderWay(plan) /\ Proposed(d) /\ HostAccepts(d)
    BY <1>1 DEF Kept, EvaluationAccepts
  <1>3. PICK new : new = Resulting(d)
    OBVIOUS
  <1>4. plan' = new /\ before' = before /\ input' = input
    BY <1>1, <1>3 DEF EvaluationAccepts
  <1>5. /\ new.steps = [i \in DOMAIN plan.steps |-> StepAfter(plan, d, i)]
        /\ \A i \in DOMAIN plan.steps : new.steps[i].id = plan.steps[i].id
    BY <1>2, <1>3, ResultingSteps
  <1>6. ASSUME NEW t \in Steps(new), NEW ref \in t.evidence \ Named(before, t.id).evidence
        PROVE  /\ ref.version = Current
               /\ \E e \in input.evidence : e[1] = ref.partition[1] /\ IsPrefix(e[2], ref.partition[2])
    <2>1. PICK i \in DOMAIN plan.steps : t = StepAfter(plan, d, i) /\ t.id = plan.steps[i].id
      BY <1>5 DEF Steps
    <2>2. Named(before, t.id) = plan.steps[i]
      BY <1>2, <2>1, NamedStep DEF UnderWay
    <2>3. ref \in Supplied(input.trees, input.evidence)
      BY <1>2, <2>1, <2>2, StepCites DEF Kept
    <2>4. PICK e \in input.evidence :
             \E path \in Nodes(input.trees[e[1]]) :
                ref = Ref(e[1], path, Current) /\ IsPrefix(e[2], path)
      BY <2>3 DEF Supplied
    <2> QED
      BY <2>4 DEF Ref
  <1> QED
    BY <1>4, <1>6 DEF EvidenceShown

\* The outcome of the work attempt tells whether the steps differ.
LEMMA AcceptedOutcome ==
    ASSUME Kept, EvaluationAccepts
    PROVE  (outcome = "progress" <=> Steps(plan) # Steps(before))'
  <1>1. PICK d : d = decision
    OBVIOUS
  <1>2. plan = before /\ UnderWay(plan) /\ Proposed(d) /\ HostAccepts(d)
    BY <1>1 DEF Kept, EvaluationAccepts
  <1>3. PICK new : new = Resulting(d)
    OBVIOUS
  <1>4. plan' = new /\ before' = before
    BY <1>1, <1>3 DEF EvaluationAccepts
  <1>5. /\ DOMAIN new.steps = DOMAIN before.steps
        /\ DistinctIds(before)
        /\ \A i \in DOMAIN before.steps : new.steps[i].id = before.steps[i].id
    <2>1. /\ new.steps = [i \in DOMAIN plan.steps |-> StepAfter(plan, d, i)]
          /\ \A i \in DOMAIN plan.steps : new.steps[i].id = plan.steps[i].id
      BY <1>2, <1>3, ResultingSteps
    <2> QED
      BY <1>2, <2>1 DEF UnderWay
  <1>6. (\E s \in Steps(before), t \in Steps(new) : s.id = t.id /\ s # t)
        <=> Steps(new) # Steps(before)
    <2>1. ASSUME NEW s \in Steps(before), NEW t \in Steps(new), s.id = t.id, s # t
          PROVE  Steps(new) # Steps(before)
      BY <1>5, <2>1 DEF Steps, DistinctIds
    <2>2. ASSUME ~ \E s \in Steps(before), t \in Steps(new) : s.id = t.id /\ s # t
          PROVE  Steps(new) = Steps(before)
      <3>1. \A i \in DOMAIN before.steps : new.steps[i] = before.steps[i]
        BY <1>5, <2>2 DEF Steps
      <3> QED
        BY <1>5, <3>1 DEF Steps
    <2> QED
      BY <2>1, <2>2
  <1>7. outcome' = IF Steps(new) # Steps(before) THEN "progress" ELSE "no_progress"
    BY <1>4, <1>6 DEF EvaluationAccepts
  <1> QED
    BY <1>4, <1>7

LEMMA AcceptedEntries ==
    ASSUME Kept, EvaluationAccepts
    PROVE  AcceptedWhole'
  <1>1. PICK d : d = decision
    OBVIOUS
  <1>2. plan = before /\ UnderWay(plan) /\ Proposed(d) /\ HostAccepts(d)
    BY <1>1 DEF Kept, EvaluationAccepts
  <1>3. PICK new : new = Resulting(d)
    OBVIOUS
  <1>4. plan' = new /\ before' = before /\ input' = input /\ decision' = d /\ pc' = "accepted"
    BY <1>1, <1>3 DEF EvaluationAccepts
  <1>5. /\ new.steps = [i \in DOMAIN plan.steps |-> StepAfter(plan, d, i)]
        /\ DistinctIds(new)
        /\ \A i \in DOMAIN plan.steps : new.steps[i].id = plan.steps[i].id
    BY <1>2, <1>3, ResultingSteps
  <1>6. Accounted(d)
    BY <1>2 DEF HostAccepts
  <1> DEFINE entries(r) == {i \in DOMAIN d.accounting : d.accounting[i].result = r}
  <1>7. ASSUME NEW r \in input.results
        PROVE  Cardinality(entries(r)) = 1
    <2>1. PICK i \in DOMAIN d.accounting : d.accounting[i].result = r
      BY <1>6 DEF Accounted
    <2>2. entries(r) = {i}
      BY <1>6, <2>1 DEF Accounted
    <2> HIDE DEF entries
    <2> QED
      BY <2>2, FS_Singleton
  <1>8. ASSUME NEW i \in DOMAIN d.accounting
        PROVE  LET entry == d.accounting[i]
                   step == Named(new, entry.step)
               IN  IF entry.disposition = "update"
                   THEN step.outcome = "stated" /\ step.evidence # {}
                   ELSE step = Named(before, entry.step)
    <2> DEFINE id == d.accounting[i].step
    <2>1. id \in StepIds(plan)
      BY <1>2, <1>6 DEF Accounted, Kept
    <2>2. PICK k \in DOMAIN plan.steps : plan.steps[k].id = id
      BY <2>1, StepPlace
    <2>3. Named(before, id) = plan.steps[k] /\ ShapedStep(plan.steps[k])
      BY <1>2, <2>2, NamedStep DEF UnderWay
    <2>4. k \in DOMAIN new.steps /\ new.steps[k] = StepAfter(plan, d, k) /\ new.steps[k].id = id
      BY <1>5, <2>2
    <2>5. Named(new, id) = StepAfter(plan, d, k)
      BY <1>5, <2>4, NamedStep
    <2>6. CASE d.accounting[i].disposition = "update"
      <3>1. id \in DOMAIN d.updates /\ d.updates[id].outcome = "stated" /\ d.updates[id].evidence # {}
        BY <1>6, <2>6 DEF Accounted
      <3>2. StepAfter(plan, d, k) = ReplayedStep(plan.steps[k], d.updates[id])
        BY <2>2, <3>1 DEF StepAfter
      <3> QED
        BY <2>3, <2>5, <2>6, <3>1, <3>2, ReplayKeepsClaims
    <2>7. CASE d.accounting[i].disposition # "update"
      <3>1. d.accounting[i].disposition = "no_progress"
        BY <1>2, <2>7 DEF Proposed
      <3>2. id \notin DOMAIN d.updates
        BY <1>6, <3>1 DEF Accounted
      <3> QED
        BY <2>2, <2>3, <2>5, <2>7, <3>2 DEF StepAfter
    <2> QED
      BY <2>6, <2>7
  <1>9. (outcome = "progress" <=> Steps(plan) # Steps(before))'
    BY AcceptedOutcome
  <1> QED
    BY <1>4, <1>7, <1>8, <1>9 DEF AcceptedWhole

-----------------------------------------------------------------------------
(* The steps *)

LEMMA ReconcileStarts == Init => ReconcileInv
  <1> SUFFICES ASSUME Init PROVE ReconcileInv
    OBVIOUS
  <1>1. PICK cited, history : plan = AcceptedPlan(cited, history)
    BY DEF Init
  <1>2. UnderWay(plan)
    <2> DEFINE s == [id |-> "s", intent |-> "goal", status |-> "active", outcome |-> "none",
                     evidence |-> cited, gaps |-> "some"]
               t == [id |-> "t", intent |-> "goal", status |-> "satisfied", outcome |-> "stated",
                     evidence |-> history, gaps |-> "none"]
    <2>1. plan = [revision |-> 1, intent |-> "goal", status |-> "active", outcome |-> "none",
                  evidence |-> {}, gaps |-> "none", focus |-> "none", steps |-> <<s, t>>,
                  current |-> "s"]
      BY <1>1 DEF AcceptedPlan, NoPlan
    <2>2. ShapedStep(s) /\ ShapedStep(t) /\ s.id = "s" /\ t.id = "t"
      BY DEF ShapedStep
    <2> HIDE DEF s, t
    <2>3. Shaped(plan) /\ plan.steps = <<s, t>> /\ plan # NoPlan
      BY <2>1 DEF Shaped, NoPlan
    <2>4. DOMAIN plan.steps = {1, 2} /\ plan.steps[1] = s /\ plan.steps[2] = t
      BY <2>3
    <2>5. plan.steps = [i \in DOMAIN plan.steps |-> plan.steps[i]]
      BY <2>3
    <2> QED
      BY <2>2, <2>3, <2>4, <2>5 DEF UnderWay, DistinctIds
  <1>3. before = plan /\ pc = "propose" /\ outcome = "in_progress"
    BY DEF Init
  <1>4. PICK trees, stale, budget, results, visible, room :
           input = ReconciliationInput(plan, trees, stale, budget, Shown(plan, visible, room), results)
    BY DEF Init
  <1>5. /\ input.supplied = Supplied(input.trees, input.evidence)
        /\ input.steps \subseteq StepIds(plan)
    BY <1>4 DEF ReconciliationInput, Shown
  <1>6. Kept
    BY <1>2, <1>3, <1>5 DEF Kept
  <1> QED
    BY <1>3, <1>6, Undecided DEF ReconcileInv

\* What is under judgment stays accepted as long as the plan and the input stay.
LEMMA StaysKept ==
    ASSUME Kept, pc # "accepted",
           UNCHANGED <<input, before, plan, outcome>>,
           \/ UNCHANGED <<pc, decision>>
           \/ pc' \in {"propose", "failed"}
    PROVE  Kept'
  <1>1. (UnderWay(before) /\ input.supplied = Supplied(input.trees, input.evidence)
         /\ input.steps \subseteq StepIds(before))'
    BY DEF Kept
  <1>2. (pc # "accepted" => plan = before /\ outcome = "in_progress")'
    BY DEF Kept
  <1>3. (pc = "evaluate" => Proposed(decision) /\ HostAccepts(decision))'
    <2> SUFFICES ASSUME pc' = "evaluate" PROVE (Proposed(decision) /\ HostAccepts(decision))'
      OBVIOUS
    <2>1. PICK d : d = decision
      OBVIOUS
    <2>2. decision' = d /\ Proposed(d) /\ HostAccepts(d)
      BY <2>1 DEF Kept
    <2>3. Proposed(d)' /\ HostAccepts(d)'
      BY <2>2 DEF Proposed, HostAccepts, Accounted, Knowledge
    <2> QED
      BY <2>2, <2>3 DEF Proposed, HostAccepts, Accounted, Knowledge
  <1> QED
    BY <1>1, <1>2, <1>3 DEF Kept

LEMMA ProposalKept ==
    ASSUME Kept, NEW d, Proposed(d), Propose(d)
    PROVE  Kept' /\ pc' # "accepted"
  <1>1. pc = "propose"
    BY DEF Propose
  <1>2. CASE HostAccepts(d)
    <2>1. pc' = "evaluate" /\ decision' = d /\ UNCHANGED <<input, before, plan, outcome>>
      BY <1>2 DEF Propose
    <2>2. (UnderWay(before) /\ input.supplied = Supplied(input.trees, input.evidence)
           /\ input.steps \subseteq StepIds(before))'
      BY <2>1 DEF Kept
    <2>3. (pc # "accepted" => plan = before /\ outcome = "in_progress")'
      BY <1>1, <2>1 DEF Kept
    <2>4. Proposed(d)' /\ HostAccepts(d)'
      BY <1>2, <2>1 DEF Proposed, HostAccepts, Accounted, Knowledge
    <2>5. Proposed(decision)' /\ HostAccepts(decision)'
      BY <2>1, <2>4 DEF Proposed, HostAccepts, Accounted, Knowledge
    <2> QED
      BY <2>1, <2>2, <2>3, <2>5 DEF Kept
  <1>3. CASE ~ HostAccepts(d)
    <2>1. pc' \in {"propose", "failed"} /\ UNCHANGED <<input, before, plan, outcome>>
      BY <1>3 DEF Propose, Correct, Fail
    <2> QED
      BY <1>1, <2>1, StaysKept
  <1> QED
    BY <1>2, <1>3

LEMMA ReconcileStep == ReconcileInv /\ [Next]_vars => ReconcileInv'
  <1> SUFFICES ASSUME ReconcileInv, [Next]_vars PROVE ReconcileInv'
    OBVIOUS
  <1>0. Kept
    BY DEF ReconcileInv
  <1>1. ASSUME pc # "accepted", pc' # "accepted", Kept' PROVE ReconcileInv'
    <2>1. EvidenceShown' /\ AcceptedWhole'
      BY <1>1, UndecidedNext
    <2> QED
      BY <1>1, <2>1 DEF ReconcileInv
  <1>2. CASE SchemaInvalid
    <2>1. UNCHANGED <<input, before, plan, decision, outcome>> /\ (pc' = pc \/ pc' = "failed")
          /\ pc # "accepted"
      BY <1>2 DEF SchemaInvalid, Fail, Asking
    <2> QED
      BY <1>0, <1>1, <2>1, StaysKept
  <1>3. CASE RequestFails
    <2>1. UNCHANGED <<input, before, plan, decision, outcome>> /\ pc' = "failed" /\ pc # "accepted"
      BY <1>3 DEF RequestFails, Fail, Asking
    <2> QED
      BY <1>0, <1>1, <2>1, StaysKept
  <1>4. ASSUME NEW d, Proposed(d), Propose(d) PROVE ReconcileInv'
    BY <1>0, <1>1, <1>4, ProposalKept DEF Propose
  <1>5. ASSUME pc = "propose" PROVE UnderWay(plan)
    BY <1>0, <1>5 DEF Kept
  <1>6. CASE ProposeUpdate
    <2>1. PICK id \in StepId, concerned \in StepId, status \in {"partial", "satisfied"},
               cites \in Cites, disposition \in {"update", "no_progress"} :
             Propose(Decision("progress", [k \in {id} |-> Filled(k, status, cites)], "keep",
                              Plainly(concerned, disposition)))
      BY <1>6 DEF ProposeUpdate
    <2>2. PICK d : d = Decision("progress", [k \in {id} |-> Filled(k, status, cites)], "keep",
                                Plainly(concerned, disposition))
      OBVIOUS
    <2>3. Propose(d)
      BY <2>1, <2>2
    <2>4. UnderWay(plan)
      BY <1>5, <2>3 DEF Propose
    <2>5. Proposed(d)
      BY <2>2, <2>4, ProposedUpdate
    <2> QED
      BY <1>4, <2>3, <2>5
  <1>7. CASE ProposeAccounting
    <2>1. PICK action \in {"progress", "no_progress"}, focus \in {"keep", "goal"},
               updates \in {<<>>} \cup {[k \in {id} |-> Named(plan, k)] : id \in StepId},
               accounting \in Accountings :
             Propose(Decision(action, updates, focus, accounting))
      BY <1>7 DEF ProposeAccounting
    <2>2. PICK d : d = Decision(action, updates, focus, accounting)
      OBVIOUS
    <2>3. Propose(d)
      BY <2>1, <2>2
    <2>4. UnderWay(plan)
      BY <1>5, <2>3 DEF Propose
    <2>5. Proposed(d)
      BY <2>2, <2>4, ProposedAccounting
    <2> QED
      BY <1>4, <2>3, <2>5
  <1>8. CASE EvaluationRejects
    <2>1. /\ UNCHANGED <<input, before, plan, outcome>>
          /\ pc' \in {"propose", "failed"} /\ pc = "evaluate"
      BY <1>8 DEF EvaluationRejects, Correct, Fail
    <2> QED
      BY <1>0, <1>1, <2>1, StaysKept
  <1>9. CASE EvaluationAccepts
    <2>1. EvidenceShown' /\ AcceptedWhole'
      BY <1>0, <1>9, AcceptedEvidence, AcceptedEntries
    <2>2. pc' = "accepted" /\ UNCHANGED <<input, before>>
      BY <1>9 DEF EvaluationAccepts
    <2>3. Kept'
      BY <1>0, <2>2 DEF Kept
    <2> QED
      BY <2>1, <2>3 DEF ReconcileInv
  <1>10. CASE UNCHANGED vars
    <2>1. CASE pc # "accepted"
      <3>1. UNCHANGED <<input, before, plan, decision, outcome, pc>>
        BY <1>10 DEF vars
      <3> QED
        BY <1>0, <1>1, <2>1, <3>1, StaysKept
    <2>2. CASE pc = "accepted"
      BY <1>10, <2>2 DEF vars, ReconcileInv, Kept, EvidenceShown, AcceptedWhole
    <2> QED
      BY <2>1, <2>2
  <1> QED
    BY <1>2, <1>3, <1>6, <1>7, <1>8, <1>9, <1>10 DEF Next

\* What a reconciliation adds to a step's evidence was shown, at the current
\* version: the host's check of the references against the input, whatever the
\* proposal, its corrections and the projection were.
THEOREM EvidenceShownHolds == Spec => []EvidenceShown
  <1>1. Spec => []ReconcileInv
    BY ReconcileStarts, ReconcileStep, PTL DEF Spec
  <1>2. ReconcileInv => EvidenceShown
    BY DEF ReconcileInv
  <1> QED
    BY <1>1, <1>2, PTL

\* An accepted decision accounts for every result once and the plan bears each
\* entry out; before that nothing of a decision is kept.
THEOREM AcceptedWholeHolds == Spec => []AcceptedWhole
  <1>1. Spec => []ReconcileInv
    BY ReconcileStarts, ReconcileStep, PTL DEF Spec
  <1>2. ReconcileInv => AcceptedWhole
    BY DEF ReconcileInv
  <1> QED
    BY <1>1, <1>2, PTL

-----------------------------------------------------------------------------
(* The requests of an attempt: at most MaxStructuredAttempts for a proposal, *)
(* and as many for the judgment of it.                                       *)

Spent(k) == 2 * MaxStructuredAttempts * k

Counted ==
    /\ inferences \in Nat /\ tries \in Nat
    /\ attempt \in 0..(MaxReconciliationAttempts - 1)
    /\ Asking => tries < MaxStructuredAttempts
    /\ pc = "propose" => inferences <= Spent(attempt) + tries
    /\ pc = "evaluate" => inferences <= Spent(attempt) + MaxStructuredAttempts + tries
    /\ inferences <= Spent(MaxReconciliationAttempts)

LEMMA SpentFacts ==
    /\ Spent(0) = 0
    /\ \A k \in Nat :
          /\ Spent(k) \in Nat
          /\ Spent(k + 1) = Spent(k) + 2 * MaxStructuredAttempts
          /\ k < MaxReconciliationAttempts =>
                Spent(k) + 2 * MaxStructuredAttempts <= Spent(MaxReconciliationAttempts)
  <1> DEFINE S == MaxStructuredAttempts
             A == MaxReconciliationAttempts
  <1>1. S \in Nat /\ S > 0 /\ A \in Nat /\ A > 0
    BY ReconcileAssumption
  <1> HIDE DEF S, A
  <1>2. 2 * S * 0 = 0
    BY <1>1
  <1>3. \A k \in Nat : 2 * S * k \in Nat
    BY <1>1
  <1>4. \A k \in Nat : 2 * S * (k + 1) = 2 * S * k + 2 * S
    BY <1>1
  <1>5. ASSUME NEW k \in Nat, k < A
        PROVE  2 * S * k + 2 * S <= 2 * S * A
    <2>1. PICK m \in Nat : A = (k + 1) + m
      <3>1. A - (k + 1) \in Nat /\ A = (k + 1) + (A - (k + 1))
        BY <1>1, <1>5
      <3> QED
        BY <3>1
    <2>2. 2 * S * ((k + 1) + m) = 2 * S * (k + 1) + 2 * S * m
      BY <1>1
    <2>3. 2 * S * m \in Nat /\ 2 * S * k \in Nat /\ 2 * S * (k + 1) = 2 * S * k + 2 * S
      BY <1>3, <1>4
    <2>4. 2 * S * A = (2 * S * k + 2 * S) + 2 * S * m
      BY <2>1, <2>2, <2>3
    <2> QED
      BY <1>1, <2>3, <2>4
  <1> QED
    BY <1>2, <1>3, <1>4, <1>5 DEF Spent, S, A

LEMMA CountedStep == Counted /\ [Next]_vars => Counted'
  <1> SUFFICES ASSUME Counted, [Next]_vars PROVE Counted'
    OBVIOUS
  <1> DEFINE S == MaxStructuredAttempts
             A == MaxReconciliationAttempts
             a == Spent(attempt)
             b == Spent(attempt + 1)
             c == Spent(MaxReconciliationAttempts)
  <1>1. S \in Nat /\ S > 0 /\ A \in Nat /\ A > 0
    BY ReconcileAssumption
  <1>2. a \in Nat /\ b = a + 2 * S /\ c \in Nat /\ a + 2 * S <= c /\ (attempt + 1 < A => b + 2 * S <= c)
    BY <1>1, SpentFacts DEF Counted
  <1>3. ASSUME Asking, inferences' = inferences + 1, UNCHANGED attempt, tries' \in Nat, pc' = "failed"
        PROVE  Counted'
    BY <1>1, <1>2, <1>3 DEF Counted, Asking
  <1>4. ASSUME Asking, inferences' = inferences + 1, tries' = 0, attempt' = attempt + 1,
               attempt + 1 # A, pc' = "propose"
        PROVE  Counted'
    BY <1>1, <1>2, <1>4 DEF Counted, Asking
  <1>5. CASE SchemaInvalid
    <2>1. CASE tries + 1 = S
      BY <1>3, <1>5, <2>1 DEF SchemaInvalid, Fail, Counted
    <2>2. CASE tries + 1 # S
      BY <1>1, <1>2, <1>5, <2>2 DEF SchemaInvalid, Counted, Asking
    <2> QED
      BY <2>1, <2>2
  <1>6. CASE RequestFails
    BY <1>3, <1>6 DEF RequestFails, Fail, Counted
  <1>7. ASSUME Asking, inferences' = inferences + 1, tries' = 0, Correct
        PROVE  Counted'
    <2>1. CASE attempt + 1 = A
      BY <1>3, <1>7, <2>1 DEF Correct, Fail
    <2>2. CASE attempt + 1 # A
      BY <1>4, <1>7, <2>2 DEF Correct
    <2> QED
      BY <2>1, <2>2
  <1>8. ASSUME NEW d, Propose(d) PROVE Counted'
    <2>1. CASE HostAccepts(d)
      <3>1. pc = "propose" /\ inferences' = inferences + 1 /\ tries' = 0 /\ pc' = "evaluate"
            /\ UNCHANGED attempt
        BY <1>8, <2>1 DEF Propose
      <3> QED
        BY <1>1, <1>2, <3>1 DEF Counted, Asking
    <2>2. CASE ~ HostAccepts(d)
      BY <1>7, <1>8, <2>2 DEF Propose, Asking
    <2> QED
      BY <2>1, <2>2
  <1>9. CASE ProposeUpdate \/ ProposeAccounting
    BY <1>8, <1>9 DEF ProposeUpdate, ProposeAccounting
  <1>10. CASE EvaluationRejects
    BY <1>7, <1>10 DEF EvaluationRejects, Asking
  <1>11. CASE EvaluationAccepts
    <2>1. pc = "evaluate" /\ inferences' = inferences + 1 /\ tries' = 0 /\ pc' = "accepted"
          /\ UNCHANGED attempt
      BY <1>11 DEF EvaluationAccepts
    <2> QED
      BY <1>1, <1>2, <2>1 DEF Counted, Asking
  <1>12. CASE UNCHANGED vars
    BY <1>12 DEF vars, Counted, Asking
  <1> QED
    BY <1>5, <1>6, <1>9, <1>10, <1>11, <1>12 DEF Next

\* A reconciliation asks the provider a bounded number of times: corrections of
\* a proposal, of a judgment and of an answer's schema multiply, and no more.
THEOREM InferencesBoundedHolds == Spec => []InferencesBounded
  <1>1. Init => Counted
    BY ReconcileAssumption, SpentFacts DEF Init, Counted, Asking
  <1>2. Counted => InferencesBounded
    <2>1. Spent(MaxReconciliationAttempts)
            = 2 * MaxReconciliationAttempts * MaxStructuredAttempts
      BY ReconcileAssumption DEF Spent
    <2> QED
      BY <2>1 DEF Counted, InferencesBounded
  <1> QED
    BY <1>1, <1>2, CountedStep, PTL DEF Spec

-----------------------------------------------------------------------------
(* Coverage: what the projection calls complete.  Three facts lead there:    *)
(* the paths in key order are all nodes of a tree, a walk minds every leaf   *)
(* it passes, and every value of a walk has its turn in the rounds.  Both    *)
(* recursions are followed up to the first step at which a claim fails.      *)

\* Where something of a set of numbers holds, it holds for a first one.
LEMMA Earliest ==
    ASSUME NEW T \in SUBSET Nat, T # {}
    PROVE  \E i \in T : \A j \in T : i <= j
  <1> DEFINE R == OpToRel(<, Nat)
  <1>1. PICK i \in T : \A j \in T : <<j, i>> \notin R
    BY NatLessThanWellFounded, WFMin
  <1>2. \A j \in T : <<j, i>> \in R <=> j < i
    BY DEF OpToRel
  <1>3. \A j \in T : ~ (j < i)
    BY <1>1, <1>2
  <1> QED
    BY <1>3

\* A prefix, element by element.
LEMMA PrefixIs ==
    ASSUME NEW p \in Seq(Nat), NEW q \in Seq(Nat)
    PROVE  IsPrefix(p, q) <=> Len(p) <= Len(q) /\ \A i \in 1..Len(p) : p[i] = q[i]
  <1>1. CASE Len(p) <= Len(q)
    <2>1. /\ SubSeq(p, 1, Len(p)) = [i \in 1..Len(p) |-> p[i]]
          /\ SubSeq(q, 1, Len(p)) = [i \in 1..Len(p) |-> q[i]]
      BY <1>1
    <2>2. [i \in 1..Len(p) |-> p[i]] = [i \in 1..Len(p) |-> q[i]] <=> \A i \in 1..Len(p) : p[i] = q[i]
      OBVIOUS
    <2> QED
      BY <1>1, <2>1, <2>2 DEF IsPrefix
  <1>2. CASE ~ (Len(p) <= Len(q))
    BY <1>2 DEF IsPrefix
  <1> QED
    BY <1>1, <1>2

\* The first place at which q goes on and p does not, or to a smaller key.
Parts(p, q, i) ==
    /\ i \in 1..Len(q) /\ i <= Len(p) + 1
    /\ \A j \in 1..(i - 1) : p[j] = q[j]
    /\ i <= Len(p) => p[i] < q[i]

\* Key order is decided at one place.
LEMMA BeforeIs ==
    ASSUME NEW p \in Seq(Nat), NEW q \in Seq(Nat)
    PROVE  Before(p, q) <=> \E i \in Nat : Parts(p, q, i)
  <1>1. ASSUME IsStrictPrefix(p, q) PROVE Parts(p, q, Len(p) + 1)
    <2>1. Len(p) <= Len(q) /\ (\A i \in 1..Len(p) : p[i] = q[i]) /\ p # q
      BY <1>1, PrefixIs DEF IsStrictPrefix
    <2>2. Len(p) # Len(q)
      BY <2>1, SeqEqual
    <2> QED
      BY <2>1, <2>2 DEF Parts
  <1>2. ASSUME NEW i \in DOMAIN p \cap DOMAIN q, p[i] < q[i], \A j \in 1..(i - 1) : p[j] = q[j]
        PROVE  i \in Nat /\ Parts(p, q, i)
    BY <1>2 DEF Parts
  <1>3. ASSUME NEW i \in Nat, Parts(p, q, i) PROVE Before(p, q)
    <2>1. CASE i <= Len(p)
      <3>1. i \in DOMAIN p \cap DOMAIN q
        BY <1>3, <2>1 DEF Parts
      <3> QED
        BY <1>3, <2>1, <3>1 DEF Parts, Before
    <2>2. CASE i = Len(p) + 1
      <3>1. IsPrefix(p, q) /\ p # q
        BY <1>3, <2>2, PrefixIs DEF Parts
      <3> QED
        BY <3>1 DEF Before, IsStrictPrefix
    <2> QED
      BY <1>3, <2>1, <2>2 DEF Parts
  <1>4. Len(p) + 1 \in Nat
    OBVIOUS
  <1>5. Before(p, q) => \E i \in Nat : Parts(p, q, i)
    BY <1>1, <1>2, <1>4 DEF Before
  <1> QED
    BY <1>3, <1>5

\* Key order is a strict order ...
LEMMA BeforeItself ==
    ASSUME NEW p \in Seq(Nat)
    PROVE  ~ Before(p, p)
  <1> SUFFICES ASSUME NEW i \in Nat, Parts(p, p, i) PROVE FALSE
    BY BeforeIs
  <1>1. i \in 1..Len(p) /\ p[i] < p[i] /\ p[i] \in Nat
    BY DEF Parts
  <1> QED
    BY <1>1

\* ... that is transitive ...
LEMMA BeforeBefore ==
    ASSUME NEW p \in Seq(Nat), NEW q \in Seq(Nat), NEW r \in Seq(Nat), Before(p, q), Before(q, r)
    PROVE  Before(p, r)
  <1>1. PICK i \in Nat : Parts(p, q, i)
    BY BeforeIs
  <1>2. PICK k \in Nat : Parts(q, r, k)
    BY BeforeIs
  <1>3. CASE i < k
    <2>1. i \in 1..Len(q) /\ i \in 1..(k - 1) /\ i <= Len(p) + 1
      BY <1>1, <1>3 DEF Parts
    <2>2. i \in 1..Len(r) /\ q[i] = r[i]
      BY <1>2, <2>1 DEF Parts
    <2>3. \A j \in 1..(i - 1) : j \in 1..(k - 1)
      BY <1>3
    <2>4. \A j \in 1..(i - 1) : p[j] = r[j]
      BY <1>1, <1>2, <2>3 DEF Parts
    <2>5. Parts(p, r, i)
      BY <1>1, <2>1, <2>2, <2>4 DEF Parts
    <2> QED
      BY <2>5, BeforeIs
  <1>4. CASE k < i
    <2>1. k \in 1..Len(r) /\ k \in 1..Len(q) /\ k \in 1..Len(p) /\ k \in 1..(i - 1)
      BY <1>1, <1>2, <1>4 DEF Parts
    <2>2. p[k] = q[k] /\ q[k] < r[k]
      BY <1>1, <1>2, <2>1 DEF Parts
    <2>3. \A j \in 1..(k - 1) : j \in 1..(i - 1)
      BY <1>4
    <2>4. \A j \in 1..(k - 1) : p[j] = r[j]
      BY <1>1, <1>2, <2>3 DEF Parts
    <2>5. Parts(p, r, k)
      BY <2>1, <2>2, <2>4 DEF Parts
    <2> QED
      BY <2>5, BeforeIs
  <1>5. CASE i = k
    <2>1. i <= Len(p) => p[i] \in Nat /\ q[i] \in Nat /\ r[i] \in Nat
      <3>1. i \in 1..Len(q) /\ i \in 1..Len(r) /\ (i <= Len(p) => i \in 1..Len(p))
        BY <1>1, <1>2, <1>5 DEF Parts
      <3> QED
        BY <3>1
    <2>2. Parts(p, r, i)
      BY <1>1, <1>2, <1>5, <2>1 DEF Parts
    <2> QED
      BY <2>2, BeforeIs
  <1> QED
    BY <1>3, <1>4, <1>5

\* ... and total.
LEMMA BeforeOrAfter ==
    ASSUME NEW p \in Seq(Nat), NEW q \in Seq(Nat), p # q
    PROVE  Before(p, q) \/ Before(q, p)
  <1> DEFINE m == IF Len(p) <= Len(q) THEN Len(p) ELSE Len(q)
             D == {i \in 1..(m + 1) : i = m + 1 \/ p[i] # q[i]}
  <1>1. m \in Nat /\ m <= Len(p) /\ m <= Len(q) /\ (m = Len(p) \/ m = Len(q))
    OBVIOUS
  <1> HIDE DEF m
  <1>2. PICK i \in D : \A j \in D : i <= j
    <2>1. D \in SUBSET Nat /\ m + 1 \in D
      BY <1>1
    <2> HIDE DEF D
    <2> QED
      BY <2>1, Earliest
  <1>3. i \in 1..(m + 1) /\ \A j \in 1..(i - 1) : p[j] = q[j]
    <2> SUFFICES ASSUME NEW j \in 1..(i - 1) PROVE p[j] = q[j]
      BY <1>2
    <2>1. j \in 1..(m + 1) /\ j # m + 1 /\ ~ (i <= j)
      BY <1>1, <1>2
    <2>2. j \notin D
      BY <1>2, <2>1
    <2> QED
      BY <2>1, <2>2
  <1>4. CASE i <= Len(p) /\ i <= Len(q)
    <2>1. p[i] # q[i] /\ p[i] \in Nat /\ q[i] \in Nat
      BY <1>1, <1>2, <1>4
    <2>2. i \in 1..Len(p) /\ i \in 1..Len(q)
      BY <1>1, <1>3, <1>4
    <2>3. p[i] < q[i] => Parts(p, q, i)
      BY <1>3, <2>2 DEF Parts
    <2>4. q[i] < p[i] => Parts(q, p, i)
      BY <1>3, <2>2 DEF Parts
    <2>5. p[i] < q[i] \/ q[i] < p[i]
      BY <2>1
    <2> QED
      BY <2>2, <2>3, <2>4, <2>5, BeforeIs
  <1>5. CASE i <= Len(p) /\ Len(q) < i
    <2>1. Parts(q, p, i)
      BY <1>1, <1>3, <1>5 DEF Parts
    <2> QED
      BY <1>3, <2>1, BeforeIs
  <1>6. CASE Len(p) < i /\ i <= Len(q)
    <2>1. Parts(p, q, i)
      BY <1>1, <1>3, <1>6 DEF Parts
    <2> QED
      BY <1>3, <2>1, BeforeIs
  <1>7. ~ (Len(p) < i /\ Len(q) < i)
    <2> SUFFICES ASSUME Len(p) < i, Len(q) < i PROVE FALSE
      OBVIOUS
    <2>1. Len(p) = i - 1 /\ Len(q) = i - 1
      BY <1>1, <1>3
    <2> QED
      BY <1>3, <2>1, SeqEqual
  <1>8. Len(p) \in Nat /\ Len(q) \in Nat /\ i \in Nat
    BY <1>1, <1>3
  <1> QED
    BY <1>4, <1>5, <1>6, <1>7, <1>8

Preceding(S, p) == {q \in S : Before(q, p)}

\* A path is told from the others of a finite set by how many precede it.
LEMMA Ranks ==
    ASSUME NEW S \in SUBSET Seq(Nat), IsFiniteSet(S), NEW p \in S
    PROVE  /\ Cardinality(S) \in Nat
           /\ Cardinality(Preceding(S, p)) \in Nat
           /\ Cardinality(Preceding(S, p)) + 1 \in 1..Cardinality(S)
           /\ \A q \in S : Cardinality(Preceding(S, q)) = Cardinality(Preceding(S, p)) => q = p
  <1>1. \A q \in S : /\ Preceding(S, q) \in SUBSET S /\ IsFiniteSet(Preceding(S, q))
                     /\ Cardinality(Preceding(S, q)) \in Nat /\ q \notin Preceding(S, q)
    <2> SUFFICES ASSUME NEW q \in S
                 PROVE  /\ Preceding(S, q) \in SUBSET S /\ IsFiniteSet(Preceding(S, q))
                        /\ Cardinality(Preceding(S, q)) \in Nat /\ q \notin Preceding(S, q)
      OBVIOUS
    <2>1. Preceding(S, q) \in SUBSET S
      BY DEF Preceding
    <2> QED
      BY <2>1, FS_Subset, FS_CardinalityType, BeforeItself DEF Preceding
  <1>2. ASSUME NEW q \in S, NEW r \in S, Before(q, r)
        PROVE  Cardinality(Preceding(S, q)) < Cardinality(Preceding(S, r))
    <2>1. Preceding(S, q) \in SUBSET Preceding(S, r)
      BY <1>2, BeforeBefore DEF Preceding
    <2>2. q \in Preceding(S, r) /\ q \notin Preceding(S, q)
      BY <1>1, <1>2 DEF Preceding
    <2>3. IsFiniteSet(Preceding(S, r))
      BY <1>1
    <2>4. /\ Cardinality(Preceding(S, q)) <= Cardinality(Preceding(S, r))
          /\ Cardinality(Preceding(S, q)) # Cardinality(Preceding(S, r))
      BY <2>1, <2>2, <2>3, FS_Subset
    <2> QED
      BY <1>1, <2>4
  <1>3. Cardinality(S) \in Nat
    BY FS_CardinalityType
  <1>4. Cardinality(Preceding(S, p)) < Cardinality(S)
    <2>1. Preceding(S, p) \in SUBSET S /\ Preceding(S, p) # S
      BY <1>1
    <2>2. /\ Cardinality(Preceding(S, p)) <= Cardinality(S)
          /\ Cardinality(Preceding(S, p)) # Cardinality(S)
      BY <2>1, FS_Subset
    <2> QED
      BY <1>1, <1>3, <2>2
  <1>5. ASSUME NEW q \in S, Cardinality(Preceding(S, q)) = Cardinality(Preceding(S, p)) PROVE q = p
    <2> SUFFICES ASSUME q # p PROVE FALSE
      OBVIOUS
    <2>1. Before(q, p) \/ Before(p, q)
      BY BeforeOrAfter
    <2>2. Cardinality(Preceding(S, p)) \in Nat
      BY <1>1
    <2> QED
      BY <1>2, <1>5, <2>1, <2>2
  <1> QED
    BY <1>1, <1>3, <1>4, <1>5

\* A path stands in key order where those that precede it say.
LEMMA InOrderIs ==
    ASSUME NEW S \in SUBSET Seq(Nat), IsFiniteSet(S), NEW p \in S
    PROVE  /\ Cardinality(Preceding(S, p)) + 1 \in 1..Cardinality(S)
           /\ InOrder(S, Before)[Cardinality(Preceding(S, p)) + 1] = p
  <1>0. PICK c : c = Cardinality(Preceding(S, p))
    OBVIOUS
  <1> DEFINE i == c + 1
  <1>1. i \in 1..Cardinality(S) /\ c = i - 1
    BY <1>0, Ranks
  <1>2. \A q \in S : Cardinality(Preceding(S, q)) = i - 1 => q = p
    <2>1. \A q \in S : Cardinality(Preceding(S, q)) = c => q = p
      BY <1>0, Ranks
    <2> QED
      BY <1>1, <2>1
  <1>3. Cardinality(Preceding(S, p)) = i - 1
    BY <1>0, <1>1
  <1>4. Cardinality(Preceding(S, p)) + 1 = i
    BY <1>0
  <1> HIDE DEF i
  <1>5. (CHOOSE q \in S : Cardinality(Preceding(S, q)) = i - 1) = p
    BY <1>2, <1>3
  <1>6. InOrder(S, Before)[i] = CHOOSE q \in S : Cardinality({r \in S : Before(r, q)}) = i - 1
    BY <1>1 DEF InOrder
  <1> QED
    BY <1>1, <1>4, <1>5, <1>6 DEF Preceding

\* The paths in key order are all of them, and nothing else.
LEMMA EachInOrder ==
    ASSUME NEW S \in SUBSET Seq(Nat), IsFiniteSet(S)
    PROVE  /\ \A p \in S : \E i \in 1..Cardinality(S) : InOrder(S, Before)[i] = p
           /\ \A i \in 1..Cardinality(S) : InOrder(S, Before)[i] \in S
  <1> DEFINE n == Cardinality(S)
             Place(p) == Cardinality(Preceding(S, p)) + 1
             M == [p \in S |-> Place(p)]
  <1>1. \A p \in S : Place(p) \in 1..n /\ InOrder(S, Before)[Place(p)] = p
    BY InOrderIs
  <1>2. n \in Nat
    BY FS_CardinalityType
  <1> HIDE DEF Place, n
  <1>3. M \in Injection(S, 1..n)
    <2>1. M \in [S -> 1..n] /\ \A p \in S : M[p] = Place(p)
      BY <1>1
    <2> HIDE DEF M
    <2>2. \A p, q \in S : M[p] = M[q] => p = q
      BY <1>1, <2>1
    <2> QED
      BY <2>1, <2>2 DEF Injection, IsInjective
  <1>4. IsFiniteSet(1..n) /\ Cardinality(1..n) = n
    <2>1. IsFiniteSet(1..n) /\ Cardinality(1..n) = IF 1 > n THEN 0 ELSE n - 1 + 1
      BY <1>2, FS_Interval
    <2> QED
      BY <1>2, <2>1
  <1>5. M \in Surjection(S, 1..n)
    <2> HIDE DEF M
    <2> QED
      BY <1>3, <1>4, FS_Injection DEF n
  <1>6. \A i \in 1..n : \E p \in S : Place(p) = i
    BY <1>5 DEF Surjection
  <1> QED
    BY <1>1, <1>6 DEF n

-----------------------------------------------------------------------------
(* The walk of a source *)

\* The prefixes of a path are finitely many paths, and all of its beginnings.
LEMMA PrefixesAre ==
    ASSUME NEW p \in Seq(Nat)
    PROVE  /\ Prefixes(p) \in SUBSET Seq(Nat) /\ IsFiniteSet(Prefixes(p))
           /\ p \in Prefixes(p)
           /\ \A q \in Seq(Nat) : IsPrefix(q, p) => q \in Prefixes(p)
  <1>1. Len(p) \in Nat /\ p \in Seq(Nat)
    OBVIOUS
  <1>2. Prefixes(p) \in SUBSET Seq(Nat)
    <2> SUFFICES ASSUME NEW l \in 0..Len(p) PROVE SubSeq(p, 1, l) \in Seq(Nat)
      BY DEF Prefixes
    <2>1. \A i \in 1..l : p[i] \in Nat
      BY <1>1
    <2> QED
      BY <1>1, <2>1, SubSeqProperties
  <1>3. IsFiniteSet(Prefixes(p))
    <2> DEFINE M == [l \in 0..Len(p) |-> SubSeq(p, 1, l)]
    <2>1. M \in Surjection(0..Len(p), Prefixes(p))
      BY DEF Surjection, Prefixes
    <2>2. IsFiniteSet(0..Len(p))
      BY <1>1, FS_Interval
    <2> HIDE DEF M
    <2> QED
      BY <2>1, <2>2, FS_Surjection
  <1>4. ASSUME NEW q \in Seq(Nat), IsPrefix(q, p) PROVE q \in Prefixes(p)
    <2>1. Len(q) \in 0..Len(p) /\ \A i \in 1..Len(q) : q[i] = p[i]
      BY <1>4, PrefixIs
    <2>2. q = [i \in 1..Len(q) |-> q[i]]
      OBVIOUS
    <2>3. SubSeq(p, 1, Len(q)) = [i \in 1..Len(q) |-> p[i]]
      BY <2>1
    <2>4. q = SubSeq(p, 1, Len(q))
      BY <2>1, <2>2, <2>3
    <2> QED
      BY <2>1, <2>4 DEF Prefixes
  <1>5. IsPrefix(p, p)
    BY PrefixIs
  <1> QED
    BY <1>2, <1>3, <1>4, <1>5

\* A tree has finitely many nodes, its leaves among them.
LEMMA NodesAre ==
    ASSUME NEW tree, IsTree(tree)
    PROVE  /\ Nodes(tree) \in SUBSET Seq(Nat) /\ IsFiniteSet(Nodes(tree))
           /\ DOMAIN tree.leaves \in SUBSET Nodes(tree)
  <1> DEFINE D == DOMAIN tree.leaves
             all == {Prefixes(leaf) : leaf \in D}
             M == [leaf \in D |-> Prefixes(leaf)]
  <1>1. D \in SUBSET Seq(Nat) /\ IsFiniteSet(D) /\ Nodes(tree) = UNION all
    BY DEF IsTree, Nodes
  <1> HIDE DEF D
  <1>2. IsFiniteSet(all)
    <2>1. M \in Surjection(D, all)
      BY DEF Surjection
    <2> HIDE DEF M, all
    <2> QED
      BY <1>1, <2>1, FS_Surjection
  <1>3. \A T \in all : IsFiniteSet(T) /\ T \in SUBSET Seq(Nat)
    BY <1>1, PrefixesAre
  <1>4. \A leaf \in D : leaf \in Prefixes(leaf)
    BY <1>1, PrefixesAre
  <1>5. D \in SUBSET UNION all
    BY <1>4
  <1>6. IsFiniteSet(UNION all)
    <2> HIDE DEF all
    <2> QED
      BY <1>2, <1>3, FS_UNION
  <1> QED
    BY <1>1, <1>3, <1>5, <1>6 DEF D

Walks == [queue : Seq(Seq(Nat)), omitted : BOOLEAN]

Sound(walk) == walk \in Walks /\ Len(walk.queue) <= MaxEntries

\* A leaf that is missing is known to be.
Minds(walk, tree, leaf) ==
    \/ walk.omitted
    \/ IsDuplicate(tree, leaf)
    \/ \E q \in Queued(walk) : IsPrefix(q, leaf)

Continues(walk, next) ==
    Queued(walk) \in SUBSET Queued(next) /\ (walk.omitted => next.omitted)

\* What a walk minds it minds for good: it takes nothing back.
LEMMA MindsStill ==
    ASSUME NEW walk, NEW next, Continues(walk, next), NEW tree, NEW leaf, Minds(walk, tree, leaf)
    PROVE  Minds(next, tree, leaf)
  BY DEF Minds, Continues

\* An offer takes the path or changes nothing.
LEMMA OfferKeeps ==
    ASSUME MaxEntries \in Nat, NEW walk, Sound(walk), NEW tree, NEW limit, NEW path \in Seq(Nat)
    PROVE  LET next == Offer(tree, limit, walk, path)
           IN  /\ Sound(next) /\ Continues(walk, next)
               /\ next # walk => path \in Queued(next)
  <1>1. CASE Offer(tree, limit, walk, path) = walk
    BY <1>1 DEF Continues
  <1>2. CASE Offer(tree, limit, walk, path) # walk
    <2> DEFINE next == [walk EXCEPT !.queue = Append(walk.queue, path)]
               s == walk.queue
    <2>1. Offer(tree, limit, walk, path) = next /\ ~ (Len(walk.queue) >= MaxEntries)
      BY <1>2 DEF Offer, Full
    <2>2. s \in Seq(Seq(Nat)) /\ walk.omitted \in BOOLEAN
          /\ walk = [queue |-> s, omitted |-> walk.omitted]
      BY DEF Sound, Walks
    <2>3. next.queue = Append(s, path) /\ next.omitted = walk.omitted
          /\ next = [queue |-> Append(s, path), omitted |-> walk.omitted]
      <3> DEFINE o == walk.omitted
                 t == Append(s, path)
      <3>1. walk = [queue |-> s, omitted |-> o]
        BY <2>2
      <3> HIDE DEF s, o, t
      <3>2. [walk EXCEPT !.queue = t] = [queue |-> t, omitted |-> o]
        BY <3>1
      <3> QED
        BY <3>2 DEF s, o, t
    <2>4. /\ Append(s, path) \in Seq(Seq(Nat)) /\ Len(Append(s, path)) = Len(s) + 1
          /\ Append(s, path)[Len(s) + 1] = path
          /\ \A i \in 1..Len(s) : Append(s, path)[i] = s[i]
          /\ Len(s) \in Nat /\ DOMAIN s = 1..Len(s) /\ DOMAIN Append(s, path) = 1..(Len(s) + 1)
      BY <2>2, AppendProperties
    <2>5. ToSet(s) \in SUBSET ToSet(Append(s, path)) /\ path \in ToSet(Append(s, path))
      <3> DEFINE t == Append(s, path)
                 n == Len(s)
      <3>1. /\ n \in Nat /\ DOMAIN s = 1..n /\ DOMAIN t = 1..(n + 1) /\ t[n + 1] = path
            /\ \A i \in 1..n : t[i] = s[i]
        BY <2>4
      <3> HIDE DEF s, t, n
      <3>2. ToSet(s) \in SUBSET ToSet(t) /\ path \in ToSet(t)
        BY <3>1 DEF ToSet
      <3> QED
        BY <3>2 DEF t
    <2> HIDE DEF next
    <2>6. Sound(next)
      BY <2>1, <2>2, <2>3, <2>4 DEF Sound, Walks
    <2>7. Continues(walk, next) /\ path \in Queued(next)
      BY <2>3, <2>5 DEF Continues, Queued
    <2> QED
      BY <2>1, <2>6, <2>7
  <1> QED
    BY <1>1, <1>2

\* A path the plan cites disturbs nothing.
LEMMA PreferKeeps ==
    ASSUME MaxEntries \in Nat, NEW walk, Sound(walk), NEW tree, IsTree(tree), NEW limit, NEW path
    PROVE  LET next == Prefer(tree, limit, walk, path)
           IN  Sound(next) /\ Continues(walk, next)
  <1>1. CASE path \in Nodes(tree)
    BY <1>1, NodesAre, OfferKeeps DEF Prefer, Continues
  <1>2. CASE path \notin Nodes(tree)
    BY <1>2 DEF Prefer, Continues
  <1> QED
    BY <1>1, <1>2

\* To omit takes nothing back.
LEMMA OmitKeeps ==
    ASSUME NEW walk, Sound(walk)
    PROVE  LET next == [walk EXCEPT !.omitted = TRUE]
           IN  Sound(next) /\ Continues(walk, next) /\ next.omitted
  BY DEF Sound, Walks, Continues, Queued

\* A leaf that is not taken is omitted.
LEMMA TryKeeps ==
    ASSUME MaxEntries \in Nat, NEW walk, Sound(walk), NEW tree, NEW limit, NEW path \in Seq(Nat)
    PROVE  LET next == Try(tree, limit, walk, path)
           IN  /\ Sound(next) /\ Continues(walk, next)
               /\ path \in DOMAIN tree.leaves => Minds(next, tree, path)
  <1> DEFINE offered == IF ContainsDuplicate(tree, path) THEN walk ELSE Offer(tree, limit, walk, path)
             omitting == [walk EXCEPT !.omitted = TRUE]
  <1>1. Try(tree, limit, walk, path) = IF offered = walk /\ path \in DOMAIN tree.leaves
                                       THEN omitting ELSE offered
    BY DEF Try
  <1>2. Sound(offered) /\ Continues(walk, offered) /\ (offered # walk => path \in Queued(offered))
    BY OfferKeeps DEF Continues
  <1>3. Sound(omitting) /\ Continues(walk, omitting) /\ Minds(omitting, tree, path)
    BY OmitKeeps DEF Minds
  <1>4. IsPrefix(path, path)
    BY PrefixIs
  <1> HIDE DEF offered, omitting
  <1>5. offered # walk => Minds(offered, tree, path)
    BY <1>2, <1>4 DEF Minds
  <1> QED
    BY <1>1, <1>2, <1>3, <1>5

\* However a node is treated, the walk minds its leaf.
LEMMA VisitKeeps ==
    ASSUME MaxEntries \in Nat, NEW walk, Sound(walk), NEW tree, NEW limit, NEW path \in Seq(Nat)
    PROVE  LET next == Visit(tree, limit, walk, path)
           IN  /\ Sound(next) /\ Continues(walk, next)
               /\ path \in DOMAIN tree.leaves => Minds(next, tree, path)
  <1> DEFINE omitting == [walk EXCEPT !.omitted = TRUE]
             below == \E q \in Queued(walk) : IsStrictPrefix(q, path)
  <1>1. Continues(walk, walk) /\ Sound(walk)
    BY DEF Continues
  <1>2. IsDuplicate(tree, path) \/ below \/ path \in Queued(walk) => Minds(walk, tree, path)
    BY PrefixIs DEF Minds, IsStrictPrefix
  <1>3. Sound(omitting) /\ Continues(walk, omitting) /\ Minds(omitting, tree, path)
    BY OmitKeeps DEF Minds
  <1>4. Visit(tree, limit, walk, path) =
            IF IsDuplicate(tree, path) \/ below THEN walk
            ELSE IF Full(walk) THEN omitting
            ELSE IF path \in Queued(walk) THEN walk
            ELSE Try(tree, limit, walk, path)
    BY DEF Visit
  <1> HIDE DEF omitting, below
  <1> QED
    BY <1>1, <1>2, <1>3, <1>4, TryKeeps

WalkStep(tree, limit, preferred, walk, k) ==
    IF k <= Cardinality(preferred)
    THEN Prefer(tree, limit, walk, InOrder(preferred, Earlier)[k][2])
    ELSE Visit(tree, limit, walk, InOrder(Nodes(tree), Before)[k - Cardinality(preferred)])

\* w[k] is the walk after k of its steps.
IsWalk(w, tree, limit, preferred, n) ==
    w = [k \in 0..n |-> IF k = 0 THEN [queue |-> <<>>, omitted |-> FALSE]
                        ELSE WalkStep(tree, limit, preferred, w[k - 1], k)]

\* The recursion of a walk has a solution: no first place is without one.
LEMMA WalkExists ==
    ASSUME NEW tree, NEW limit, NEW preferred, NEW n \in Nat
    PROVE  \E w : IsWalk(w, tree, limit, preferred, n)
  <1> DEFINE Good(m) == \E w : IsWalk(w, tree, limit, preferred, m)
             Bad == {m \in 0..n : ~ Good(m)}
             start == [queue |-> <<>>, omitted |-> FALSE]
  <1>1. SUFFICES ASSUME Bad # {} PROVE FALSE
    <2>1. Bad = {} => Good(n)
      OBVIOUS
    <2> QED
      BY <2>1
  <1>2. PICK m \in Bad : \A j \in Bad : m <= j
    <2>1. Bad \in SUBSET Nat
      OBVIOUS
    <2> HIDE DEF Bad
    <2> QED
      BY <1>1, <2>1, Earliest
  <1>3. Good(0)
    <2>1. IsWalk([k \in 0..0 |-> start], tree, limit, preferred, 0)
      BY DEF IsWalk
    <2> QED
      BY <2>1
  <1>4. m \in Nat \ {0} /\ Good(m - 1)
    <2> HIDE DEF Good
    <2>1. m \in 0..n /\ ~ Good(m)
      BY <1>2
    <2>2. m # 0
      BY <1>3, <2>1
    <2>3. m - 1 \in 0..n /\ ~ (m <= m - 1)
      BY <2>1, <2>2
    <2> QED
      BY <1>2, <2>1, <2>2, <2>3
  <1>5. PICK w : IsWalk(w, tree, limit, preferred, m - 1)
    BY <1>4
  <1> DEFINE last == WalkStep(tree, limit, preferred, w[m - 1], m)
             v == [k \in 0..m |-> IF k = m THEN last ELSE w[k]]
  <1>6. IsWalk(v, tree, limit, preferred, m)
    <2>1. \A k \in 0..m : v[k] = IF k = 0 THEN start ELSE WalkStep(tree, limit, preferred, v[k - 1], k)
      <3> SUFFICES ASSUME NEW k \in 0..m
                   PROVE  v[k] = IF k = 0 THEN start ELSE WalkStep(tree, limit, preferred, v[k - 1], k)
        OBVIOUS
      <3>1. k # 0 => k - 1 \in 0..m /\ k - 1 # m
        BY <1>4
      <3>2. k # 0 => v[k - 1] = w[k - 1]
        BY <3>1
      <3>3. CASE k = m
        <4>1. v[k] = last
          BY <3>3
        <4> HIDE DEF v
        <4> QED
          BY <1>4, <3>2, <3>3, <4>1
      <3>4. CASE k # m
        <4>1. v[k] = w[k] /\ k \in 0..(m - 1)
          BY <1>4, <3>4
        <4>2. w[k] = IF k = 0 THEN start ELSE WalkStep(tree, limit, preferred, w[k - 1], k)
          BY <1>5, <4>1 DEF IsWalk
        <4> HIDE DEF v
        <4> QED
          BY <3>2, <4>1, <4>2
      <3> QED
        BY <3>3, <3>4
    <2>2. v = [k \in 0..m |-> v[k]]
      OBVIOUS
    <2> HIDE DEF v
    <2> QED
      BY <2>1, <2>2 DEF IsWalk
  <1> HIDE DEF v
  <1>7. Good(m)
    BY <1>6
  <1> QED
    BY <1>2, <1>7

WalkLength(tree, preferred) == Cardinality(preferred) + Cardinality(Nodes(tree))

\* A walk is what that solution says at its last place.
LEMMA WalkIs ==
    ASSUME NEW tree, NEW limit, NEW preferred
    PROVE  LET n == WalkLength(tree, preferred)
           IN  Walk(tree, limit, preferred)
                   = (CHOOSE w : IsWalk(w, tree, limit, preferred, n))[n]
  BY Zenon DEF Walk, IsWalk, WalkStep, WalkLength

\* Every leaf of the tree has a place in the walk, which minds it from there on.
LEMMA WalkMinds ==
    ASSUME MaxEntries \in Nat, NEW tree, IsTree(tree), NEW limit,
           NEW preferred, IsFiniteSet(preferred)
    PROVE  LET walk == Walk(tree, limit, preferred)
           IN  Sound(walk) /\ \A leaf \in DOMAIN tree.leaves : Minds(walk, tree, leaf)
  <1> DEFINE n == WalkLength(tree, preferred)
             c == Cardinality(preferred)
             nodes == InOrder(Nodes(tree), Before)
             start == [queue |-> <<>>, omitted |-> FALSE]
  <1>1. PICK w : IsWalk(w, tree, limit, preferred, n) /\ Walk(tree, limit, preferred) = w[n]
    <2>1. n \in Nat
      BY NodesAre, FS_CardinalityType DEF WalkLength
    <2> HIDE DEF n
    <2>2. \E w : IsWalk(w, tree, limit, preferred, n)
      BY <2>1, WalkExists
    <2>3. IsWalk(CHOOSE w : IsWalk(w, tree, limit, preferred, n), tree, limit, preferred, n)
      BY <2>2
    <2> QED
      BY <2>3, WalkIs DEF n
  <1>2. c \in Nat /\ n \in Nat /\ n = c + Cardinality(Nodes(tree)) /\ Cardinality(Nodes(tree)) \in Nat
    BY NodesAre, FS_CardinalityType DEF WalkLength
  <1>3. /\ w[0] = start
        /\ \A k \in 1..n : w[k] = WalkStep(tree, limit, preferred, w[k - 1], k)
    <2> DEFINE St(k) == WalkStep(tree, limit, preferred, w[k - 1], k)
    <2>1. w = [k \in 0..n |-> IF k = 0 THEN start ELSE St(k)]
      BY <1>1 DEF IsWalk
    <2> HIDE DEF St, n
    <2>2. w[0] = start /\ \A k \in 1..n : w[k] = St(k)
      BY <1>2, <2>1
    <2> QED
      BY <2>2 DEF St
  <1> HIDE DEF n
  <1>4. \A i \in 1..Cardinality(Nodes(tree)) : nodes[i] \in Seq(Nat)
    BY NodesAre, EachInOrder
  <1> HIDE DEF nodes
  <1>5. ASSUME NEW k \in 1..n, Sound(w[k - 1])
        PROVE  /\ Sound(w[k]) /\ Continues(w[k - 1], w[k])
               /\ \A leaf \in DOMAIN tree.leaves :
                      k > c /\ nodes[k - c] = leaf => Minds(w[k], tree, leaf)
    <2>1. CASE k <= c
      <3>1. w[k] = Prefer(tree, limit, w[k - 1], InOrder(preferred, Earlier)[k][2])
        BY <1>3, <2>1 DEF WalkStep
      <3> QED
        BY <1>2, <1>5, <2>1, <3>1, PreferKeeps
    <2>2. CASE ~ (k <= c)
      <3>1. w[k] = Visit(tree, limit, w[k - 1], nodes[k - c])
        BY <1>3, <2>2 DEF WalkStep, nodes
      <3>2. k - c \in 1..Cardinality(Nodes(tree))
        BY <1>2, <2>2
      <3>3. nodes[k - c] \in Seq(Nat)
        BY <1>4, <3>2
      <3> HIDE DEF c
      <3> QED
        BY <1>5, <3>1, <3>3, VisitKeeps
    <2> QED
      BY <2>1, <2>2
  <1> DEFINE Good(k) == /\ Sound(w[k])
                        /\ \A j \in 1..k : \A leaf \in DOMAIN tree.leaves :
                               j > c /\ nodes[j - c] = leaf => Minds(w[k], tree, leaf)
             Bad == {k \in 0..n : ~ Good(k)}
  <1>6. Good(0)
    <2>1. Sound(start)
      BY DEF Sound, Walks
    <2> QED
      BY <1>3, <2>1
  <1>7. ASSUME NEW k \in 1..n, Good(k - 1) PROVE Good(k)
    <2>1. \A j \in 1..k : j = k \/ j \in 1..(k - 1)
      OBVIOUS
    <2>2. Continues(w[k - 1], w[k])
      BY <1>5, <1>7
    <2>3. \A leaf \in DOMAIN tree.leaves : Minds(w[k - 1], tree, leaf) => Minds(w[k], tree, leaf)
      BY <2>2, MindsStill
    <2> HIDE DEF c
    <2> QED
      BY <1>5, <1>7, <2>1, <2>3
  <1> HIDE DEF Good
  <1>8. Bad = {}
    <2> SUFFICES ASSUME Bad # {} PROVE FALSE
      OBVIOUS
    <2>1. PICK m \in Bad : \A j \in Bad : m <= j
      <3>1. Bad \in SUBSET Nat
        BY <1>2
      <3> HIDE DEF Bad
      <3> QED
        BY <3>1, Earliest
    <2>2. m \in 0..n /\ ~ Good(m) /\ m # 0
      BY <1>6, <2>1
    <2>3. m \in 1..n /\ m - 1 \in 0..n /\ ~ (m <= m - 1)
      BY <1>2, <2>2
    <2>4. Good(m - 1)
      BY <2>1, <2>3
    <2> QED
      BY <1>7, <2>2, <2>3, <2>4
  <1>9. Good(n)
    BY <1>2, <1>8
  <1>10. ASSUME NEW leaf \in DOMAIN tree.leaves PROVE Minds(w[n], tree, leaf)
    <2>1. PICK i \in 1..Cardinality(Nodes(tree)) : nodes[i] = leaf
      BY NodesAre, EachInOrder DEF nodes
    <2>2. c + i \in 1..n /\ c + i > c /\ (c + i) - c = i
      BY <1>2
    <2> HIDE DEF c
    <2> QED
      BY <1>9, <2>1, <2>2 DEF Good
  <1> QED
    BY <1>1, <1>9, <1>10 DEF Good

-----------------------------------------------------------------------------
(* The rounds *)

SelectStep(trees, walks, budget, n, out, k) ==
    Select(trees, walks, budget, out, InventoryOrder[((k - 1) % n) + 1], ((k - 1) \div n) + 1)

\* o[k] is what has been selected after k turns.
IsSelection(o, trees, walks, budget, n, last) ==
    o = [k \in 0..last |-> IF k = 0 THEN Nothing(walks)
                           ELSE SelectStep(trees, walks, budget, n, o[k - 1], k)]

\* The recursion of the rounds has a solution: no first turn is without one.
LEMMA SelectionExists ==
    ASSUME NEW trees, NEW walks, NEW budget, NEW n, NEW last \in Nat
    PROVE  \E o : IsSelection(o, trees, walks, budget, n, last)
  <1> DEFINE Good(m) == \E o : IsSelection(o, trees, walks, budget, n, m)
             Bad == {m \in 0..last : ~ Good(m)}
             start == Nothing(walks)
             Turn(out, k) == SelectStep(trees, walks, budget, n, out, k)
  <1>1. SUFFICES ASSUME Bad # {} PROVE FALSE
    <2>1. Bad = {} => Good(last)
      OBVIOUS
    <2> QED
      BY <2>1
  <1>2. PICK m \in Bad : \A j \in Bad : m <= j
    <2>1. Bad \in SUBSET Nat
      OBVIOUS
    <2> HIDE DEF Bad
    <2> QED
      BY <1>1, <2>1, Earliest
  <1>3. Good(0)
    <2>1. IsSelection([k \in 0..0 |-> start], trees, walks, budget, n, 0)
      BY DEF IsSelection
    <2> QED
      BY <2>1
  <1>4. m \in Nat \ {0} /\ Good(m - 1)
    <2> HIDE DEF Good
    <2>1. m \in 0..last /\ ~ Good(m)
      BY <1>2
    <2>2. m # 0
      BY <1>3, <2>1
    <2>3. m - 1 \in 0..last /\ ~ (m <= m - 1)
      BY <2>1, <2>2
    <2> QED
      BY <1>2, <2>1, <2>2, <2>3
  <1>5. PICK o : IsSelection(o, trees, walks, budget, n, m - 1)
    BY <1>4
  <1> DEFINE next == Turn(o[m - 1], m)
             v == [k \in 0..m |-> IF k = m THEN next ELSE o[k]]
  <1> HIDE DEF start, Turn
  <1>6. IsSelection(v, trees, walks, budget, n, m)
    <2>1. \A k \in 0..m : v[k] = IF k = 0 THEN start ELSE Turn(v[k - 1], k)
      <3> SUFFICES ASSUME NEW k \in 0..m
                   PROVE  v[k] = IF k = 0 THEN start ELSE Turn(v[k - 1], k)
        OBVIOUS
      <3>1. k # 0 => k - 1 \in 0..m /\ k - 1 # m
        BY <1>4
      <3>2. k # 0 => v[k - 1] = o[k - 1]
        BY <3>1
      <3>3. CASE k = m
        <4>1. v[k] = next
          BY <3>3
        <4> HIDE DEF v
        <4> QED
          BY <1>4, <3>2, <3>3, <4>1
      <3>4. CASE k # m
        <4>1. v[k] = o[k] /\ k \in 0..(m - 1)
          BY <1>4, <3>4
        <4>2. o[k] = IF k = 0 THEN start ELSE Turn(o[k - 1], k)
          BY <1>5, <4>1 DEF IsSelection, start, Turn
        <4> HIDE DEF v
        <4> QED
          BY <3>2, <4>1, <4>2
      <3> QED
        BY <3>3, <3>4
    <2>2. v = [k \in 0..m |-> v[k]]
      OBVIOUS
    <2> HIDE DEF v
    <2> QED
      BY <2>1, <2>2 DEF IsSelection, start, Turn
  <1> HIDE DEF v
  <1>7. Good(m)
    BY <1>6
  <1> QED
    BY <1>2, <1>7

\* A turn takes nothing back, and leaves a value out only openly.
LEMMA SelectKeeps ==
    ASSUME NEW trees, NEW walks, NEW budget, NEW out, NEW source, NEW round
    PROVE  LET next == Select(trees, walks, budget, out, source, round)
           IN  /\ out.evidence \in SUBSET next.evidence /\ out.omitted \in SUBSET next.omitted
               /\ round <= Len(walks[source].queue) /\ ~ (round > Len(walks[source].queue)) =>
                      source \in next.omitted \/ <<source, walks[source].queue[round]>> \in next.evidence
  BY DEF Select

\* One of the turns of so many rounds is the turn of source i in round r.
HasTurn(n, rounds, i, r) ==
    \E k \in 1..(rounds * n) : ((k - 1) % n) + 1 = i /\ ((k - 1) \div n) + 1 = r

\* Every source has a turn in every round.
LEMMA TurnIs ==
    ASSUME NEW n \in Nat, NEW rounds \in Nat, NEW i \in 1..n, NEW r \in 1..rounds
    PROVE  HasTurn(n, rounds, i, r)
  <1>1. PICK a \in Nat : a = (r - 1) * n
    OBVIOUS
  <1>2. a + n = r * n /\ r * n <= rounds * n
    BY <1>1
  <1>3. rounds * n \in Nat /\ n \in Nat \ {0}
    OBVIOUS
  <1>4. a + i \in 1..(rounds * n)
    BY <1>2, <1>3
  <1>5. (a + i - 1) \div n = r - 1 /\ (a + i - 1) % n = i - 1
    BY <1>1, <1>3
  <1> QED
    BY <1>4, <1>5 DEF HasTurn

Limit(budget, source) == Min({MaxValue, Max({0, Share(budget, source) - Margin})})

IsWalks(walks, trees, current, preferred, budget) ==
    walks = [s \in {InventoryOrder[i] : i \in 1..Inventoried(budget)} |->
               IF s \in current THEN Walk(trees[s], Limit(budget, s), preferred[s])
                                ELSE [queue |-> <<>>, omitted |-> TRUE]]

\* A projection is the selection after the last turn.
LEMMA ProjectionIs ==
    ASSUME NEW trees, NEW current, NEW preferred, NEW budget
    PROVE  \E walks :
             LET n == Inventoried(budget)
                 out == (CHOOSE o : IsSelection(o, trees, walks, budget, n, MaxEntries * n))[MaxEntries * n]
             IN  /\ IsWalks(walks, trees, current, preferred, budget)
                 /\ ProjectKnowledge(trees, current, preferred, budget)
                        = [evidence |-> out.evidence, complete |-> DOMAIN walks \ out.omitted]
  BY Zenon DEF ProjectKnowledge, IsWalks, Limit, IsSelection, SelectStep

\* The inventory has a number of entries.
LEMMA InventoriedType ==
    ASSUME IsFiniteSet(Source), NEW budget \in Nat
    PROVE  Inventoried(budget) \in Nat
  <1>1. Cardinality(Source) \in Nat
    BY FS_CardinalityType
  <1>2. (budget \div 3) - Margin \in Int
    BY DEF Margin
  <1> QED
    BY <1>1, <1>2 DEF Inventoried

\* What was selected or omitted after one turn still is after the last.
LEMMA SelectionGrows ==
    ASSUME NEW trees, NEW walks, NEW budget, NEW n, NEW last \in Nat,
           NEW o, IsSelection(o, trees, walks, budget, n, last), NEW j \in 0..last
    PROVE  o[j].evidence \in SUBSET o[last].evidence /\ o[j].omitted \in SUBSET o[last].omitted
  <1> DEFINE Good(k) == o[j].evidence \in SUBSET o[k].evidence /\ o[j].omitted \in SUBSET o[k].omitted
             Bad == {k \in j..last : ~ Good(k)}
  <1>1. \A k \in 1..last : o[k] = SelectStep(trees, walks, budget, n, o[k - 1], k)
    <2> DEFINE St(k) == SelectStep(trees, walks, budget, n, o[k - 1], k)
               start == Nothing(walks)
    <2>1. o = [k \in 0..last |-> IF k = 0 THEN start ELSE St(k)]
      BY DEF IsSelection
    <2> HIDE DEF St, start
    <2>2. \A k \in 1..last : o[k] = St(k)
      BY <2>1
    <2> QED
      BY <2>2 DEF St
  <1>2. ASSUME NEW k \in 1..last, Good(k - 1) PROVE Good(k)
    <2>1. o[k - 1].evidence \in SUBSET o[k].evidence /\ o[k - 1].omitted \in SUBSET o[k].omitted
      <3>1. PICK s, r : o[k] = Select(trees, walks, budget, o[k - 1], s, r)
        BY <1>1 DEF SelectStep
      <3> QED
        BY <3>1, SelectKeeps
    <2> QED
      BY <1>2, <2>1
  <1>3. Good(j)
    OBVIOUS
  <1> HIDE DEF Good
  <1>4. Bad = {}
    <2> SUFFICES ASSUME Bad # {} PROVE FALSE
      OBVIOUS
    <2>1. PICK m \in Bad : \A k \in Bad : m <= k
      <3>1. Bad \in SUBSET Nat
        OBVIOUS
      <3> HIDE DEF Bad
      <3> QED
        BY <3>1, Earliest
    <2>2. m \in j..last /\ ~ Good(m) /\ m # j
      BY <1>3, <2>1
    <2>3. m \in 1..last /\ m - 1 \in j..last /\ ~ (m <= m - 1)
      BY <2>2
    <2>4. Good(m - 1)
      BY <2>1, <2>3
    <2> QED
      BY <1>2, <2>2, <2>3, <2>4
  <1>5. Good(last)
    BY <1>4
  <1> QED
    BY <1>5 DEF Good

\* Every value of a walk was shown, or something of its source omitted.
LEMMA SelectionTakes ==
    ASSUME NEW trees, NEW walks, NEW budget, NEW n \in Nat, MaxEntries \in Nat,
           NEW o, IsSelection(o, trees, walks, budget, n, MaxEntries * n),
           NEW i \in 1..n, NEW r \in 1..MaxEntries, NEW s, s = InventoryOrder[i],
           walks[s].queue \in Seq(Seq(Nat)), r <= Len(walks[s].queue)
    PROVE  LET out == o[MaxEntries * n]
           IN  s \in out.omitted \/ <<s, walks[s].queue[r]>> \in out.evidence
  <1> DEFINE last == MaxEntries * n
  <1>1. last \in Nat /\ n \in Nat \ {0}
    OBVIOUS
  <1>2. PICK k \in 1..last : ((k - 1) % n) + 1 = i /\ ((k - 1) \div n) + 1 = r
    <2>1. HasTurn(n, MaxEntries, i, r)
      BY TurnIs
    <2> QED
      BY <2>1 DEF HasTurn
  <1> HIDE DEF last
  <1>3. o[k] = SelectStep(trees, walks, budget, n, o[k - 1], k)
    <2> DEFINE St(m) == SelectStep(trees, walks, budget, n, o[m - 1], m)
               start == Nothing(walks)
    <2>1. o = [m \in 0..last |-> IF m = 0 THEN start ELSE St(m)]
      BY DEF IsSelection, last
    <2> HIDE DEF St, start
    <2>2. o[k] = St(k)
      BY <1>1, <1>2, <2>1
    <2> QED
      BY <2>2 DEF St
  <1>4. o[k] = Select(trees, walks, budget, o[k - 1], s, r)
    BY <1>2, <1>3 DEF SelectStep
  <1>5. ~ (r > Len(walks[s].queue))
    OBVIOUS
  <1>6. s \in o[k].omitted \/ <<s, walks[s].queue[r]>> \in o[k].evidence
    BY <1>4, <1>5, SelectKeeps
  <1>7. o[k].evidence \in SUBSET o[last].evidence /\ o[k].omitted \in SUBSET o[last].omitted
    <2>1. IsSelection(o, trees, walks, budget, n, last) /\ k \in 0..last
      BY <1>1, <1>2 DEF last
    <2> QED
      BY <1>1, <2>1, SelectionGrows
  <1> QED
    BY <1>6, <1>7 DEF last

\* A source that is called complete is current, and every leaf of it repeats
\* the structured content or lies in a value that is shown.
LEMMA ProjectionHonest ==
    ASSUME IsFiniteSet(Source), MaxEntries \in Nat, NEW budget \in Nat, NEW trees, NEW preferred,
           NEW current \in SUBSET Source,
           \A s \in Source : IsTree(trees[s]) /\ IsFiniteSet(preferred[s]),
           NEW s \in ProjectKnowledge(trees, current, preferred, budget).complete
    PROVE  /\ s \in current
           /\ \A leaf \in DOMAIN trees[s].leaves :
                 \/ IsDuplicate(trees[s], leaf)
                 \/ \E path \in Prefixes(leaf) :
                       <<s, path>> \in ProjectKnowledge(trees, current, preferred, budget).evidence
  <1> DEFINE n == Inventoried(budget)
             last == MaxEntries * n
             shown == ProjectKnowledge(trees, current, preferred, budget)
             Chosen(walks) == CHOOSE o : IsSelection(o, trees, walks, budget, n, last)
  <1>1. n \in Nat /\ last \in Nat
    BY InventoriedType
  <1>2. PICK walks : /\ IsWalks(walks, trees, current, preferred, budget)
                     /\ shown = [evidence |-> Chosen(walks)[last].evidence,
                                 complete |-> DOMAIN walks \ Chosen(walks)[last].omitted]
    BY ProjectionIs
  <1>3. PICK o : o = Chosen(walks)
    OBVIOUS
  <1>4. IsSelection(o, trees, walks, budget, n, last)
    <2> HIDE DEF n, last
    <2>1. \E p : IsSelection(p, trees, walks, budget, n, last)
      BY <1>1, SelectionExists
    <2> QED
      BY <1>3, <2>1
  <1>5. shown.evidence = o[last].evidence /\ shown.complete = DOMAIN walks \ o[last].omitted
    BY <1>2, <1>3
  <1> HIDE DEF Chosen
  <1>6. PICK i \in 1..n : s = InventoryOrder[i]
    BY <1>2, <1>5 DEF IsWalks
  <1>7. /\ s \in DOMAIN walks /\ s \notin o[last].omitted
        /\ walks[s] = IF s \in current THEN Walk(trees[s], Limit(budget, s), preferred[s])
                      ELSE [queue |-> <<>>, omitted |-> TRUE]
    <2>1. s \in DOMAIN walks /\ s \notin o[last].omitted
      BY <1>5
    <2> QED
      BY <1>2, <2>1 DEF IsWalks
  <1> HIDE DEF last, n, shown
  <1>8. ~ walks[s].omitted
    <2>1. o[0] = Nothing(walks)
      <3> DEFINE St(m) == SelectStep(trees, walks, budget, n, o[m - 1], m)
                 start == Nothing(walks)
      <3>1. o = [m \in 0..last |-> IF m = 0 THEN start ELSE St(m)]
        BY <1>4 DEF IsSelection
      <3> HIDE DEF St, start
      <3>2. o[0] = start
        BY <1>1, <3>1
      <3> QED
        BY <3>2 DEF start
    <2>2. o[0].omitted \in SUBSET o[last].omitted
      <3>1. 0 \in 0..last
        BY <1>1
      <3> QED
        BY <1>1, <1>4, <3>1, SelectionGrows
    <2> QED
      BY <1>7, <2>1, <2>2 DEF Nothing
  <1>9. s \in current
    BY <1>7, <1>8
  <1>10. Sound(walks[s]) /\ \A leaf \in DOMAIN trees[s].leaves : Minds(walks[s], trees[s], leaf)
    BY <1>7, <1>9, WalkMinds
  <1>11. ASSUME NEW q \in Queued(walks[s]) PROVE <<s, q>> \in shown.evidence /\ q \in Seq(Nat)
    <2>1. walks[s].queue \in Seq(Seq(Nat)) /\ Len(walks[s].queue) <= MaxEntries
      BY <1>10 DEF Sound, Walks
    <2>2. PICK r \in 1..Len(walks[s].queue) : q = walks[s].queue[r]
      BY <2>1 DEF Queued, ToSet
    <2>3. r \in 1..MaxEntries /\ r <= Len(walks[s].queue)
      BY <2>1, <2>2
    <2>4. s \in o[last].omitted \/ <<s, walks[s].queue[r]>> \in o[last].evidence
      BY <1>1, <1>4, <1>6, <2>1, <2>3, SelectionTakes DEF last
    <2> QED
      BY <1>5, <1>7, <2>1, <2>2, <2>4
  <1>12. ASSUME NEW leaf \in DOMAIN trees[s].leaves, ~ IsDuplicate(trees[s], leaf)
         PROVE  \E path \in Prefixes(leaf) : <<s, path>> \in shown.evidence
    <2>1. PICK q \in Queued(walks[s]) : IsPrefix(q, leaf)
      BY <1>8, <1>10, <1>12 DEF Minds
    <2>2. leaf \in Seq(Nat)
      BY <1>9 DEF IsTree
    <2> QED
      BY <1>11, <2>1, <2>2, PrefixesAre
  <1> QED
    BY <1>9, <1>12 DEF shown

-----------------------------------------------------------------------------
(* The coverage of a projection *)

\* The values of a function on a finite set are finitely many.
LEMMA ImageIsFinite ==
    ASSUME NEW S, IsFiniteSet(S), NEW f, DOMAIN f = S
    PROVE  IsFiniteSet({f[x] : x \in S})
  <1> DEFINE M == [x \in S |-> f[x]]
             T == {f[x] : x \in S}
  <1>1. M \in Surjection(S, T)
    BY DEF Surjection
  <1> HIDE DEF M, T
  <1>2. IsFiniteSet(T)
    BY <1>1, FS_Surjection
  <1> QED
    BY <1>2 DEF T

Citing(place, refs) == {<<place, ref.partition>> : ref \in refs}

\* Finitely many references are finitely many citations.
LEMMA CitingIsFinite ==
    ASSUME NEW place, NEW refs, IsFiniteSet(refs)
    PROVE  IsFiniteSet(Citing(place, refs))
  <1> DEFINE f == [ref \in refs |-> <<place, ref.partition>>]
  <1>1. IsFiniteSet({f[ref] : ref \in refs})
    BY ImageIsFinite
  <1> QED
    BY <1>1 DEF Citing

\* What a plan cites is a finite preference for each source.
LEMMA PreferredIsFinite ==
    ASSUME NEW p, IsFiniteSet(DOMAIN p.steps), IsFiniteSet(p.evidence),
           \A i \in DOMAIN p.steps : IsFiniteSet(p.steps[i].evidence)
    PROVE  \A s \in Source : IsFiniteSet(Preferred(p)[s])
  <1> DEFINE D == DOMAIN p.steps
             Open == {i \in D : ~ Completed(p.steps[i])}
             Refs(i) == p.steps[i].evidence
             first == [i \in Open |-> Citing(i, Refs(i))]
             then == [i \in D |-> Citing(Len(p.steps) + i, Refs(i))]
             a == Citing(0, p.evidence)
             b == UNION {first[i] : i \in Open}
             c == UNION {then[i] : i \in D}
             cited == (a \cup b) \cup c
  <1>1. IsFiniteSet(UNION {first[i] : i \in Open})
    <2>1. IsFiniteSet(Open)
      BY FS_Subset
    <2>2. \A i \in Open : IsFiniteSet(first[i])
      BY CitingIsFinite
    <2> HIDE DEF first, Open
    <2>3. IsFiniteSet({first[i] : i \in Open})
      BY <2>1, ImageIsFinite DEF first
    <2> QED
      BY <2>2, <2>3, FS_UNION
  <1>2. IsFiniteSet(UNION {then[i] : i \in D})
    <2>1. IsFiniteSet(D)
      OBVIOUS
    <2>2. \A i \in D : IsFiniteSet(then[i])
      BY CitingIsFinite
    <2> HIDE DEF then, D
    <2>3. IsFiniteSet({then[i] : i \in D})
      BY <2>1, ImageIsFinite DEF then
    <2> QED
      BY <2>2, <2>3, FS_UNION
  <1>3. IsFiniteSet(cited)
    <2>1. IsFiniteSet(a)
      BY CitingIsFinite
    <2> HIDE DEF a, b, c
    <2>2. IsFiniteSet(a \cup b)
      BY <1>1, <2>1, FS_Union DEF b
    <2>3. IsFiniteSet(c)
      BY <1>2 DEF c
    <2> HIDE DEF first, then
    <2> QED
      BY <2>2, <2>3, FS_Union
  <1>4. ASSUME NEW s \in Source
        PROVE  Preferred(p)[s] = {<<e[1], e[2][2]>> : e \in {d \in cited : d[2][1] = s}}
    <2> DEFINE v == UNION {Citing(i, Refs(i)) : i \in Open}
               w == UNION {Citing(Len(p.steps) + i, Refs(i)) : i \in D}
    <2>1. Preferred(p) =
            [x \in Source |-> {<<e[1], e[2][2]>> : e \in {d \in UNION {a, v, w} : d[2][1] = x}}]
      BY Zenon DEF Preferred, Citing
    <2>2. v = b /\ w = c
      <3> HIDE DEF Open, D, Refs
      <3> QED
        OBVIOUS
    <2>3. UNION {a, v, w} = cited
      <3> HIDE DEF a, b, c, v, w
      <3> QED
        BY <2>2
    <2> HIDE DEF a, v, w, cited
    <2> QED
      BY <2>1, <2>3
  <1> HIDE DEF cited
  <1>5. ASSUME NEW s \in Source PROVE IsFiniteSet(Preferred(p)[s])
    <2> DEFINE own == {d \in cited : d[2][1] = s}
               f == [e \in own |-> <<e[1], e[2][2]>>]
    <2>1. IsFiniteSet(own)
      BY <1>3, FS_Subset
    <2>2. Preferred(p)[s] = {f[e] : e \in own}
      BY <1>4
    <2> HIDE DEF own
    <2>3. IsFiniteSet({f[e] : e \in own})
      BY <2>1, ImageIsFinite
    <2> QED
      BY <2>2, <2>3
  <1> QED
    BY <1>5

\* The input that a reconciliation computes once is honest.
LEMMA CoverageStarts == Init => CoverageHonest
  <1> SUFFICES ASSUME Init PROVE CoverageHonest
    OBVIOUS
  <1>1. PICK cited \in {{}, {Ref(Home, <<1, 1>>, Current)}}, history \in {{Ref(Home, <<1>>, 1)}} :
           plan = AcceptedPlan(cited, history)
    BY DEF Init
  <1>2. \A s \in Source : IsFiniteSet(Preferred(plan)[s])
    <2> DEFINE s == [id |-> "s", intent |-> "goal", status |-> "active", outcome |-> "none",
                     evidence |-> cited, gaps |-> "some"]
               t == [id |-> "t", intent |-> "goal", status |-> "satisfied", outcome |-> "stated",
                     evidence |-> history, gaps |-> "none"]
    <2>1. plan.evidence = {} /\ plan.steps = <<s, t>>
      BY <1>1 DEF AcceptedPlan, NoPlan
    <2>2. IsFiniteSet(cited) /\ IsFiniteSet(history) /\ IsFiniteSet({})
      <3>1. IsFiniteSet({}) /\ \A x : IsFiniteSet({x})
        BY FS_EmptySet, FS_Singleton
      <3>2. (cited = {} \/ \E x : cited = {x}) /\ \E x : history = {x}
        OBVIOUS
      <3> QED
        BY <3>1, <3>2
    <2>3. s.evidence = cited /\ t.evidence = history
      OBVIOUS
    <2> HIDE DEF s, t
    <2>4. DOMAIN plan.steps = {1, 2} /\ plan.steps[1] = s /\ plan.steps[2] = t
      BY <2>1
    <2>5. IsFiniteSet({1, 2})
      <3>1. IsFiniteSet({1})
        BY FS_Singleton
      <3>2. IsFiniteSet({1} \cup {2})
        BY <3>1, FS_AddElement
      <3>3. {1} \cup {2} = {1, 2}
        OBVIOUS
      <3> QED
        BY <3>2, <3>3
    <2>6. \A i \in DOMAIN plan.steps : IsFiniteSet(plan.steps[i].evidence)
      BY <2>2, <2>3, <2>4
    <2> QED
      BY <2>1, <2>2, <2>4, <2>5, <2>6, PreferredIsFinite
  <1>3. PICK trees \in [Source -> UNION {Trees[s] : s \in Source}],
             stale \in {{}, {PartitionOf(Home)}}, budget \in Budgets,
             visible \in {{}, StepId}, room \in 0..Cardinality(StepId), results \in {{}, Results} :
           /\ \A s \in Source : trees[s] \in Trees[s]
           /\ input = ReconciliationInput(plan, trees, stale, budget, Shown(plan, visible, room), results)
    BY DEF Init
  <1> DEFINE current == {s \in Source : PartitionOf(s) \notin stale}
             shown == ProjectKnowledge(trees, current, Preferred(plan), budget)
  <1>4. /\ input.trees = trees /\ input.stale = stale
        /\ input.complete = shown.complete /\ input.evidence = shown.evidence
    BY <1>3 DEF ReconciliationInput
  <1>5. ASSUME NEW s \in shown.complete
        PROVE  /\ s \in current
               /\ \A leaf \in DOMAIN trees[s].leaves :
                     \/ IsDuplicate(trees[s], leaf)
                     \/ \E path \in Prefixes(leaf) : <<s, path>> \in shown.evidence
    <2>1. IsFiniteSet(Source) /\ MaxEntries \in Nat /\ budget \in Nat
          /\ \A x \in Source : IsTree(trees[x])
      BY <1>3, ProjectionAssumption, KnowledgeAssumption
    <2>2. current \in SUBSET Source
      OBVIOUS
    <2> HIDE DEF current
    <2> QED
      BY <1>2, <2>1, <2>2, ProjectionHonest
  <1> HIDE DEF shown
  <1> QED
    BY <1>4, <1>5 DEF CoverageHonest

\* A source is called complete only if it is current and every leaf of it
\* repeats the structured content or lies in a value shown: a full queue, a value
\* over its share, no slot left and a spent budget all leave their trace.
THEOREM CoverageHonestHolds == Spec => []CoverageHonest
  <1>1. CoverageHonest /\ [Next]_vars => CoverageHonest'
    <2> SUFFICES ASSUME CoverageHonest, [Next]_vars PROVE CoverageHonest'
      OBVIOUS
    <2>1. input' = input
      BY DEF Next, vars, SchemaInvalid, RequestFails, ProposeUpdate, ProposeAccounting, Propose,
         EvaluationRejects, EvaluationAccepts, Correct, Fail
    <2> QED
      BY <2>1 DEF CoverageHonest
  <1> QED
    BY <1>1, CoverageStarts, PTL DEF Spec
=============================================================================
