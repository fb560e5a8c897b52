----------------------------- MODULE Reconcile -----------------------------
(***************************************************************************)
(* One reconciliation of the accepted plan after a batch of tool calls     *)
(* (internal/loop/reconciliation.go, result_accounting.go, planning.go):   *)
(* its input shows a projection of the knowledge and the steps of the plan *)
(* that fit; the model proposes a decision, the host checks it, an         *)
(* evaluator judges it, and either may send it back for a correction.      *)
(* Nothing else runs meanwhile: plan and knowledge do not move under it.   *)
(*                                                                         *)
(* The partitions of Plans are the nodes of the sources' trees here, so    *)
(* that a reference is a path at a version.                                *)
(***************************************************************************)
EXTENDS Projection

CONSTANTS
    Trees,              \* source -> the trees it may hold
    Budgets,            \* what the rest of the input may leave for knowledge
    StepId, Results,    \* the plan's steps, the results of a batch
    MaxReconciliationAttempts,  \* reconciliation.go: 32
    MaxStructuredAttempts       \* structured.go: 5

ASSUME ReconcileAssumption ==
    MaxReconciliationAttempts \in Nat \ {0} /\ MaxStructuredAttempts \in Nat \ {0}

ASSUME KnowledgeAssumption ==
    Budgets \subseteq Nat /\ \A s \in Source : \A tree \in Trees[s] : IsTree(tree)

Paths == UNION {Nodes(tree) : tree \in UNION {Trees[s] : s \in Source}}

INSTANCE Plans WITH
    Intent <- {"goal"}, Partition <- Source \X Paths,
    MaxSteps <- Cardinality(StepId), MaxMutations <- 8

VARIABLES
    pc,          \* "propose", "evaluate", "accepted" or "failed"
    input,       \* the knowledge, and what of it and of the plan is shown
    before,      \* the plan in the snapshot taken before the batch
    plan,        \* the accepted plan
    decision,    \* the decision that passed the host, while and after it is judged
    attempt,     \* proposals sent back
    tries,       \* schema-invalid answers to the request under way
    inferences,  \* history: requests made
    outcome      \* of the work attempt

vars == <<pc, input, before, plan, decision, attempt, tries, inferences, outcome>>

-----------------------------------------------------------------------------
(* The input: built once, before the first proposal. *)

Current == 2   \* the version of every partition; 1 is an earlier one
Ref(source, path, version) == [partition |-> <<source, path>>, version |-> version]

\* A path that is not in the tree of its source resolves as little as a stale one.
Knowledge ==
    [node \in Source \X Paths |->
       [version |-> Current,
        stale |-> PartitionOf(node[1]) \in input.stale \/ node[2] \notin Nodes(input.trees[node[1]])]]

\* The paths of each source that the plan cites, whatever the version, with the
\* place of the citation: the plan's own before those of unfinished steps, and
\* these before those of all steps.
Preferred(p) ==
    LET Cited(place, refs) == {<<place, ref.partition>> : ref \in refs}
        Open == {i \in DOMAIN p.steps : ~ Completed(p.steps[i])}
        cited == UNION {Cited(0, p.evidence),
                        UNION {Cited(i, p.steps[i].evidence) : i \in Open},
                        UNION {Cited(Len(p.steps) + i, p.steps[i].evidence) : i \in DOMAIN p.steps}}
    IN  [s \in Source |-> {<<c[1], c[2][2]>> : c \in {d \in cited : d[2][1] = s}}]

\* The steps that fit, or else the current one alone; and of these as many as the
\* whole input has room for: the last is dropped first, the current one after all.
Shown(p, visible, room) ==
    LET fitting == IF p.current \in visible \cup {"none"} THEN visible ELSE {p.current}
        Place(id) == CHOOSE i \in DOMAIN p.steps : p.steps[i].id = id
        Outlasts(a, b) == a = p.current \/ (b # p.current /\ Place(a) < Place(b))
    IN  {id \in StepIds(p) \cap fitting :
           Cardinality({other \in (StepIds(p) \cap fitting) \ {id} : Outlasts(other, id)}) < room}

\* Mutant: whatever was taken from a source may be cited when anything was.
SuppliedBySource(trees, evidence) ==
    UNION {{Ref(s, path, Current) : path \in Nodes(trees[s])} : s \in {e[1] : e \in evidence}}

\* What may be cited anew: the values shown, and what lies below them.
Supplied(trees, evidence) ==
    UNION {{Ref(e[1], path, Current) : path \in {q \in Nodes(trees[e[1]]) : IsPrefix(e[2], q)}} :
             e \in evidence}

ReconciliationInput(p, trees, stale, budget, steps, results) ==
    LET projection == ProjectKnowledge(trees, {s \in Source : PartitionOf(s) \notin stale},
                                       Preferred(p), budget)
    IN  [trees |-> trees, stale |-> stale,
         evidence |-> projection.evidence, complete |-> projection.complete,
         supplied |-> Supplied(trees, projection.evidence),
         steps |-> steps, results |-> results]

\* A first step under way and a completed one, citing observations.
AcceptedPlan(cited, history) ==
    [NoPlan EXCEPT !.revision = 1, !.intent = "goal", !.status = "active",
       !.current = "s",
       !.steps = <<[id |-> "s", intent |-> "goal", status |-> "active", outcome |-> "none",
                    evidence |-> cited, gaps |-> "some"],
                   [id |-> "t", intent |-> "goal", status |-> "satisfied", outcome |-> "stated",
                    evidence |-> history, gaps |-> "none"]>>]

\* The source the plan has cited so far.
Home == CHOOSE s \in Source : TRUE

NoDecision == [action |-> "none"]

Init ==
    /\ \E cited \in {{}, {Ref(Home, <<1, 1>>, Current)}}, history \in {{Ref(Home, <<1>>, 1)}} :
          plan = AcceptedPlan(cited, history)
    /\ before = plan
    /\ \E trees \in [Source -> UNION {Trees[s] : s \in Source}],
          stale \in {{}, {PartitionOf(Home)}}, budget \in Budgets,
          visible \in {{}, StepId}, room \in 0..Cardinality(StepId), results \in {{}, Results} :
          /\ \A s \in Source : trees[s] \in Trees[s]
          /\ results = {} => visible = StepId /\ room = Cardinality(StepId) /\ budget = Max(Budgets)
          /\ input = ReconciliationInput(plan, trees, stale, budget, Shown(plan, visible, room), results)
    /\ pc = "propose" /\ decision = NoDecision
    /\ attempt = 0 /\ tries = 0 /\ inferences = 0
    /\ outcome = "in_progress"

-----------------------------------------------------------------------------
(* What the host accepts of a proposal. *)

\* Mutant: results without an entry are taken for results without progress.
AccountedLoosely(d) ==
    \A i \in DOMAIN d.accounting :
       /\ d.accounting[i].result \in input.results
       /\ d.accounting[i].step \in input.steps

\* validateResultAccounting: one entry for every result, with the step it
\* concerns; the step of an update is updated, and only that.
Accounted(d) ==
    /\ {d.accounting[i].result : i \in DOMAIN d.accounting} = input.results
    /\ \A i, j \in DOMAIN d.accounting : d.accounting[i].result = d.accounting[j].result => i = j
    /\ \A i \in DOMAIN d.accounting :
          LET entry == d.accounting[i]
          IN  /\ entry.step \in input.steps
              /\ entry.disposition = "update" =>
                    /\ d.action = "progress" /\ entry.step \in DOMAIN d.updates
                    /\ d.updates[entry.step].outcome = "stated"
                    /\ d.updates[entry.step].evidence /= {}
              /\ entry.disposition = "no_progress" => entry.step \notin DOMAIN d.updates

HostAccepts(d) ==
    /\ Accounted(d)
    /\ CASE d.action = "no_progress" -> d.updates = <<>> /\ d.focus = "keep" /\ d.current = "none"
         [] d.action = "progress" ->
              ReconciliationPlan(Knowledge, plan, "goal", input.steps, input.supplied, d)

\* The plan after the decision: a revision only if it changes.
Resulting(d) ==
    LET new == ReconciledPlan(plan, "goal", d)
    IN  IF d.action = "no_progress" \/ new = plan THEN plan ELSE RevisePlan(plan, new)

-----------------------------------------------------------------------------
(* Proposal, judgment and their corrections. *)

Asking == pc \in {"propose", "evaluate"}

Fail ==
    /\ pc' = "failed"
    /\ UNCHANGED <<input, before, plan, decision, attempt, outcome>>

\* Mutant: only what the host refuses counts as an attempt.
CorrectUncounted ==
    IF pc = "propose" /\ attempt + 1 = MaxReconciliationAttempts THEN Fail
    ELSE /\ pc' = "propose" /\ decision' = NoDecision
         /\ attempt' = IF pc = "propose" THEN attempt + 1 ELSE attempt
         /\ UNCHANGED <<input, before, plan, outcome>>

\* A proposal goes back, unless it was the last one.
Correct ==
    IF attempt + 1 = MaxReconciliationAttempts THEN Fail
    ELSE /\ pc' = "propose" /\ decision' = NoDecision
         /\ attempt' = attempt + 1
         /\ UNCHANGED <<input, before, plan, outcome>>

\* structured.Generate: an answer that does not match the schema is asked for
\* again, five times in all.
SchemaInvalid ==
    /\ Asking
    /\ inferences' = inferences + 1
    /\ tries' = tries + 1
    /\ IF tries + 1 = MaxStructuredAttempts
       THEN Fail ELSE UNCHANGED <<pc, input, before, plan, decision, attempt, outcome>>

\* The provider fails, its answer is too large, or the run is cancelled.
RequestFails ==
    /\ Asking
    /\ inferences' = inferences + 1
    /\ Fail
    /\ UNCHANGED tries

Propose(d) ==
    /\ pc = "propose"
    /\ inferences' = inferences + 1 /\ tries' = 0
    /\ IF HostAccepts(d)
       THEN /\ pc' = "evaluate" /\ decision' = d
            /\ UNCHANGED <<input, before, plan, attempt, outcome>>
       ELSE Correct

\* Continuity, purpose or a claim of completion is not confirmed.
EvaluationRejects ==
    /\ pc = "evaluate"
    /\ inferences' = inferences + 1 /\ tries' = 0
    /\ Correct

\* Progress is a step that differs from the one before the batch.
EvaluationAccepts ==
    /\ pc = "evaluate"
    /\ inferences' = inferences + 1 /\ tries' = 0
    /\ plan' = Resulting(decision)
    /\ outcome' = IF \E s \in Steps(before), t \in Steps(plan') : s.id = t.id /\ s /= t
                  THEN "progress" ELSE "no_progress"
    /\ pc' = "accepted"
    /\ UNCHANGED <<input, before, decision, attempt>>

-----------------------------------------------------------------------------
(* What the model may propose. *)

Cites ==
    {{}, {Ref(Home, <<>>, 1)}}
    \cup {{Ref(s, path, Current)} : s \in Source, path \in Paths}

\* A step filled in: the first one in any way, the completed one replayed.
Filled(id, status, cites) ==
    [Named(plan, id) EXCEPT !.status = status, !.outcome = "stated", !.evidence = cites,
                            !.gaps = IF status = "satisfied" THEN "none" ELSE "some"]

Entry == [result : Results \cup {"other"}, step : StepId, disposition : {"update", "no_progress"}]
Accountings == BoundedSeq(Entry, 2)

\* An entry for each result, in terms of one step.
Plainly(id, disposition) ==
    LET results == SetToSeq(input.results)
    IN  [i \in DOMAIN results |-> [result |-> results[i], step |-> id, disposition |-> disposition]]

Decision(action, updates, focus, accounting) ==
    [action |-> action, updates |-> updates, focus |-> focus, current |-> "none",
     accounting |-> accounting]

\* Any update with a plain accounting.
ProposeUpdate ==
    \E id, concerned \in StepId, status \in {"partial", "satisfied"}, cites \in Cites,
       disposition \in {"update", "no_progress"} :
       Propose(Decision("progress", [k \in {id} |-> Filled(k, status, cites)], "keep",
                        Plainly(concerned, disposition)))

\* Any accounting with no update or a step as it is.
ProposeAccounting ==
    \E action \in {"progress", "no_progress"}, focus \in {"keep", "goal"},
       updates \in {<<>>} \cup {[k \in {id} |-> Named(plan, k)] : id \in StepId}, accounting \in Accountings :
       Propose(Decision(action, updates, focus, accounting))

Next ==
    \/ SchemaInvalid \/ RequestFails
    \/ ProposeUpdate \/ ProposeAccounting
    \/ EvaluationRejects \/ EvaluationAccepts

Spec == Init /\ [][Next]_vars

-----------------------------------------------------------------------------
(* Properties *)

\* A source is called complete only if every leaf of it lies in a value that
\* is shown, text that repeats the structured content aside: its coverage
\* never claims that what was left out was seen (knowledge_projection.go).
CoverageHonest ==
    \A s \in input.complete :
       /\ PartitionOf(s) \notin input.stale
       /\ \A leaf \in DOMAIN input.trees[s].leaves :
             \/ IsDuplicate(input.trees[s], leaf)
             \/ \E path \in Prefixes(leaf) : <<s, path>> \in input.evidence

\* What a reconciliation adds to the evidence of a step was before the model
\* that proposed it and the evaluator that judged it, exactly and at the
\* current version, however the projection was cut.
EvidenceShown ==
    \A t \in Steps(plan) : \A ref \in t.evidence \ Named(before, t.id).evidence :
       /\ ref.version = Current
       /\ \E e \in input.evidence :
             e[1] = ref.partition[1] /\ IsPrefix(e[2], ref.partition[2])

\* An accepted decision speaks for every result of the batch once, and the
\* plan bears it out; before that, nothing of it is kept, and the work attempt
\* stays in progress.
AcceptedWhole ==
    IF pc = "accepted"
    THEN /\ outcome = "progress" <=> Steps(plan) /= Steps(before)
         /\ \A r \in input.results :
               LET entries == {i \in DOMAIN decision.accounting : decision.accounting[i].result = r}
               IN  /\ Cardinality(entries) = 1
                   /\ \A i \in entries :
                         LET entry == decision.accounting[i]
                             step == Named(plan, entry.step)
                         IN  IF entry.disposition = "update"
                             THEN step.outcome = "stated" /\ step.evidence /= {}
                             ELSE step = Named(before, entry.step)
    ELSE plan = before /\ outcome = "in_progress"

\* Structural corrections, semantic corrections and schema corrections are
\* bounded together.
InferencesBounded ==
    inferences <= 2 * MaxReconciliationAttempts * MaxStructuredAttempts
=============================================================================
