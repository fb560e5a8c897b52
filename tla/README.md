# A formal model of grodt

grodt runs one objective to an outcome: a command-line program (`cmd/grodt`)
loops over a chain of providers (`internal/loop`), which ask a language model
(`internal/openai`) what to do, let it call external tools over MCP
(`internal/mcp`), and record everything accepted in an in-memory store
(`internal/state`), where WASM modules (`internal/state/wasm`) turn events into
knowledge and may themselves ask for HTTP work. This directory holds TLA+
modules of that system, TLC configurations that check them on small instances,
and TLAPS proofs of the properties that matter most. `PROJECT.json` maps every
definition to the lines it models.

## The system

| Part | State it keeps | Operations | What makes it correct |
| --- | --- | --- | --- |
| Task store (`internal/state/{store,tasks,host,agent}.go`) | task records, stack, partitions and their metadata, event and task counters, host budget, journal | Push, Complete, AbandonChild, End, Admit, QueueAgentWork, ActivateAgentWork, RecordAgentOutcome, AdmitAgentOutcome, FinishAgentWork, Close | one active lineage; work in creation order; each request once; outcomes kept; every module sees an event before its work runs |
| Plan store (`plan.go`, `attempt.go`) | the plan and attempt summary of a task | CheckPlan, RevisePlan, FinishAttempt, CompleteObjective | completed steps are never rewritten; satisfaction needs current evidence; the current step is unresolved; the attempt streak is honest |
| Projections (`projection.go`, `knowledge_projection.go`) | none | ModelJSON, ProjectKnowledge | bounded size, nothing stale shown as current |
| Module runtime (`internal/state/wasm`) | compiled modules | Process, Close | a call ends within its timeout, in an answer or a coded failure |
| Objective run (`cmd/grodt`) | cycle, temporary guidance, metrics, outcome | run, runObjective, evaluate, reportRun | every run ends, reports the outcome its root task has, publishes what was evaluated |
| Structured generation (`internal/structured`) | attempt, feedback, usage | Generate | only a valid candidate is published; attempts are bounded |
| Tool loop (`internal/loop/tools.go`, `catalog.go`, `plan_gate.go`) | history, correction and recovery counters, catalog page | Handle | a batch is all-or-nothing before dispatch; every dispatched call is recorded; each kind of correction is bounded |
| Planning and correction (`planning.go`, `plan_patch.go`, `plan_intent.go`, `host_correction.go`) | the pending correction | managePlan, validateHostCorrection | a rejected proposal changes nothing; intent is preserved |
| Reconciliation (`reconciliation*.go`, `result_accounting.go`) | attempt, proposal | reconcile, acceptReconciliationPlan | updates only accepted steps, from current evidence, once per batch |
| MCP runtime (`internal/mcp`) | sessions, catalog, invocation count | New, Preflight, Invoke, Close | within the budget; never re-sends; classifies what is unknown |
| Milestones and trace (`milestones.go`, `trace.go`) | journal cursor, last plans | drain, saveArtifact | each accepted entry shown once, in order |
| Contracts, configuration, validation, OpenAI client | none that outlives a call | | pure functions and I/O |

How they interact: everything is a synchronous call on one goroutine. The run
calls a provider; the provider calls the model, then the store, then the MCP
runtime, one at a time; the store calls each module in definition order and
performs HTTP itself. The only shared state is the store. Three things arrive
from outside in any order: the cancellation of the run's context (SIGINT,
SIGTERM), answers of modules, tools and the model, and their timeouts.

What is hard, then, is not parallelism but *depth*: an event admitted while a
tool call is active makes a module ask for HTTP work, whose outcome is an event
again, while a budget may run out, a module may fail and the run may be
cancelled between any two steps; and the record that all this leaves must still
be one tree in which nothing was executed twice and nothing is left running.
`PROJECT.json` lists the hazards at their lines, with the properties that cover
them.

## The modules

| Module | Models | Composed of |
| --- | --- | --- |
| `TaskStore` | the store's tasks, admission and host work | `TaskStoreLedger` shows that it implements `RequestLedger` |
| `ObjectiveRun` | one execution of the program | |
| `Plans` | plans as values: CheckPlan, RevisePlan, patches, intent changes, the plan of a reconciliation | |
| `PlanStore` | the plan of a task through a run | `Plans` |
| `Catalog` | pages of the tool catalog | |
| `ToolLoop` | one generation with tools | `Catalog` |
| `Projection` | ProjectKnowledge | |
| `Reconcile` | one reconciliation | `Projection` and `Plans`, with the nodes of source trees for partitions |
| `McpRuntime` | sessions, budget and calls | implements `Dispatcher` |
| `JournalReporter` | the milestone reporter behind the journal | |

Modules named `...Proofs` hold theorems, modules named `MC...` the definitions a
configuration gives constants. A definition named `Mutant:` in its comment is a
plausible bug: put in place of the definition it follows, it must break the
property `PROJECT.json` names for it.

What the plan has left: `Contracts` (selection and reduction over declared
contracts: pure, and no part of the program yet); and a composition of `ToolLoop`
with `TaskStore`, which now meet only in the operations the one may call of the
other.

## TaskStore

`TaskStore.tla` models `internal/state` without plans. One call of the store is
in progress at a time and `op` says where it is:

| `op` | Code |
| --- | --- |
| `idle` | no call in progress |
| `broadcast` | `admit` is at the head of its loop over definitions (`store.go:202`); `defIndex` is the next one |
| `queue` | an accepted result's requests are being queued (`host.go:40`) |
| `drain` | at the head of the loop of `drainHostWork` (`host.go:86`) |
| `http` | inside `executeHTTP` (`host.go:126`) |

`tasks`, `stack`, `taskSequence`, `knowledge` (metadata only), `eventSequence`,
`hostExecutions`, `hostExhausted` and `closed` are the fields of `Store` and its
snapshot. `executed`, `observed` and `seen` are the journal entries the
properties speak of (`host_execution_started`, the outcome events, and the last
entry of each partition). A task's identity is its `Order`; texts are dropped,
`result` says that the outcome of external work is there and `error` is the kind
of its code. `cancelled` is the run's context, which may be done at any step and
stays so; steps the code runs under `context.WithoutCancel` ignore it.

The callers (`cmd/grodt/objective.go`, `internal/loop/tools.go`) are modelled by
what their own control lets them call next: a batch is queued, activated,
recorded, admitted and finished call by call; planning happens between batches;
`run` turns `failing` when the loop gives up on a batch, in which case the
deferred observation is still admitted (`tools.go:58-66`), and then nothing but
`End` and `Close` follows. A module is arbitrary: any acceptable result, or a
failure. A request list is bounded and has distinct identities, as
`decodeResult` enforces; `Acceptable` is `checkRequests`.

Left out of this module: plan revisions and attempts (`PlanStore`), progress
records and cycle counters, which do not touch the fields above; the values of
partitions, the texts of journal entries, size limits of payloads, and the
failure of the JSON schema validation of the task state itself, which the store
treats as an internal error.

`RequestLedger.tla` is the abstract specification: a request identity of a
partition is unknown, queued, executing, recorded, settled, in that order; one
executes at a time; executions stay within the budget; the end of the run
settles everything and nothing is asked after. `TaskStoreLedger.tla` reads that
progress off the task that holds the identity and states `ImplementsLedger`.

### Runs

| Run | Instance | Shows |
| --- | --- | --- |
| `TaskStore_one` | one partition, one identity with two payloads, results with two requests, batches of 2, budget 1, 3 events, 3 caller tasks | `TypeOK`, `Lineage`, `SettledTree`, `ExecutedOnce`, `CompletedWasObserved`, `UniqueRequest`, `OutcomeKept`, `CreationOrder`, `ImplementsLedger` |
| `TaskStore_two` | two partitions, one identity, HTTP disabled, budget 1, 2 events, 2 caller tasks, fairness | `FreshnessHonest`, `BroadcastFirst`, `CancelStops`, `CallReturns` |
| `TaskStore_drains` | one identity, batches of 2 | the violation of `AdmitDrains` |

Bounds. The caller admits no event numbered past `MaxEvents` and creates no
task numbered past `MaxTasks`; both are bounds of the model alone. Three events
let a request be asked for, executed and observed, and asked for again. Events of HTTP outcomes and host
tasks are bounded by the budget and by the identities. With two partitions the
budget is smaller than the number of requests, so exhaustion happens; with one,
an identity is repeated with an equal and with a conflicting payload, within a
result, in a later one and after its task has settled; a batch of two lets a
sibling be pending while its elder fails; three caller tasks give the root with
a batch of two, or a child with a batch of one under it. Payloads are symmetric: only equality reads
them. Deadlock is not checked because the store may stop: it is a library, and
after `Close` nothing happens.

Fairness. `FairSpec` is weakly fair to `StoreStep`, the steps of a call in
progress: a module is cut off after `ProcessTimeout` and an HTTP request after
`HTTPTimeout`, and everything else is computation. Nothing is assumed of the
callers or of cancellation.

`AdmitDrains` states the comment on `Admit` ("Admit returns after all resulting
work finishes", `store.go:173`) and is violated: see `findings`. The work is not
lost, `End` settles it with the run; what fails is the comment's promise that a
nil error means it was executed.

### Proofs

`TaskStoreProofs.tla` proves, from `StoreAssumption` alone (the definition names
are distinct, the bounds are naturals, `NoWork` is not a work item), for every
value of the constants:

- `TypeOKHolds`. `TypeOK` is not inductive: `Top` must exist where an action uses
  it, so the invariant is `TypeInv`, `TypeOK` with `CallInProgress`, which ties
  `op` to the stack (an event in flight belongs to the active task, a request in
  flight to an active host task without outcome).
- `LineageHolds`. The invariant is `LineInv`, `TypeInv` with `StackIsLineage`
  (the stack is a chain of parents, increasing, waiting below a running top) and
  `UnsettledInPlace` (running and waiting tasks are on the stack, pending ones
  hang from it). Lemmas say what `Started`, `Settled`, `Ended` and the recording
  of an outcome do to it; each action is then one of these, or leaves it alone.
- `SettledTreeHolds` follows from that invariant.
- `OutcomeKeptHolds` is an action property; its lemmas follow the same operators.
- `UniqueRequestHolds` and `ExecutedOnceHolds` use `OutcomeKeptHolds` for the
  tasks a step does not create and the invariant for the one it works on.

- `FreshnessHonestHolds` and `BroadcastFirstHolds` share `EventInv`: how far the
  broadcast of each event has come (`ServedUpTo`), so that when the loop over
  definitions is left, every partition has an entry for the event, whether its
  module accepted it or failed.
- `CreationOrderHolds` and `CancelStopsHolds` are action properties. Both use
  `StartStep`, which goes through the actions: a task that a step starts is the
  oldest pending child of the active task (or the root) and the context is live.
  With the invariant, an older unsettled sibling would have to be on the stack
  above the top. That nothing is admitted or executed is in the guards.
- `CompletedWasObservedHolds` (`OutcomeInv`): a completed task of external work
  has its outcome and the broadcast of that outcome behind it, and an outcome of
  host work has an execution behind it.

`TaskStoreLedgerProofs.tla` proves `ImplementsLedgerHolds`. An identity is held
by one task at most (`UniqueRequest`), so the ledger can be read off that task
(`HolderFacts`, and `Stage` says what it reads); then every action is one of
`Ask`, `Execute`, `Record`, `Settle`, `Finish`, or leaves the ledger as it is:
the lemmas `Ledger...` say what a step must do to the tasks to be that one.

Only model-checked: `CallReturns`, which is liveness and out of the prover's
reach.

## ObjectiveRun

`ObjectiveRun.tla` models one execution of the program, from `main` to its exit
code. `pc` names the statement that comes next:

| `pc` | Code |
| --- | --- |
| `start`, `push`, `admit` | the usage (`-h`, `main.go:61-65`), which ends the run with 0, or composition (`main.go:53-125`), `store.Push` and the user event (`objective.go:130-144`) |
| `cycle` | head of the cycle loop (`objective.go:184`) |
| `provide` | `loop.Process` (`objective.go:199`) |
| `evaluate` | `evaluate` and its structured generation (`structured.go:38-96`), one inference a step |
| `judge`, `publish`, `complete` | the judgment (`objective.go:215`), the response (`objective.go:222`), `CompleteObjective` (`objective.go:229`) one commit a step |
| `settle` | the deferred function: outcome, `End`, report (`objective.go:147-172`) |
| `drain`, `unwind`, `exit`, `done` | the calls deferred by `executeWithCapabilities` and `run`, then `exitCode` |

`root` and `children` stand for the store: the status of the root task and the
number of active reasoning children above it. They are the part of `TaskStore`
the run depends on; the providers may change `children` in any way and may let
the host budget run out, after which the store has ended every task. `verdict`
and `response` are the judgment and the emptiness of the response; `err` is the
class `exitCode` tells errors apart by; `lines` says whether a line of the report
was lost. `captured` is the argument of the deferred `saveArtifact` call, which
Go evaluates at the `defer` statement. A signal may arrive at any point
(`Cancel`), and any diagnostic line may fail to be written. The provider chain is
one step, and the one provider `main` composes; texts, prompts, guidance and
token counts are left out.

| Run | Instance | Shows |
| --- | --- | --- |
| `ObjectiveRun_safe` | 3 cycles, 3 attempts, tools, 2 children, fairness | `TypeOK`, `OneOutcome`, `PublishedWasEvaluated`, `ExitCodes`, `ContinuesOnVerdict`, `Terminates` |
| `ObjectiveRun_publishes` | 2 cycles, 5 attempts, no tools | the violation of `FailedNeverPublishes` |
| `ObjectiveRun_final` | the same | the violation of `FinalStateSaved` |

Three cycles give a first, a middle and a last one, three attempts a first, a
middle and a last; the code has 500 and 5, and the theorems hold for all. The
run ends in `done`, where it stutters, so deadlock is checked. `FairSpec` is
weakly fair to the program's own steps: every inference has the client's
timeout, every tool call and module its own, and the attempts and cycles are
counted. It is not fair to `Cancel`.

The violations are disagreements between the code and what is written about it,
quoted in `findings`: the final artifact holds the initial state (a bug), and a
run cancelled between its response and its completion has published. Two more
follow from reading alone and have no run: `src/README.md:52` allows "at most
two corrective inferences" where `MaxStructuredAttempts` is 5, and an early
signal exits with 0 without the `Status` that `src/README.md:84` says tells
cancellation from achievement.

`ObjectiveRunProofs.tla` proves every safety property of `ObjectiveRun_safe`
from `RunAssumption` (the limits are positive). None is inductive; `RunInv` adds
what each phase of the run leaves to the next: `Progress` (cycle, attempt and
verdict), `Untouched` (nothing is settled or wrong before the end), `LeftBehind`
(what the deferred function finds: outcome, error and root agree), `Verdicts`
(what the error says of the end) and `ExitInv`. `Terminates` is model-checked.

## Plans and PlanStore

`Plans.tla` holds plans as values and what the code computes from them, one
operator per function: `ResolveEvidence`, `CheckPlan`, `NormalizeCurrentStep`,
`AdvanceCurrentStep` and `RevisePlan` (`state/plan.go`), `NewClaims` and
`ClaimsCompletion` (`loop/planning.go`), `PlanIntentChanges` (`plan_intent.go`),
`ApplyPlanPatch` (`plan_patch.go`), `ReconciliationPlan` (`reconciliation.go`). A
plan is a record with its steps in order; texts that the code only compares or
finds empty are members of `Intent`, or "none", "some" and "stated"; evidence is
a set of references, a partition at a version. Empty and absent lists are the
same, bounds on text lengths are left out, and a reference resolves when the
version is right: that its path leads somewhere is `Reconcile`'s matter.

`PlanStore.tla` takes one task's plan through a run. `pc` is `turn` while the
actor may plan, `batch` from the call that opens an attempt to the last
admission, `reconcile` until that is accepted, and `failed` when it is not, which
ends the run. `knowledge` is the metadata of the partitions, `attempts` the
attempt summary, `before` the snapshot the loop takes before a batch. Two
histories are kept for the properties: `confirmed`, the satisfied steps an
evaluator has confirmed, and `outcomes`, whether each reconciled batch changed a
step. `ManagePlan` is `managePlan` to the end of `acceptPlanWithContext`; it is
one step because nothing else touches the store while it runs (the evaluator
only reads), and it has two outcomes, since an evaluator may say anything. Its
inputs are edits of the accepted plan: one step changed and one added in a
snapshot, one operation in a patch. `Progress` is an accepted decision of a
reconciliation that cites current evidence; which evidence it is shown, and how
often it is sent back, is in `Reconcile`.

| Run | Instance | Shows |
| --- | --- | --- |
| `PlanStore_safe` | two steps, one partition admitted into once, three revisions, two batches, replanning after 2 | `ConfirmedKept`, `SatisfiedWasConfirmed`, `EvidenceObserved`, `Continuable`, `StreakHonest`, `ReconciliationKeepsProcedure` |

Three revisions declare a plan, satisfy it and renew it; two batches let the
evidence of a step go stale, and make the streak reach the threshold (3 in the
code) or break before it. Steps have every content there is at either version,
the future one included. The run stops at its bounds, so deadlock is not checked.

`PlanStoreProofs.tla` proves all six, and type correctness, from
`PlanStoreAssumption`, for any number of steps, partitions, versions, revisions
and attempts. The argument never looks at what is proposed: `CheckPlan` alone
carries the history, whatever it is given.

- `ConfirmedKeptHolds` and `SatisfiedWasConfirmedHolds` need each other
  (`HistoryInv`): a completed step stays because it was confirmed as it stands,
  and a satisfied one is either new, hence a claim that was confirmed, or an old
  one that `CheckPlan` found unchanged.
- `EvidenceObservedHolds` (`EvidenceInv`): versions only grow.
- `ReconciliationKeepsProcedureHolds` and `ContinuableHolds` (`ProcedureInv`):
  ids are distinct, everything stored has a content, the position is unfinished.
  Lemmas say what normalising and advancing leave of a plan.
- `StreakHonestHolds` (`AttemptInv`): the streak is the number of batches since
  the last one with progress, and an attempt in progress has not been counted.

Disagreements met here, none with a run: `plan.go:146` offers "invalidate or
create a new intent" to the actor of a completed plan, but `acceptPlan` refuses
a plan without an unfinished step when the accepted one has none either
(`planning.go:195`), an invalidation included; `reconciliation.go:416` offers to "retain that step's existing
historical reference", which `CheckPlan` refuses for unfinished work once it is
stale (`plan.go:189`); `docs/general-state.md:152` says of a rejected claim
"Rejection retains those" as partial, but a rejected proposal stores nothing.

## Catalog and ToolLoop

`Catalog.tla` is the arithmetic of `catalog.go`. `ToolLoop.tla` is `Handle`
(`tools.go`) with `host_correction.go` and `plan_gate.go`. `pc` is `head` (the
checks before a request), `generate` (a request has been made), `batch` (its
calls, one a step), `reconcile`, `done` or `failed`. The counters have the names
of the code: `corrections`, `recoveryTurns`, `planRejections`, `pageSelections`,
`pending.attempts`, and `invocations` of the runtime. `plans` says of each task
on the stack whether its plan is absent, open, finished or satisfied, which is
all the loop asks of it; `pending` is the correction with what it retains, the
declared intent and the rejected arguments. `accepted` records the planning
action accepted in this turn, for the properties.

A response is a record of what the loop tells apart: planning calls, other
calls, whether one selects a page, what text comes with it and what command. For
each way through `Handle` there is an action: `Unusable`, `Bypass`,
`RefuseCorrection`, `PlanAccepted`, `PlanRejected`, `Companion`, `CaptureIntent`
and so on. Evaluators, diagnostics, validation and the server may decide
anything; `MayCorrect` and `MayAccept` are what the host decides itself.

| Run | Instance | Shows |
| --- | --- | --- |
| `ToolLoop_safe` | catalogs of 2 and 5 tools at 4 a request, every allowance small, 3 invocations, batches of 2, one child, fairness | `TypeOK`, `Allowances`, `BatchHonest`, `CatalogComplete`, `NoBypass`, `IntentKept`, `EndsUnlessReplanning` |
| `ToolLoop_wedged` | the same | the violation of `RevisionCorrects` |

The catalogs are one that fits a request and one that takes three pages. Every
allowance is reached, and passed by one: batches of three are proposed, three
invocations are one batch and a half, the allowance for rejections leaves
exactly the room above that of a correction that the assumption asks for (10 and
32 in the code). `FairSpec` is weakly fair to the loop's own steps, each of which
has a timeout in the code; `Cancel` is not fair. `EndsUnlessReplanning` is what is
true of the end of a generation: accepted planning operations are the one thing
that draws on no allowance (`tools.go:321`), and an actor may have them accepted
forever. The run ends, so deadlock is not checked.

`RevisionCorrects` states what the correction of a required plan tells the
actor, and is violated: once the actor has answered it with an operation on a
child, that operation is retained, and the revision it is told to submit is
refused until the attempts run out. See `findings`.

`ToolLoopProofs.tla` proves all of them but the liveness, for every allowance and
every catalog. `LoopInv` is the type invariant with `TurnInv`: what has been
checked at the head still holds when the response is there, and rejections are at
most one more than the responses of the correction they belong to, which is why
the general allowance is never used up. `BatchInv` relates the outcomes so far to the
calls left and to the failure outstanding. `PageInv` carries that the page is
one of the catalog; the first part of the module holds the arithmetic (`OnAPage`,
a tool is on the page its number divided by the page size names; `OnOnePage`;
`PageFits`). Proofs of `NoBypass` and `IntentKept` go through the actions one by
one from `LoopInv`.

## Projection and Reconcile

`Projection.tla` is `ProjectKnowledge`: the inventory that takes up to a third of
the budget, the share of each source, the walk of a source for the largest
values that fit, the rounds over the sources, and the coverage. A walk first
offers the paths the plan cites (`Prefer`), then visits the nodes in key order
(`Visit`): a node that fits is queued, what lies below it is passed over, and a
leaf that is not taken is omitted (`Try`). In a round each source has one turn
(`Select`). A source is a tree, a size for each leaf; sizes are in units instead
of bytes, in which an inventory entry, and what surrounds a value, is 1. `text`
are the paths that repeat structured content, and are not shown. The recursions
are functions of the number of steps done (`walked`, `selected`), and `InOrder`
places the members of a set by how many precede them.

`Reconcile.tla` is one reconciliation. `input` is computed once
(`ReconciliationInput`), then `pc` alternates between `propose` and `evaluate`
until `accepted` or `failed`. `HostAccepts` is everything the host checks: the
accounting of results (`result_accounting.go`) and `ReconciliationPlan` of
`Plans`, instantiated so that a partition is a node of a source's tree and a
reference can cite a descendant of a value that was shown. `attempt` counts
proposals sent back by host and evaluator alike, `tries` the answers that do not
match the schema, and `inferences` is the sum that no counter of the code holds.

| Run | Instance | Shows |
| --- | --- | --- |
| `Reconcile_safe` | two partitions, three sources with two trees each, three budgets, 3 values at most, a plan of an open and a completed step, two results, two proposals, two tries | `CoverageHonest`, `EvidenceShown`, `AcceptedWhole`, `InferencesBounded` |

The trees have values too large for their share, for the value limit and for the
budget, nested candidates, and text that repeats the content or does not; the
budgets cut the inventory, the shares, or nothing. Decisions are any update with
a plain accounting, and any accounting of up to two entries with a plain update;
they cite nothing, a stale reference, and every path of every source. The plan is
shown whole, cut to its current step, or not at all: `Shown` keeps the steps that
fit (`reconciliation.go:122-153`) and then drops them from the end while the
whole input is too long, the current one last (`:213-220`). Neither
budget nor visible steps vary when there is no result to account for. Both
counters have a first and a last value (32 and 5 in the code). A reconciliation
ends, so deadlock is not checked.

`EvidenceShown` speaks of references that are *added*. A claim of satisfaction
may also rest on a reference the step had before, which need not be among the
values shown: the evaluator then judges the claim without seeing it. `CoverageHonest` is one-sided: the
guard of the total budget (`knowledge_projection.go:310`) may omit a value that
fits its source's own share, against `docs/general-state.md:198` ("A large result
cannot consume another source's" allocation), and the coverage then says so. The
bound of `InferencesBounded` is 320 in the code, where `docs/general-state.md:740`
and the comment at `reconciliation.go:25` speak of ten attempts and
`maxReconciliationAttempts` is 32.

`ReconcileProofs.tla` proves the four for every set of sources, trees, budgets,
steps and results, from `ReconcileAssumption`, `ProjectionAssumption` (finitely
many sources, a limit that is a number) and `KnowledgeAssumption` (a budget is a
number, a tree has finitely many leaves). `EvidenceShown` and
`AcceptedWhole` are inductive with `Kept`: until a decision is accepted nothing
has moved, and the decision under judgment is one the host has accepted. What an
accepted decision leaves is followed place by place: `ReconciledSteps` and
`ResultingSteps` say that the plan after it has the same steps in the same
places, each as it was or replayed from its update. `InferencesBounded` rests on
`Counted`: an attempt is a proposal and a judgment, each of at most all its
tries.

`CoverageHonest` is a fact about one projection, the one `Init` computes, and
its proof is about an algorithm rather than about steps:

- key order is a strict total order (`BeforeItself`, `BeforeBefore`,
  `BeforeOrAfter`), so that ranks place every node once: no node is forgotten
  (`EachInOrder`);
- a walk *minds* a leaf if it has omitted something, if the leaf is a duplicate,
  or if it has queued a value the leaf lies in. What is minded stays so, and each
  visit minds the leaf it is at (`VisitKeeps`), hence a walk minds every leaf of
  its tree (`WalkMinds`);
- a queue is no longer than the number of rounds, every source has its turn in
  every round (`TurnIs`), and a value that had its turn is shown or its source
  marked (`SelectionTakes`).

## McpRuntime

`McpRuntime.tla` is `internal/mcp` between the loop and its servers. `phase` goes
from `connecting` (`New`: `Connect`, `ReadPage`, `ReadLastPage`, or `StartFails`,
which closes what is open) to `ready`, `ending` and `closed`. Calls are numbered
in the order the loop decides about them: `made` are decided, `last` is the end
of the batch that `Preflight` admitted, `target` is the server the next one has
been sent to. `Send` is `Invoke` up to the SDK's call, `ReturnResult`,
`ReturnFailure` and `ReturnError` what follows it. `wire` is the runtime's own
copy of the last response of a session (`http.go`), which decides what is known
of a call that did not return a result.

The network is free: a request in `requests` may be executed, refused or lost; an
answer in `answered` may be captured, lost, or come when its call has been given
up, and a call given up may be executed after its report. Assumed of what is
external: the SDK matches responses to requests, and a server that answers with
a result has executed the call.

`Dispatcher.tla` is what the loop is promised: a call is executed at most once
and within the budget, a report is never revised, `not_dispatched` means never
executed, also later, and `result` means executed. `report` is the history of
what the loop was told.

| Run | Instance | Shows |
| --- | --- | --- |
| `McpRuntime_safe` | two servers, two pages, two tools, two cursors, 3 invocations, batches of 2, 4 calls | `AllOrNothing`, `BudgetReserved`, `ImplementsDispatcher` |

Four calls are one more than the budget, so that a batch is refused for it, and
two batches, so that the response of a call can be taken for the next one's. Two
pages and two cursors let a cursor come again and discovery exceed its pages.
The runtime may stop at any time: deadlock is not checked.

`McpRuntimeProofs.tla` proves the three properties and type correctness for every
number of servers, calls and invocations. `SessionInv` says which sessions are
open while connecting. The refinement rests on `KnownInv` (what has been decided,
sent and executed: nothing beyond the call under way has been sent, and a
captured result was executed) and on `SentInv` (at most as many calls were sent
as invocations counted, hence the budget bounds executions); each action then
maps to `Execute`, `Report` or a stutter.

`docs/mcp.md:105` and `:160` say that transport and protocol failures terminate
the generation. In the code they are `InvocationFailure`s, which end the batch
and which the actor gets to answer (`tools.go:443`, and `InvocationFails` in
`ToolLoop`); the models follow the code.

## JournalReporter

`JournalReporter.tla` is `milestones.go` behind `JournalSince`. `Commit` appends
an entry while the reporter is idle, `Drain` takes what is after the cursor,
`Process` turns an entry into its lines, and each line is a step that may fail
(`WriteFails`). `plans` is what a plan is compared with, `failed` the latched
error. A step is known by its position and a line by what it says.

| Run | Instance | Shows |
| --- | --- | --- |
| `JournalReporter_safe` | two tasks, three plans, four entries | `ReportsJournal` |

`ReportsJournal` compares the terminal with `Transcript`, what one drain of the
whole journal would write: always a prefix of it, and all of it after a drain
that succeeded. Four entries give two tasks with a plan revised each, drains
that end between them, and entries that leave no line.

`JournalReporterProofs.tla` proves it for every journal, from
`JournalAssumption` (what a task may be planned as has steps in a sequence).
`Transcript` is a recursion over the journal, so the proof has an induction of
its own: `Earliest` says that a set of positions that is not empty has a first
one, and a claim about every position is proved by looking at the first at which
it fails. In this way the flattened lines of a journal grow with it at the end
(`FlattenOneMore`, `ReportedGrows`). `JournalInv` says what the terminal holds
in each phase: the lines of the entries before the cursor that have been
processed, then those of the one in hand already written (`Places`, `Working`,
`Stopped`).

## What is proved, and what is not

Every safety property the passing runs check holds for every value of the
constants the assumptions allow, and so do the refinements of `RequestLedger`
and `Dispatcher`. Only model-checked is liveness (`CallReturns`, `Terminates`,
`EndsUnlessReplanning`), which rests on fairness and is out of the prover's
reach.

| Module | Theorems |
| --- | --- |
| `TaskStoreProofs` | the safety properties of `TaskStore` |
| `TaskStoreLedgerProofs` | that `TaskStore` implements `RequestLedger` |
| `ObjectiveRunProofs` | the safety properties of `ObjectiveRun` |
| `PlanStoreProofs` | those of `PlanStore` |
| `ToolLoopProofs` | those of `ToolLoop`, the arithmetic of `Catalog` |
| `ReconcileProofs` | those of `Reconcile`, with the walk and the rounds of `Projection` |
| `McpRuntimeProofs` | those of `McpRuntime`, that it implements `Dispatcher` |
| `JournalReporterProofs` | that the reporter writes the journal |

The theorems of the library that do induction take an operator, which the
provers cannot instantiate. Where a proof needs induction over a number, it is
stated for sets (`Earliest`) and used by contradiction; that a recursive function
has a value at all is proved the same way (`WalkExists`, `SelectionExists`).

## Not modelled

Configuration, the OpenAI client, schema validation, terminal output and the
WASM module runtime are pure functions or I/O whose result the other parts see as
one of a few outcomes; contracts are pure selection over
declarations, in a package that only tests import; tool call
types are data; the test server and the reference C module are external.

Within the modelled parts: texts, prompts, histories and their bounds; the
limit of 32 steps of a plan stands behind `MaxSteps`; a plan is followed in one
task, the stack of tasks being `TaskStore`'s; a refused `create_child` for any
other reason than depth is one of `PlanRejected`'s; the trimming of texts in the
input of a reconciliation and its flags of recent results; lines of which a part
was written before the error.
