------------------------------ MODULE TaskStore ------------------------------
(***************************************************************************)
(* The run-owned task store of internal/state: the task records and the    *)
(* execution stack (tasks.go), the admission of one event to every module  *)
(* partition (store.go), the host work the modules ask for (host.go) and   *)
(* the external tool invocations the reasoning loop dispatches (agent.go). *)
(*                                                                         *)
(* The store is sequential: one call is in progress at a time, and op says *)
(* where it is.  Three things interleave with it: the cancellation of the  *)
(* run's context, which may land between any two steps, the answer of a    *)
(* WASM module, and the outcome of an HTTP request.                        *)
(*                                                                         *)
(* Task identities "<run>/task/<n>" are their creation order n.  Texts     *)
(* (objective, input, result) are left out but for what the control reads: *)
(* result says that the outcome of external work is there, error is the    *)
(* kind of the Error code.                                                 *)
(*                                                                         *)
(* Callers are cmd/grodt and internal/loop seen from the store: any order  *)
(* of calls their own control allows between two calls of the store.       *)
(***************************************************************************)
EXTENDS Naturals, Sequences, FiniteSets

CONSTANTS
    Definitions,          \* partition names, in definition (broadcast) order
    RequestIDs,           \* identities a module may give a host request
    Payloads,             \* payloads told apart by sameRequest
    NoWork,               \* the nil HostWork of a task that is not host work
    AllowHTTP,            \* Options.AllowHTTP
    MaxHostExecutions,    \* host executions per run (types.go: 32)
    MaxRequestsPerResult, \* requests per module result (types.go: 8)
    MaxBatchCalls,        \* agent calls per batch (mcp/policy.go: 8)
    MaxEvents,            \* model bound: the caller admits no event past this number
    MaxTasks              \* model bound: tasks created by the caller

Partition == {Definitions[i] : i \in 1..Len(Definitions)}
Request == [id : RequestIDs, payload : Payloads]
Work == [partition : Partition, id : RequestIDs, payload : Payloads]

ASSUME StoreAssumption ==
    /\ Definitions \in Seq(Partition)
    /\ \A i, j \in 1..Len(Definitions) : Definitions[i] = Definitions[j] => i = j
    /\ NoWork \notin Work
    /\ AllowHTTP \in BOOLEAN
    /\ MaxHostExecutions \in Nat
    /\ MaxRequestsPerResult \in Nat
    /\ MaxBatchCalls \in Nat
    /\ MaxEvents \in Nat
    /\ MaxTasks \in Nat

Kind == {"reasoning", "agent", "host"}
Terminal == {"completed", "failed", "cancelled", "incomplete"}
Status == {"pending", "running", "waiting"} \cup Terminal
\* "outcome": the answer itself reports a failure (an HTTP error, isError);
\* "operation": the tool invocation gave no admissible answer.
ErrorCode == {"none", "outcome", "operation", "abandoned", "ended"}
Task == [kind : Kind, parent : Nat, status : Status,
         result : BOOLEAN, error : ErrorCode, work : Work \cup {NoWork}]

\* Partition metadata; LastError is set exactly when failures > 0.
Metadata == [version : Nat, lastProcessed : Nat, lastUpdate : Nat,
             stale : BOOLEAN, failures : Nat]

VARIABLES
    tasks,          \* TaskState.Records: id -> Task
    stack,          \* TaskState.Stack, the active lineage
    taskSequence,
    knowledge,      \* partition -> Metadata
    eventSequence,
    hostExecutions,
    hostExhausted,
    closed,
    cancelled,      \* the run's context is done; it never recovers
    run,            \* the caller: "working", "failing" (its tool loop gave up on a
                    \* batch and has yet to observe that) or "ending"
    op,             \* where the call in progress is
    ret,            \* what the last finished call returned
    eventTask,      \* TaskID of the event being broadcast, 0 when it has none
    defIndex,       \* next definition of the broadcast loop
    requests,       \* requests of the current result still to be queued
    executed,       \* journal: tasks with a host_execution_started entry
    observed,       \* journal: tasks whose outcome was broadcast as an event
    seen            \* journal: last event with an entry for each partition

taskVars == <<tasks, stack, taskSequence>>
hostVars == <<hostExecutions, hostExhausted, executed>>
eventVars == <<knowledge, eventSequence, seen, observed>>
callVars == <<op, ret, eventTask, defIndex, requests>>
envVars == <<run, closed, cancelled>>
vars == <<taskVars, hostVars, eventVars, callVars, envVars>>

-----------------------------------------------------------------------------
(* Reading the store *)

TaskId == DOMAIN tasks
Top == stack[Len(stack)]
OnStack == {stack[i] : i \in 1..Len(stack)}
Live(t) == tasks[t].status \in {"pending", "running", "waiting"}

PendingChildren(p) ==
    {t \in TaskId : tasks[t].parent = p /\ tasks[t].status = "pending"}

\* Mutant of IsNextChild: the newest pending child.
IsNewestChild(t, p) ==
    t \in PendingChildren(p) /\ \A u \in PendingChildren(p) : u <= t

\* pendingChild: the oldest pending child.
IsNextChild(t, p) ==
    t \in PendingChildren(p) /\ \A u \in PendingChildren(p) : t <= u

\* Mutant of Holders: settled requests are forgotten.
LiveHolders(p, id) ==
    {t \in TaskId : /\ Live(t)
                    /\ tasks[t].work # NoWork
                    /\ tasks[t].work.partition = p
                    /\ tasks[t].work.id = id}

\* existingRequest: the task that holds a request identity of a partition.
Holders(p, id) ==
    {t \in TaskId : tasks[t].work # NoWork
                    /\ tasks[t].work.partition = p
                    /\ tasks[t].work.id = id}

\* decodeResult: the statuses of a result that may be accepted.
ResultStatus == {"ignored", "processed", "mutation"}

\* The requests one result may carry: bounded, with distinct identities.
RequestLists ==
    {s \in UNION {[1..n -> Request] : n \in 0..MaxRequestsPerResult} :
        \A i, j \in DOMAIN s : s[i].id = s[j].id => i = j}

\* checkRequests: a causal task, and no identity reused for other work.
Acceptable(p, reqs) ==
    /\ reqs # <<>> => eventTask # 0
    /\ \A i \in DOMAIN reqs : \A t \in Holders(p, reqs[i].id) :
           tasks[t].work.payload = reqs[i].payload

-----------------------------------------------------------------------------
(* Writing the store.  Each of these is one committed task state. *)

\* Mutant of Put: only a known identity is written.
PutKnown(f, t, r) == [f EXCEPT ![t] = r]

Put(f, t, r) == [x \in DOMAIN f \cup {t} |-> IF x = t THEN r ELSE f[x]]

NewTask(kind, parent, status, work) ==
    [kind |-> kind, parent |-> parent, status |-> status,
     result |-> FALSE, error |-> "none", work |-> work]

\* Mutant of Started: the parent keeps running.
StartedAlone(t) ==
    /\ tasks' = [tasks EXCEPT ![t].status = "running"]
    /\ stack' = Append(stack, t)
    /\ UNCHANGED taskSequence

\* activate: the pending child becomes the top, its parent waits.
Started(t) ==
    /\ tasks' = [tasks EXCEPT ![t].status = "running",
                              ![tasks[t].parent].status = "waiting"]
    /\ stack' = Append(stack, t)
    /\ UNCHANGED taskSequence

\* Mutant of Settled: pending children do not stop it.
SettledEarly(status, error) ==
    LET id == Top
        rest == SubSeq(stack, 1, Len(stack) - 1)
        done == [tasks EXCEPT ![id].status = status, ![id].error = error]
    IN  /\ stack' = rest
        /\ tasks' = IF rest = <<>> THEN done
                    ELSE [done EXCEPT ![rest[Len(rest)]].status = "running"]
        /\ UNCHANGED taskSequence

\* Mutant of Settled: the task stays on the stack.
SettledInPlace(status, error) ==
    /\ PendingChildren(Top) = {}
    /\ tasks' = [tasks EXCEPT ![Top].status = status, ![Top].error = error]
    /\ UNCHANGED <<stack, taskSequence>>

\* finish: the top settles and its parent, now the top, runs again.
Settled(status, error) ==
    LET id == Top
        rest == SubSeq(stack, 1, Len(stack) - 1)
        done == [tasks EXCEPT ![id].status = status, ![id].error = error]
    IN  /\ PendingChildren(id) = {}
        /\ stack' = rest
        /\ tasks' = IF rest = <<>> THEN done
                    ELSE [done EXCEPT ![rest[Len(rest)]].status = "running"]
        /\ UNCHANGED taskSequence

\* Mutant of Ended: settled tasks are relabelled too.
EndedAll(status) ==
    /\ tasks' = [t \in TaskId |-> [tasks[t] EXCEPT !.status = status, !.error = "ended"]]
    /\ stack' = <<>>
    /\ UNCHANGED taskSequence

\* Mutant of Ended: pending work is left queued.
EndedLineage(status) ==
    /\ tasks' = [t \in TaskId |->
                    IF t \in OnStack
                    THEN [tasks[t] EXCEPT !.status = status, !.error = "ended"]
                    ELSE tasks[t]]
    /\ stack' = <<>>
    /\ UNCHANGED taskSequence

\* End: every unsettled task takes the terminal status; nothing stays active.
Ended(status) ==
    /\ tasks' = [t \in TaskId |->
                    IF Live(t) THEN [tasks[t] EXCEPT !.status = status, !.error = "ended"]
                    ELSE tasks[t]]
    /\ stack' = <<>>
    /\ UNCHANGED taskSequence

\* fail: one module's failure marks its own partition only.
Failed(p) ==
    /\ knowledge' = [knowledge EXCEPT ![p].stale = TRUE, ![p].failures = @ + 1]
    /\ seen' = [seen EXCEPT ![p] = eventSequence]
    /\ UNCHANGED <<eventSequence, observed>>

\* Mutant of Advanced: a processed event leaves the failure count.
AdvancedKeepingFailures(m, status) ==
    CASE status = "ignored" -> m
      [] status = "processed" ->
            [m EXCEPT !.lastProcessed = eventSequence, !.stale = FALSE]
      [] status = "mutation" ->
            [version |-> m.version + 1, lastProcessed |-> eventSequence,
             lastUpdate |-> eventSequence, stale |-> FALSE, failures |-> 0]

\* The metadata of a partition after a result with this status is accepted.
Advanced(m, status) ==
    CASE status = "ignored" -> m
      [] status = "processed" ->
            [m EXCEPT !.lastProcessed = eventSequence, !.stale = FALSE, !.failures = 0]
      [] status = "mutation" ->
            [version |-> m.version + 1, lastProcessed |-> eventSequence,
             lastUpdate |-> eventSequence, stale |-> FALSE, failures |-> 0]

Return(r) ==
    /\ op' = "idle"
    /\ ret' = r
    /\ eventTask' = 0
    /\ defIndex' = 1
    /\ requests' = <<>>

\* The first half of admit: the event takes its number and its causal task.
Broadcast ==
    /\ eventSequence' = eventSequence + 1
    /\ eventTask' = IF stack = <<>> THEN 0 ELSE Top
    /\ op' = "broadcast"
    /\ defIndex' = 1
    /\ requests' = <<>>
    /\ UNCHANGED <<ret, knowledge, seen>>

\* The status and error a recorded outcome settles its task with.
SettledOutcome ==
    LET error == tasks[Top].error
    IN  Settled(IF error = "none" THEN "completed" ELSE "failed", error)

-----------------------------------------------------------------------------
Init ==
    /\ tasks = [t \in {} |-> NewTask("reasoning", 0, "running", NoWork)]
    /\ stack = <<>>
    /\ taskSequence = 0
    /\ knowledge = [p \in Partition |->
           [version |-> 0, lastProcessed |-> 0, lastUpdate |-> 0,
            stale |-> FALSE, failures |-> 0]]
    /\ eventSequence = 0
    /\ hostExecutions = 0
    /\ hostExhausted = FALSE
    /\ closed = FALSE
    /\ cancelled = FALSE
    /\ run = "working"
    /\ op = "idle"
    /\ ret = "ok"
    /\ eventTask = 0
    /\ defIndex = 1
    /\ requests = <<>>
    /\ executed = {}
    /\ observed = {}
    /\ seen = [p \in Partition |-> 0]

-----------------------------------------------------------------------------
(* Calls of the application and of the reasoning loop *)

Idle == op = "idle" /\ ~closed

Working == Idle /\ ~cancelled /\ run = "working"

Reasoning == stack # <<>> /\ tasks[Top].kind = "reasoning"

\* The loop plans and completes between batches, never inside one.
BetweenBatches == Reasoning /\ PendingChildren(Top) = {}

\* Push, for the root objective and for create_child.
Push ==
    LET id == taskSequence + 1
        parent == IF stack = <<>> THEN 0 ELSE Top
        child == Put(tasks, id, NewTask("reasoning", parent, "running", NoWork))
    IN  /\ Working
        /\ id <= MaxTasks
        /\ TaskId = {} \/ BetweenBatches
        /\ tasks' = IF parent = 0 THEN child
                    ELSE [child EXCEPT ![parent].status = "waiting"]
        /\ stack' = Append(stack, id)
        /\ taskSequence' = id
        /\ ret' = "ok"
        /\ UNCHANGED <<hostVars, eventVars, op, eventTask, defIndex, requests, envVars>>

\* Admit, for user and llm events.  The failure of a batch is observed under
\* the reasoning task while its later siblings are still pending.
Admit ==
    /\ Idle /\ ~cancelled /\ ~hostExhausted
    /\ eventSequence < MaxEvents
    /\ Reasoning
    /\ \/ run = "working" /\ PendingChildren(Top) = {} /\ run' = run
       \/ run = "failing" /\ run' = "ending"
    /\ Broadcast
    /\ UNCHANGED <<observed, taskVars, hostVars, closed, cancelled>>

\* QueueAgentWork: a preflighted batch becomes pending children of the active task.
QueueAgentWork(n) ==
    LET ids == taskSequence + 1 .. taskSequence + n
    IN  /\ Working
        /\ BetweenBatches
        /\ taskSequence + n <= MaxTasks
        /\ tasks' = [t \in TaskId \cup ids |->
                        IF t \in ids THEN NewTask("agent", Top, "pending", NoWork)
                        ELSE tasks[t]]
        /\ taskSequence' = taskSequence + n
        /\ ret' = "ok"
        /\ UNCHANGED <<stack, hostVars, eventVars, op, eventTask, defIndex, requests, envVars>>

\* ActivateAgentWork: only the oldest pending child may start.
ActivateAgentWork ==
    /\ Working
    /\ Reasoning
    /\ \E t \in TaskId :
           /\ IsNextChild(t, Top)
           /\ tasks[t].kind = "agent"
           /\ Started(t)
    /\ ret' = "ok"
    /\ UNCHANGED <<hostVars, eventVars, op, eventTask, defIndex, requests, envVars>>

ActiveAgent == stack # <<>> /\ tasks[Top].kind = "agent"

\* RecordAgentOutcome runs under WithoutCancel: a finished invocation is kept.
RecordAgentOutcome(error) ==
    /\ Idle /\ run = "working"
    /\ ActiveAgent /\ ~tasks[Top].result
    /\ tasks' = [tasks EXCEPT ![Top].result = TRUE, ![Top].error = error]
    /\ ret' = "ok"
    /\ UNCHANGED <<stack, taskSequence, hostVars, eventVars, op, eventTask, defIndex, requests, envVars>>

\* AdmitAgentOutcome broadcasts the recorded observation under its own task;
\* the tool loop admits each answer once and a failed operation never.
AdmitAgentOutcome ==
    /\ Working /\ ~hostExhausted
    /\ eventSequence < MaxEvents
    /\ ActiveAgent /\ tasks[Top].result
    /\ tasks[Top].error # "operation" /\ Top \notin observed
    /\ Broadcast
    /\ observed' = observed \cup {Top}
    /\ UNCHANGED <<taskVars, hostVars, envVars>>

\* Mutant of FinishAgentWork: a recorded answer need not be admitted.
FinishUnadmitted ==
    /\ Idle /\ run = "working"
    /\ ActiveAgent /\ tasks[Top].result
    /\ run' = run
    /\ SettledOutcome
    /\ ret' = "ok"
    /\ UNCHANGED <<hostVars, eventVars, op, eventTask, defIndex, requests, closed, cancelled>>

\* FinishAgentWork: after the admission of the answer, or at once, under
\* WithoutCancel, when the operation failed.  A failure that is not an
\* InvocationFailure ends the batch with its later siblings pending.
FinishAgentWork ==
    /\ Idle /\ run = "working"
    /\ ActiveAgent /\ tasks[Top].result
    /\ \/ tasks[Top].error = "operation" /\ run' \in {"working", "failing"}
       \/ Top \in observed /\ ~cancelled /\ run' = run
    /\ SettledOutcome
    /\ ret' = "ok"
    /\ UNCHANGED <<hostVars, eventVars, op, eventTask, defIndex, requests, closed, cancelled>>

\* Complete, for complete_child and for a confirmed root objective.
Complete ==
    /\ Working
    /\ Reasoning
    /\ Settled("completed", "none")
    /\ ret' = "ok"
    /\ UNCHANGED <<hostVars, eventVars, op, eventTask, defIndex, requests, envVars>>

\* AbandonChild: a reasoning child ends incomplete.
AbandonChild ==
    /\ Working
    /\ Reasoning /\ tasks[Top].parent # 0
    /\ Settled("incomplete", "abandoned")
    /\ ret' = "ok"
    /\ UNCHANGED <<hostVars, eventVars, op, eventTask, defIndex, requests, envVars>>

\* End, called by the run with a context that cancellation does not reach.
End(status) ==
    /\ Idle
    /\ TaskId # {}
    /\ status = "cancelled" => cancelled
    /\ Ended(status)
    /\ ret' = "ok"
    /\ UNCHANGED <<hostVars, eventVars, op, eventTask, defIndex, requests, envVars>>

\* Close, deferred by the run after everything else.
Close ==
    /\ Idle
    /\ stack = <<>>
    /\ closed' = TRUE
    /\ ret' = "ok"
    /\ UNCHANGED <<taskVars, hostVars, eventVars, op, eventTask, defIndex, requests, run, cancelled>>

\* SIGINT, SIGTERM or a deadline reaches the run's context.
Cancel ==
    /\ ~cancelled /\ ~closed
    /\ cancelled' = TRUE
    /\ UNCHANGED <<taskVars, hostVars, eventVars, callVars, run, closed>>

-----------------------------------------------------------------------------
(* admit: one module after another, in definition order *)

Receiver == Definitions[defIndex]

\* The module trapped, timed out, answered nonsense, asked for work it may not
\* have, reported an error, or proposed an invalid value.  When the context is
\* done the loop stops after marking the failure.
ModuleFails ==
    /\ op = "broadcast" /\ defIndex <= Len(Definitions)
    /\ Failed(Receiver)
    /\ IF cancelled
       THEN Return("error")
       ELSE /\ defIndex' = defIndex + 1
            /\ UNCHANGED <<op, ret, eventTask, requests>>
    /\ UNCHANGED <<taskVars, hostVars, envVars>>

\* An accepted result commits its partition before its requests are queued.
ModuleReturns(status, reqs) ==
    /\ op = "broadcast" /\ defIndex <= Len(Definitions)
    /\ ~cancelled
    /\ Acceptable(Receiver, reqs)
    /\ knowledge' = [knowledge EXCEPT ![Receiver] = Advanced(@, status)]
    /\ seen' = [seen EXCEPT ![Receiver] = eventSequence]
    /\ op' = "queue"
    /\ requests' = reqs
    /\ UNCHANGED <<eventSequence, observed, taskVars, hostVars, ret, eventTask, defIndex, envVars>>

\* queueRequests on one request: an identity already held is only journaled;
\* a new one becomes a pending child of the causal task.  The identifier is
\* taken before the commit, so a cancelled commit leaves a gap behind.
QueueRequest ==
    LET r == Head(requests)
        id == taskSequence + 1
        work == [partition |-> Receiver, id |-> r.id, payload |-> r.payload]
    IN  /\ op = "queue" /\ requests # <<>>
        /\ \/ /\ Holders(Receiver, r.id) # {}
              /\ requests' = Tail(requests)
              /\ UNCHANGED <<taskVars, op, ret, eventTask, defIndex>>
           \/ /\ Holders(Receiver, r.id) = {}
              /\ ~cancelled
              /\ tasks' = Put(tasks, id, NewTask("host", eventTask, "pending", work))
              /\ taskSequence' = id
              /\ requests' = Tail(requests)
              /\ UNCHANGED <<stack, op, ret, eventTask, defIndex>>
           \/ /\ Holders(Receiver, r.id) = {}
              /\ cancelled
              /\ taskSequence' = id
              /\ Return("error")
              /\ UNCHANGED <<tasks, stack>>
        /\ UNCHANGED <<hostVars, eventVars, envVars>>

\* Mutant of NextModule: the drain starts after the first module.
DrainAfterModule ==
    /\ op = "queue" /\ requests = <<>>
    /\ op' = "drain"
    /\ defIndex' = defIndex + 1
    /\ UNCHANGED <<taskVars, hostVars, eventVars, ret, eventTask, requests, envVars>>

NextModule ==
    /\ op = "queue" /\ requests = <<>>
    /\ op' = "broadcast"
    /\ defIndex' = defIndex + 1
    /\ UNCHANGED <<taskVars, hostVars, eventVars, ret, eventTask, requests, envVars>>

\* The context is checked before each module: the others never see the event.
AdmissionCancelled ==
    /\ op = "broadcast" /\ defIndex <= Len(Definitions)
    /\ cancelled
    /\ Return("error")
    /\ UNCHANGED <<taskVars, hostVars, eventVars, envVars>>

BroadcastDone ==
    /\ op = "broadcast" /\ defIndex > Len(Definitions)
    /\ op' = "drain"
    /\ UNCHANGED <<taskVars, hostVars, eventVars, ret, eventTask, defIndex, requests, envVars>>

-----------------------------------------------------------------------------
(* drainHostWork: the iterations of its loop *)

ActiveHost == stack # <<>> /\ tasks[Top].kind = "host"

\* Only host work is started here: an older agent sibling hides the others.
HostChildNext(t) ==
    /\ stack # <<>>
    /\ IsNextChild(t, Top)
    /\ tasks[t].kind = "host"

NoHostChildNext == \A t \in TaskId : ~HostChildNext(t)

\* Mutant of Draining: the drain does not check its context.
DrainingRegardless == op = "drain"

Draining == op = "drain" /\ ~cancelled

DrainCancelled ==
    /\ op = "drain" /\ cancelled
    /\ Return("error")
    /\ UNCHANGED <<taskVars, hostVars, eventVars, envVars>>

DrainActivate ==
    /\ Draining
    /\ \E t \in TaskId : HostChildNext(t) /\ Started(t)
    /\ UNCHANGED <<hostVars, eventVars, callVars, envVars>>

DrainReturn ==
    /\ Draining
    /\ NoHostChildNext /\ ~ActiveHost
    /\ Return("ok")
    /\ UNCHANGED <<taskVars, hostVars, eventVars, envVars>>

DrainFinish ==
    /\ Draining
    /\ NoHostChildNext /\ ActiveHost
    /\ tasks[Top].result
    /\ SettledOutcome
    /\ UNCHANGED <<hostVars, eventVars, callVars, envVars>>

NeedsExecution == NoHostChildNext /\ ActiveHost /\ ~tasks[Top].result

\* The budget is spent: the whole run fails, whatever is still queued.
DrainExhausted ==
    /\ Draining /\ NeedsExecution
    /\ hostExecutions >= MaxHostExecutions
    /\ hostExhausted' = TRUE
    /\ Ended("failed")
    /\ Return("error")
    /\ UNCHANGED <<hostExecutions, executed, eventVars, envVars>>

DrainExecute ==
    /\ Draining /\ NeedsExecution
    /\ hostExecutions < MaxHostExecutions
    /\ hostExecutions' = hostExecutions + 1
    /\ executed' = executed \cup {Top}
    /\ op' = "http"
    /\ UNCHANGED <<hostExhausted, taskVars, eventVars, ret, eventTask, defIndex, requests, envVars>>

\* executeHTTP: a refused or failed request is an outcome too, a timeout, a
\* cancellation and the http_disabled of a store without AllowHTTP included.
HTTPOutcomes == IF AllowHTTP THEN {"none", "outcome"} ELSE {"outcome"}

\* Mutant of HTTPReturns: a cancelled run loses the outcome.
HTTPReturnsUncommitted(error) ==
    /\ op = "http"
    /\ IF cancelled
       THEN /\ Return("error")
            /\ UNCHANGED <<tasks, eventVars>>
       ELSE /\ tasks' = [tasks EXCEPT ![Top].result = TRUE, ![Top].error = error]
            /\ Broadcast /\ observed' = observed \cup {Top}
    /\ UNCHANGED <<stack, taskSequence, hostVars, envVars>>

\* The outcome is committed under WithoutCancel and only then broadcast; a
\* cancelled run keeps the outcome and stops.
HTTPReturns(error) ==
    /\ op = "http"
    /\ tasks' = [tasks EXCEPT ![Top].result = TRUE, ![Top].error = error]
    /\ IF cancelled
       THEN /\ Return("error")
            /\ UNCHANGED eventVars
       ELSE Broadcast /\ observed' = observed \cup {Top}
    /\ UNCHANGED <<stack, taskSequence, hostVars, envVars>>

-----------------------------------------------------------------------------
\* The steps the store takes by itself once a call is in progress.
StoreStep ==
    \/ ModuleFails
    \/ \E status \in ResultStatus, reqs \in RequestLists :
           ModuleReturns(status, reqs)
    \/ QueueRequest
    \/ NextModule
    \/ AdmissionCancelled
    \/ BroadcastDone
    \/ DrainCancelled
    \/ DrainActivate
    \/ DrainReturn
    \/ DrainFinish
    \/ DrainExhausted
    \/ DrainExecute
    \/ \E error \in HTTPOutcomes : HTTPReturns(error)

CallerStep ==
    \/ Push
    \/ Admit
    \/ \E n \in 1..MaxBatchCalls : QueueAgentWork(n)
    \/ ActivateAgentWork
    \/ \E error \in {"none", "outcome", "operation"} : RecordAgentOutcome(error)
    \/ AdmitAgentOutcome
    \/ FinishAgentWork
    \/ Complete
    \/ AbandonChild
    \/ \E status \in {"failed", "cancelled", "incomplete"} : End(status)
    \/ Close

Next == StoreStep \/ CallerStep \/ Cancel

Spec == Init /\ [][Next]_vars

\* A module answers within ProcessTimeout and an HTTP request within
\* HTTPTimeout, so a call in progress keeps taking steps; callers owe nothing.
FairSpec == Spec /\ WF_vars(StoreStep)

-----------------------------------------------------------------------------
(* Properties *)

\* Every record, counter and loop position keeps its shape; the task being
\* executed is the active one.
TypeOK ==
    /\ DOMAIN tasks \subseteq 1..taskSequence
    /\ tasks \in [DOMAIN tasks -> Task]
    /\ stack \in Seq(DOMAIN tasks)
    /\ taskSequence \in Nat
    /\ knowledge \in [Partition -> Metadata]
    /\ eventSequence \in Nat
    /\ hostExecutions \in Nat
    /\ hostExhausted \in BOOLEAN
    /\ closed \in BOOLEAN
    /\ cancelled \in BOOLEAN
    /\ run \in {"working", "failing", "ending"}
    /\ op \in {"idle", "broadcast", "queue", "drain", "http"}
    /\ ret \in {"ok", "error"}
    /\ eventTask \in {0} \cup DOMAIN tasks
    /\ defIndex \in 1..Len(Definitions) + 1
    /\ requests \in Seq(Request)
    /\ executed \subseteq DOMAIN tasks
    /\ observed \subseteq DOMAIN tasks
    /\ seen \in [Partition -> Nat]

\* Where a call is agrees with what it works on: an event in flight belongs to
\* the active task, and an HTTP request to an active host task without outcome.
CallInProgress ==
    /\ op \in {"broadcast", "queue"} => stack # <<>> /\ eventTask = Top
    /\ op = "queue" => defIndex <= Len(Definitions)
    /\ op = "http" => ActiveHost /\ ~tasks[Top].result

\* Each task on the stack is a younger child of the one below; the top runs,
\* the others wait.
StackIsLineage ==
    /\ \A i \in 1..Len(stack) :
           /\ tasks[stack[i]].parent = IF i = 1 THEN 0 ELSE stack[i - 1]
           /\ tasks[stack[i]].status = IF i = Len(stack) THEN "running" ELSE "waiting"
    /\ \A i, j \in 1..Len(stack) : i < j => stack[i] < stack[j]

\* Parents are older, no running or waiting task is off the stack, and pending
\* work hangs from the stack alone.
UnsettledInPlace ==
    \A t \in TaskId :
        /\ tasks[t].parent \in {0} \cup TaskId
        /\ tasks[t].parent < t
        /\ tasks[t].status \in {"running", "waiting"} => t \in OnStack
        /\ tasks[t].status = "pending" => tasks[t].parent \in OnStack

\* The unsettled tasks are one lineage from the root to the task at work, and
\* the pending children of its members (TaskState, activate, finish).
Lineage == CallInProgress /\ StackIsLineage /\ UnsettledInPlace

\* Whatever order completions, abandonments, failures and the end of the run
\* come in, a settled task leaves no unsettled child behind (finish, End).
SettledTree ==
    \A t \in TaskId :
        tasks[t].parent # 0 /\ ~Live(tasks[t].parent) => ~Live(t)

\* However often modules repeat a request, across events, results and failures,
\* a partition has one task for it (queueRequests).
UniqueRequest ==
    \A t, u \in TaskId :
        /\ tasks[t].kind = "host" <=> tasks[t].work # NoWork
        /\ tasks[t].work = NoWork \/ t = u
           \/ tasks[u].work = NoWork
           \/ tasks[t].work.partition # tasks[u].work.partition
           \/ tasks[t].work.id # tasks[u].work.id

\* "An executed task is never re-executed" (drainHostWork): the budget counts
\* distinct host tasks, and an executed task without an outcome is the one whose
\* request is in flight.
ExecutedOnce ==
    /\ hostExecutions = Cardinality(executed)
    /\ hostExecutions <= MaxHostExecutions
    /\ \A t \in executed :
           /\ tasks[t].kind = "host"
           /\ tasks[t].result \/ (op = "http" /\ t = Top)

\* External work counts as done only when its outcome was recorded and offered
\* to the modules: no completed host or agent task skipped its broadcast, and
\* nothing is broadcast that was not recorded first.
CompletedWasObserved ==
    \A t \in TaskId :
        /\ tasks[t].kind # "reasoning" /\ tasks[t].status = "completed" => t \in observed
        /\ t \in observed => tasks[t].result
        /\ tasks[t].kind = "host" /\ tasks[t].result => t \in executed

\* A partition's metadata never claims more than its module did: it is stale
\* exactly while failures follow the last processed event, and they number at
\* most the events since.
FreshnessHonest ==
    \A p \in Partition : LET m == knowledge[p] IN
        /\ m.stale <=> m.failures > 0
        /\ m.failures <= seen[p] - m.lastProcessed
        /\ m.version <= m.lastUpdate
        /\ m.lastUpdate <= m.lastProcessed
        /\ m.lastProcessed <= seen[p]
        /\ seen[p] <= eventSequence

\* What was recorded stays: no step drops a task, changes its place or its work,
\* touches a settled task or forgets an outcome, the end of the run included.
OutcomeKept ==
    [][\A t \in TaskId :
           /\ t \in TaskId'
           /\ tasks'[t].parent = tasks[t].parent /\ tasks'[t].work = tasks[t].work
           /\ tasks[t].result => tasks'[t].result
           /\ ~Live(t) => tasks'[t] = tasks[t]]_vars

\* "Sibling requests retain creation order" (drainHostWork), and so do agent
\* calls and children: a task starts only when every older sibling has settled.
CreationOrder ==
    [][\A t \in TaskId' :
           /\ tasks'[t].status = "running"
           /\ t \notin TaskId \/ tasks[t].status = "pending"
           => \A u \in TaskId : tasks[u].parent = tasks'[t].parent /\ u < t => ~Live(u)]_vars

\* "Every module receives this event before accepted host work executes"
\* (Admit), also for the events of the outcomes themselves.
BroadcastFirst ==
    [][hostExecutions' # hostExecutions => \A p \in Partition : seen[p] = eventSequence]_vars

\* A cancelled run records what it already did and starts nothing: no event, no
\* task, no execution.
CancelStops ==
    [][cancelled =>
           /\ eventSequence' = eventSequence
           /\ executed' = executed
           /\ \A t \in TaskId' :
                  t \in TaskId /\ (tasks'[t].status = "running" => tasks[t].status # "pending")]_vars

\* Every call comes back: modules that ask for new work at every outcome are
\* stopped by the budget, and repeated identities start nothing.
CallReturns == op # "idle" ~> op = "idle"

\* "Admit returns after all resulting work finishes" (the comment on Admit).
AdmitDrains ==
    [][op = "drain" /\ op' = "idle" /\ ret' = "ok" =>
           \A t \in TaskId : tasks[t].status = "pending" => tasks[t].kind # "host"]_vars

=============================================================================
