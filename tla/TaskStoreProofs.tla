-------------------------- MODULE TaskStoreProofs ---------------------------
(***************************************************************************)
(* Proofs about TaskStore, for every number of partitions, identities,     *)
(* payloads and tasks and for every budget.                                *)
(***************************************************************************)
EXTENDS TaskStore, TLAPS, SequenceTheorems, FiniteSetTheorems

-----------------------------------------------------------------------------
(* The operators the actions are made of *)

\* The active task is a record of the store, and the rest of the stack is one.
LEMMA TopIsTask ==
    ASSUME TypeOK, stack # <<>>
    PROVE  /\ Len(stack) \in Nat \ {0}
           /\ Top \in TaskId
           /\ Top \in Nat \ {0}
           /\ tasks[Top] \in Task
           /\ \A t \in TaskId : t \in Nat \ {0} /\ t <= taskSequence /\ tasks[t] \in Task
           /\ 0 \notin TaskId
  <1>1. Len(stack) \in Nat \ {0}
    BY DEF TypeOK
  <1>2. Top \in TaskId
    BY <1>1 DEF TypeOK, Top, TaskId
  <1>3. \A t \in TaskId : t \in Nat \ {0} /\ t <= taskSequence /\ tasks[t] \in Task
    BY DEF TypeOK, TaskId
  <1> QED
    BY <1>1, <1>2, <1>3

\* A new task is a well-formed record.
LEMMA NewTaskType ==
    ASSUME NEW kind \in Kind, NEW parent \in Nat, NEW status \in Status,
           NEW work \in Work \cup {NoWork}
    PROVE  NewTask(kind, parent, status, work) \in Task
  BY DEF NewTask, Task, ErrorCode

\* A definition the loop still has to serve names a partition.
LEMMA ReceiverIsPartition ==
    ASSUME TypeOK, defIndex <= Len(Definitions)
    PROVE  Receiver \in Partition
  BY SMTT(60), StoreAssumption DEF TypeOK, Receiver, Partition

-----------------------------------------------------------------------------
(* Type correctness *)

TypeInv == TypeOK /\ CallInProgress

LEMMA TypeInit ==
    Init => TypeInv
  <1> SUFFICES ASSUME Init PROVE TypeInv
    OBVIOUS
  <1>1. DOMAIN tasks = {}
    BY DEF Init
  <1>2. knowledge \in [Partition -> Metadata]
    BY DEF Init, Metadata
  <1>3. Len(Definitions) \in Nat
    BY StoreAssumption
  <1>4. tasks \in [DOMAIN tasks -> Task]
    BY DEF Init
  <1>5. stack \in Seq(DOMAIN tasks) /\ requests \in Seq(Request)
    BY DEF Init
  <1>6. seen \in [Partition -> Nat]
    BY DEF Init
  <1>7. defIndex \in 1..Len(Definitions) + 1
    BY <1>3 DEF Init
  <1> QED
    BY <1>1, <1>2, <1>4, <1>5, <1>6, <1>7 DEF Init, TypeInv, TypeOK, CallInProgress

\* Rewriting one field of one record keeps the records well formed.
LEMMA StatusUpdate ==
    ASSUME NEW D, NEW f \in [D -> Task], NEW x \in D, NEW status \in Status
    PROVE  [f EXCEPT ![x].status = status] \in [D -> Task]
  BY DEF Task

LEMMA ErrorUpdate ==
    ASSUME NEW D, NEW f \in [D -> Task], NEW x \in D, NEW error \in ErrorCode
    PROVE  [f EXCEPT ![x].error = error] \in [D -> Task]
  BY DEF Task

LEMMA ResultUpdate ==
    ASSUME NEW D, NEW f \in [D -> Task], NEW x \in D
    PROVE  [f EXCEPT ![x].result = TRUE] \in [D -> Task]
  BY DEF Task

\* Starting a pending child of the active task.
LEMMA StartedType ==
    ASSUME TypeOK, stack # <<>>,
           NEW t \in TaskId, tasks[t].parent = Top, Started(t)
    PROVE  /\ TaskId' = TaskId
           /\ tasks' \in [TaskId -> Task]
           /\ stack' \in Seq(TaskId)
           /\ stack' # <<>>
           /\ taskSequence' = taskSequence
  <1>1. Len(stack) \in Nat \ {0} /\ Top \in TaskId /\ \A u \in TaskId : tasks[u] \in Task
    BY TopIsTask
  <1> DEFINE started == [tasks EXCEPT ![t].status = "running"]
  <1>2. started \in [TaskId -> Task]
    BY <1>1, StatusUpdate DEF TypeOK, TaskId, Status
  <1>3. tasks' = [started EXCEPT ![Top].status = "waiting"]
    BY DEF Started
  <1> HIDE DEF started
  <1>4. tasks' \in [TaskId -> Task]
    BY <1>1, <1>2, <1>3, StatusUpdate DEF Status
  <1>5. stack' = Append(stack, t) /\ stack \in Seq(TaskId)
    BY DEF Started, TypeOK, TaskId
  <1>6. stack' \in Seq(TaskId) /\ stack' # <<>>
    BY <1>5
  <1> QED
    BY <1>4, <1>6 DEF Started, TaskId

\* Settling the active task.
LEMMA SettledType ==
    ASSUME TypeOK, stack # <<>>,
           NEW status \in Terminal, NEW error \in ErrorCode, Settled(status, error)
    PROVE  /\ TaskId' = TaskId
           /\ tasks' \in [TaskId -> Task]
           /\ stack' \in Seq(TaskId)
           /\ taskSequence' = taskSequence
  <1> DEFINE rest == SubSeq(stack, 1, Len(stack) - 1)
  <1>1. /\ Len(stack) \in Nat \ {0}
        /\ Top \in TaskId
    BY TopIsTask
  <1>2. rest \in Seq(TaskId)
    BY <1>1 DEF TypeOK, TaskId
  <1>3. rest # <<>> => rest[Len(rest)] \in TaskId
    BY <1>2
  <1> DEFINE done == [tasks EXCEPT ![Top].status = status, ![Top].error = error]
  <1>4. done \in [TaskId -> Task]
    <2> DEFINE labelled == [tasks EXCEPT ![Top].status = status]
    <2>1. labelled \in [TaskId -> Task]
      BY <1>1, StatusUpdate DEF TypeOK, TaskId, Status, Terminal
    <2>2. done = [labelled EXCEPT ![Top].error = error]
      BY <1>1 DEF TypeOK
    <2> HIDE DEF labelled, done
    <2> QED
      BY <1>1, <2>1, <2>2, ErrorUpdate
  <1>5. /\ stack' = rest
        /\ tasks' = IF rest = <<>> THEN done
                    ELSE [done EXCEPT ![rest[Len(rest)]].status = "running"]
        /\ taskSequence' = taskSequence
    BY DEF Settled
  <1> HIDE DEF done, rest
  <1>6. tasks' \in [TaskId -> Task]
    BY <1>3, <1>4, <1>5, StatusUpdate DEF Status
  <1> QED
    BY <1>2, <1>5, <1>6 DEF TaskId

\* The end of the run.
LEMMA EndedType ==
    ASSUME TypeOK, NEW status \in Terminal, Ended(status)
    PROVE  /\ TaskId' = TaskId
           /\ tasks' \in [TaskId -> Task]
           /\ stack' = <<>> /\ stack' \in Seq(TaskId)
           /\ taskSequence' = taskSequence
  <1>1. TaskId' = TaskId /\ tasks' \in [TaskId -> Task]
    BY DEF TypeOK, Ended, TaskId, Task, Status, Terminal, ErrorCode
  <1>2. stack' = <<>> /\ taskSequence' = taskSequence
    BY DEF Ended
  <1> QED
    BY <1>1, <1>2

\* Recording an outcome in the active task.
LEMMA RecordedType ==
    ASSUME TypeOK, stack # <<>>, NEW error \in ErrorCode,
           tasks' = [tasks EXCEPT ![Top].result = TRUE, ![Top].error = error]
    PROVE  TaskId' = TaskId /\ tasks' \in [TaskId -> Task]
  <1>1. Top \in TaskId
    BY TopIsTask
  <1> DEFINE kept == [tasks EXCEPT ![Top].result = TRUE]
  <1>2. kept \in [TaskId -> Task]
    BY <1>1, ResultUpdate DEF TypeOK, TaskId
  <1>3. tasks' = [kept EXCEPT ![Top].error = error]
    BY <1>1 DEF TypeOK
  <1> HIDE DEF kept
  <1>4. [kept EXCEPT ![Top].error = error] \in [TaskId -> Task]
    BY ONLY <1>1, <1>2, error \in ErrorCode, ErrorUpdate
  <1> QED
    BY <1>3, <1>4 DEF TaskId

\* The metadata operators stay within Metadata.
LEMMA FailedType ==
    ASSUME TypeOK, NEW p \in Partition, Failed(p)
    PROVE  knowledge' \in [Partition -> Metadata] /\ seen' \in [Partition -> Nat]
  BY SMTT(60) DEF TypeOK, Failed, Metadata

LEMMA AdvancedType ==
    ASSUME NEW m \in Metadata, eventSequence \in Nat,
           NEW status \in ResultStatus
    PROVE  Advanced(m, status) \in Metadata
  <1>1. CASE status = "ignored"
    BY <1>1 DEF Advanced
  <1>2. CASE status = "processed"
    BY <1>2 DEF Advanced, Metadata
  <1>3. CASE status = "mutation"
    BY <1>3 DEF Advanced, Metadata
  <1> QED
    BY <1>1, <1>2, <1>3 DEF ResultStatus

\* A step that leaves the records and the position of the call alone but for op.
LEMMA BroadcastType ==
    ASSUME TypeOK, stack # <<>>, Broadcast
    PROVE  /\ eventSequence' \in Nat
           /\ eventTask' = Top
           /\ eventTask' \in TaskId
           /\ op' = "broadcast"
           /\ defIndex' \in 1..Len(Definitions) + 1
           /\ requests' \in Seq(Request)
           /\ ret' \in {"ok", "error"}
           /\ knowledge' \in [Partition -> Metadata]
           /\ seen' \in [Partition -> Nat]
  <1>1. Top \in TaskId
    BY TopIsTask
  <1>2. Len(Definitions) \in Nat
    BY StoreAssumption
  <1> QED
    BY <1>1, <1>2 DEF TypeOK, Broadcast

LEMMA ReturnType ==
    ASSUME NEW r \in {"ok", "error"}, Return(r)
    PROVE  /\ op' = "idle"
           /\ ret' \in {"ok", "error"}
           /\ eventTask' = 0
           /\ defIndex' \in 1..Len(Definitions) + 1
           /\ requests' \in Seq(Request)
  <1>1. Len(Definitions) \in Nat
    BY StoreAssumption
  <1> QED
    BY <1>1 DEF Return

\* Adding one record.
LEMMA PutType ==
    ASSUME TypeOK, NEW r \in Task
    PROVE  LET id == taskSequence + 1
               put == Put(tasks, id, r)
           IN  /\ put \in [TaskId \cup {id} -> Task]
               /\ DOMAIN put = TaskId \cup {id}
               /\ id \notin TaskId
               /\ TaskId \cup {id} \subseteq 1..id
  BY DEF TypeOK, Put, TaskId

LEMMA TypeStep ==
    TypeInv /\ [Next]_vars => TypeInv'
  <1> SUFFICES ASSUME TypeInv, [Next]_vars PROVE TypeInv'
    OBVIOUS
  <1> USE DEF TypeInv
  <1>1. ASSUME ModuleFails PROVE TypeInv'
    <2>1. Receiver \in Partition
      BY <1>1, ReceiverIsPartition DEF ModuleFails
    <2>2. knowledge' \in [Partition -> Metadata] /\ seen' \in [Partition -> Nat]
      BY <1>1, <2>1, FailedType DEF ModuleFails
    <2>3. CASE cancelled
      BY <1>1, <2>2, <2>3, ReturnType
      DEF ModuleFails, Failed, TypeOK, CallInProgress, taskVars, hostVars, envVars
    <2>4. CASE ~cancelled
      <3>1. Len(Definitions) \in Nat
        BY StoreAssumption
      <3> QED
        BY SMTT(60), <1>1, <2>2, <2>4, <3>1
        DEF ModuleFails, Failed, TypeOK, CallInProgress, taskVars, hostVars, envVars, Top
    <2> QED
      BY <2>3, <2>4
  <1>2. ASSUME NEW status \in ResultStatus,
               NEW reqs \in RequestLists, ModuleReturns(status, reqs)
        PROVE  TypeInv'
    <2>1. Receiver \in Partition
      BY <1>2, ReceiverIsPartition DEF ModuleReturns
    <2>2. reqs \in Seq(Request)
      BY StoreAssumption DEF RequestLists
    <2>3. knowledge' \in [Partition -> Metadata] /\ seen' \in [Partition -> Nat]
      BY <1>2, <2>1, AdvancedType DEF ModuleReturns, TypeOK
    <2> QED
      BY <1>2, <2>2, <2>3
      DEF ModuleReturns, TypeOK, CallInProgress, taskVars, hostVars, envVars, Top
  <1>3. ASSUME QueueRequest PROVE TypeInv'
    <2> DEFINE r == Head(requests)
               id == taskSequence + 1
               work == [partition |-> Receiver, id |-> r.id, payload |-> r.payload]
    <2>1. /\ op = "queue" /\ stack # <<>> /\ eventTask = Top
          /\ Receiver \in Partition
      BY <1>3, ReceiverIsPartition DEF QueueRequest, CallInProgress
    <2>2. r \in Request /\ Tail(requests) \in Seq(Request)
      BY <1>3 DEF QueueRequest, TypeOK
    <2>3. Top \in TaskId /\ Top \in Nat
      BY <2>1, TopIsTask
    <2>4. CASE Holders(Receiver, r.id) # {}
      BY <1>3, <2>1, <2>2, <2>4
      DEF QueueRequest, TypeOK, CallInProgress, taskVars, hostVars, eventVars, envVars, Top
    <2>5. CASE Holders(Receiver, r.id) = {} /\ ~cancelled
      <3>1. work \in Work
        BY <2>1, <2>2 DEF Work, Request
      <3>2. NewTask("host", eventTask, "pending", work) \in Task
        BY <2>1, <2>3, <3>1, NewTaskType DEF Kind, Status
      <3>3. tasks' = Put(tasks, id, NewTask("host", eventTask, "pending", work))
        BY <1>3, <2>5 DEF QueueRequest
      <3>4. tasks' \in [TaskId \cup {id} -> Task] /\ TaskId' = TaskId \cup {id} /\ TaskId' \subseteq 1..id
        BY <3>2, <3>3, PutType DEF TaskId
      <3>5. stack' \in Seq(TaskId')
        BY <1>3, <2>5, <3>4 DEF QueueRequest, TypeOK, TaskId
      <3>6. /\ requests' = Tail(requests) /\ taskSequence' = id
            /\ UNCHANGED <<stack, op, ret, eventTask, defIndex, hostVars, eventVars, envVars>>
        BY <1>3, <2>5 DEF QueueRequest
      <3> HIDE DEF work, r, id
      <3>7. id \in Nat /\ DOMAIN tasks' = TaskId' /\ TaskId \subseteq TaskId'
        BY <3>4 DEF TypeOK, TaskId, id
      <3>8. CallInProgress'
        BY <2>1, <3>6 DEF CallInProgress, Top
      <3>9. TypeOK'
        BY <2>1, <2>2, <3>4, <3>5, <3>6, <3>7
        DEF TypeOK, hostVars, eventVars, envVars, TaskId
      <3> QED
        BY <3>8, <3>9
    <2>6. CASE Holders(Receiver, r.id) = {} /\ cancelled
      BY SMTT(60), <1>3, <2>6, ReturnType
      DEF QueueRequest, TypeOK, CallInProgress, hostVars, eventVars, envVars
    <2> QED
      BY <2>4, <2>5, <2>6
  <1>4. CASE NextModule
    <2>1. Len(Definitions) \in Nat
      BY StoreAssumption
    <2> QED
      BY SMTT(60), <1>4, <2>1
      DEF NextModule, TypeOK, CallInProgress, taskVars, hostVars, eventVars, envVars, Top
  <1>5. CASE AdmissionCancelled
    BY <1>5, ReturnType
    DEF AdmissionCancelled, TypeOK, CallInProgress, taskVars, hostVars, eventVars, envVars
  <1>6. CASE BroadcastDone
    BY <1>6 DEF BroadcastDone, TypeOK, CallInProgress, taskVars, hostVars, eventVars, envVars
  <1>7. CASE DrainCancelled
    BY <1>7, ReturnType
    DEF DrainCancelled, TypeOK, CallInProgress, taskVars, hostVars, eventVars, envVars
  <1>8. CASE DrainActivate
    <2>1. PICK t \in TaskId : HostChildNext(t) /\ Started(t)
      BY <1>8 DEF DrainActivate
    <2>2. stack # <<>> /\ tasks[t].parent = Top
      BY <2>1 DEF HostChildNext, IsNextChild, PendingChildren
    <2> QED
      BY <1>8, <2>1, <2>2, StartedType
      DEF DrainActivate, Draining, TypeOK, CallInProgress, hostVars, eventVars, callVars, envVars, TaskId
  <1>9. CASE DrainReturn
    BY <1>9, ReturnType
    DEF DrainReturn, TypeOK, CallInProgress, taskVars, hostVars, eventVars, envVars
  <1>10. CASE DrainFinish
    <2>1. stack # <<>> /\ tasks[Top].error \in ErrorCode
      BY <1>10, TopIsTask DEF DrainFinish, ActiveHost, Task
    <2>2. PICK status \in Terminal : Settled(status, tasks[Top].error)
      BY <1>10 DEF DrainFinish, SettledOutcome, Terminal
    <2> QED
      BY <1>10, <2>1, <2>2, SettledType
      DEF DrainFinish, Draining, TypeOK, CallInProgress, hostVars, eventVars, callVars, envVars, TaskId
  <1>11. CASE DrainExhausted
    <2>1. "failed" \in Terminal
      BY DEF Terminal
    <2> QED
      BY <1>11, <2>1, EndedType, ReturnType
      DEF DrainExhausted, TypeOK, CallInProgress, eventVars, envVars, TaskId
  <1>12. CASE DrainExecute
    <2>1. stack # <<>>
      BY <1>12 DEF DrainExecute, NeedsExecution, ActiveHost
    <2>2. Top \in TaskId
      BY <2>1, TopIsTask
    <2> QED
      BY <1>12, <2>1, <2>2
      DEF DrainExecute, NeedsExecution, ActiveHost, TypeOK, CallInProgress, taskVars, eventVars, envVars, TaskId, Top
  <1>13. ASSUME NEW error \in HTTPOutcomes, HTTPReturns(error) PROVE TypeInv'
    <2>1. stack # <<>>
      BY <1>13 DEF HTTPReturns, CallInProgress, ActiveHost
    <2>2. TaskId' = TaskId /\ tasks' \in [TaskId -> Task]
      BY <1>13, <2>1, RecordedType DEF HTTPReturns, ErrorCode, HTTPOutcomes
    <2>3. Top \in TaskId
      BY <2>1, TopIsTask
    <2>4. CASE cancelled
      BY <1>13, <2>2, <2>4, ReturnType
      DEF HTTPReturns, TypeOK, CallInProgress, hostVars, eventVars, envVars, TaskId
    <2>5. CASE ~cancelled
      BY <1>13, <2>1, <2>2, <2>3, <2>5, BroadcastType
      DEF HTTPReturns, TypeOK, CallInProgress, hostVars, envVars, TaskId, Top
    <2> QED
      BY <2>4, <2>5
  <1>14. CASE Push
    <2> DEFINE id == taskSequence + 1
               parent == IF stack = <<>> THEN 0 ELSE Top
               task == NewTask("reasoning", parent, "running", NoWork)
               child == Put(tasks, id, task)
    <2>1. parent \in Nat /\ (parent # 0 => parent \in TaskId)
      BY TopIsTask
    <2>2. task \in Task
      BY <2>1, NewTaskType DEF Kind, Status
    <2>3. /\ child \in [TaskId \cup {id} -> Task]
          /\ id \notin TaskId
          /\ TaskId \cup {id} \subseteq 1..id
      BY <2>2, PutType
    <2>4. /\ tasks' = IF parent = 0 THEN child ELSE [child EXCEPT ![parent].status = "waiting"]
          /\ stack' = Append(stack, id)
          /\ taskSequence' = id
      BY <1>14 DEF Push
    <2> HIDE DEF child, task
    <2>5. tasks' \in [TaskId \cup {id} -> Task] /\ TaskId' = TaskId \cup {id}
      <3>1. "waiting" \in Status
        BY DEF Status
      <3>2. parent # 0 => [child EXCEPT ![parent].status = "waiting"] \in [TaskId \cup {id} -> Task]
        BY <2>1, <2>3, <3>1, StatusUpdate
      <3> QED
        BY <2>3, <2>4, <3>2 DEF TaskId
    <2>6. stack' \in Seq(TaskId')
      BY <2>4, <2>5 DEF TypeOK, TaskId
    <2> QED
      BY <1>14, <2>3, <2>4, <2>5, <2>6
      DEF Push, Working, Idle, TypeOK, CallInProgress, hostVars, eventVars, envVars, TaskId
  <1>15. CASE Admit
    <2>1. stack # <<>>
      BY <1>15 DEF Admit, Reasoning
    <2> QED
      BY <1>15, <2>1, BroadcastType
      DEF Admit, TypeOK, CallInProgress, taskVars, hostVars, TaskId, Top
  <1>16. ASSUME NEW n \in 1..MaxBatchCalls, QueueAgentWork(n) PROVE TypeInv'
    <2> DEFINE ids == taskSequence + 1 .. taskSequence + n
    <2>1. Top \in Nat /\ stack # <<>>
      BY <1>16, TopIsTask DEF QueueAgentWork, BetweenBatches, Reasoning
    <2>2. NewTask("agent", Top, "pending", NoWork) \in Task
      BY <2>1, NewTaskType DEF Kind, Status
    <2>3. n \in Nat
      BY StoreAssumption
    <2>4. TaskId' = TaskId \cup ids /\ tasks' \in [TaskId' -> Task]
      BY <1>16, <2>2 DEF QueueAgentWork, TypeOK, TaskId
    <2>5. stack' \in Seq(TaskId')
      BY <1>16, <2>4 DEF QueueAgentWork, TypeOK, TaskId
    <2>6. TaskId' \subseteq 1..taskSequence'
      BY <1>16, <2>3, <2>4 DEF QueueAgentWork, TypeOK, TaskId
    <2> QED
      BY <1>16, <2>3, <2>4, <2>5, <2>6
      DEF QueueAgentWork, Working, Idle, TypeOK, CallInProgress, hostVars, eventVars, envVars, TaskId
  <1>17. CASE ActivateAgentWork
    <2>1. PICK t \in TaskId : IsNextChild(t, Top) /\ Started(t)
      BY <1>17 DEF ActivateAgentWork
    <2>2. stack # <<>> /\ tasks[t].parent = Top
      BY <1>17, <2>1 DEF ActivateAgentWork, Reasoning, IsNextChild, PendingChildren
    <2> QED
      BY <1>17, <2>1, <2>2, StartedType
      DEF ActivateAgentWork, Working, Idle, TypeOK, CallInProgress, hostVars, eventVars, envVars, TaskId
  <1>18. ASSUME NEW error \in {"none", "outcome", "operation"}, RecordAgentOutcome(error)
         PROVE  TypeInv'
    <2>1. stack # <<>>
      BY <1>18 DEF RecordAgentOutcome, ActiveAgent
    <2>2. TaskId' = TaskId /\ tasks' \in [TaskId -> Task]
      BY <1>18, <2>1, RecordedType DEF RecordAgentOutcome, ErrorCode
    <2> QED
      BY <1>18, <2>2
      DEF RecordAgentOutcome, Idle, TypeOK, CallInProgress, hostVars, eventVars, envVars, TaskId
  <1>19. CASE AdmitAgentOutcome
    <2>1. stack # <<>>
      BY <1>19 DEF AdmitAgentOutcome, ActiveAgent
    <2>2. Top \in TaskId
      BY <2>1, TopIsTask
    <2> QED
      BY <1>19, <2>1, <2>2, BroadcastType
      DEF AdmitAgentOutcome, TypeOK, CallInProgress, taskVars, hostVars, envVars, TaskId, Top
  <1>20. CASE FinishAgentWork
    <2>1. stack # <<>> /\ tasks[Top].error \in ErrorCode
      BY <1>20, TopIsTask DEF FinishAgentWork, ActiveAgent, Task
    <2>2. PICK status \in Terminal : Settled(status, tasks[Top].error)
      BY <1>20 DEF FinishAgentWork, SettledOutcome, Terminal
    <2> QED
      BY <1>20, <2>1, <2>2, SettledType
      DEF FinishAgentWork, Idle, TypeOK, CallInProgress, hostVars, eventVars, TaskId
  <1>21. CASE Complete
    <2>1. stack # <<>> /\ "completed" \in Terminal /\ "none" \in ErrorCode
      BY <1>21 DEF Complete, Reasoning, Terminal, ErrorCode
    <2> QED
      BY <1>21, <2>1, SettledType
      DEF Complete, Working, Idle, TypeOK, CallInProgress, hostVars, eventVars, envVars, TaskId
  <1>22. CASE AbandonChild
    <2>1. stack # <<>> /\ "incomplete" \in Terminal /\ "abandoned" \in ErrorCode
      BY <1>22 DEF AbandonChild, Reasoning, Terminal, ErrorCode
    <2> QED
      BY <1>22, <2>1, SettledType
      DEF AbandonChild, Working, Idle, TypeOK, CallInProgress, hostVars, eventVars, envVars, TaskId
  <1>23. ASSUME NEW status \in {"failed", "cancelled", "incomplete"}, End(status)
         PROVE  TypeInv'
    <2>1. status \in Terminal
      BY DEF Terminal
    <2> QED
      BY <1>23, <2>1, EndedType
      DEF End, Idle, TypeOK, CallInProgress, hostVars, eventVars, envVars, TaskId
  <1>24. CASE Close
    BY <1>24 DEF Close, Idle, TypeOK, CallInProgress, taskVars, hostVars, eventVars
  <1>25. CASE Cancel
    BY <1>25 DEF Cancel, TypeOK, CallInProgress, taskVars, hostVars, eventVars, callVars, Top, ActiveHost
  <1>26. CASE UNCHANGED vars
    BY <1>26 DEF vars, TypeOK, CallInProgress, taskVars, hostVars, eventVars, callVars, envVars, Top, ActiveHost
  <1> QED
    BY <1>1, <1>2, <1>3, <1>4, <1>5, <1>6, <1>7, <1>8, <1>9, <1>10, <1>11, <1>12, <1>13,
       <1>14, <1>15, <1>16, <1>17, <1>18, <1>19, <1>20, <1>21, <1>22, <1>23, <1>24, <1>25, <1>26
    DEF Next, StoreStep, CallerStep

\* Every reachable state of the store is well typed, and the call in progress
\* works on what it should.
THEOREM TypeCorrect == Spec => []TypeInv
  BY TypeInit, TypeStep, PTL DEF Spec

\* In particular every record, counter and loop position keeps its shape.
THEOREM TypeOKHolds == Spec => []TypeOK
  <1>1. TypeInv => TypeOK
    BY DEF TypeInv
  <1> QED
    BY <1>1, TypeCorrect, PTL

-----------------------------------------------------------------------------
(* The unsettled tasks are one lineage and its pending children *)

InLine == StackIsLineage /\ UnsettledInPlace

LineInv == TypeInv /\ InLine

LEMMA LineInit == Init => InLine
  BY DEF Init, InLine, StackIsLineage, UnsettledInPlace, TaskId

\* The root cannot be its own child, and the stack's members are its tasks.
LEMMA StackFacts ==
    ASSUME TypeOK, InLine, stack # <<>>, NEW n, n = Len(stack)
    PROVE  /\ n \in Nat \ {0}
           /\ Top = stack[n]
           /\ stack \in Seq(TaskId)
           /\ \A i \in 1..n : stack[i] \in TaskId /\ stack[i] \in Nat \ {0}
           /\ \A i \in 1..n : tasks[stack[i]].parent = IF i = 1 THEN 0 ELSE stack[i - 1]
           /\ \A i \in 1..n : tasks[stack[i]].status = IF i = n THEN "running" ELSE "waiting"
           /\ \A i, j \in 1..n : i < j => stack[i] < stack[j]
           /\ OnStack = {stack[i] : i \in 1..n}
  <1>1. n \in Nat \ {0} /\ \A t \in TaskId : t \in Nat \ {0}
    BY TopIsTask
  <1>2. stack \in Seq(TaskId)
    BY DEF TypeOK, TaskId
  <1>3. \A i \in 1..n : stack[i] \in TaskId
    BY <1>1, <1>2
  <1> QED
    BY <1>1, <1>2, <1>3 DEF InLine, StackIsLineage, Top, OnStack

\* The top of the stack is the one running task.
LEMMA TopRuns ==
    ASSUME TypeOK, InLine, stack # <<>>
    PROVE  Top \in TaskId /\ tasks[Top].status = "running"
  <1> DEFINE n == Len(stack)
  <1>1. /\ n \in Nat \ {0}
        /\ Top = stack[n]
        /\ \A i \in 1..n : stack[i] \in TaskId
        /\ \A i \in 1..n : tasks[stack[i]].status = IF i = n THEN "running" ELSE "waiting"
    BY StackFacts
  <1> HIDE DEF n
  <1>2. n \in 1..n
    BY <1>1
  <1> QED
    BY <1>1, <1>2

LEMMA StartedInLine ==
    ASSUME LineInv, stack # <<>>, NEW t \in PendingChildren(Top), Started(t)
    PROVE  InLine'
  <1> DEFINE n == Len(stack)
  <1>1. /\ Top \in TaskId
        /\ t \in TaskId /\ t \in Nat /\ tasks[t].status = "pending" /\ tasks[t].parent = Top
        /\ \A u \in TaskId : u \in Nat \ {0} /\ tasks[u] \in Task
    BY TopIsTask DEF LineInv, TypeInv, PendingChildren
  <1>2. /\ n \in Nat \ {0} /\ n = Len(stack)
        /\ Top = stack[n]
        /\ stack \in Seq(TaskId)
        /\ \A i \in 1..n : stack[i] \in TaskId /\ stack[i] \in Nat \ {0}
        /\ \A i \in 1..n : tasks[stack[i]].parent = IF i = 1 THEN 0 ELSE stack[i - 1]
        /\ \A i \in 1..n : tasks[stack[i]].status = IF i = n THEN "running" ELSE "waiting"
        /\ \A i, j \in 1..n : i < j => stack[i] < stack[j]
        /\ OnStack = {stack[i] : i \in 1..n}
    BY StackFacts DEF LineInv, TypeInv
  <1> HIDE DEF n
  <1>3. /\ stack' = Append(stack, t)
        /\ Len(stack') = n + 1
        /\ \A i \in 1..n : stack'[i] = stack[i]
        /\ stack'[n + 1] = t
    BY <1>1, <1>2 DEF Started
  <1>4. t # Top
    BY <1>1, <1>2
  <1>5. /\ TaskId' = TaskId
        /\ \A u \in TaskId : tasks'[u].parent = tasks[u].parent
        /\ \A u \in TaskId \ {t, Top} : tasks'[u].status = tasks[u].status
        /\ tasks'[t].status = "running"
        /\ tasks'[Top].status = "waiting"
    <2>1. tasks' = [[tasks EXCEPT ![t] = [tasks[t] EXCEPT !.status = "running"]]
                        EXCEPT ![Top] = [tasks[Top] EXCEPT !.status = "waiting"]]
      BY <1>1, <1>4 DEF Started, TypeOK, LineInv, TypeInv, TaskId
    <2> QED
      BY <1>1, <1>4, <2>1 DEF TypeOK, LineInv, TypeInv, TaskId, Task
  <1>6. Top < t
    BY <1>1 DEF LineInv, InLine, UnsettledInPlace
  <1>7. OnStack' = OnStack \cup {t} /\ t \notin OnStack
    <2>1. OnStack' = {stack'[i] : i \in 1..n + 1}
      BY <1>3 DEF OnStack
    <2> QED
      BY <1>1, <1>2, <1>3, <2>1
  <1>8. StackIsLineage'
    <2>1. \A i \in 1..n + 1 :
             tasks'[stack'[i]].parent = IF i = 1 THEN 0 ELSE stack'[i - 1]
      <3>1. \A i \in 1..n : tasks'[stack[i]].parent = IF i = 1 THEN 0 ELSE stack[i - 1]
        BY <1>2, <1>5
      <3>2. tasks'[t].parent = stack[n]
        BY <1>1, <1>2, <1>5
      <3> QED
        BY <1>2, <1>3, <3>1, <3>2
    <2>2. \A i \in 1..n + 1 :
             tasks'[stack'[i]].status = IF i = n + 1 THEN "running" ELSE "waiting"
      <3>1. \A i \in 1..n : i # n => stack[i] \in TaskId /\ stack[i] # t /\ stack[i] # Top
        BY <1>1, <1>2
      <3>2. \A i \in 1..n : tasks'[stack[i]].status = "waiting"
        BY <1>1, <1>2, <1>5, <3>1
      <3> QED
        BY <1>1, <1>2, <1>3, <1>5, <3>2
    <2>3. \A i, j \in 1..n + 1 : i < j => stack'[i] < stack'[j]
      <3>1. \A i \in 1..n : stack[i] < t
        BY <1>1, <1>2, <1>6
      <3> QED
        BY <1>2, <1>3, <3>1
    <2> QED
      BY <1>3, <2>1, <2>2, <2>3 DEF StackIsLineage
  <1>9. UnsettledInPlace'
    <2>1. Top \in OnStack
      BY <1>2
    <2> QED
      BY <1>1, <1>5, <1>7, <2>1 DEF LineInv, InLine, UnsettledInPlace
  <1> QED
    BY <1>8, <1>9 DEF InLine

LEMMA SettledInLine ==
    ASSUME LineInv, stack # <<>>,
           NEW status \in Terminal, NEW error \in ErrorCode, Settled(status, error)
    PROVE  InLine'
  <1> DEFINE n == Len(stack)
  <1>1. /\ Top \in TaskId
        /\ \A u \in TaskId : u \in Nat \ {0} /\ tasks[u] \in Task
    BY TopIsTask DEF LineInv, TypeInv
  <1>2. /\ n \in Nat \ {0} /\ n = Len(stack)
        /\ Top = stack[n]
        /\ stack \in Seq(TaskId)
        /\ \A i \in 1..n : stack[i] \in TaskId /\ stack[i] \in Nat \ {0}
        /\ \A i \in 1..n : tasks[stack[i]].parent = IF i = 1 THEN 0 ELSE stack[i - 1]
        /\ \A i \in 1..n : tasks[stack[i]].status = IF i = n THEN "running" ELSE "waiting"
        /\ \A i, j \in 1..n : i < j => stack[i] < stack[j]
        /\ OnStack = {stack[i] : i \in 1..n}
    BY StackFacts DEF LineInv, TypeInv
  <1>3. /\ stack' = SubSeq(stack, 1, n - 1)
        /\ Len(stack') = n - 1
        /\ \A i \in 1..n - 1 : stack'[i] = stack[i]
        /\ stack' = <<>> <=> n = 1
    <2>1. stack' = SubSeq(stack, 1, n - 1)
      BY DEF Settled
    <2>2. \A i \in 1..n - 1 : stack[i] \in TaskId
      BY <1>2
    <2>3. 1 \in Int /\ n - 1 \in Int
      BY <1>2
    <2> HIDE DEF n
    <2>4. /\ stack' \in Seq(TaskId)
          /\ Len(stack') = IF 1 <= n - 1 THEN (n - 1) - 1 + 1 ELSE 0
          /\ \A i \in 1..(n - 1) - 1 + 1 : stack'[i] = stack[1 + i - 1]
      BY <2>1, <2>2, <2>3, SubSeqProperties
    <2>5. Len(stack') = n - 1
      BY <1>2, <2>4
    <2>6. ASSUME NEW i \in 1..n - 1 PROVE stack'[i] = stack[i]
      <3>1. i \in 1..(n - 1) - 1 + 1 /\ 1 + i - 1 = i
        BY <1>2
      <3> QED
        BY <2>4, <3>1
    <2>7. stack' = <<>> <=> n = 1
      BY <1>2, <2>4, <2>5
    <2> QED
      BY <2>1, <2>5, <2>6, <2>7
  <1>10. n \in Nat \ {0}
    BY <1>2
  <1>11. \A i \in 1..n - 1 : i \in 1..n /\ i # n
    BY <1>10
  <1>4. /\ TaskId' = TaskId
        /\ \A u \in TaskId : tasks'[u].parent = tasks[u].parent
        /\ tasks'[Top].status = status
        /\ n > 1 => tasks'[stack[n - 1]].status = "running"
        /\ \A u \in TaskId \ {Top} : n = 1 \/ u # stack[n - 1] => tasks'[u].status = tasks[u].status
    <2> DEFINE done == [tasks EXCEPT ![Top].status = status, ![Top].error = error]
    <2>1. /\ DOMAIN done = TaskId
          /\ \A u \in TaskId : done[u].parent = tasks[u].parent
          /\ done[Top].status = status
          /\ \A u \in TaskId \ {Top} : done[u].status = tasks[u].status
          /\ done \in [TaskId -> Task]
      <3>1. done \in [TaskId -> Task]
        <4>1. [tasks EXCEPT ![Top].status = status] \in [TaskId -> Task]
          BY <1>1, StatusUpdate DEF LineInv, TypeInv, TypeOK, TaskId, Status
        <4>2. [[tasks EXCEPT ![Top].status = status] EXCEPT ![Top].error = error] \in [TaskId -> Task]
          BY <1>1, <4>1, ErrorUpdate
        <4> QED
          BY <1>1, <4>2 DEF LineInv, TypeInv, TypeOK
      <3> QED
        BY <1>1, <3>1 DEF LineInv, TypeInv, TypeOK, TaskId, Task
    <2>2. n > 1 => stack'[Len(stack')] = stack[n - 1] /\ stack[n - 1] \in TaskId /\ stack[n - 1] # Top
      <3> HIDE DEF n, done
      <3>1. n > 1 => n - 1 \in 1..n - 1 /\ n - 1 \in 1..n /\ n \in 1..n /\ n - 1 < n
        BY <1>10
      <3>2. n > 1 => stack'[Len(stack')] = stack[n - 1]
        BY <1>3, <3>1
      <3>3. n > 1 => /\ stack[n - 1] \in TaskId /\ stack[n - 1] \in Nat
                     /\ stack[n] \in Nat /\ stack[n - 1] < stack[n]
        BY <1>2, <3>1
      <3>4. Top = stack[n]
        BY <1>2
      <3> QED
        BY <3>2, <3>3, <3>4
    <2>3. tasks' = IF n = 1 THEN done ELSE [done EXCEPT ![stack[n - 1]].status = "running"]
      <3>1. tasks' = IF stack' = <<>> THEN done
                     ELSE [done EXCEPT ![stack'[Len(stack')]].status = "running"]
        BY DEF Settled
      <3> HIDE DEF done, n
      <3>2. CASE n = 1
        BY <1>3, <3>1, <3>2
      <3>3. CASE n # 1
        <4>1. n > 1
          BY <1>2, <3>3
        <4> QED
          BY <1>3, <2>2, <3>1, <3>3, <4>1
      <3> QED
        BY <3>2, <3>3
    <2> HIDE DEF done, n
    <2> QED
      BY SMTT(60), <1>1, <1>2, <2>1, <2>2, <2>3 DEF TaskId, Task
  <1> HIDE DEF n
  <1>5. OnStack' = OnStack \ {Top}
    <2>1. OnStack' = {stack[i] : i \in 1..n - 1}
      BY <1>2, <1>3 DEF OnStack
    <2>2. \A i \in 1..n - 1 : stack[i] # Top
      BY <1>2
    <2>3. \A i \in 1..n : i = n \/ i \in 1..n - 1
      BY <1>2
    <2> QED
      BY <1>2, <2>1, <2>2, <2>3
  <1>6. \A u \in TaskId : tasks[u].status = "pending" => tasks[u].parent # Top
    BY DEF Settled, PendingChildren
  <1>7. StackIsLineage'
    <2>1. \A i \in 1..n - 1 :
             tasks'[stack'[i]].parent = IF i = 1 THEN 0 ELSE stack'[i - 1]
      <3> TAKE i \in 1..n - 1
      <3>1. i \in 1..n
        BY <1>11
      <3>2. stack'[i] = stack[i] /\ stack[i] \in TaskId
        BY <1>2, <1>3, <3>1
      <3>3. tasks'[stack[i]].parent = IF i = 1 THEN 0 ELSE stack[i - 1]
        BY <1>2, <1>4, <3>1, <3>2
      <3>4. i # 1 => i - 1 \in 1..n - 1
        BY <1>2
      <3> QED
        BY <1>3, <3>2, <3>3, <3>4
    <2>2. \A i \in 1..n - 1 :
             tasks'[stack'[i]].status = IF i = n - 1 THEN "running" ELSE "waiting"
      <3> TAKE i \in 1..n - 1
      <3>1. i \in 1..n /\ i # n /\ n - 1 \in 1..n /\ n > 1
        BY <1>10
      <3>2. stack'[i] = stack[i] /\ stack[i] \in TaskId
        BY <1>2, <1>3, <3>1
      <3>3. CASE i = n - 1
        BY <1>4, <3>1, <3>2, <3>3
      <3>4. CASE i # n - 1
        <4>1. i < n - 1 /\ i < n
          BY <1>10, <3>4
        <4>2. stack[i] < stack[n - 1] /\ stack[i] < stack[n] /\ n \in 1..n
          BY <1>2, <3>1, <4>1
        <4>3. stack[i] # stack[n - 1] /\ stack[i] # Top
          BY <1>2, <3>1, <4>2
        <4> QED
          BY <1>2, <1>4, <3>1, <3>2, <3>4, <4>3
      <3> QED
        BY <3>3, <3>4
    <2>3. \A i, j \in 1..n - 1 : i < j => stack'[i] < stack'[j]
      BY <1>2, <1>3, <1>11
    <2> QED
      BY <1>3, <2>1, <2>2, <2>3 DEF StackIsLineage
  <1>8. UnsettledInPlace'
    <2>1. status \notin {"pending", "running", "waiting"}
      BY DEF Terminal
    <2>2. n > 1 => stack[n - 1] \in OnStack \ {Top} /\ stack[n - 1] \in TaskId
      BY <1>2
    <2>3. ASSUME NEW u \in TaskId
          PROVE  /\ tasks'[u].status \in {"running", "waiting"} => u \in OnStack'
                 /\ tasks'[u].status = "pending" => tasks'[u].parent \in OnStack'
      <3>1. CASE u = Top
        BY <1>4, <2>1, <3>1
      <3>2. CASE u # Top /\ n > 1 /\ u = stack[n - 1]
        BY <1>4, <1>5, <2>2, <3>2
      <3>3. CASE u # Top /\ (n = 1 \/ u # stack[n - 1])
        BY <1>4, <1>5, <1>6, <3>3 DEF LineInv, InLine, UnsettledInPlace
      <3> QED
        BY <1>2, <3>1, <3>2, <3>3
    <2> QED
      BY <1>4, <2>3 DEF LineInv, InLine, UnsettledInPlace
  <1> QED
    BY <1>7, <1>8 DEF InLine

LEMMA EndedInLine ==
    ASSUME LineInv, NEW status \in Terminal, Ended(status)
    PROVE  InLine'
  <1>1. /\ stack' = <<>>
        /\ TaskId' = TaskId
        /\ \A t \in TaskId : /\ tasks'[t].parent = tasks[t].parent
                             /\ tasks'[t].status \notin {"pending", "running", "waiting"}
    BY DEF Ended, LineInv, TypeInv, TypeOK, TaskId, Task, Live, Terminal
  <1> QED
    BY <1>1 DEF LineInv, InLine, StackIsLineage, UnsettledInPlace

\* Recording an outcome moves no task.
LEMMA RecordedInLine ==
    ASSUME LineInv, stack # <<>>, UNCHANGED stack, NEW error \in ErrorCode,
           tasks' = [tasks EXCEPT ![Top].result = TRUE, ![Top].error = error]
    PROVE  InLine'
  <1>1. /\ TaskId' = TaskId
        /\ \A t \in TaskId : /\ tasks'[t].parent = tasks[t].parent
                             /\ tasks'[t].status = tasks[t].status
    BY TopIsTask DEF LineInv, TypeInv, TypeOK, TaskId, Task
  <1>2. \A i \in 1..Len(stack) : stack[i] \in TaskId
    BY DEF LineInv, TypeInv, TypeOK, TaskId
  <1>3. OnStack' = OnStack
    BY DEF OnStack
  <1>4. StackIsLineage'
    BY <1>1, <1>2 DEF LineInv, InLine, StackIsLineage
  <1>5. UnsettledInPlace'
    <2>1. UnsettledInPlace
      BY DEF LineInv, InLine
    <2> QED
      BY ONLY <1>1, <1>3, <2>1 DEF UnsettledInPlace
  <1> QED
    BY <1>4, <1>5 DEF InLine

\* New pending children of the active task.
LEMMA QueuedInLine ==
    ASSUME LineInv, stack # <<>>, UNCHANGED stack, NEW new,
           TaskId' = TaskId \cup new,
           \A t \in TaskId : tasks'[t] = tasks[t],
           \A t \in new : /\ t \in Nat /\ t > taskSequence
                          /\ tasks'[t].status = "pending" /\ tasks'[t].parent = Top
    PROVE  InLine'
  <1>1. /\ Top \in TaskId /\ Top \in Nat /\ taskSequence \in Nat
        /\ \A t \in TaskId : t \in Nat /\ t <= taskSequence
    BY TopIsTask DEF LineInv, TypeInv, TypeOK
  <1>2. \A i \in 1..Len(stack) : stack[i] \in TaskId
    BY DEF LineInv, TypeInv, TypeOK, TaskId
  <1>3. OnStack' = OnStack /\ Top \in OnStack
    <2>1. Len(stack) \in Nat \ {0}
      BY TopIsTask DEF LineInv, TypeInv
    <2> QED
      BY <2>1 DEF OnStack, Top
  <1>4. StackIsLineage'
    BY <1>2 DEF LineInv, InLine, StackIsLineage
  <1>5. UnsettledInPlace'
    <2>1. ASSUME NEW t \in TaskId'
          PROVE  /\ tasks'[t].parent \in {0} \cup TaskId'
                 /\ tasks'[t].parent < t
                 /\ tasks'[t].status \in {"running", "waiting"} => t \in OnStack'
                 /\ tasks'[t].status = "pending" => tasks'[t].parent \in OnStack'
      <3>1. CASE t \in TaskId
        BY <1>3, <3>1 DEF LineInv, InLine, UnsettledInPlace
      <3>2. CASE t \in new
        BY <1>1, <1>3, <3>2
      <3> QED
        BY <3>1, <3>2
    <2> QED
      BY <2>1 DEF UnsettledInPlace
  <1> QED
    BY <1>4, <1>5 DEF InLine

\* Nothing moves while records and stack stay.
LEMMA SameInLine ==
    ASSUME InLine, UNCHANGED <<tasks, stack>>
    PROVE  InLine'
  BY DEF InLine, StackIsLineage, UnsettledInPlace, TaskId, OnStack

LEMMA LineStep ==
    LineInv /\ [Next]_vars => InLine'
  <1> SUFFICES ASSUME LineInv, [Next]_vars PROVE InLine'
    OBVIOUS
  <1> USE DEF LineInv
  <1>1. CASE ModuleFails
    BY <1>1, SameInLine DEF ModuleFails, taskVars
  <1>2. ASSUME NEW status \in ResultStatus,
               NEW reqs \in RequestLists, ModuleReturns(status, reqs)
        PROVE  InLine'
    BY <1>2, SameInLine DEF ModuleReturns, taskVars
  <1>3. ASSUME QueueRequest PROVE InLine'
    <2> DEFINE r == Head(requests)
               id == taskSequence + 1
               work == [partition |-> Receiver, id |-> r.id, payload |-> r.payload]
    <2>1. stack # <<>> /\ eventTask = Top
      BY <1>3 DEF QueueRequest, TypeInv, CallInProgress
    <2>2. CASE UNCHANGED <<tasks, stack>>
      BY <2>2, SameInLine
    <2>3. CASE tasks' = Put(tasks, id, NewTask("host", eventTask, "pending", work)) /\ UNCHANGED stack
      <3>1. taskSequence \in Nat /\ id \notin TaskId
        BY DEF TypeInv, TypeOK, TaskId
      <3>2. /\ TaskId' = TaskId \cup {id}
            /\ \A t \in TaskId : tasks'[t] = tasks[t]
            /\ tasks'[id] = NewTask("host", eventTask, "pending", work)
        BY <2>3, <3>1 DEF Put, TaskId
      <3>3. \A t \in {id} : /\ t \in Nat /\ t > taskSequence
                            /\ tasks'[t].status = "pending" /\ tasks'[t].parent = Top
        BY <2>1, <3>1, <3>2 DEF NewTask
      <3>4. UNCHANGED stack
        BY <2>3
      <3> DEFINE new == {id}
      <3>5. TaskId' = TaskId \cup new /\ \A t \in TaskId : tasks'[t] = tasks[t]
        BY <3>2
      <3>6. \A t \in new : /\ t \in Nat /\ t > taskSequence
                            /\ tasks'[t].status = "pending" /\ tasks'[t].parent = Top
        BY <3>3
      <3> HIDE DEF new
      <3> QED
        BY ONLY LineInv, <2>1, <3>4, <3>5, <3>6, QueuedInLine
    <2> QED
      BY <1>3, <2>2, <2>3 DEF QueueRequest, taskVars
  <1>4. CASE NextModule
    BY <1>4, SameInLine DEF NextModule, taskVars
  <1>5. CASE AdmissionCancelled
    BY <1>5, SameInLine DEF AdmissionCancelled, taskVars
  <1>6. CASE BroadcastDone
    BY <1>6, SameInLine DEF BroadcastDone, taskVars
  <1>7. CASE DrainCancelled
    BY <1>7, SameInLine DEF DrainCancelled, taskVars
  <1>8. CASE DrainActivate
    <2>1. PICK t \in TaskId : HostChildNext(t) /\ Started(t)
      BY <1>8 DEF DrainActivate
    <2> QED
      BY <2>1, StartedInLine DEF HostChildNext, IsNextChild
  <1>9. CASE DrainReturn
    BY <1>9, SameInLine DEF DrainReturn, taskVars
  <1>10. CASE DrainFinish
    <2>1. stack # <<>> /\ tasks[Top].error \in ErrorCode
      BY <1>10, TopIsTask DEF DrainFinish, ActiveHost, Task, TypeInv
    <2>2. PICK status \in Terminal : Settled(status, tasks[Top].error)
      BY <1>10 DEF DrainFinish, SettledOutcome, Terminal
    <2> QED
      BY <2>1, <2>2, SettledInLine
  <1>11. CASE DrainExhausted
    BY <1>11, EndedInLine DEF DrainExhausted, Terminal
  <1>12. CASE DrainExecute
    BY <1>12, SameInLine DEF DrainExecute, taskVars
  <1>13. ASSUME NEW error \in HTTPOutcomes, HTTPReturns(error) PROVE InLine'
    BY <1>13, RecordedInLine
    DEF HTTPReturns, TypeInv, CallInProgress, ActiveHost, ErrorCode, HTTPOutcomes
  <1>14. CASE Push
    <2> DEFINE id == taskSequence + 1
               parent == IF stack = <<>> THEN 0 ELSE Top
               child == Put(tasks, id, NewTask("reasoning", parent, "running", NoWork))
    <2>1. /\ taskSequence \in Nat /\ id \in Nat /\ id \notin TaskId /\ 0 \notin TaskId
          /\ \A t \in TaskId : t \in Nat /\ t < id
      BY DEF TypeInv, TypeOK, TaskId
    <2>2. /\ tasks' = IF parent = 0 THEN child ELSE [child EXCEPT ![parent].status = "waiting"]
          /\ stack' = Append(stack, id)
          /\ TaskId = {} \/ stack # <<>>
      BY <1>14 DEF Push, BetweenBatches, Reasoning
    <2>3. /\ DOMAIN child = TaskId \cup {id}
          /\ \A t \in TaskId : child[t] = tasks[t] /\ child[t] \in Task
          /\ child[id].parent = parent
          /\ child[id].status = "running"
      <3>1. \A t \in TaskId : tasks[t] \in Task
        BY DEF TypeInv, TypeOK, TaskId
      <3> QED
        BY <2>1, <3>1 DEF Put, NewTask, TaskId
    <2> HIDE DEF child, id
    <2>4. CASE stack = <<>>
      <3>1. /\ stack' = <<id>> /\ Len(stack') = 1 /\ stack'[1] = id
            /\ OnStack' = {id}
        BY <2>2, <2>4 DEF OnStack
      <3>2. tasks' = child /\ TaskId' = {id} /\ parent = 0
        BY <2>1, <2>2, <2>3, <2>4 DEF TaskId
      <3>3. /\ tasks'[id].parent = 0 /\ 0 < id
            /\ tasks'[id].status = "running"
        <4>1. 0 < id
          BY <2>1 DEF id
        <4> QED
          BY <2>3, <3>2, <4>1
      <3>4. StackIsLineage'
        BY <3>1, <3>3 DEF StackIsLineage
      <3>5. UnsettledInPlace'
        BY <3>1, <3>2, <3>3 DEF UnsettledInPlace
      <3> QED
        BY <3>4, <3>5 DEF InLine
    <2>5. CASE stack # <<>>
      <3> DEFINE n == Len(stack)
      <3>1. /\ n \in Nat \ {0} /\ n = Len(stack)
            /\ Top = stack[n]
            /\ stack \in Seq(TaskId)
            /\ \A i \in 1..n : stack[i] \in TaskId /\ stack[i] \in Nat \ {0}
            /\ \A i \in 1..n : tasks[stack[i]].parent = IF i = 1 THEN 0 ELSE stack[i - 1]
            /\ \A i \in 1..n : tasks[stack[i]].status = IF i = n THEN "running" ELSE "waiting"
            /\ \A i, j \in 1..n : i < j => stack[i] < stack[j]
            /\ OnStack = {stack[i] : i \in 1..n}
        BY <2>5, StackFacts DEF TypeInv
      <3> HIDE DEF n
      <3>2. /\ Len(stack') = n + 1
            /\ \A i \in 1..n : stack'[i] = stack[i]
            /\ stack'[n + 1] = id
        BY <2>2, <3>1
      <3>3. Top \in TaskId /\ parent = Top /\ parent # 0 /\ id # Top
        BY <2>1, <2>5, <3>1
      <3>4. /\ TaskId' = TaskId \cup {id}
            /\ \A u \in TaskId : tasks'[u].parent = tasks[u].parent
            /\ \A u \in TaskId \ {Top} : tasks'[u].status = tasks[u].status
            /\ tasks'[id].status = "running" /\ tasks'[id].parent = Top
            /\ tasks'[Top].status = "waiting"
        BY <2>2, <2>3, <3>3 DEF TaskId, Task
      <3>5. OnStack' = OnStack \cup {id}
        <4>1. OnStack' = {stack'[i] : i \in 1..n + 1}
          BY <3>2 DEF OnStack
        <4> QED
          BY <3>1, <3>2, <4>1
      <3>6. StackIsLineage'
        <4>1. \A i \in 1..n + 1 :
                 tasks'[stack'[i]].parent = IF i = 1 THEN 0 ELSE stack'[i - 1]
          <5>1. \A i \in 1..n : tasks'[stack[i]].parent = IF i = 1 THEN 0 ELSE stack[i - 1]
            BY <3>1, <3>4
          <5> QED
            BY <3>1, <3>2, <3>4, <5>1
        <4>2. \A i \in 1..n + 1 :
                 tasks'[stack'[i]].status = IF i = n + 1 THEN "running" ELSE "waiting"
          <5>1. \A i \in 1..n : i # n => stack[i] \in TaskId /\ stack[i] # Top
            BY <3>1
          <5>2. \A i \in 1..n : tasks'[stack[i]].status = "waiting"
            BY <3>1, <3>4, <5>1
          <5> QED
            BY <3>1, <3>2, <3>4, <5>2
        <4>3. \A i, j \in 1..n + 1 : i < j => stack'[i] < stack'[j]
          <5> TAKE i, j \in 1..n + 1
          <5> SUFFICES ASSUME i < j PROVE stack'[i] < stack'[j]
            OBVIOUS
          <5>1. i \in 1..n /\ stack'[i] = stack[i]
            BY <3>1, <3>2
          <5>2. CASE j = n + 1
            BY <2>1, <3>1, <3>2, <5>1, <5>2
          <5>3. CASE j # n + 1
            <6>1. n \in Nat
              BY <3>1
            <6>2. j \in 1..n
              BY <5>3, <6>1
            <6> QED
              BY <3>1, <3>2, <5>1, <6>2
          <5> QED
            BY <5>2, <5>3
        <4> QED
          BY <3>2, <4>1, <4>2, <4>3 DEF StackIsLineage
      <3>7. UnsettledInPlace'
        <4>1. Top \in OnStack
          BY <3>1
        <4>2. Top < id
          BY <2>1, <3>3
        <4>3. ASSUME NEW t \in TaskId'
              PROVE  /\ tasks'[t].parent \in {0} \cup TaskId'
                     /\ tasks'[t].parent < t
                     /\ tasks'[t].status \in {"running", "waiting"} => t \in OnStack'
                     /\ tasks'[t].status = "pending" => tasks'[t].parent \in OnStack'
          <5>1. CASE t = id
            BY <3>3, <3>4, <3>5, <4>2, <5>1
          <5>2. CASE t = Top
            BY <3>4, <3>5, <4>1, <5>2, <3>3 DEF InLine, UnsettledInPlace
          <5>3. CASE t \in TaskId \ {Top}
            BY <3>4, <3>5, <5>3 DEF InLine, UnsettledInPlace
          <5> QED
            BY <3>4, <5>1, <5>2, <5>3
        <4> QED
          BY <4>3 DEF UnsettledInPlace
      <3> QED
        BY <3>6, <3>7 DEF InLine
    <2> QED
      BY <2>4, <2>5
  <1>15. CASE Admit
    BY <1>15, SameInLine DEF Admit, taskVars
  <1>16. ASSUME NEW n \in 1..MaxBatchCalls, QueueAgentWork(n) PROVE InLine'
    <2> DEFINE ids == taskSequence + 1 .. taskSequence + n
    <2>1. stack # <<>> /\ UNCHANGED stack
      BY <1>16 DEF QueueAgentWork, BetweenBatches, Reasoning
    <2>2. n \in Nat /\ taskSequence \in Nat /\ \A t \in TaskId : t \in Nat /\ t <= taskSequence
      BY StoreAssumption DEF TypeInv, TypeOK, TaskId
    <2>3. /\ TaskId' = TaskId \cup ids
          /\ \A t \in TaskId : tasks'[t] = tasks[t]
          /\ \A t \in ids : tasks'[t] = NewTask("agent", Top, "pending", NoWork)
      BY <1>16, <2>2 DEF QueueAgentWork, TaskId
    <2>4. \A t \in ids : /\ t \in Nat /\ t > taskSequence
                         /\ tasks'[t].status = "pending" /\ tasks'[t].parent = Top
      BY <2>2, <2>3 DEF NewTask
    <2> QED
      BY <2>1, <2>3, <2>4, QueuedInLine
  <1>17. CASE ActivateAgentWork
    <2>1. PICK t \in TaskId : IsNextChild(t, Top) /\ Started(t)
      BY <1>17 DEF ActivateAgentWork
    <2> QED
      BY <1>17, <2>1, StartedInLine DEF ActivateAgentWork, Reasoning, IsNextChild
  <1>18. ASSUME NEW error \in {"none", "outcome", "operation"}, RecordAgentOutcome(error)
         PROVE  InLine'
    BY <1>18, RecordedInLine DEF RecordAgentOutcome, ActiveAgent, ErrorCode
  <1>19. CASE AdmitAgentOutcome
    BY <1>19, SameInLine DEF AdmitAgentOutcome, taskVars
  <1>20. CASE FinishAgentWork
    <2>1. stack # <<>> /\ tasks[Top].error \in ErrorCode
      BY <1>20, TopIsTask DEF FinishAgentWork, ActiveAgent, Task, TypeInv
    <2>2. PICK status \in Terminal : Settled(status, tasks[Top].error)
      BY <1>20 DEF FinishAgentWork, SettledOutcome, Terminal
    <2> QED
      BY <2>1, <2>2, SettledInLine
  <1>21. CASE Complete
    BY <1>21, SettledInLine DEF Complete, Reasoning, Terminal, ErrorCode
  <1>22. CASE AbandonChild
    BY <1>22, SettledInLine DEF AbandonChild, Reasoning, Terminal, ErrorCode
  <1>23. ASSUME NEW status \in {"failed", "cancelled", "incomplete"}, End(status)
         PROVE  InLine'
    BY <1>23, EndedInLine DEF End, Terminal
  <1>24. CASE Close
    BY <1>24, SameInLine DEF Close, taskVars
  <1>25. CASE Cancel
    BY <1>25, SameInLine DEF Cancel, taskVars
  <1>26. CASE UNCHANGED vars
    BY <1>26, SameInLine DEF vars, taskVars
  <1> QED
    BY <1>1, <1>2, <1>3, <1>4, <1>5, <1>6, <1>7, <1>8, <1>9, <1>10, <1>11, <1>12, <1>13,
       <1>14, <1>15, <1>16, <1>17, <1>18, <1>19, <1>20, <1>21, <1>22, <1>23, <1>24, <1>25, <1>26
    DEF Next, StoreStep, CallerStep

\* In every reachable state the unsettled tasks are one lineage and the pending
\* children of its members.
THEOREM LineageHolds == Spec => []Lineage
  <1>1. Init => LineInv
    BY TypeInit, LineInit DEF LineInv
  <1>2. LineInv /\ [Next]_vars => LineInv'
    BY TypeStep, LineStep DEF LineInv
  <1>3. LineInv => Lineage
    BY DEF LineInv, TypeInv, InLine, Lineage
  <1> QED
    BY <1>1, <1>2, <1>3, PTL DEF Spec

\* No settled task has an unsettled child, whatever order the steps came in.
THEOREM SettledTreeHolds == Spec => []SettledTree
  <1>1. TypeOK /\ Lineage => SettledTree
    <2> SUFFICES ASSUME TypeOK, Lineage,
                        NEW t \in TaskId, tasks[t].parent # 0, Live(t)
                 PROVE  Live(tasks[t].parent)
      BY DEF SettledTree
    <2> DEFINE n == Len(stack)
    <2>1. t \in OnStack \/ tasks[t].parent \in OnStack
      BY DEF Lineage, UnsettledInPlace, Live
    <2>2. n \in Nat
      BY DEF TypeOK
    <2>3. \A u \in OnStack : Live(u)
      BY DEF Lineage, StackIsLineage, Live, OnStack
    <2>4. CASE t \in OnStack
      <3>1. PICK i \in 1..n : t = stack[i]
        BY <2>4 DEF OnStack
      <3>2. i # 1 /\ tasks[t].parent = stack[i - 1]
        BY <3>1 DEF Lineage, StackIsLineage
      <3>3. i - 1 \in 1..n
        BY <2>2, <3>1, <3>2
      <3> QED
        BY <2>3, <3>2, <3>3 DEF OnStack
    <2> QED
      BY <2>1, <2>3, <2>4
  <1>2. TypeInv => TypeOK
    BY DEF TypeInv
  <1> QED
    BY <1>1, <1>2, TypeCorrect, LineageHolds, PTL

-----------------------------------------------------------------------------
(* What was recorded stays *)

Kept(t) ==
    /\ t \in TaskId'
    /\ tasks'[t].kind = tasks[t].kind
    /\ tasks'[t].parent = tasks[t].parent
    /\ tasks'[t].work = tasks[t].work
    /\ tasks[t].result => tasks'[t].result
    /\ ~Live(t) => tasks'[t] = tasks[t]

LEMMA StartedKeeps ==
    ASSUME LineInv, stack # <<>>, NEW t \in PendingChildren(Top), Started(t)
    PROVE  TaskId' = TaskId /\ \A u \in TaskId : Kept(u)
  <1>1. /\ t \in TaskId /\ Top \in TaskId /\ tasks[t].parent = Top /\ Live(t)
        /\ tasks \in [TaskId -> Task]
    BY TopIsTask DEF LineInv, TypeInv, TypeOK, TaskId, PendingChildren, Live
  <1>2. Live(Top) /\ t # Top
    BY TopRuns DEF LineInv, TypeInv, Live, PendingChildren
  <1>3. tasks' = [[tasks EXCEPT ![t] = [tasks[t] EXCEPT !.status = "running"]]
                      EXCEPT ![Top] = [tasks[Top] EXCEPT !.status = "waiting"]]
    BY <1>1, <1>2 DEF Started
  <1>4. \A u \in TaskId : u # t /\ u # Top => tasks'[u] = tasks[u]
    BY <1>1, <1>3
  <1>5. /\ tasks'[t] = [tasks[t] EXCEPT !.status = "running"]
        /\ tasks'[Top] = [tasks[Top] EXCEPT !.status = "waiting"]
    BY <1>1, <1>2, <1>3
  <1>6. TaskId' = TaskId
    BY <1>1, <1>3 DEF TaskId
  <1>7. Kept(t) /\ Kept(Top)
    BY <1>1, <1>2, <1>5, <1>6 DEF Kept, Task
  <1> QED
    BY <1>4, <1>6, <1>7 DEF Kept

LEMMA SettledKeeps ==
    ASSUME LineInv, stack # <<>>,
           NEW status \in Terminal, NEW error \in ErrorCode, Settled(status, error)
    PROVE  TaskId' = TaskId /\ \A u \in TaskId : Kept(u)
  <1> DEFINE n == Len(stack)
             below == stack[n - 1]
  <1>1. Top \in TaskId /\ n \in Nat \ {0} /\ tasks \in [TaskId -> Task] /\ stack \in Seq(TaskId)
    BY TopIsTask DEF LineInv, TypeInv, TypeOK, TaskId
  <1>2. Live(Top) /\ (n # 1 => below \in TaskId /\ Live(below) /\ below # Top)
    <2>1. \A i \in 1..n : /\ stack[i] \in TaskId
                          /\ Live(stack[i])
                          /\ i # n => stack[i] # stack[n]
      BY StackFacts DEF LineInv, TypeInv, Live
    <2>2. n \in 1..n /\ (n # 1 => n - 1 \in 1..n /\ n - 1 # n)
      <3>1. n \in Nat \ {0}
        BY <1>1
      <3> HIDE DEF n
      <3> QED
        BY ONLY <3>1
    <2> QED
      BY <2>1, <2>2 DEF Top
  <1> DEFINE done == [tasks EXCEPT ![Top].status = status, ![Top].error = error]
  <1>3. tasks' = IF n = 1 THEN done ELSE [done EXCEPT ![below].status = "running"]
    <2>1. /\ SubSeq(stack, 1, n - 1) = <<>> <=> n = 1
          /\ n # 1 => SubSeq(stack, 1, n - 1)[Len(SubSeq(stack, 1, n - 1))] = below
      <3> HIDE DEF n
      <3> QED
        BY <1>1
    <2> QED
      BY <2>1 DEF Settled
  <1>4. /\ done \in [TaskId -> Task]
        /\ done[Top] = [tasks[Top] EXCEPT !.status = status, !.error = error]
        /\ \A u \in TaskId : u # Top => done[u] = tasks[u]
    <2>1. [tasks EXCEPT ![Top].status = status] \in [TaskId -> Task]
      BY <1>1, StatusUpdate DEF Status
    <2>2. [[tasks EXCEPT ![Top].status = status] EXCEPT ![Top].error = error] \in [TaskId -> Task]
      BY <1>1, <2>1, ErrorUpdate
    <2> QED
      BY <1>1, <2>2
  <1>5. /\ done[Top].kind = tasks[Top].kind /\ done[Top].parent = tasks[Top].parent
        /\ done[Top].work = tasks[Top].work /\ done[Top].result = tasks[Top].result
    BY <1>1, <1>4 DEF Task
  <1> HIDE DEF done, n, below
  <1>6. TaskId' = TaskId
    BY <1>3, <1>4 DEF TaskId
  <1>7. CASE n = 1
    BY <1>2, <1>3, <1>4, <1>5, <1>6, <1>7 DEF Kept
  <1>8. CASE n # 1
    <2>1. /\ \A u \in TaskId : u # below => tasks'[u] = done[u]
          /\ tasks'[below] = [tasks[below] EXCEPT !.status = "running"]
      BY <1>2, <1>3, <1>4, <1>8
    <2>2. Kept(below)
      BY <1>1, <1>2, <1>6, <1>8, <2>1 DEF Kept, Task
    <2> QED
      BY <1>2, <1>4, <1>5, <1>6, <1>8, <2>1, <2>2 DEF Kept
  <1> QED
    BY <1>6, <1>7, <1>8

LEMMA EndedKeeps ==
    ASSUME TypeOK, NEW status \in Terminal, Ended(status)
    PROVE  TaskId' = TaskId /\ \A u \in TaskId : Kept(u)
  <1>1. tasks \in [TaskId -> Task]
    BY DEF TypeOK, TaskId
  <1>2. /\ TaskId' = TaskId
        /\ \A u \in TaskId :
               tasks'[u] = IF Live(u) THEN [tasks[u] EXCEPT !.status = status, !.error = "ended"]
                           ELSE tasks[u]
    BY DEF Ended, TaskId
  <1> QED
    BY <1>1, <1>2 DEF Kept, Task

LEMMA RecordedKeeps ==
    ASSUME LineInv, stack # <<>>, NEW error \in ErrorCode,
           tasks' = [tasks EXCEPT ![Top].result = TRUE, ![Top].error = error]
    PROVE  TaskId' = TaskId /\ tasks'[Top].result /\ \A u \in TaskId : Kept(u)
  <1>1. Top \in TaskId /\ tasks \in [TaskId -> Task]
    BY TopIsTask DEF LineInv, TypeInv, TypeOK, TaskId
  <1>2. Live(Top)
    BY TopRuns DEF LineInv, TypeInv, Live
  <1>3. /\ TaskId' = TaskId
        /\ tasks'[Top] = [tasks[Top] EXCEPT !.result = TRUE, !.error = error]
        /\ \A u \in TaskId : u # Top => tasks'[u] = tasks[u]
    BY <1>1 DEF TaskId
  <1> QED
    BY <1>1, <1>2, <1>3 DEF Kept, Task

\* Adding records changes none.
LEMMA SameKeeps ==
    ASSUME \A u \in TaskId : u \in TaskId' /\ tasks'[u] = tasks[u]
    PROVE  \A u \in TaskId : Kept(u)
  BY DEF Kept

\* A task with host work that this step creates is the first of its identity;
\* every other new task has none.
Fresh(t) ==
    \/ tasks'[t].work = NoWork /\ tasks'[t].kind # "host"
    \/ /\ TaskId' = TaskId \cup {t}
       /\ tasks'[t].kind = "host"
       /\ tasks'[t].work \in Work
       /\ Holders(tasks'[t].work.partition, tasks'[t].work.id) = {}

LEMMA KeepStep ==
    LineInv /\ [Next]_vars => /\ \A t \in TaskId : Kept(t)
                              /\ \A t \in TaskId' \ TaskId : Fresh(t)
  <1> DEFINE Goal == /\ \A t \in TaskId : Kept(t)
                     /\ \A t \in TaskId' \ TaskId : Fresh(t)
  <1> SUFFICES ASSUME LineInv, [Next]_vars PROVE Goal
    OBVIOUS
  <1>0. ASSUME UNCHANGED tasks PROVE Goal
    BY <1>0, SameKeeps DEF TaskId
  <1>1. CASE \/ ModuleFails \/ NextModule \/ AdmissionCancelled \/ BroadcastDone \/ DrainCancelled
             \/ DrainReturn \/ DrainExecute \/ Admit \/ AdmitAgentOutcome \/ Close \/ Cancel
             \/ UNCHANGED vars
    BY <1>0, <1>1
    DEF ModuleFails, NextModule, AdmissionCancelled, BroadcastDone, DrainCancelled, DrainReturn,
        DrainExecute, Admit, AdmitAgentOutcome, Close, Cancel, vars, taskVars
  <1>2. ASSUME NEW status \in ResultStatus,
               NEW reqs \in RequestLists, ModuleReturns(status, reqs)
        PROVE  Goal
    BY <1>0, <1>2 DEF ModuleReturns, taskVars
  <1>3. ASSUME QueueRequest PROVE Goal
    <2> DEFINE r == Head(requests)
               id == taskSequence + 1
               work == [partition |-> Receiver, id |-> r.id, payload |-> r.payload]
               task == NewTask("host", eventTask, "pending", work)
    <2>1. CASE UNCHANGED tasks
      BY <1>0, <2>1
    <2>2. CASE Holders(Receiver, r.id) = {} /\ tasks' = Put(tasks, id, task)
      <3>1. id \notin TaskId
        BY DEF LineInv, TypeInv, TypeOK, TaskId
      <3>2. TaskId' = TaskId \cup {id} /\ tasks'[id] = task /\ \A u \in TaskId : tasks'[u] = tasks[u]
        BY <2>2, <3>1 DEF Put, TaskId
      <3>3. Receiver \in Partition
        BY <1>3, ReceiverIsPartition DEF QueueRequest, LineInv, TypeInv, CallInProgress
      <3>4. r \in Request
        BY <1>3 DEF QueueRequest, LineInv, TypeInv, TypeOK
      <3>5. work \in Work /\ work.partition = Receiver /\ work.id = r.id
        BY <3>3, <3>4 DEF Work, Request
      <3>6. task.kind = "host" /\ task.work = work
        BY DEF NewTask
      <3> HIDE DEF work, task
      <3>7. Fresh(id)
        BY <2>2, <3>2, <3>5, <3>6 DEF Fresh
      <3> QED
        BY <3>2, <3>7, SameKeeps
    <2> QED
      BY <1>3, <2>1, <2>2 DEF QueueRequest, taskVars
  <1>4. CASE DrainActivate
    <2>1. PICK t \in TaskId : HostChildNext(t) /\ Started(t)
      BY <1>4 DEF DrainActivate
    <2> QED
      BY <2>1, StartedKeeps DEF HostChildNext, IsNextChild
  <1>5. CASE DrainFinish \/ FinishAgentWork
    <2>1. stack # <<>> /\ tasks[Top].error \in ErrorCode
      BY <1>5, TopIsTask DEF DrainFinish, ActiveHost, FinishAgentWork, ActiveAgent, Task, LineInv, TypeInv
    <2>2. PICK status \in Terminal : Settled(status, tasks[Top].error)
      BY <1>5 DEF DrainFinish, FinishAgentWork, SettledOutcome, Terminal
    <2> QED
      BY <2>1, <2>2, SettledKeeps
  <1>6. CASE DrainExhausted
    BY <1>6, EndedKeeps DEF DrainExhausted, Terminal, LineInv, TypeInv
  <1>7. ASSUME NEW error \in HTTPOutcomes, HTTPReturns(error) PROVE Goal
    BY <1>7, RecordedKeeps
    DEF HTTPReturns, LineInv, TypeInv, CallInProgress, ActiveHost, ErrorCode, HTTPOutcomes
  <1>8. CASE Push
    <2> DEFINE id == taskSequence + 1
               parent == IF stack = <<>> THEN 0 ELSE Top
               task == NewTask("reasoning", parent, "running", NoWork)
               child == Put(tasks, id, task)
    <2>1. id \notin TaskId /\ 0 \notin TaskId /\ tasks \in [TaskId -> Task]
      BY DEF LineInv, TypeInv, TypeOK, TaskId
    <2>2. /\ DOMAIN child = TaskId \cup {id} /\ child[id] = task
          /\ \A u \in TaskId : child[u] = tasks[u]
      BY <2>1 DEF Put, TaskId
    <2>3. tasks' = IF parent = 0 THEN child ELSE [child EXCEPT ![parent].status = "waiting"]
      BY <1>8 DEF Push
    <2>4. parent # 0 => parent \in TaskId /\ parent # id /\ Live(parent)
      BY <2>1, TopIsTask, StackFacts DEF LineInv, TypeInv, Live
    <2>5. task.work = NoWork /\ task.kind # "host"
      BY DEF NewTask
    <2> HIDE DEF child, task, id
    <2>6. TaskId' = TaskId \cup {id} /\ tasks'[id] = task
      BY <2>2, <2>3, <2>4 DEF TaskId
    <2>7. \A u \in TaskId : u # parent => tasks'[u] = tasks[u]
      BY <2>1, <2>2, <2>3, <2>4
    <2>8. parent # 0 => Kept(parent)
      <3> SUFFICES ASSUME parent # 0 PROVE Kept(parent)
        OBVIOUS
      <3>1. tasks'[parent] = [tasks[parent] EXCEPT !.status = "waiting"]
        BY <2>2, <2>3, <2>4
      <3> QED
        BY <2>1, <2>4, <2>6, <3>1 DEF Kept, Task
    <2>9. \A u \in TaskId : u # parent => Kept(u)
      BY <2>6, <2>7 DEF Kept
    <2> QED
      BY <2>1, <2>4, <2>5, <2>6, <2>8, <2>9 DEF Fresh
  <1>9. ASSUME NEW n \in 1..MaxBatchCalls, QueueAgentWork(n) PROVE Goal
    <2> DEFINE ids == taskSequence + 1 .. taskSequence + n
    <2>1. ids \cap TaskId = {}
      BY StoreAssumption DEF LineInv, TypeInv, TypeOK, TaskId
    <2>2. /\ TaskId' = TaskId \cup ids
          /\ \A u \in TaskId : tasks'[u] = tasks[u]
          /\ \A u \in ids : tasks'[u] = NewTask("agent", Top, "pending", NoWork)
      BY <1>9, <2>1 DEF QueueAgentWork, TaskId
    <2>3. \A u \in ids : tasks'[u].work = NoWork /\ tasks'[u].kind # "host"
      BY <2>2 DEF NewTask
    <2> HIDE DEF ids
    <2> QED
      BY <2>2, <2>3, SameKeeps DEF Fresh
  <1>10. CASE ActivateAgentWork
    <2>1. PICK t \in TaskId : IsNextChild(t, Top) /\ Started(t)
      BY <1>10 DEF ActivateAgentWork
    <2> QED
      BY <1>10, <2>1, StartedKeeps DEF ActivateAgentWork, Reasoning, IsNextChild
  <1>11. ASSUME NEW error \in {"none", "outcome", "operation"}, RecordAgentOutcome(error)
         PROVE  Goal
    BY <1>11, RecordedKeeps DEF RecordAgentOutcome, ActiveAgent, ErrorCode
  <1>12. CASE Complete
    BY <1>12, SettledKeeps DEF Complete, Reasoning, Terminal, ErrorCode
  <1>13. CASE AbandonChild
    BY <1>13, SettledKeeps DEF AbandonChild, Reasoning, Terminal, ErrorCode
  <1>14. ASSUME NEW status \in {"failed", "cancelled", "incomplete"}, End(status) PROVE Goal
    BY <1>14, EndedKeeps DEF End, Terminal, LineInv, TypeInv
  <1> QED
    BY <1>1, <1>2, <1>3, <1>4, <1>5, <1>6, <1>7, <1>8, <1>9, <1>10, <1>11, <1>12, <1>13, <1>14
    DEF Next, StoreStep, CallerStep

\* No step, the end of the run included, drops a task, changes its place or its
\* work, touches a settled task or forgets an outcome.
THEOREM OutcomeKeptHolds == Spec => OutcomeKept
  <1>1. LineInv /\ [Next]_vars =>
            [\A t \in TaskId :
                /\ t \in TaskId'
                /\ tasks'[t].parent = tasks[t].parent /\ tasks'[t].work = tasks[t].work
                /\ tasks[t].result => tasks'[t].result
                /\ ~Live(t) => tasks'[t] = tasks[t]]_vars
    BY KeepStep DEF Kept
  <1>2. Init => LineInv
    BY TypeInit, LineInit DEF LineInv
  <1>3. LineInv /\ [Next]_vars => LineInv'
    BY TypeStep, LineStep DEF LineInv
  <1> QED
    BY <1>1, <1>2, <1>3, PTL DEF Spec, OutcomeKept

-----------------------------------------------------------------------------
(* Host work *)

\* A partition never has two tasks for one request identity.
THEOREM UniqueRequestHolds == Spec => []UniqueRequest
  <1>1. Init => UniqueRequest
    BY DEF Init, UniqueRequest, TaskId
  <1>2. LineInv /\ UniqueRequest /\ [Next]_vars => UniqueRequest'
    <2> SUFFICES ASSUME LineInv, UniqueRequest, [Next]_vars PROVE UniqueRequest'
      OBVIOUS
    <2>1. /\ \A t \in TaskId : Kept(t)
          /\ \A t \in TaskId' \ TaskId : Fresh(t)
      BY KeepStep
    <2>2. NoWork \notin Work
      BY StoreAssumption
    <2> DEFINE Same(t, u) == /\ tasks'[t].work # NoWork /\ tasks'[u].work # NoWork
                             /\ tasks'[t].work.partition = tasks'[u].work.partition
                             /\ tasks'[t].work.id = tasks'[u].work.id
    <2>3. \A t \in TaskId' : tasks'[t].kind = "host" <=> tasks'[t].work # NoWork
      BY <2>1, <2>2 DEF Kept, Fresh, UniqueRequest
    <2>4. \A t \in TaskId, u \in TaskId : Same(t, u) => t = u
      BY <2>1 DEF Kept, UniqueRequest
    <2>5. \A t \in TaskId, u \in TaskId' \ TaskId : ~Same(t, u)
      <3> SUFFICES ASSUME NEW t \in TaskId, NEW u \in TaskId' \ TaskId, Same(t, u) PROVE FALSE
        OBVIOUS
      <3>1. Holders(tasks'[u].work.partition, tasks'[u].work.id) = {}
        BY <2>1 DEF Fresh
      <3>2. tasks[t].work = tasks'[t].work
        BY <2>1 DEF Kept
      <3>3. t \in Holders(tasks'[u].work.partition, tasks'[u].work.id)
        BY <3>2 DEF Holders
      <3> QED
        BY <3>1, <3>3
    <2>6. \A t \in TaskId' \ TaskId, u \in TaskId' \ TaskId : Same(t, u) => t = u
      BY <2>1 DEF Fresh
    <2>7. \A t \in TaskId', u \in TaskId' : Same(t, u) => t = u
      BY <2>4, <2>5, <2>6
    <2> QED
      BY <2>3, <2>7 DEF UniqueRequest
  <1>3. Init => LineInv
    BY TypeInit, LineInit DEF LineInv
  <1>4. LineInv /\ [Next]_vars => LineInv'
    BY TypeStep, LineStep DEF LineInv
  <1> QED
    BY <1>1, <1>2, <1>3, <1>4, PTL DEF Spec

\* No host task is executed twice, and no run executes more than its budget.
THEOREM ExecutedOnceHolds == Spec => []ExecutedOnce
  <1>1. Init => ExecutedOnce
    BY FS_EmptySet, StoreAssumption DEF Init, ExecutedOnce
  <1>2. LineInv /\ ExecutedOnce /\ [Next]_vars => ExecutedOnce'
    <2> SUFFICES ASSUME LineInv, ExecutedOnce, [Next]_vars PROVE ExecutedOnce'
      OBVIOUS
    <2>1. \A t \in TaskId : Kept(t)
      BY KeepStep
    <2>2. executed \subseteq TaskId
      BY DEF LineInv, TypeInv, TypeOK, TaskId
    <2>3. CASE DrainExecute
      <3>1. /\ executed' = executed \cup {Top}
            /\ hostExecutions' = hostExecutions + 1
            /\ hostExecutions < MaxHostExecutions
            /\ op = "drain" /\ op' = "http"
            /\ ActiveHost /\ ~tasks[Top].result
            /\ UNCHANGED <<tasks, stack>>
        BY <2>3 DEF DrainExecute, Draining, NeedsExecution, taskVars
      <3>2. Top \notin executed
        BY <3>1 DEF ExecutedOnce
      <3>3. IsFiniteSet(executed)
        <4>1. taskSequence \in Nat /\ executed \subseteq 1..taskSequence
          BY DEF LineInv, TypeInv, TypeOK
        <4>2. IsFiniteSet(1..taskSequence)
          BY <4>1, FS_Interval
        <4> QED
          BY <4>1, <4>2, FS_Subset
      <3>4. Cardinality(executed') = Cardinality(executed) + 1
        BY <3>1, <3>2, <3>3, FS_AddElement
      <3>5. hostExecutions' = Cardinality(executed') /\ hostExecutions' <= MaxHostExecutions
        BY <3>1, <3>4, StoreAssumption DEF ExecutedOnce, LineInv, TypeInv, TypeOK
      <3>6. \A t \in executed' : /\ tasks'[t].kind = "host"
                                 /\ tasks'[t].result \/ (op' = "http" /\ t = Top')
        BY <3>1 DEF ExecutedOnce, ActiveHost, Top
      <3> QED
        BY <3>5, <3>6 DEF ExecutedOnce
    <2>4. ASSUME ~DrainExecute PROVE UNCHANGED <<executed, hostExecutions>>
      BY <2>4
      DEF Next, StoreStep, CallerStep, vars, hostVars, ModuleFails, ModuleReturns, QueueRequest,
          NextModule, AdmissionCancelled, BroadcastDone, DrainCancelled, DrainActivate, DrainReturn,
          DrainFinish, DrainExhausted, HTTPReturns, Push, Admit, QueueAgentWork, ActivateAgentWork,
          RecordAgentOutcome, AdmitAgentOutcome, FinishAgentWork, Complete, AbandonChild, End, Close,
          Cancel
    <2>5. CASE ~DrainExecute /\ op # "http"
      BY <2>1, <2>2, <2>4, <2>5 DEF ExecutedOnce, Kept
    <2>6. ASSUME NEW error \in HTTPOutcomes, HTTPReturns(error), op = "http"
          PROVE  ExecutedOnce'
      <3>1. tasks'[Top].result
        BY <2>6, RecordedKeeps
        DEF HTTPReturns, LineInv, TypeInv, CallInProgress, ActiveHost, ErrorCode, HTTPOutcomes
      <3>2. UNCHANGED <<executed, hostExecutions>>
        BY <2>6 DEF HTTPReturns, hostVars
      <3> QED
        BY <2>1, <2>2, <3>1, <3>2 DEF ExecutedOnce, Kept
    <2>7. CASE op = "http" /\ UNCHANGED <<tasks, stack, op, executed, hostExecutions>>
      BY <2>7 DEF ExecutedOnce, Top
    <2>8. op = "http" => \/ \E error \in HTTPOutcomes : HTTPReturns(error)
                         \/ UNCHANGED <<tasks, stack, op, executed, hostExecutions>>
      BY DEF Next, StoreStep, CallerStep, vars, taskVars, hostVars, callVars, ModuleFails, ModuleReturns,
          QueueRequest, NextModule, AdmissionCancelled, BroadcastDone, DrainCancelled, DrainActivate,
          Draining, DrainReturn, DrainFinish, DrainExhausted, DrainExecute, Working, Idle, Push, Admit,
          QueueAgentWork, ActivateAgentWork, RecordAgentOutcome, AdmitAgentOutcome, FinishAgentWork,
          Complete, AbandonChild, End, Close, Cancel
    <2>9. op = "http" => ~DrainExecute
      BY DEF DrainExecute, Draining
    <2> QED
      BY <2>3, <2>5, <2>6, <2>7, <2>8, <2>9
  <1>3. Init => LineInv
    BY TypeInit, LineInit DEF LineInv
  <1>4. LineInv /\ [Next]_vars => LineInv'
    BY TypeStep, LineStep DEF LineInv
  <1> QED
    BY <1>1, <1>2, <1>3, <1>4, PTL DEF Spec

-----------------------------------------------------------------------------
(* Events: what the broadcast loop has served, and partition metadata *)

\* The partitions before position n of the broadcast order, and it, have an
\* entry for the current event; the later ones have none yet.
ServedUpTo(n) ==
    \A i \in 1..Len(Definitions) :
        /\ i <= n => seen[Definitions[i]] = eventSequence
        /\ i > n => seen[Definitions[i]] < eventSequence

EventInv ==
    /\ FreshnessHonest
    /\ op = "broadcast" => ServedUpTo(defIndex - 1)
    /\ op = "queue" => ServedUpTo(defIndex)
    /\ op \in {"drain", "http"} => ServedUpTo(Len(Definitions))

\* Every partition has a place in the broadcast order, and only one.
LEMMA PartitionPlaces ==
    /\ Len(Definitions) \in Nat
    /\ \A i \in 1..Len(Definitions) : Definitions[i] \in Partition
    /\ \A p \in Partition : \E i \in 1..Len(Definitions) : p = Definitions[i]
    /\ \A i, j \in 1..Len(Definitions) : Definitions[i] = Definitions[j] => i = j
  BY StoreAssumption DEF Partition, StoreAssumption

LEMMA EventInit ==
    Init => EventInv
  BY DEF Init, EventInv, FreshnessHonest

\* One receiver is served: its metadata and entry move to the current event.
LEMMA ServedStep ==
    ASSUME TypeOK, EventInv, op = "broadcast", defIndex <= Len(Definitions),
           NEW m \in Metadata,
           knowledge' = [knowledge EXCEPT ![Receiver] = m],
           seen' = [seen EXCEPT ![Receiver] = eventSequence],
           UNCHANGED eventSequence,
           m.stale <=> m.failures > 0,
           m.failures <= eventSequence - m.lastProcessed,
           m.version <= m.lastUpdate,
           m.lastUpdate <= m.lastProcessed,
           m.lastProcessed <= eventSequence
    PROVE  /\ FreshnessHonest'
           /\ \A i \in 1..Len(Definitions) :
                  /\ i <= defIndex => seen'[Definitions[i]] = eventSequence
                  /\ i > defIndex => seen'[Definitions[i]] < eventSequence
  <1>1. Receiver \in Partition
    BY ReceiverIsPartition
  <1>2. /\ knowledge \in [Partition -> Metadata] /\ seen \in [Partition -> Nat]
        /\ eventSequence \in Nat /\ defIndex \in Nat \ {0}
    BY PartitionPlaces DEF TypeOK
  <1>3. FreshnessHonest'
    <2> SUFFICES ASSUME NEW p \in Partition
                 PROVE  /\ knowledge'[p].stale <=> knowledge'[p].failures > 0
                        /\ knowledge'[p].failures <= seen'[p] - knowledge'[p].lastProcessed
                        /\ knowledge'[p].version <= knowledge'[p].lastUpdate
                        /\ knowledge'[p].lastUpdate <= knowledge'[p].lastProcessed
                        /\ knowledge'[p].lastProcessed <= seen'[p]
                        /\ seen'[p] <= eventSequence'
      BY DEF FreshnessHonest
    <2>1. CASE p = Receiver
      <3>1. knowledge'[p] = m /\ seen'[p] = eventSequence
        BY <1>1, <1>2, <2>1
      <3> QED
        BY <1>2, <3>1
    <2>2. CASE p # Receiver
      <3>1. knowledge'[p] = knowledge[p] /\ seen'[p] = seen[p]
        BY <1>1, <1>2, <2>2
      <3> QED
        BY <3>1 DEF EventInv, FreshnessHonest
    <2> QED
      BY <2>1, <2>2
  <1>4. ASSUME NEW i \in 1..Len(Definitions)
        PROVE  /\ i <= defIndex => seen'[Definitions[i]] = eventSequence
               /\ i > defIndex => seen'[Definitions[i]] < eventSequence
    <2>1. Definitions[i] \in Partition /\ i \in Nat
      BY PartitionPlaces
    <2>2. Definitions[i] = Receiver <=> i = defIndex
      BY <1>2, PartitionPlaces DEF Receiver
    <2>3. seen'[Definitions[i]] = IF i = defIndex THEN eventSequence ELSE seen[Definitions[i]]
      BY <1>1, <1>2, <2>1, <2>2
    <2>4. ServedUpTo(defIndex - 1)
      BY DEF EventInv
    <2>5. /\ i <= defIndex - 1 => seen[Definitions[i]] = eventSequence
          /\ i > defIndex - 1 => seen[Definitions[i]] < eventSequence
      BY <2>4 DEF ServedUpTo
    <2> QED
      BY <1>2, <2>1, <2>3, <2>5
  <1> QED
    BY <1>3, <1>4

\* A new event finds every partition behind it.
LEMMA BroadcastServes ==
    ASSUME TypeOK, EventInv, Broadcast
    PROVE  EventInv'
  <1>1. /\ knowledge \in [Partition -> Metadata] /\ seen \in [Partition -> Nat]
        /\ eventSequence \in Nat
    BY DEF TypeOK
  <1>2. /\ eventSequence' = eventSequence + 1 /\ UNCHANGED <<knowledge, seen>>
        /\ op' = "broadcast" /\ defIndex' = 1
    BY DEF Broadcast
  <1>3. \A p \in Partition : seen[p] < eventSequence'
    BY <1>1, <1>2 DEF EventInv, FreshnessHonest
  <1>4. FreshnessHonest'
    BY <1>1, <1>2, <1>3 DEF EventInv, FreshnessHonest
  <1>5. ServedUpTo(defIndex - 1)'
    BY <1>2, <1>3, PartitionPlaces DEF ServedUpTo
  <1> QED
    BY <1>2, <1>4, <1>5 DEF EventInv

\* A step that admits no event and serves no partition, and is not part of the
\* broadcast loop either before or after.
LEMMA QuietEvents ==
    ASSUME EventInv, UNCHANGED <<knowledge, seen, eventSequence>>,
           \/ op' = "idle"
           \/ UNCHANGED <<op, defIndex>>
           \/ op \in {"drain", "http"} /\ op' \in {"drain", "http"}
    PROVE  EventInv'
  BY DEF EventInv, FreshnessHonest, ServedUpTo

LEMMA EventStep ==
    TypeInv /\ EventInv /\ [Next]_vars => EventInv'
  <1> SUFFICES ASSUME TypeInv, EventInv, [Next]_vars PROVE EventInv'
    OBVIOUS
  <1> USE DEF TypeInv
  <1>1. ASSUME ModuleFails PROVE EventInv'
    <2> DEFINE k == knowledge[Receiver]
               m == [k EXCEPT !.stale = TRUE, !.failures = k.failures + 1]
    <2>1. Receiver \in Partition /\ op = "broadcast" /\ defIndex <= Len(Definitions)
      BY <1>1, ReceiverIsPartition DEF ModuleFails
    <2>2. /\ k \in Metadata /\ seen[Receiver] \in Nat /\ eventSequence \in Nat
          /\ knowledge \in [Partition -> Metadata]
      BY <2>1 DEF TypeOK
    <2>3. /\ knowledge' = [knowledge EXCEPT ![Receiver] = m]
          /\ seen' = [seen EXCEPT ![Receiver] = eventSequence]
          /\ UNCHANGED eventSequence
      BY <1>1, <2>1, <2>2 DEF ModuleFails, Failed, Metadata
    <2>4. /\ m \in Metadata /\ m.stale = TRUE /\ m.failures = k.failures + 1
          /\ m.version = k.version
          /\ m.lastProcessed = k.lastProcessed
          /\ m.lastUpdate = k.lastUpdate
      <3> DEFINE stale == [k EXCEPT !.stale = TRUE]
      <3> HIDE DEF k
      <3>1. stale \in Metadata
        BY <2>2 DEF Metadata
      <3>2. m = [stale EXCEPT !.failures = k.failures + 1] /\ k.failures + 1 \in Nat
        BY <2>2 DEF Metadata
      <3>3. m \in Metadata
        <4> HIDE DEF stale, m
        <4> QED
          BY <3>1, <3>2 DEF Metadata
      <3>4. /\ m.stale = TRUE /\ m.failures = k.failures + 1
            /\ m.version = k.version
            /\ m.lastProcessed = k.lastProcessed
            /\ m.lastUpdate = k.lastUpdate
        BY <2>2 DEF Metadata
      <3> QED
        BY <3>3, <3>4
    <2>5. seen[Receiver] < eventSequence
      <3>1. ServedUpTo(defIndex - 1) /\ defIndex \in 1..Len(Definitions)
        BY <2>1, PartitionPlaces DEF EventInv, TypeOK
      <3> QED
        BY <3>1, PartitionPlaces DEF ServedUpTo, Receiver
    <2>6. /\ m.stale <=> m.failures > 0
          /\ m.failures <= eventSequence - m.lastProcessed
          /\ m.version <= m.lastUpdate
          /\ m.lastUpdate <= m.lastProcessed
          /\ m.lastProcessed <= eventSequence
      BY <2>1, <2>2, <2>4, <2>5 DEF EventInv, FreshnessHonest, Metadata
    <2> HIDE DEF m
    <2>7. /\ FreshnessHonest'
          /\ \A i \in 1..Len(Definitions) :
                 /\ i <= defIndex => seen'[Definitions[i]] = eventSequence
                 /\ i > defIndex => seen'[Definitions[i]] < eventSequence
      BY <2>1, <2>3, <2>4, <2>6, ServedStep
    <2>8. op' = "idle" \/ (op' = "broadcast" /\ defIndex' = defIndex + 1)
      BY <1>1, <2>1 DEF ModuleFails, Return
    <2>9. defIndex' = defIndex + 1 => ServedUpTo(defIndex - 1)'
      BY <2>3, <2>7, PartitionPlaces DEF ServedUpTo, TypeOK
    <2> QED
      BY <2>7, <2>8, <2>9 DEF EventInv
  <1>2. ASSUME NEW status \in ResultStatus,
               NEW reqs \in RequestLists, ModuleReturns(status, reqs)
        PROVE  EventInv'
    <2> DEFINE k == knowledge[Receiver]
               m == Advanced(k, status)
    <2>1. Receiver \in Partition /\ op = "broadcast" /\ defIndex <= Len(Definitions)
      BY <1>2, ReceiverIsPartition DEF ModuleReturns
    <2>2. k \in Metadata /\ seen[Receiver] \in Nat /\ eventSequence \in Nat
      BY <2>1 DEF TypeOK
    <2>3. m \in Metadata
      BY <2>2, AdvancedType
    <2>4. seen[Receiver] < eventSequence
      <3>1. ServedUpTo(defIndex - 1) /\ defIndex \in 1..Len(Definitions)
        BY <2>1, PartitionPlaces DEF EventInv, TypeOK
      <3> QED
        BY <3>1, PartitionPlaces DEF ServedUpTo, Receiver
    <2>5. /\ k.stale <=> k.failures > 0
          /\ k.failures <= seen[Receiver] - k.lastProcessed
          /\ k.version <= k.lastUpdate
          /\ k.lastUpdate <= k.lastProcessed
          /\ k.lastProcessed <= seen[Receiver]
      BY <2>1 DEF EventInv, FreshnessHonest
    <2>6. /\ m.stale <=> m.failures > 0
          /\ m.failures <= eventSequence - m.lastProcessed
          /\ m.version <= m.lastUpdate
          /\ m.lastUpdate <= m.lastProcessed
          /\ m.lastProcessed <= eventSequence
      <3> HIDE DEF k
      <3>1. CASE status = "ignored"
        BY <2>2, <2>4, <2>5, <3>1 DEF Advanced, Metadata
      <3>2. CASE status = "processed"
        <4>1. m = [k EXCEPT !.lastProcessed = eventSequence, !.stale = FALSE, !.failures = 0]
          BY <3>2 DEF Advanced
        <4> HIDE DEF m
        <4> QED
          BY <2>2, <2>4, <2>5, <4>1 DEF Metadata
      <3>3. CASE status = "mutation"
        BY <2>2, <2>4, <2>5, <3>3 DEF Advanced, Metadata
      <3> QED
        BY <3>1, <3>2, <3>3 DEF ResultStatus
    <2>7. /\ knowledge' = [knowledge EXCEPT ![Receiver] = m]
          /\ seen' = [seen EXCEPT ![Receiver] = eventSequence]
          /\ UNCHANGED <<eventSequence, defIndex>>
          /\ op' = "queue"
      BY <1>2, <2>1 DEF ModuleReturns, TypeOK
    <2> HIDE DEF m, k
    <2>8. /\ FreshnessHonest'
          /\ \A i \in 1..Len(Definitions) :
                 /\ i <= defIndex => seen'[Definitions[i]] = eventSequence
                 /\ i > defIndex => seen'[Definitions[i]] < eventSequence
      BY <2>1, <2>3, <2>6, <2>7, ServedStep
    <2>9. ServedUpTo(defIndex)'
      BY <2>7, <2>8 DEF ServedUpTo
    <2> QED
      BY <2>7, <2>8, <2>9 DEF EventInv
  <1>3. CASE NextModule
    <2>1. /\ op = "queue" /\ op' = "broadcast" /\ defIndex' = defIndex + 1
          /\ UNCHANGED <<knowledge, seen, eventSequence>>
      BY <1>3 DEF NextModule, eventVars
    <2>2. FreshnessHonest'
      BY <2>1 DEF EventInv, FreshnessHonest
    <2>3. defIndex \in Nat
      BY PartitionPlaces DEF TypeOK
    <2>4. ServedUpTo(defIndex - 1)'
      BY <2>1, <2>3 DEF EventInv, ServedUpTo
    <2> QED
      BY <2>1, <2>2, <2>4 DEF EventInv
  <1>4. CASE BroadcastDone
    <2>1. /\ op = "broadcast" /\ op' = "drain" /\ defIndex > Len(Definitions)
          /\ UNCHANGED <<knowledge, seen, eventSequence>>
      BY <1>4 DEF BroadcastDone, eventVars
    <2>2. FreshnessHonest'
      BY <2>1 DEF EventInv, FreshnessHonest
    <2>3. defIndex - 1 = Len(Definitions)
      BY <2>1, PartitionPlaces DEF TypeOK
    <2>4. ServedUpTo(Len(Definitions))'
      BY <2>1, <2>3 DEF EventInv, ServedUpTo
    <2> QED
      BY <2>1, <2>2, <2>4 DEF EventInv
  <1>5. CASE \/ Admit \/ AdmitAgentOutcome
             \/ \E error \in HTTPOutcomes : HTTPReturns(error) /\ Broadcast
    BY <1>5, BroadcastServes DEF Admit, AdmitAgentOutcome
  <1>6. ASSUME NEW error \in HTTPOutcomes, HTTPReturns(error) PROVE EventInv'
    <2>1. CASE cancelled
      BY <1>6, <2>1, QuietEvents DEF HTTPReturns, Return, eventVars
    <2> QED
      BY <1>5, <1>6, <2>1 DEF HTTPReturns
  <1>7. CASE \/ AdmissionCancelled \/ DrainCancelled \/ DrainReturn \/ DrainExhausted
    BY <1>7, QuietEvents
    DEF AdmissionCancelled, DrainCancelled, DrainReturn, DrainExhausted, Return, eventVars
  <1>8. CASE DrainExecute
    BY <1>8, QuietEvents DEF DrainExecute, Draining, eventVars
  <1>9. CASE QueueRequest
    <2>1. UNCHANGED <<knowledge, seen, eventSequence>>
      BY <1>9 DEF QueueRequest, eventVars
    <2>2. op' = "idle" \/ UNCHANGED <<op, defIndex>>
      BY <1>9 DEF QueueRequest, Return
    <2> QED
      BY <2>1, <2>2, QuietEvents
  <1>10. CASE \/ DrainActivate \/ DrainFinish
    BY <1>10, QuietEvents DEF DrainActivate, DrainFinish, eventVars, callVars
  <1>11. CASE \/ Push \/ ActivateAgentWork \/ FinishAgentWork \/ Complete \/ AbandonChild
              \/ Close \/ Cancel \/ UNCHANGED vars
              \/ \E n \in 1..MaxBatchCalls : QueueAgentWork(n)
              \/ \E error \in {"none", "outcome", "operation"} : RecordAgentOutcome(error)
              \/ \E status \in {"failed", "cancelled", "incomplete"} : End(status)
    <2>1. UNCHANGED <<knowledge, seen, eventSequence, op, defIndex>>
      BY <1>11 DEF Push, ActivateAgentWork, FinishAgentWork, Complete, AbandonChild, Close, Cancel,
         vars, QueueAgentWork, RecordAgentOutcome, End, eventVars, callVars
    <2> QED
      BY <2>1, QuietEvents
  <1> QED
    BY <1>1, <1>2, <1>3, <1>4, <1>5, <1>6, <1>7, <1>8, <1>9, <1>10, <1>11
    DEF Next, StoreStep, CallerStep

\* However often modules fail, a partition's metadata never claims more than its
\* module did.
THEOREM FreshnessHonestHolds == Spec => []FreshnessHonest
  <1>1. Init => TypeInv /\ EventInv
    BY TypeInit, EventInit
  <1>2. TypeInv /\ EventInv /\ [Next]_vars => (TypeInv /\ EventInv)'
    BY TypeStep, EventStep
  <1>3. EventInv => FreshnessHonest
    BY DEF EventInv
  <1> QED
    BY <1>1, <1>2, <1>3, PTL DEF Spec

\* An execution starts only when every module has an entry for the event.
THEOREM BroadcastFirstHolds == Spec => BroadcastFirst
  <1>1. Init => TypeInv /\ EventInv
    BY TypeInit, EventInit
  <1>2. TypeInv /\ EventInv /\ [Next]_vars => (TypeInv /\ EventInv)'
    BY TypeStep, EventStep
  <1>3. TypeInv /\ EventInv /\ [Next]_vars =>
            [hostExecutions' # hostExecutions => \A p \in Partition : seen[p] = eventSequence]_vars
    <2> SUFFICES ASSUME EventInv, [Next]_vars, hostExecutions' # hostExecutions
                 PROVE  \A p \in Partition : seen[p] = eventSequence
      OBVIOUS
    <2>1. DrainExecute
      BY DEF Next, StoreStep, CallerStep, vars, hostVars, ModuleFails, ModuleReturns, QueueRequest,
          NextModule, AdmissionCancelled, BroadcastDone, DrainCancelled, DrainActivate, DrainReturn,
          DrainFinish, DrainExhausted, HTTPReturns, Push, Admit, QueueAgentWork, ActivateAgentWork,
          RecordAgentOutcome, AdmitAgentOutcome, FinishAgentWork, Complete, AbandonChild, End, Close,
          Cancel
    <2>2. ServedUpTo(Len(Definitions))
      BY <2>1 DEF DrainExecute, Draining, EventInv
    <2> QED
      BY <2>2, PartitionPlaces DEF ServedUpTo
  <1> QED
    BY <1>1, <1>2, <1>3, PTL DEF Spec, BroadcastFirst

-----------------------------------------------------------------------------
(* What becomes of every record in a step *)

Becomes(t, status, result, error) ==
    /\ tasks'[t].kind = tasks[t].kind
    /\ tasks'[t].parent = tasks[t].parent
    /\ tasks'[t].work = tasks[t].work
    /\ tasks'[t].status = status
    /\ tasks'[t].result = result
    /\ tasks'[t].error = error

Stays(t) == Becomes(t, tasks[t].status, tasks[t].result, tasks[t].error)

LEMMA SameEffect ==
    ASSUME NEW t, tasks'[t] = tasks[t]
    PROVE  Stays(t)
  BY DEF Stays, Becomes

LEMMA StartedEffect ==
    ASSUME LineInv, stack # <<>>, NEW t \in PendingChildren(Top), Started(t)
    PROVE  /\ TaskId' = TaskId
           /\ Becomes(t, "running", tasks[t].result, tasks[t].error)
           /\ Becomes(Top, "waiting", tasks[Top].result, tasks[Top].error)
           /\ \A u \in TaskId \ {t, Top} : Stays(u)
           /\ t \in TaskId /\ Top \in TaskId /\ t # Top
           /\ stack' # <<>> /\ Top' = t
  <1>1. /\ t \in TaskId /\ Top \in TaskId /\ tasks[t].parent = Top /\ tasks[t].status = "pending"
        /\ tasks \in [TaskId -> Task] /\ Len(stack) \in Nat /\ stack \in Seq(TaskId)
    BY TopIsTask DEF LineInv, TypeInv, TypeOK, TaskId, PendingChildren
  <1>2. t # Top
    BY <1>1, TopRuns DEF LineInv, TypeInv
  <1>3. tasks' = [[tasks EXCEPT ![t] = [tasks[t] EXCEPT !.status = "running"]]
                      EXCEPT ![Top] = [tasks[Top] EXCEPT !.status = "waiting"]]
    BY <1>1, <1>2 DEF Started
  <1>4. \A u \in TaskId : u # t /\ u # Top => tasks'[u] = tasks[u]
    BY <1>1, <1>3
  <1>5. /\ tasks'[t] = [tasks[t] EXCEPT !.status = "running"]
        /\ tasks'[Top] = [tasks[Top] EXCEPT !.status = "waiting"]
    BY <1>1, <1>2, <1>3
  <1>6. TaskId' = TaskId
    BY <1>1, <1>3 DEF TaskId
  <1>7. /\ Becomes(t, "running", tasks[t].result, tasks[t].error)
        /\ Becomes(Top, "waiting", tasks[Top].result, tasks[Top].error)
    BY <1>1, <1>5 DEF Becomes, Task
  <1>8. stack' # <<>> /\ Top' = t
    <2>1. stack' = Append(stack, t)
      BY DEF Started
    <2>2. Len(stack') = Len(stack) + 1 /\ stack'[Len(stack) + 1] = t
      BY <1>1, <2>1
    <2> QED
      BY <1>1, <2>2 DEF Top
  <1> QED
    BY <1>1, <1>2, <1>4, <1>6, <1>7, <1>8, SameEffect

LEMMA SettledEffect ==
    ASSUME LineInv, stack # <<>>,
           NEW status \in Terminal, NEW error \in ErrorCode, Settled(status, error)
    PROVE  /\ TaskId' = TaskId
           /\ Top \in TaskId
           /\ Becomes(Top, status, tasks[Top].result, error)
           /\ \A u \in TaskId \ {Top} :
                  \/ Stays(u)
                  \/ /\ tasks[u].status = "waiting"
                     /\ Becomes(u, "running", tasks[u].result, tasks[u].error)
  <1> DEFINE n == Len(stack)
             below == stack[n - 1]
  <1>1. Top \in TaskId /\ n \in Nat \ {0} /\ tasks \in [TaskId -> Task] /\ stack \in Seq(TaskId)
    BY TopIsTask DEF LineInv, TypeInv, TypeOK, TaskId
  <1>2. n # 1 => below \in TaskId /\ tasks[below].status = "waiting" /\ below # Top
    <2>1. \A i \in 1..n : /\ stack[i] \in TaskId
                          /\ i # n => tasks[stack[i]].status = "waiting"
                          /\ i # n => stack[i] # stack[n]
      BY StackFacts DEF LineInv, TypeInv
    <2>2. n \in 1..n /\ (n # 1 => n - 1 \in 1..n /\ n - 1 # n)
      <3>1. n \in Nat \ {0}
        BY <1>1
      <3> HIDE DEF n
      <3> QED
        BY ONLY <3>1
    <2> QED
      BY <2>1, <2>2 DEF Top
  <1> DEFINE done == [tasks EXCEPT ![Top].status = status, ![Top].error = error]
  <1>3. tasks' = IF n = 1 THEN done ELSE [done EXCEPT ![below].status = "running"]
    <2>1. /\ SubSeq(stack, 1, n - 1) = <<>> <=> n = 1
          /\ n # 1 => SubSeq(stack, 1, n - 1)[Len(SubSeq(stack, 1, n - 1))] = below
      <3> HIDE DEF n
      <3> QED
        BY <1>1
    <2> QED
      BY <2>1 DEF Settled
  <1>4. /\ DOMAIN done = TaskId
        /\ done[Top] = [tasks[Top] EXCEPT !.status = status, !.error = error]
        /\ \A u \in TaskId : u # Top => done[u] = tasks[u]
    BY <1>1
  <1>5. TaskId' = TaskId
    <2> HIDE DEF done
    <2> QED
      BY <1>3, <1>4 DEF TaskId
  <1>6. Becomes(Top, status, tasks[Top].result, error)
    <2>1. tasks'[Top] = done[Top]
      <3> HIDE DEF done, n, below
      <3> QED
        BY <1>1, <1>2, <1>3, <1>4
    <2>2. tasks'[Top] = [tasks[Top] EXCEPT !.status = status, !.error = error]
      BY <1>4, <2>1
    <2> HIDE DEF done
    <2> QED
      BY <1>1, <2>2 DEF Becomes, Task
  <1>7. ASSUME NEW u \in TaskId \ {Top}
        PROVE  \/ Stays(u)
               \/ /\ tasks[u].status = "waiting"
                  /\ Becomes(u, "running", tasks[u].result, tasks[u].error)
    <2> HIDE DEF done, n, below
    <2>1. CASE n = 1 \/ u # below
      <3>1. tasks'[u] = tasks[u]
        BY <1>3, <1>4, <2>1
      <3> QED
        BY <3>1, SameEffect
    <2>2. CASE n # 1 /\ u = below
      <3>1. tasks'[u] = [tasks[u] EXCEPT !.status = "running"]
        BY <1>2, <1>3, <1>4, <2>2
      <3>2. Becomes(u, "running", tasks[u].result, tasks[u].error)
        BY <1>1, <3>1 DEF Becomes, Task
      <3> QED
        BY <1>2, <2>2, <3>2
    <2> QED
      BY <2>1, <2>2
  <1> QED
    BY <1>1, <1>5, <1>6, <1>7

LEMMA EndedEffect ==
    ASSUME TypeOK, NEW status \in Terminal, Ended(status)
    PROVE  /\ TaskId' = TaskId
           /\ \A u \in TaskId :
                  IF Live(u) THEN Becomes(u, status, tasks[u].result, "ended") ELSE Stays(u)
           /\ stack' = <<>>
  <1>1. tasks \in [TaskId -> Task]
    BY DEF TypeOK, TaskId
  <1>2. /\ TaskId' = TaskId
        /\ \A u \in TaskId :
               tasks'[u] = IF Live(u) THEN [tasks[u] EXCEPT !.status = status, !.error = "ended"]
                           ELSE tasks[u]
    BY DEF Ended, TaskId
  <1>3. ASSUME NEW u \in TaskId, Live(u) PROVE Becomes(u, status, tasks[u].result, "ended")
    <2>1. tasks'[u] = [tasks[u] EXCEPT !.status = status, !.error = "ended"]
      BY <1>2, <1>3
    <2> QED
      BY <1>1, <2>1 DEF Becomes, Task
  <1>4. ASSUME NEW u \in TaskId, ~Live(u) PROVE Stays(u)
    BY <1>2, <1>4, SameEffect
  <1> QED
    BY <1>2, <1>3, <1>4 DEF Ended

LEMMA RecordedEffect ==
    ASSUME TypeOK, stack # <<>>, NEW error \in ErrorCode,
           tasks' = [tasks EXCEPT ![Top].result = TRUE, ![Top].error = error]
    PROVE  /\ TaskId' = TaskId
           /\ Top \in TaskId
           /\ Becomes(Top, tasks[Top].status, TRUE, error)
           /\ \A u \in TaskId \ {Top} : Stays(u)
  <1>1. Top \in TaskId /\ tasks \in [TaskId -> Task]
    BY TopIsTask DEF TypeOK, TaskId
  <1>2. /\ TaskId' = TaskId
        /\ tasks'[Top] = [tasks[Top] EXCEPT !.result = TRUE, !.error = error]
        /\ \A u \in TaskId : u # Top => tasks'[u] = tasks[u]
    BY <1>1 DEF TaskId
  <1>3. Becomes(Top, tasks[Top].status, TRUE, error)
    BY <1>1, <1>2 DEF Becomes, Task
  <1> QED
    BY <1>1, <1>2, <1>3, SameEffect

LEMMA PushedEffect ==
    ASSUME LineInv, Push
    PROVE  LET id == taskSequence + 1
               parent == IF stack = <<>> THEN 0 ELSE Top
           IN  /\ TaskId' = TaskId \cup {id} /\ id \notin TaskId
               /\ tasks'[id] = NewTask("reasoning", parent, "running", NoWork)
               /\ \A u \in TaskId : u # parent => Stays(u)
               /\ parent # 0 => /\ parent \in TaskId
                                /\ Becomes(parent, "waiting", tasks[parent].result, tasks[parent].error)
               /\ stack' # <<>> /\ Top' = id
  <1> DEFINE id == taskSequence + 1
             parent == IF stack = <<>> THEN 0 ELSE Top
             task == NewTask("reasoning", parent, "running", NoWork)
             child == Put(tasks, id, task)
  <1>1. id \notin TaskId /\ 0 \notin TaskId /\ tasks \in [TaskId -> Task] /\ Len(stack) \in Nat
    BY DEF LineInv, TypeInv, TypeOK, TaskId
  <1>2. /\ DOMAIN child = TaskId \cup {id} /\ child[id] = task
        /\ \A u \in TaskId : child[u] = tasks[u]
    BY <1>1 DEF Put, TaskId
  <1>3. tasks' = IF parent = 0 THEN child ELSE [child EXCEPT ![parent].status = "waiting"]
    BY DEF Push
  <1>4. parent # 0 => parent \in TaskId /\ parent # id
    BY <1>1, TopIsTask DEF LineInv, TypeInv
  <1>5. stack' # <<>> /\ Top' = id
    <2>1. stack' = Append(stack, id)
      BY DEF Push
    <2>2. Len(stack') = Len(stack) + 1 /\ stack'[Len(stack) + 1] = id
      BY <2>1 DEF LineInv, TypeInv, TypeOK
    <2> QED
      BY <1>1, <2>2 DEF Top
  <1> HIDE DEF child, task, id, parent
  <1>6. TaskId' = TaskId \cup {id} /\ tasks'[id] = task
    BY <1>2, <1>3, <1>4 DEF TaskId
  <1>7. \A u \in TaskId : u # parent => Stays(u)
    BY <1>1, <1>2, <1>3, <1>4, SameEffect
  <1>8. parent # 0 => Becomes(parent, "waiting", tasks[parent].result, tasks[parent].error)
    <2> SUFFICES ASSUME parent # 0
                 PROVE  Becomes(parent, "waiting", tasks[parent].result, tasks[parent].error)
      OBVIOUS
    <2>1. tasks'[parent] = [tasks[parent] EXCEPT !.status = "waiting"]
      BY <1>2, <1>3, <1>4
    <2> QED
      BY <1>1, <1>4, <2>1 DEF Becomes, Task
  <1> QED
    BY <1>1, <1>4, <1>5, <1>6, <1>7, <1>8 DEF task, id, parent

LEMMA QueuedEffect ==
    ASSUME LineInv, NEW n \in 1..MaxBatchCalls, QueueAgentWork(n)
    PROVE  LET ids == taskSequence + 1 .. taskSequence + n
           IN  /\ TaskId' = TaskId \cup ids /\ ids \cap TaskId = {}
               /\ \A u \in TaskId : Stays(u)
               /\ \A u \in ids : tasks'[u] = NewTask("agent", Top, "pending", NoWork)
  <1> DEFINE ids == taskSequence + 1 .. taskSequence + n
  <1>1. ids \cap TaskId = {}
    BY StoreAssumption DEF LineInv, TypeInv, TypeOK, TaskId
  <1>2. /\ TaskId' = TaskId \cup ids
        /\ \A u \in TaskId : tasks'[u] = tasks[u]
        /\ \A u \in ids : tasks'[u] = NewTask("agent", Top, "pending", NoWork)
    BY <1>1 DEF QueueAgentWork, TaskId
  <1> QED
    BY <1>1, <1>2, SameEffect

\* A request that becomes a task, whatever is left of the result it came with.
Asked(id, r) ==
    /\ op = "queue" /\ requests # <<>> /\ stack # <<>>
    /\ r = Head(requests) /\ r \in Request
    /\ Receiver \in Partition
    /\ Holders(Receiver, r.id) = {}
    /\ ~cancelled
    /\ id = taskSequence + 1 /\ id \notin TaskId
    /\ TaskId' = TaskId \cup {id}
    /\ tasks'[id] = NewTask("host", Top, "pending",
                            [partition |-> Receiver, id |-> r.id, payload |-> r.payload])
    /\ \A u \in TaskId : Stays(u)
    /\ UNCHANGED <<stack, op>>

LEMMA AskedEffect ==
    ASSUME LineInv, QueueRequest
    PROVE  UNCHANGED tasks \/ \E id, r : Asked(id, r)
  <1> DEFINE r == Head(requests)
             id == taskSequence + 1
             work == [partition |-> Receiver, id |-> r.id, payload |-> r.payload]
             task == NewTask("host", Top, "pending", work)
  <1> SUFFICES ASSUME ~UNCHANGED tasks PROVE Asked(id, r)
    OBVIOUS
  <1>1. /\ op = "queue" /\ requests # <<>> /\ stack # <<>> /\ eventTask = Top
        /\ defIndex <= Len(Definitions)
    BY DEF QueueRequest, LineInv, TypeInv, CallInProgress
  <1>2. id \notin TaskId /\ r \in Request /\ Receiver \in Partition
    BY <1>1, ReceiverIsPartition DEF LineInv, TypeInv, TypeOK, TaskId
  <1>3. /\ Holders(Receiver, r.id) = {} /\ ~cancelled
        /\ tasks' = Put(tasks, id, task)
        /\ UNCHANGED <<stack, op>>
    BY <1>1 DEF QueueRequest, taskVars
  <1>4. TaskId' = TaskId \cup {id} /\ tasks'[id] = task /\ \A u \in TaskId : tasks'[u] = tasks[u]
    BY <1>2, <1>3 DEF Put, TaskId
  <1> QED
    BY <1>1, <1>2, <1>3, <1>4, SameEffect DEF Asked

-----------------------------------------------------------------------------
(* Which task starts *)

\* A step that starts task t: its context is live, and t is the oldest pending
\* child of the active task, or a new one where no child was pending.
Starts(t) ==
    /\ tasks'[t].status = "running"
    /\ t \notin TaskId \/ tasks[t].status = "pending"

MayStart(t) ==
    /\ ~cancelled
    /\ \/ TaskId = {}
       \/ /\ stack # <<>> /\ tasks'[t].parent = Top
          /\ \A u \in PendingChildren(Top) : t <= u

LEMMA StartStep ==
    LineInv /\ [Next]_vars => \A t \in TaskId' : Starts(t) => MayStart(t)
  <1> DEFINE Goal == \A t \in TaskId' : Starts(t) => MayStart(t)
  <1> SUFFICES ASSUME LineInv, [Next]_vars PROVE Goal
    OBVIOUS
  <1>0. ASSUME TaskId' = TaskId,
               \A t \in TaskId : tasks[t].status = "pending" => tasks'[t].status # "running"
        PROVE  Goal
    BY <1>0 DEF Starts
  <1>1. ASSUME UNCHANGED tasks PROVE Goal
    BY <1>0, <1>1 DEF TaskId
  <1>2. CASE \/ ModuleFails \/ NextModule \/ AdmissionCancelled \/ BroadcastDone \/ DrainCancelled
             \/ DrainReturn \/ DrainExecute \/ Admit \/ AdmitAgentOutcome \/ Close \/ Cancel
             \/ \E status \in ResultStatus, reqs \in RequestLists : ModuleReturns(status, reqs)
             \/ UNCHANGED vars
    BY <1>1, <1>2
    DEF ModuleFails, ModuleReturns, NextModule, AdmissionCancelled, BroadcastDone, DrainCancelled,
        DrainReturn, DrainExecute, Admit, AdmitAgentOutcome, Close, Cancel, vars, taskVars
  <1>3. CASE QueueRequest
    <2>1. CASE UNCHANGED tasks
      BY <1>1, <2>1
    <2>2. ASSUME NEW id, NEW r, Asked(id, r) PROVE Goal
      BY <2>2 DEF Asked, Starts, Stays, Becomes, NewTask
    <2> QED
      BY <1>3, <2>1, <2>2, AskedEffect
  <1>4. ASSUME NEW t \in TaskId, stack # <<>>, IsNextChild(t, Top), Started(t), ~cancelled
        PROVE  Goal
    <2>1. /\ TaskId' = TaskId
          /\ t \in PendingChildren(Top) /\ \A u \in PendingChildren(Top) : t <= u
          /\ tasks'[t].parent = Top
      BY <1>4, StartedEffect DEF IsNextChild, PendingChildren, Becomes
    <2>2. \A u \in TaskId \ {t} : tasks[u].status = "pending" => tasks'[u].status # "running"
      BY <1>4, <2>1, StartedEffect DEF Becomes, Stays
    <2> QED
      BY <1>4, <2>1, <2>2 DEF Starts, MayStart
  <1>5. CASE DrainActivate \/ ActivateAgentWork
    BY <1>4, <1>5 DEF DrainActivate, Draining, HostChildNext, ActivateAgentWork, Working, Reasoning
  <1>6. ASSUME stack # <<>>, NEW status \in Terminal, NEW error \in ErrorCode, Settled(status, error)
        PROVE  Goal
    <2>1. /\ TaskId' = TaskId
          /\ \A u \in TaskId : tasks[u].status = "pending" => tasks'[u].status # "running"
      BY <1>6, SettledEffect DEF Becomes, Stays, Terminal
    <2> QED
      BY <1>0, <2>1
  <1>7. CASE DrainFinish \/ FinishAgentWork
    <2>1. stack # <<>> /\ tasks[Top].error \in ErrorCode
      BY <1>7, TopIsTask DEF DrainFinish, ActiveHost, FinishAgentWork, ActiveAgent, Task, LineInv, TypeInv
    <2>2. PICK status \in Terminal : Settled(status, tasks[Top].error)
      BY <1>7 DEF DrainFinish, FinishAgentWork, SettledOutcome, Terminal
    <2> QED
      BY <1>6, <2>1, <2>2
  <1>8. CASE Complete \/ AbandonChild
    BY <1>6, <1>8 DEF Complete, AbandonChild, Reasoning, Terminal, ErrorCode
  <1>9. ASSUME NEW status \in Terminal, Ended(status) PROVE Goal
    <2>1. /\ TaskId' = TaskId
          /\ \A u \in TaskId : tasks[u].status = "pending" => tasks'[u].status # "running"
      BY <1>9, EndedEffect DEF Becomes, Stays, Live, Terminal, LineInv, TypeInv
    <2> QED
      BY <1>0, <2>1
  <1>10. CASE DrainExhausted \/ \E status \in {"failed", "cancelled", "incomplete"} : End(status)
    BY <1>9, <1>10 DEF DrainExhausted, End, Terminal
  <1>11. ASSUME stack # <<>>, NEW error \in ErrorCode,
                tasks' = [tasks EXCEPT ![Top].result = TRUE, ![Top].error = error]
         PROVE  Goal
    <2>1. /\ TaskId' = TaskId
          /\ \A u \in TaskId : tasks[u].status = "pending" => tasks'[u].status # "running"
      BY <1>11, RecordedEffect DEF Becomes, Stays, LineInv, TypeInv
    <2> QED
      BY <1>0, <2>1
  <1>12. CASE \/ \E error \in HTTPOutcomes : HTTPReturns(error)
              \/ \E error \in {"none", "outcome", "operation"} : RecordAgentOutcome(error)
    BY <1>11, <1>12
    DEF HTTPReturns, LineInv, TypeInv, CallInProgress, ActiveHost, ErrorCode, HTTPOutcomes,
        RecordAgentOutcome, ActiveAgent
  <1>13. CASE Push
    <2> DEFINE id == taskSequence + 1
               parent == IF stack = <<>> THEN 0 ELSE Top
    <2>1. /\ TaskId' = TaskId \cup {id}
          /\ tasks'[id] = NewTask("reasoning", parent, "running", NoWork)
          /\ \A u \in TaskId : u # parent => Stays(u)
          /\ parent # 0 => Becomes(parent, "waiting", tasks[parent].result, tasks[parent].error)
      BY <1>13, PushedEffect
    <2>2. TaskId = {} \/ (stack # <<>> /\ parent = Top /\ PendingChildren(Top) = {})
      BY <1>13 DEF Push, BetweenBatches, Reasoning
    <2>3. ~cancelled /\ 0 \notin TaskId
      BY <1>13 DEF Push, Working, LineInv, TypeInv, TypeOK, TaskId
    <2> HIDE DEF id, parent
    <2>4. tasks'[id].parent = parent
      BY <2>1 DEF NewTask
    <2>5. \A u \in TaskId : tasks[u].status = "pending" => tasks'[u].status # "running"
      BY <2>1, <2>3 DEF Becomes, Stays
    <2> QED
      BY <2>1, <2>2, <2>3, <2>4, <2>5 DEF Starts, MayStart
  <1>14. ASSUME NEW n \in 1..MaxBatchCalls, QueueAgentWork(n) PROVE Goal
    <2> DEFINE ids == taskSequence + 1 .. taskSequence + n
    <2>1. /\ TaskId' = TaskId \cup ids
          /\ \A u \in TaskId : tasks[u].status = "pending" => tasks'[u].status # "running"
          /\ \A u \in ids : tasks'[u].status = "pending"
      BY <1>14, QueuedEffect DEF Becomes, Stays, NewTask
    <2> HIDE DEF ids
    <2> QED
      BY <2>1 DEF Starts
  <1> QED
    BY <1>2, <1>3, <1>5, <1>7, <1>8, <1>10, <1>12, <1>13, <1>14 DEF Next, StoreStep, CallerStep

\* A task starts only when every older sibling has settled: the oldest pending
\* child of the active task starts first, and no child of the active task is
\* running or waiting.
THEOREM CreationOrderHolds == Spec => CreationOrder
  <1>1. LineInv /\ [Next]_vars =>
            [\A t \in TaskId' :
                Starts(t) => \A u \in TaskId : tasks[u].parent = tasks'[t].parent /\ u < t => ~Live(u)]_vars
    <2> SUFFICES ASSUME LineInv, [Next]_vars, NEW t \in TaskId', Starts(t),
                        NEW u \in TaskId, tasks[u].parent = tasks'[t].parent, u < t, Live(u)
                 PROVE  FALSE
      OBVIOUS
    <2> DEFINE n == Len(stack)
    <2>1. stack # <<>> /\ tasks[u].parent = Top /\ \A v \in PendingChildren(Top) : t <= v
      BY StartStep DEF MayStart
    <2>2. /\ n \in Nat \ {0}
          /\ Top = stack[n]
          /\ \A i \in 1..n : stack[i] \in TaskId /\ stack[i] \in Nat \ {0}
          /\ \A i \in 1..n : tasks[stack[i]].parent = IF i = 1 THEN 0 ELSE stack[i - 1]
          /\ \A i, j \in 1..n : i < j => stack[i] < stack[j]
          /\ OnStack = {stack[i] : i \in 1..n}
      BY <2>1, StackFacts DEF LineInv, TypeInv
    <2> HIDE DEF n
    <2>3. t \in Nat /\ u \in Nat
      <3>1. TypeInv'
        BY TypeStep DEF LineInv
      <3> QED
        BY <3>1 DEF LineInv, TypeInv, TypeOK, TaskId
    <2>4. u \notin OnStack
      <3> SUFFICES ASSUME NEW i \in 1..n, u = stack[i] PROVE FALSE
        BY <2>2
      <3>1. n \in 1..n /\ i \in Nat
        BY <2>2
      <3>2. i # 1 /\ stack[i - 1] = stack[n]
        BY <2>1, <2>2, <3>1
      <3>3. i - 1 \in 1..n /\ i - 1 < n
        BY <2>2, <3>1, <3>2
      <3>4. stack[i - 1] < stack[n] /\ stack[n] \in Nat
        BY <2>2, <3>1, <3>3
      <3> QED
        BY <3>2, <3>4
    <2>5. tasks[u].status = "pending"
      BY <2>4 DEF Live, LineInv, InLine, UnsettledInPlace
    <2>6. t <= u
      BY <2>1, <2>5 DEF PendingChildren
    <2> QED
      BY <2>3, <2>6
  <1>2. Init => LineInv
    BY TypeInit, LineInit DEF LineInv
  <1>3. LineInv /\ [Next]_vars => LineInv'
    BY TypeStep, LineStep DEF LineInv
  <1>4. LineInv /\ [Next]_vars =>
            [\A t \in TaskId' :
                /\ tasks'[t].status = "running"
                /\ t \notin TaskId \/ tasks[t].status = "pending"
                => \A u \in TaskId : tasks[u].parent = tasks'[t].parent /\ u < t => ~Live(u)]_vars
    BY <1>1 DEF Starts
  <1> QED
    BY <1>2, <1>3, <1>4, PTL DEF Spec, CreationOrder

\* Once the context is done no event is admitted, no task is created or started
\* and nothing more is executed.
THEOREM CancelStopsHolds == Spec => CancelStops
  <1>1. LineInv /\ [Next]_vars =>
            [cancelled =>
                 /\ eventSequence' = eventSequence
                 /\ executed' = executed
                 /\ \A t \in TaskId' :
                        t \in TaskId /\ (tasks'[t].status = "running" => tasks[t].status # "pending")]_vars
    <2> SUFFICES ASSUME LineInv, [Next]_vars, cancelled
                 PROVE  /\ eventSequence' = eventSequence
                        /\ executed' = executed
                        /\ \A t \in TaskId' :
                               t \in TaskId /\ (tasks'[t].status = "running" => tasks[t].status # "pending")
      OBVIOUS
    <2>1. /\ ~DrainExecute /\ ~Push /\ ~Admit /\ ~AdmitAgentOutcome
          /\ ~DrainActivate /\ ~ActivateAgentWork
          /\ \A n \in 1..MaxBatchCalls : ~QueueAgentWork(n)
          /\ \A status \in ResultStatus, reqs \in RequestLists : ~ModuleReturns(status, reqs)
      BY DEF DrainExecute, Draining, Push, Admit, AdmitAgentOutcome, DrainActivate, ActivateAgentWork,
          QueueAgentWork, ModuleReturns, Working
    <2>2. UNCHANGED <<eventSequence, executed>>
      BY <2>1
      DEF Next, StoreStep, CallerStep, vars, hostVars, eventVars, ModuleFails, Failed, QueueRequest,
          NextModule, AdmissionCancelled, BroadcastDone, DrainCancelled, DrainReturn, DrainFinish,
          DrainExhausted, HTTPReturns, RecordAgentOutcome, FinishAgentWork, Complete, AbandonChild,
          End, Close, Cancel
    <2>3. \A t \in TaskId' : ~Starts(t)
      BY StartStep DEF MayStart
    <2>4. TaskId' = TaskId
      <3>1. CASE \/ ModuleFails \/ NextModule \/ AdmissionCancelled \/ BroadcastDone \/ DrainCancelled
                 \/ DrainReturn \/ Close \/ Cancel \/ QueueRequest \/ UNCHANGED vars
        BY <3>1
        DEF ModuleFails, NextModule, AdmissionCancelled, BroadcastDone, DrainCancelled, DrainReturn,
            Close, Cancel, QueueRequest, vars, taskVars, TaskId
      <3>2. ASSUME stack # <<>>, NEW status \in Terminal, NEW error \in ErrorCode, Settled(status, error)
            PROVE  TaskId' = TaskId
        BY <3>2, SettledEffect
      <3>3. CASE DrainFinish \/ FinishAgentWork
        <4>1. stack # <<>> /\ tasks[Top].error \in ErrorCode
          BY <3>3, TopIsTask DEF DrainFinish, ActiveHost, FinishAgentWork, ActiveAgent, Task, LineInv, TypeInv
        <4>2. PICK status \in Terminal : Settled(status, tasks[Top].error)
          BY <3>3 DEF DrainFinish, FinishAgentWork, SettledOutcome, Terminal
        <4> QED
          BY <3>2, <4>1, <4>2
      <3>4. CASE Complete \/ AbandonChild
        BY <3>2, <3>4 DEF Complete, AbandonChild, Reasoning, Terminal, ErrorCode
      <3>5. CASE DrainExhausted \/ \E status \in {"failed", "cancelled", "incomplete"} : End(status)
        BY <3>5, EndedEffect DEF DrainExhausted, End, Terminal, LineInv, TypeInv
      <3>6. CASE \/ \E error \in HTTPOutcomes : HTTPReturns(error)
                 \/ \E error \in {"none", "outcome", "operation"} : RecordAgentOutcome(error)
        BY <3>6, RecordedEffect
        DEF HTTPReturns, LineInv, TypeInv, CallInProgress, ActiveHost, ErrorCode, HTTPOutcomes,
            RecordAgentOutcome, ActiveAgent
      <3> QED
        BY <2>1, <3>1, <3>3, <3>4, <3>5, <3>6 DEF Next, StoreStep, CallerStep
    <2> QED
      BY <2>2, <2>3, <2>4 DEF Starts
  <1>2. Init => LineInv
    BY TypeInit, LineInit DEF LineInv
  <1>3. LineInv /\ [Next]_vars => LineInv'
    BY TypeStep, LineStep DEF LineInv
  <1> QED
    BY <1>1, <1>2, <1>3, PTL DEF Spec, CancelStops

-----------------------------------------------------------------------------
(* Outcomes: recorded, broadcast, completed *)

OutcomeInv ==
    /\ CompletedWasObserved
    /\ op = "http" => Top \in executed
    /\ \A t \in TaskId :
           tasks[t].kind = "host" /\ tasks[t].result => t \in observed \/ cancelled

LEMMA OutcomeInit ==
    Init => OutcomeInv
  BY DEF Init, OutcomeInv, CompletedWasObserved, TaskId

\* A step that records and broadcasts nothing, and completes external work only
\* if its outcome was broadcast.
LEMMA OutcomeStays ==
    ASSUME TypeOK, OutcomeInv, UNCHANGED <<executed, observed>>, cancelled => cancelled',
           op' # "http" \/ UNCHANGED <<op, stack>>,
           \A t \in TaskId :
               /\ t \in TaskId'
               /\ tasks'[t].kind = tasks[t].kind /\ tasks'[t].result = tasks[t].result
               /\ tasks[t].kind # "reasoning" /\ tasks'[t].status = "completed" =>
                      tasks[t].status = "completed" \/ t \in observed,
           \A t \in TaskId' \ TaskId : tasks'[t].status # "completed" /\ ~tasks'[t].result
    PROVE  OutcomeInv'
  <1>1. observed \subseteq TaskId
    BY DEF TypeOK, TaskId
  <1>2. CompletedWasObserved'
    <2> SUFFICES ASSUME NEW t \in TaskId'
                 PROVE  /\ tasks'[t].kind # "reasoning" /\ tasks'[t].status = "completed" => t \in observed'
                        /\ t \in observed' => tasks'[t].result
                        /\ tasks'[t].kind = "host" /\ tasks'[t].result => t \in executed'
      BY DEF CompletedWasObserved
    <2>1. CASE t \in TaskId
      BY <2>1 DEF OutcomeInv, CompletedWasObserved
    <2>2. CASE t \notin TaskId
      BY <1>1, <2>2
    <2> QED
      BY <2>1, <2>2
  <1>3. op' = "http" => Top' \in executed'
    BY DEF OutcomeInv, Top
  <1>4. \A t \in TaskId' :
            tasks'[t].kind = "host" /\ tasks'[t].result => t \in observed' \/ cancelled'
    BY DEF OutcomeInv
  <1> QED
    BY <1>2, <1>3, <1>4 DEF OutcomeInv

LEMMA OutcomeStep ==
    LineInv /\ OutcomeInv /\ [Next]_vars => OutcomeInv'
  <1> SUFFICES ASSUME LineInv, OutcomeInv, [Next]_vars PROVE OutcomeInv'
    OBVIOUS
  <1>0. TypeOK
    BY DEF LineInv, TypeInv
  <1>1. ASSUME UNCHANGED <<tasks, executed, observed>>, cancelled => cancelled',
               op' # "http" \/ UNCHANGED <<op, stack>>
        PROVE  OutcomeInv'
    BY <1>0, <1>1, OutcomeStays DEF TaskId
  <1>2. CASE \/ ModuleFails \/ NextModule \/ AdmissionCancelled \/ BroadcastDone \/ DrainCancelled
             \/ DrainReturn \/ Admit
             \/ \E status \in ResultStatus, reqs \in RequestLists : ModuleReturns(status, reqs)
    <2>1. UNCHANGED <<tasks, executed, observed, cancelled>>
      BY <1>2
      DEF ModuleFails, Failed, ModuleReturns, NextModule, AdmissionCancelled, BroadcastDone, DrainCancelled,
          DrainReturn, Admit, taskVars, hostVars, eventVars, envVars
    <2>2. op' # "http"
      BY <1>2
      DEF ModuleFails, ModuleReturns, NextModule, AdmissionCancelled, BroadcastDone, DrainCancelled,
          DrainReturn, Admit, Broadcast, Return
    <2> QED
      BY <1>1, <2>1, <2>2
  <1>3. CASE Close \/ Cancel \/ UNCHANGED vars
    BY <1>1, <1>3 DEF Close, Cancel, vars, taskVars, hostVars, eventVars, callVars, envVars
  <1>4. CASE QueueRequest
    <2>1. UNCHANGED <<executed, observed, cancelled>> /\ op' # "http"
      BY <1>4 DEF QueueRequest, hostVars, eventVars, envVars, Return
    <2>2. CASE UNCHANGED tasks
      BY <1>1, <2>1, <2>2
    <2>3. ASSUME NEW id, NEW r, Asked(id, r) PROVE OutcomeInv'
      <3>1. TaskId' = TaskId \cup {id} /\ \A u \in TaskId : Stays(u)
        BY <2>3 DEF Asked
      <3>2. tasks'[id].status # "completed" /\ ~tasks'[id].result
        BY <2>3 DEF Asked, NewTask
      <3> QED
        BY <1>0, <2>1, <3>1, <3>2, OutcomeStays DEF Stays, Becomes
    <2> QED
      BY <1>4, <2>2, <2>3, AskedEffect
  <1>5. ASSUME stack # <<>>, NEW t \in PendingChildren(Top), Started(t),
               UNCHANGED <<executed, observed, cancelled, op>>, op # "http"
        PROVE  OutcomeInv'
    <2>1. TaskId' = TaskId /\ \A u \in TaskId :
              /\ tasks'[u].kind = tasks[u].kind /\ tasks'[u].result = tasks[u].result
              /\ tasks'[u].status = "completed" => tasks[u].status = "completed"
      BY <1>5, StartedEffect DEF Stays, Becomes
    <2> QED
      BY <1>0, <1>5, <2>1, OutcomeStays
  <1>6. CASE DrainActivate \/ ActivateAgentWork
    BY <1>5, <1>6
    DEF DrainActivate, Draining, HostChildNext, IsNextChild, ActivateAgentWork, Working, Idle, Reasoning,
        hostVars, eventVars, callVars, envVars
  <1>7. ASSUME stack # <<>>, NEW status \in Terminal, NEW error \in ErrorCode, Settled(status, error),
               UNCHANGED <<executed, observed, cancelled, op>>, op # "http",
               tasks[Top].kind # "reasoning" /\ status = "completed" => Top \in observed
        PROVE  OutcomeInv'
    <2>1. TaskId' = TaskId /\ \A u \in TaskId :
              /\ tasks'[u].kind = tasks[u].kind /\ tasks'[u].result = tasks[u].result
              /\ u # Top /\ tasks'[u].status = "completed" => tasks[u].status = "completed"
      BY <1>7, SettledEffect DEF Stays, Becomes
    <2>2. tasks'[Top].status = status
      BY <1>7, SettledEffect DEF Becomes
    <2> QED
      BY <1>0, <1>7, <2>1, <2>2, OutcomeStays
  <1>8. CASE DrainFinish
    <2> DEFINE error == tasks[Top].error
               status == IF error = "none" THEN "completed" ELSE "failed"
    <2>1. stack # <<>> /\ tasks[Top].kind = "host" /\ tasks[Top].result /\ ~cancelled
      BY <1>8 DEF DrainFinish, Draining, ActiveHost
    <2>2. Top \in TaskId /\ error \in ErrorCode
      BY <1>0, <2>1, TopIsTask DEF Task
    <2>3. Settled(status, error) /\ status \in Terminal
      BY <1>8 DEF DrainFinish, SettledOutcome, Terminal
    <2>4. UNCHANGED <<executed, observed, cancelled, op>> /\ op # "http"
      BY <1>8 DEF DrainFinish, Draining, hostVars, eventVars, callVars, envVars
    <2>5. Top \in observed
      BY <2>1, <2>2 DEF OutcomeInv
    <2> HIDE DEF status, error
    <2> QED
      BY <1>7, <2>1, <2>2, <2>3, <2>4, <2>5
  <1>9. CASE FinishAgentWork
    <2> DEFINE error == tasks[Top].error
               status == IF error = "none" THEN "completed" ELSE "failed"
    <2>1. stack # <<>> /\ (error = "operation" \/ Top \in observed)
      BY <1>9 DEF FinishAgentWork, ActiveAgent
    <2>2. Top \in TaskId /\ error \in ErrorCode
      BY <1>0, <2>1, TopIsTask DEF Task
    <2>3. Settled(status, error) /\ status \in Terminal
      BY <1>9 DEF FinishAgentWork, SettledOutcome, Terminal
    <2>4. UNCHANGED <<executed, observed, cancelled, op>> /\ op # "http"
      BY <1>9 DEF FinishAgentWork, Idle, hostVars, eventVars
    <2>5. status = "completed" => Top \in observed
      BY <2>1
    <2> HIDE DEF status, error
    <2> QED
      BY <1>7, <2>1, <2>2, <2>3, <2>4, <2>5
  <1>10. CASE Complete \/ AbandonChild
    <2>1. stack # <<>> /\ tasks[Top].kind = "reasoning"
      BY <1>10 DEF Complete, AbandonChild, Reasoning
    <2>2. UNCHANGED <<executed, observed, cancelled, op>> /\ op # "http"
      BY <1>10 DEF Complete, AbandonChild, Working, Idle, hostVars, eventVars, envVars
    <2>3. PICK status \in Terminal, error \in ErrorCode : Settled(status, error)
      BY <1>10 DEF Complete, AbandonChild, Terminal, ErrorCode
    <2> QED
      BY <1>7, <2>1, <2>2, <2>3
  <1>11. CASE DrainExhausted \/ \E status \in {"failed", "cancelled", "incomplete"} : End(status)
    <2>1. PICK status \in {"failed", "cancelled", "incomplete"} : Ended(status)
      BY <1>11 DEF DrainExhausted, End
    <2>2. UNCHANGED <<executed, observed, cancelled>> /\ op' # "http"
      BY <1>11 DEF DrainExhausted, End, Idle, Return, hostVars, eventVars, envVars
    <2>3. TaskId' = TaskId /\ \A u \in TaskId :
              /\ tasks'[u].kind = tasks[u].kind /\ tasks'[u].result = tasks[u].result
              /\ tasks'[u].status = "completed" => tasks[u].status = "completed"
      BY <1>0, <2>1, EndedEffect DEF Stays, Becomes, Terminal
    <2> QED
      BY <1>0, <2>2, <2>3, OutcomeStays
  <1>12. CASE DrainExecute
    <2>1. /\ executed' = executed \cup {Top} /\ UNCHANGED <<tasks, stack, observed, cancelled>>
      BY <1>12 DEF DrainExecute, taskVars, eventVars, envVars
    <2> QED
      BY <2>1 DEF OutcomeInv, CompletedWasObserved, Top, TaskId
  <1>13. ASSUME NEW error \in HTTPOutcomes, HTTPReturns(error) PROVE OutcomeInv'
    <2>1. /\ op = "http" /\ op' # "http" /\ stack # <<>> /\ tasks[Top].kind = "host"
          /\ tasks' = [tasks EXCEPT ![Top].result = TRUE, ![Top].error = error]
          /\ UNCHANGED <<executed, cancelled>>
          /\ IF cancelled THEN observed' = observed ELSE observed' = observed \cup {Top}
      BY <1>13 DEF HTTPReturns, LineInv, TypeInv, CallInProgress, ActiveHost, Return, Broadcast,
         hostVars, eventVars, envVars
    <2>2. error \in ErrorCode
      BY <1>13 DEF HTTPOutcomes, ErrorCode
    <2>3. /\ TaskId' = TaskId /\ Top \in TaskId
          /\ Becomes(Top, tasks[Top].status, TRUE, error)
          /\ \A u \in TaskId \ {Top} : Stays(u)
      BY <1>0, <2>1, <2>2, RecordedEffect
    <2>4. Top \in executed
      BY <2>1 DEF OutcomeInv
    <2>5. tasks[Top].status = "running"
      BY <2>1, TopRuns DEF LineInv, TypeInv
    <2>6. CompletedWasObserved'
      <3> SUFFICES ASSUME NEW t \in TaskId
                   PROVE  /\ tasks'[t].kind # "reasoning" /\ tasks'[t].status = "completed" => t \in observed'
                          /\ t \in observed' => tasks'[t].result
                          /\ tasks'[t].kind = "host" /\ tasks'[t].result => t \in executed'
        BY <2>3 DEF CompletedWasObserved
      <3>1. CASE t = Top
        BY <2>1, <2>3, <2>4, <2>5, <3>1 DEF Becomes
      <3>2. CASE t # Top
        <4>1. Stays(t)
          BY <2>3, <3>2
        <4>2. /\ t \in observed' <=> t \in observed
              /\ t \in executed' <=> t \in executed
          BY <2>1, <3>2
        <4> QED
          BY <4>1, <4>2 DEF OutcomeInv, CompletedWasObserved, Stays, Becomes
      <3> QED
        BY <3>1, <3>2
    <2>7. \A t \in TaskId' :
              tasks'[t].kind = "host" /\ tasks'[t].result => t \in observed' \/ cancelled'
      BY <2>1, <2>3 DEF OutcomeInv, Becomes, Stays
    <2> QED
      BY <2>1, <2>6, <2>7 DEF OutcomeInv
  <1>14. ASSUME NEW error \in {"none", "outcome", "operation"}, RecordAgentOutcome(error)
         PROVE  OutcomeInv'
    <2>1. /\ op = "idle" /\ op' = op /\ stack # <<>> /\ tasks[Top].kind = "agent"
          /\ tasks' = [tasks EXCEPT ![Top].result = TRUE, ![Top].error = error]
          /\ UNCHANGED <<executed, cancelled, observed>>
      BY <1>14 DEF RecordAgentOutcome, Idle, ActiveAgent, hostVars, eventVars, envVars
    <2>2. error \in ErrorCode
      BY DEF ErrorCode
    <2>3. /\ TaskId' = TaskId /\ Top \in TaskId
          /\ Becomes(Top, tasks[Top].status, TRUE, error)
          /\ \A u \in TaskId \ {Top} : Stays(u)
      BY <1>0, <2>1, <2>2, RecordedEffect
    <2>4. tasks[Top].status = "running"
      BY <2>1, TopRuns DEF LineInv, TypeInv
    <2>5. CompletedWasObserved'
      <3> SUFFICES ASSUME NEW t \in TaskId
                   PROVE  /\ tasks'[t].kind # "reasoning" /\ tasks'[t].status = "completed" => t \in observed'
                          /\ t \in observed' => tasks'[t].result
                          /\ tasks'[t].kind = "host" /\ tasks'[t].result => t \in executed'
        BY <2>3 DEF CompletedWasObserved
      <3>1. CASE t = Top
        BY <2>1, <2>3, <2>4, <3>1 DEF Becomes
      <3>2. CASE t # Top
        <4>1. Stays(t)
          BY <2>3, <3>2
        <4>2. /\ t \in observed' <=> t \in observed
              /\ t \in executed' <=> t \in executed
          BY <2>1, <3>2
        <4> QED
          BY <4>1, <4>2 DEF OutcomeInv, CompletedWasObserved, Stays, Becomes
      <3> QED
        BY <3>1, <3>2
    <2>6. \A t \in TaskId' :
              tasks'[t].kind = "host" /\ tasks'[t].result => t \in observed' \/ cancelled'
      BY <2>1, <2>3 DEF OutcomeInv, Becomes, Stays
    <2> QED
      BY <2>1, <2>5, <2>6 DEF OutcomeInv
  <1>15. CASE AdmitAgentOutcome
    <2>1. /\ op' # "http" /\ stack # <<>> /\ tasks[Top].result
          /\ UNCHANGED <<tasks, stack, executed, cancelled>>
          /\ observed' = observed \cup {Top}
      BY <1>15 DEF AdmitAgentOutcome, ActiveAgent, Broadcast, taskVars, hostVars, envVars
    <2> QED
      BY <2>1 DEF OutcomeInv, CompletedWasObserved, TaskId
  <1>16. CASE Push
    <2> DEFINE id == taskSequence + 1
               parent == IF stack = <<>> THEN 0 ELSE Top
    <2>1. /\ TaskId' = TaskId \cup {id}
          /\ tasks'[id] = NewTask("reasoning", parent, "running", NoWork)
          /\ \A u \in TaskId : u # parent => Stays(u)
          /\ parent # 0 => Becomes(parent, "waiting", tasks[parent].result, tasks[parent].error)
      BY <1>16, PushedEffect
    <2>2. UNCHANGED <<executed, observed, cancelled, op>> /\ op # "http" /\ 0 \notin TaskId
      BY <1>0, <1>16 DEF Push, Working, Idle, TypeOK, TaskId, hostVars, eventVars, envVars
    <2> HIDE DEF id, parent
    <2>3. tasks'[id].status # "completed" /\ ~tasks'[id].result
      BY <2>1 DEF NewTask
    <2>4. \A u \in TaskId : /\ tasks'[u].kind = tasks[u].kind /\ tasks'[u].result = tasks[u].result
                            /\ tasks'[u].status = "completed" => tasks[u].status = "completed"
      BY <2>1, <2>2 DEF Stays, Becomes
    <2> QED
      BY <1>0, <2>1, <2>2, <2>3, <2>4, OutcomeStays
  <1>17. ASSUME NEW n \in 1..MaxBatchCalls, QueueAgentWork(n) PROVE OutcomeInv'
    <2> DEFINE ids == taskSequence + 1 .. taskSequence + n
    <2>1. /\ TaskId' = TaskId \cup ids
          /\ \A u \in TaskId : Stays(u)
          /\ \A u \in ids : tasks'[u] = NewTask("agent", Top, "pending", NoWork)
      BY <1>17, QueuedEffect
    <2>2. UNCHANGED <<executed, observed, cancelled, op>> /\ op # "http"
      BY <1>17 DEF QueueAgentWork, Working, Idle, hostVars, eventVars, envVars
    <2> HIDE DEF ids
    <2>3. \A u \in ids : tasks'[u].status # "completed" /\ ~tasks'[u].result
      BY <2>1 DEF NewTask
    <2> QED
      BY <1>0, <2>1, <2>2, <2>3, OutcomeStays DEF Stays, Becomes
  <1> QED
    BY <1>2, <1>3, <1>4, <1>6, <1>8, <1>9, <1>10, <1>11, <1>12, <1>13, <1>14, <1>15, <1>16, <1>17
    DEF Next, StoreStep, CallerStep

\* No host or agent task completes without the broadcast of its recorded
\* outcome, and no host outcome is there without an execution.
THEOREM CompletedWasObservedHolds == Spec => []CompletedWasObserved
  <1>1. Init => LineInv /\ OutcomeInv
    BY TypeInit, LineInit, OutcomeInit DEF LineInv
  <1>2. LineInv /\ OutcomeInv /\ [Next]_vars => (LineInv /\ OutcomeInv)'
    BY TypeStep, LineStep, OutcomeStep DEF LineInv
  <1>3. OutcomeInv => CompletedWasObserved
    BY DEF OutcomeInv
  <1> QED
    BY <1>1, <1>2, <1>3, PTL DEF Spec

=============================================================================
