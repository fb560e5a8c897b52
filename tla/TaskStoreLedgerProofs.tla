------------------------ MODULE TaskStoreLedgerProofs ------------------------
(***************************************************************************)
(* Proof that TaskStore implements RequestLedger, for every number of      *)
(* partitions, identities, payloads and tasks and for every budget.        *)
(***************************************************************************)
EXTENDS TaskStoreLedger, TaskStoreProofs

-----------------------------------------------------------------------------
(* Reading the ledger off the store *)

\* How far the request of a host task is.
Stage(t) ==
    IF ~Live(t) THEN "settled"
    ELSE IF tasks[t].result THEN "recorded"
    ELSE IF op = "http" /\ t = Top THEN "executing"
    ELSE "queued"

Over == TaskId # {} /\ stack = <<>>

\* An identity is held by one task at most, so the ledger reads that task.
LEMMA HolderFacts ==
    ASSUME UniqueRequest, NEW k \in Keys
    PROVE  /\ Holders(k[1], k[2]) = {} => ProgressOf(k) = "unknown" /\ PayloadOf(k) = NoPayload
           /\ \A t \in Holders(k[1], k[2]) :
                  /\ ProgressOf(k) = Stage(t)
                  /\ PayloadOf(k) = tasks[t].work.payload
  <1>1. ASSUME NEW t \in Holders(k[1], k[2]) PROVE Holder(k) = t
    <2>1. Holder(k) \in Holders(k[1], k[2])
      BY DEF Holder
    <2>2. /\ t \in TaskId /\ Holder(k) \in TaskId
          /\ tasks[t].work # NoWork /\ tasks[Holder(k)].work # NoWork
          /\ tasks[t].work.partition = tasks[Holder(k)].work.partition
          /\ tasks[t].work.id = tasks[Holder(k)].work.id
      BY <2>1 DEF Holders
    <2> QED
      BY <2>2 DEF UniqueRequest
  <1>2. ASSUME NEW t \in Holders(k[1], k[2])
        PROVE  ProgressOf(k) = Stage(t) /\ PayloadOf(k) = tasks[t].work.payload
    <2>1. Holder(k) = t /\ Holders(k[1], k[2]) # {}
      BY <1>1
    <2> QED
      BY <2>1 DEF ProgressOf, PayloadOf, Stage
  <1> QED
    BY <1>2 DEF ProgressOf, PayloadOf

LEMMA HolderFactsNext ==
    ASSUME UniqueRequest', NEW k \in Keys
    PROVE  /\ Holders(k[1], k[2])' = {} => ProgressOf(k)' = "unknown" /\ PayloadOf(k)' = NoPayload
           /\ \A t \in Holders(k[1], k[2])' :
                  /\ ProgressOf(k)' = Stage(t)'
                  /\ PayloadOf(k)' = tasks'[t].work.payload
  <1>1. ASSUME NEW t \in Holders(k[1], k[2])' PROVE Holder(k)' = t
    <2>1. Holder(k)' \in Holders(k[1], k[2])'
      BY DEF Holder
    <2>2. /\ t \in TaskId' /\ Holder(k)' \in TaskId'
          /\ tasks'[t].work # NoWork /\ tasks'[Holder(k)'].work # NoWork
          /\ tasks'[t].work.partition = tasks'[Holder(k)'].work.partition
          /\ tasks'[t].work.id = tasks'[Holder(k)'].work.id
      BY <2>1 DEF Holders
    <2> QED
      BY <2>2 DEF UniqueRequest
  <1>2. ASSUME NEW t \in Holders(k[1], k[2])'
        PROVE  ProgressOf(k)' = Stage(t)' /\ PayloadOf(k)' = tasks'[t].work.payload
    <2>1. Holder(k)' = t /\ Holders(k[1], k[2])' # {}
      BY <1>1
    <2> QED
      BY <2>1 DEF ProgressOf, PayloadOf, Stage
  <1> QED
    BY <1>2 DEF ProgressOf, PayloadOf

LEMMA LedgerInit ==
    Init => Ledger!Init
  <1> SUFFICES ASSUME Init PROVE Ledger!Init
    OBVIOUS
  <1>1. TaskId = {} /\ hostExecutions = 0
    BY DEF Init, TaskId
  <1>2. \A k \in Keys : Holders(k[1], k[2]) = {}
    BY <1>1 DEF Holders
  <1>3. \A k \in Keys : ProgressOf(k) = "unknown" /\ PayloadOf(k) = NoPayload
    BY <1>2 DEF ProgressOf, PayloadOf
  <1> QED
    BY <1>1, <1>3 DEF Ledger!Init

\* No identity is asked for and none is forgotten.
NoneAsked ==
    /\ \A t \in TaskId : t \in TaskId' /\ tasks'[t].work = tasks[t].work
    /\ \A t \in TaskId' \ TaskId : tasks'[t].work = NoWork

LEMMA SameHolders ==
    ASSUME UniqueRequest, UniqueRequest', NoneAsked, NEW k \in Keys
    PROVE  /\ PayloadOf(k)' = PayloadOf(k)
           /\ Holders(k[1], k[2])' = Holders(k[1], k[2])
           /\ Holders(k[1], k[2]) = {} => ProgressOf(k) = "unknown" /\ ProgressOf(k)' = "unknown"
           /\ \A t \in Holders(k[1], k[2]) : ProgressOf(k) = Stage(t) /\ ProgressOf(k)' = Stage(t)'
  <1>1. Holders(k[1], k[2])' = Holders(k[1], k[2])
    BY DEF Holders, NoneAsked
  <1>2. \A t \in Holders(k[1], k[2]) : tasks'[t].work = tasks[t].work
    BY DEF Holders, NoneAsked
  <1> QED
    BY <1>1, <1>2, HolderFacts, HolderFactsNext

\* A step that moves no request leaves the ledger alone.
LEMMA LedgerStutters ==
    ASSUME UniqueRequest, UniqueRequest', NoneAsked,
           \A t \in TaskId : tasks[t].work # NoWork => Stage(t)' = Stage(t),
           UNCHANGED hostExecutions, Over' = Over
    PROVE  UNCHANGED Ledger!vars
  <1>1. ASSUME NEW k \in Keys
        PROVE  ProgressOf(k)' = ProgressOf(k) /\ PayloadOf(k)' = PayloadOf(k)
    <2>1. \A t \in Holders(k[1], k[2]) : Stage(t)' = Stage(t)
      BY DEF Holders
    <2> QED
      BY <2>1, SameHolders
  <1>2. [k \in Keys |-> ProgressOf(k)]' = [k \in Keys |-> ProgressOf(k)]
    BY <1>1 DEF Keys
  <1>3. [k \in Keys |-> PayloadOf(k)]' = [k \in Keys |-> PayloadOf(k)]
    BY <1>1 DEF Keys
  <1> QED
    BY <1>2, <1>3 DEF Ledger!vars, Over

\* A step that moves the request of one task moves that entry of the ledger.
LEMMA LedgerMoves ==
    ASSUME TypeOK, UniqueRequest, UniqueRequest', NoneAsked,
           NEW t \in TaskId, tasks[t].work # NoWork,
           NEW from, NEW to, Stage(t) = from, Stage(t)' = to,
           \A u \in TaskId \ {t} : tasks[u].work # NoWork => Stage(u)' = Stage(u)
    PROVE  \E k \in Keys : /\ Ledger!Moves(k, from, to)
                           /\ UNCHANGED [j \in Keys |-> PayloadOf(j)]
  <1>0. tasks[t].work \in Work
    BY DEF TypeOK, TaskId, Task
  <1>1. PICK k \in Keys : k[1] = tasks[t].work.partition /\ k[2] = tasks[t].work.id
    <2>1. <<tasks[t].work.partition, tasks[t].work.id>> \in Keys
      BY <1>0 DEF Work, Keys
    <2> QED
      BY <2>1
  <1>2. t \in Holders(k[1], k[2])
    BY <1>1 DEF Holders
  <1>3. ProgressOf(k) = from /\ ProgressOf(k)' = to
    BY <1>2, SameHolders
  <1>4. ASSUME NEW j \in Keys, j # k PROVE ProgressOf(j)' = ProgressOf(j)
    <2>1. ASSUME NEW u \in Holders(j[1], j[2]) PROVE Stage(u)' = Stage(u)
      <3>1. u \in TaskId /\ tasks[u].work # NoWork
            /\ j[1] = tasks[u].work.partition /\ j[2] = tasks[u].work.id
        BY <2>1 DEF Holders
      <3>2. u # t
        BY <1>1, <1>4, <3>1 DEF Keys
      <3> QED
        BY <3>1, <3>2
    <2> QED
      BY <2>1, SameHolders
  <1>5. [j \in Keys |-> PayloadOf(j)]' = [j \in Keys |-> PayloadOf(j)]
    BY SameHolders DEF Keys
  <1>6. Ledger!Moves(k, from, to)
    <2>1. [j \in Keys |-> ProgressOf(j)][k] = from
      BY <1>1, <1>3
    <2>2. [j \in Keys |-> ProgressOf(j)]' = [[j \in Keys |-> ProgressOf(j)] EXCEPT ![k] = to]
      BY <1>1, <1>3, <1>4
    <2> QED
      BY <2>1, <2>2 DEF Ledger!Moves
  <1> QED
    BY <1>1, <1>5, <1>6

\* The run's root settling, or the end of the run, is the end of the ledger.
LEMMA LedgerFinishes ==
    ASSUME LineInv, LineInv', UniqueRequest, UniqueRequest', NoneAsked,
           stack # <<>>, stack' = <<>>, op # "http", UNCHANGED hostExecutions
    PROVE  Ledger!Finish
  <1>1. Top \in TaskId
    BY TopIsTask DEF LineInv, TypeInv
  <1>2. TaskId' # {} /\ OnStack' = {}
    <2>1. OnStack' = {stack'[i] : i \in 1..0}
      BY DEF OnStack
    <2> QED
      BY <1>1, <2>1 DEF NoneAsked
  <1>3. \A t \in TaskId : Stage(t)' = "settled"
    BY <1>2 DEF NoneAsked, Stage, Live, LineInv, InLine, UnsettledInPlace
  <1>4. \A t \in TaskId : Stage(t) \notin {"executing", "unknown"}
    BY DEF Stage
  <1>5. ASSUME NEW k \in Keys
        PROVE  /\ ProgressOf(k) # "executing"
               /\ ProgressOf(k)' = IF ProgressOf(k) = "unknown" THEN "unknown" ELSE "settled"
               /\ PayloadOf(k)' = PayloadOf(k)
    <2>1. Holders(k[1], k[2]) \subseteq TaskId
      BY DEF Holders
    <2>2. CASE Holders(k[1], k[2]) = {}
      BY <2>2, SameHolders
    <2>3. CASE Holders(k[1], k[2]) # {}
      <3>1. PICK t \in TaskId : t \in Holders(k[1], k[2])
        BY <2>1, <2>3
      <3>2. ProgressOf(k) = Stage(t) /\ ProgressOf(k)' = Stage(t)' /\ PayloadOf(k)' = PayloadOf(k)
        BY <3>1, SameHolders
      <3> QED
        BY <1>3, <1>4, <3>2
    <2> QED
      BY <2>2, <2>3
  <1>6. /\ ~Over /\ Over'
        /\ [k \in Keys |-> PayloadOf(k)]' = [k \in Keys |-> PayloadOf(k)]
    BY <1>2, <1>5 DEF Over
  <1>7. /\ \A k \in Keys : [j \in Keys |-> ProgressOf(j)][k] # "executing"
        /\ [k \in Keys |-> ProgressOf(k)]' =
               [k \in Keys |-> IF [j \in Keys |-> ProgressOf(j)][k] = "unknown" THEN "unknown" ELSE "settled"]
    BY <1>5
  <1> QED
    BY <1>6, <1>7 DEF Ledger!Finish, Over

-----------------------------------------------------------------------------
(* Step by step *)

\* The ledger is not over while a task is active, and a task being active
\* before and after is all it takes.
LEMMA OverStays ==
    ASSUME stack # <<>>, stack' # <<>>
    PROVE  Over' = Over
  BY DEF Over

\* A new request is asked for once.
LEMMA LedgerAsks ==
    ASSUME LineInv, UniqueRequest, UniqueRequest', NEW id, NEW r, Asked(id, r),
           UNCHANGED hostExecutions
    PROVE  \E k \in Keys, d \in Payloads : Ledger!Ask(k, d)
  <1> DEFINE work == [partition |-> Receiver, id |-> r.id, payload |-> r.payload]
  <1>1. /\ op = "queue" /\ stack # <<>> /\ UNCHANGED <<stack, op>>
        /\ Receiver \in Partition /\ r.id \in RequestIDs /\ r.payload \in Payloads
        /\ Holders(Receiver, r.id) = {}
        /\ id \notin TaskId /\ TaskId' = TaskId \cup {id}
        /\ tasks'[id] = NewTask("host", Top, "pending", work)
        /\ \A u \in TaskId : Stays(u)
    BY DEF Asked, Request
  <1>2. PICK p \in Partition, i \in RequestIDs, d \in Payloads :
            p = Receiver /\ i = r.id /\ d = r.payload
    BY <1>1
  <1>3. /\ tasks'[id].work = [partition |-> p, id |-> i, payload |-> d]
        /\ tasks'[id].status = "pending" /\ ~tasks'[id].result
    BY <1>1, <1>2 DEF NewTask
  <1>4. /\ tasks'[id].work # NoWork
        /\ tasks'[id].work.partition = p /\ tasks'[id].work.id = i /\ tasks'[id].work.payload = d
    BY <1>3, StoreAssumption DEF Work, StoreAssumption
  <1>5. PICK k \in Keys : k[1] = p /\ k[2] = i
    <2>1. <<p, i>> \in Keys
      BY DEF Keys
    <2> QED
      BY <2>1
  <1>6. Holders(k[1], k[2]) = {}
    BY <1>1, <1>2, <1>5
  <1>7. id \in Holders(k[1], k[2])'
    BY <1>1, <1>4, <1>5 DEF Holders
  <1>8. Stage(id)' = "queued"
    BY <1>1, <1>3 DEF Stage, Live
  <1>9. /\ ProgressOf(k) = "unknown"
        /\ ProgressOf(k)' = "queued" /\ PayloadOf(k)' = d
    BY <1>4, <1>6, <1>7, <1>8, HolderFacts, HolderFactsNext
  <1>10. ASSUME NEW j \in Keys, j # k
         PROVE  ProgressOf(j)' = ProgressOf(j) /\ PayloadOf(j)' = PayloadOf(j)
    <2>1. id \notin Holders(j[1], j[2])'
      BY <1>4, <1>5, <1>10 DEF Holders, Keys
    <2>2. Holders(j[1], j[2])' = Holders(j[1], j[2])
      BY <1>1, <2>1 DEF Holders, Stays, Becomes
    <2>3. \A t \in Holders(j[1], j[2]) :
             Stage(t)' = Stage(t) /\ tasks'[t].work = tasks[t].work
      BY <1>1 DEF Holders, Stage, Live, Stays, Becomes, Top
    <2> QED
      BY <2>2, <2>3, HolderFacts, HolderFactsNext
  <1>11. ~Over /\ ~Over'
    BY <1>1 DEF Over
  <1>12. /\ [j \in Keys |-> ProgressOf(j)][k] = "unknown"
         /\ [j \in Keys |-> ProgressOf(j)]' = [[j \in Keys |-> ProgressOf(j)] EXCEPT ![k] = "queued"]
         /\ [j \in Keys |-> PayloadOf(j)]' = [[j \in Keys |-> PayloadOf(j)] EXCEPT ![k] = d]
    BY <1>9, <1>10
  <1>13. Ledger!Ask(k, d)
    BY <1>11, <1>12 DEF Ledger!Ask, Ledger!Moves, Over
  <1> QED
    BY <1>13

\* An execution starts the request of the active task, and nothing else is in
\* flight.
LEMMA LedgerExecutes ==
    ASSUME LineInv, UniqueRequest, UniqueRequest', DrainExecute
    PROVE  \E k \in Keys : Ledger!Execute(k)
  <1>1. /\ op = "drain" /\ op' = "http" /\ stack # <<>>
        /\ tasks[Top].kind = "host" /\ ~tasks[Top].result
        /\ hostExecutions < MaxHostExecutions /\ hostExecutions' = hostExecutions + 1
        /\ UNCHANGED <<tasks, stack>>
    BY DEF DrainExecute, Draining, NeedsExecution, ActiveHost, taskVars
  <1>2. PICK t \in TaskId : t = Top /\ tasks[t].status = "running"
    BY <1>1, TopRuns DEF LineInv, TypeInv
  <1>3. /\ tasks[t].work # NoWork
        /\ Stage(t) = "queued" /\ Stage(t)' = "executing"
    BY <1>1, <1>2 DEF UniqueRequest, Stage, Live, Top
  <1>4. \A u \in TaskId \ {t} : Stage(u)' = Stage(u)
    BY <1>1, <1>2 DEF Stage, Live, Top
  <1>5. NoneAsked
    BY <1>1 DEF NoneAsked, TaskId
  <1>6. PICK k \in Keys : /\ Ledger!Moves(k, "queued", "executing")
                          /\ UNCHANGED [j \in Keys |-> PayloadOf(j)]
    BY <1>3, <1>4, <1>5, LedgerMoves DEF LineInv, TypeInv
  <1>7. \A j \in Keys : [i \in Keys |-> ProgressOf(i)][j] # "executing"
    BY <1>1 DEF ProgressOf
  <1>8. Over' = Over
    BY <1>1, OverStays
  <1>9. Ledger!Execute(k)
    BY <1>1, <1>6, <1>7, <1>8 DEF Ledger!Execute, Over
  <1> QED
    BY <1>9

\* The outcome of the request in flight is recorded, the run cancelled or not.
LEMMA LedgerRecords ==
    ASSUME LineInv, UniqueRequest, UniqueRequest', NEW error \in HTTPOutcomes, HTTPReturns(error)
    PROVE  \E k \in Keys : Ledger!Record(k)
  <1>1. /\ op = "http" /\ op' # "http" /\ stack # <<>>
        /\ tasks[Top].kind = "host" /\ ~tasks[Top].result
        /\ tasks' = [tasks EXCEPT ![Top].result = TRUE, ![Top].error = error]
        /\ UNCHANGED <<stack, hostExecutions>>
    BY DEF HTTPReturns, LineInv, TypeInv, CallInProgress, ActiveHost, Broadcast, Return, hostVars
  <1>2. PICK t \in TaskId : t = Top /\ tasks[t].status = "running"
    BY <1>1, TopRuns DEF LineInv, TypeInv
  <1>3. error \in ErrorCode
    BY DEF HTTPOutcomes, ErrorCode
  <1>4. /\ TaskId' = TaskId
        /\ Becomes(t, tasks[t].status, TRUE, error)
        /\ \A u \in TaskId \ {t} : Stays(u)
    BY <1>1, <1>2, <1>3, RecordedEffect DEF LineInv, TypeInv
  <1>5. /\ tasks[t].work # NoWork
        /\ Stage(t) = "executing" /\ Stage(t)' = "recorded"
    BY <1>1, <1>2, <1>4 DEF UniqueRequest, Stage, Live, Becomes
  <1>6. \A u \in TaskId \ {t} : Stage(u)' = Stage(u)
    <2> SUFFICES ASSUME NEW u \in TaskId \ {t} PROVE Stage(u)' = Stage(u)
      OBVIOUS
    <2>1. tasks'[u].status = tasks[u].status /\ tasks'[u].result = tasks[u].result
      BY <1>4 DEF Stays, Becomes
    <2>2. Live(u)' = Live(u)
      BY <2>1 DEF Live
    <2> QED
      BY <1>1, <1>2, <2>1, <2>2 DEF Stage
  <1>7. NoneAsked
    BY <1>2, <1>4 DEF NoneAsked, Stays, Becomes
  <1>8. PICK k \in Keys : /\ Ledger!Moves(k, "executing", "recorded")
                          /\ UNCHANGED [j \in Keys |-> PayloadOf(j)]
    BY <1>5, <1>6, <1>7, LedgerMoves DEF LineInv, TypeInv
  <1>9. Over' = Over
    BY <1>1, OverStays
  <1>10. Ledger!Record(k)
    BY <1>1, <1>8, <1>9 DEF Ledger!Record, Over
  <1> QED
    BY <1>10

\* Settling the active task settles its request when it has one; the run is
\* over when the root settles.
LEMMA LedgerSettles ==
    ASSUME LineInv, LineInv', UniqueRequest, UniqueRequest',
           stack # <<>>, op # "http", op' # "http", UNCHANGED hostExecutions,
           NEW status \in Terminal, NEW error \in ErrorCode, Settled(status, error),
           tasks[Top].kind = "host" => tasks[Top].result
    PROVE  [Ledger!Next]_(Ledger!vars)
  <1>1. /\ TaskId' = TaskId
        /\ Top \in TaskId
        /\ Becomes(Top, status, tasks[Top].result, error)
        /\ \A u \in TaskId \ {Top} :
               \/ Stays(u)
               \/ /\ tasks[u].status = "waiting"
                  /\ Becomes(u, "running", tasks[u].result, tasks[u].error)
    BY SettledEffect
  <1>2. NoneAsked
    BY <1>1 DEF NoneAsked, Stays, Becomes
  <1>3. \A u \in TaskId \ {Top} : Stage(u)' = Stage(u)
    BY <1>1 DEF Stage, Live, Stays, Becomes
  <1>4. CASE stack' = <<>>
    BY <1>2, <1>4, LedgerFinishes DEF Ledger!Next
  <1>5. CASE stack' # <<>> /\ tasks[Top].kind # "host"
    <2>1. tasks[Top].work = NoWork
      BY <1>1, <1>5 DEF UniqueRequest
    <2>2. \A u \in TaskId : tasks[u].work # NoWork => Stage(u)' = Stage(u)
      BY <1>3, <2>1
    <2> QED
      BY <1>2, <1>5, <2>2, OverStays, LedgerStutters
  <1>6. CASE stack' # <<>> /\ tasks[Top].kind = "host"
    <2>1. PICK t \in TaskId : t = Top /\ tasks[t].status = "running"
      BY TopRuns DEF LineInv, TypeInv
    <2>2. /\ tasks[t].work # NoWork
          /\ Stage(t) = "recorded" /\ Stage(t)' = "settled"
      BY <1>1, <1>6, <2>1 DEF UniqueRequest, Stage, Live, Becomes, Terminal
    <2>3. PICK k \in Keys : /\ Ledger!Moves(k, "recorded", "settled")
                            /\ UNCHANGED [j \in Keys |-> PayloadOf(j)]
      BY <1>2, <1>3, <2>1, <2>2, LedgerMoves DEF LineInv, TypeInv
    <2>4. Ledger!Settle(k)
      BY <1>6, <2>3, OverStays DEF Ledger!Settle, Over
    <2> QED
      BY <2>4 DEF Ledger!Next
  <1> QED
    BY <1>4, <1>5, <1>6

\* A step of the store that changes no record but its statuses, and moves none
\* between settled and unsettled.
LEMMA LedgerIdles ==
    ASSUME UniqueRequest, UniqueRequest', NoneAsked,
           \A t \in TaskId : tasks[t].work # NoWork =>
               Live(t)' = Live(t) /\ tasks'[t].result = tasks[t].result,
           (op # "http" /\ op' # "http") \/ UNCHANGED <<op, stack>>,
           UNCHANGED hostExecutions, Over' = Over
    PROVE  [Ledger!Next]_(Ledger!vars)
  <1>1. \A t \in TaskId : tasks[t].work # NoWork => Stage(t)' = Stage(t)
    BY DEF Stage, Top
  <1> QED
    BY <1>1, LedgerStutters

LEMMA LedgerStep ==
    LineInv /\ LineInv' /\ UniqueRequest /\ UniqueRequest' /\ [Next]_vars
        => [Ledger!Next]_(Ledger!vars)
  <1> SUFFICES ASSUME LineInv, LineInv', UniqueRequest, UniqueRequest', [Next]_vars
               PROVE  [Ledger!Next]_(Ledger!vars)
    OBVIOUS
  <1>0. TypeOK
    BY DEF LineInv, TypeInv
  <1>1. ASSUME UNCHANGED <<tasks, stack, hostExecutions>>,
               (op # "http" /\ op' # "http") \/ UNCHANGED op
        PROVE  [Ledger!Next]_(Ledger!vars)
    <2>1. NoneAsked
      BY <1>1 DEF NoneAsked, TaskId
    <2>2. \A t \in TaskId : Live(t)' = Live(t) /\ tasks'[t].result = tasks[t].result
      BY <1>1 DEF Live
    <2>3. Over' = Over
      BY <1>1 DEF Over, TaskId
    <2> QED
      BY <1>1, <2>1, <2>2, <2>3, LedgerIdles
  <1>2. CASE \/ ModuleFails \/ NextModule \/ AdmissionCancelled \/ BroadcastDone \/ DrainCancelled
             \/ DrainReturn \/ Admit \/ AdmitAgentOutcome \/ Close
             \/ \E status \in ResultStatus, reqs \in RequestLists : ModuleReturns(status, reqs)
    <2>1. UNCHANGED <<tasks, stack, hostExecutions>>
      BY <1>2
      DEF ModuleFails, ModuleReturns, NextModule, AdmissionCancelled, BroadcastDone, DrainCancelled,
          DrainReturn, Admit, AdmitAgentOutcome, Close, taskVars, hostVars
    <2>2. op # "http" /\ op' # "http"
      BY <1>2
      DEF ModuleFails, ModuleReturns, NextModule, AdmissionCancelled, BroadcastDone, DrainCancelled,
          DrainReturn, Draining, Admit, AdmitAgentOutcome, Close, Working, Idle, Broadcast, Return
    <2> QED
      BY <1>1, <2>1, <2>2
  <1>3. CASE Cancel \/ UNCHANGED vars
    BY <1>1, <1>3 DEF Cancel, vars, taskVars, hostVars, callVars
  <1>4. CASE QueueRequest
    <2>1. UNCHANGED <<stack, hostExecutions>> /\ op # "http" /\ op' # "http"
      BY <1>4 DEF QueueRequest, hostVars, taskVars, Return
    <2>2. ASSUME NEW id, NEW r, Asked(id, r) PROVE [Ledger!Next]_(Ledger!vars)
      BY <2>1, <2>2, LedgerAsks DEF Ledger!Next
    <2> QED
      BY <1>1, <1>4, <2>1, <2>2, AskedEffect
  <1>5. CASE DrainActivate \/ ActivateAgentWork
    <2>1. stack # <<>> /\ op # "http" /\ op' # "http" /\ UNCHANGED hostExecutions
      BY <1>5 DEF DrainActivate, Draining, HostChildNext, ActivateAgentWork, Working, Idle, Reasoning,
         hostVars, callVars
    <2>2. PICK t \in PendingChildren(Top) : Started(t)
      BY <1>5 DEF DrainActivate, HostChildNext, IsNextChild, ActivateAgentWork
    <2>3. /\ TaskId' = TaskId
          /\ Becomes(t, "running", tasks[t].result, tasks[t].error)
          /\ Becomes(Top, "waiting", tasks[Top].result, tasks[Top].error)
          /\ \A u \in TaskId \ {t, Top} : Stays(u)
          /\ stack' # <<>>
      BY <2>1, <2>2, StartedEffect
    <2>4. tasks[t].status = "pending" /\ tasks[Top].status = "running"
      BY <2>1, TopRuns DEF LineInv, TypeInv, PendingChildren
    <2>5. ASSUME NEW u \in TaskId
          PROVE  /\ Live(u)' = Live(u) /\ tasks'[u].result = tasks[u].result
                 /\ tasks'[u].work = tasks[u].work
      BY <2>3, <2>4 DEF Live, Stays, Becomes
    <2>6. NoneAsked
      BY <2>3, <2>5 DEF NoneAsked
    <2> QED
      BY <2>1, <2>3, <2>5, <2>6, OverStays, LedgerIdles
  <1>6. CASE DrainFinish
    <2> DEFINE error == tasks[Top].error
               status == IF error = "none" THEN "completed" ELSE "failed"
    <2>1. /\ stack # <<>> /\ tasks[Top].result /\ op # "http" /\ op' # "http"
          /\ UNCHANGED hostExecutions
      BY <1>6 DEF DrainFinish, Draining, ActiveHost, hostVars, callVars
    <2>2. error \in ErrorCode
      BY <1>0, <2>1, TopIsTask DEF Task
    <2>3. Settled(status, error) /\ status \in Terminal
      BY <1>6 DEF DrainFinish, SettledOutcome, Terminal
    <2> HIDE DEF status, error
    <2> QED
      BY <2>1, <2>2, <2>3, LedgerSettles
  <1>7. CASE FinishAgentWork
    <2> DEFINE error == tasks[Top].error
               status == IF error = "none" THEN "completed" ELSE "failed"
    <2>1. /\ stack # <<>> /\ tasks[Top].kind # "host" /\ op # "http" /\ op' # "http"
          /\ UNCHANGED hostExecutions
      BY <1>7 DEF FinishAgentWork, Idle, ActiveAgent, hostVars
    <2>2. error \in ErrorCode
      BY <1>0, <2>1, TopIsTask DEF Task
    <2>3. Settled(status, error) /\ status \in Terminal
      BY <1>7 DEF FinishAgentWork, SettledOutcome, Terminal
    <2> HIDE DEF status, error
    <2> QED
      BY <2>1, <2>2, <2>3, LedgerSettles
  <1>8. CASE Complete \/ AbandonChild
    <2>1. /\ stack # <<>> /\ tasks[Top].kind # "host" /\ op # "http" /\ op' # "http"
          /\ UNCHANGED hostExecutions
      BY <1>8 DEF Complete, AbandonChild, Working, Idle, Reasoning, hostVars
    <2>2. PICK status \in Terminal, error \in ErrorCode : Settled(status, error)
      BY <1>8 DEF Complete, AbandonChild, Terminal, ErrorCode
    <2> QED
      BY <2>1, <2>2, LedgerSettles
  <1>9. CASE DrainExhausted \/ \E status \in {"failed", "cancelled", "incomplete"} : End(status)
    <2>1. PICK status \in Terminal : Ended(status)
      BY <1>9 DEF DrainExhausted, End, Terminal
    <2>2. op # "http" /\ op' # "http" /\ UNCHANGED hostExecutions
      BY <1>9 DEF DrainExhausted, Draining, End, Idle, Return, hostVars
    <2>3. /\ TaskId' = TaskId
          /\ \A u \in TaskId :
                 IF Live(u) THEN Becomes(u, status, tasks[u].result, "ended") ELSE Stays(u)
          /\ stack' = <<>>
      BY <1>0, <2>1, EndedEffect
    <2>4. NoneAsked
      BY <2>3 DEF NoneAsked, Stays, Becomes
    <2>5. CASE stack # <<>>
      BY <2>2, <2>3, <2>4, <2>5, LedgerFinishes DEF Ledger!Next
    <2>6. CASE stack = <<>>
      <3>1. OnStack = {}
        <4>1. OnStack = {stack[i] : i \in 1..0}
          BY <2>6 DEF OnStack
        <4> QED
          BY <4>1
      <3>2. \A u \in TaskId : ~Live(u)
        BY <3>1 DEF Live, LineInv, InLine, UnsettledInPlace
      <3>3. \A u \in TaskId : Live(u)' = Live(u) /\ tasks'[u].result = tasks[u].result
        BY <2>3, <3>2 DEF Live, Stays, Becomes
      <3>4. Over' = Over
        BY <2>3, <2>6 DEF Over
      <3> QED
        BY <2>2, <2>4, <3>3, <3>4, LedgerIdles
    <2> QED
      BY <2>5, <2>6
  <1>10. CASE DrainExecute
    BY <1>10, LedgerExecutes DEF Ledger!Next
  <1>11. ASSUME NEW error \in HTTPOutcomes, HTTPReturns(error)
         PROVE  [Ledger!Next]_(Ledger!vars)
    BY <1>11, LedgerRecords DEF Ledger!Next
  <1>12. ASSUME NEW error \in {"none", "outcome", "operation"}, RecordAgentOutcome(error)
         PROVE  [Ledger!Next]_(Ledger!vars)
    <2>1. /\ stack # <<>> /\ tasks[Top].kind = "agent" /\ op # "http" /\ op' # "http"
          /\ tasks' = [tasks EXCEPT ![Top].result = TRUE, ![Top].error = error]
          /\ UNCHANGED <<stack, hostExecutions>>
      BY <1>12 DEF RecordAgentOutcome, Idle, ActiveAgent, hostVars
    <2>2. error \in ErrorCode
      BY DEF ErrorCode
    <2>3. /\ TaskId' = TaskId /\ Top \in TaskId
          /\ Becomes(Top, tasks[Top].status, TRUE, error)
          /\ \A u \in TaskId \ {Top} : Stays(u)
      BY <1>0, <2>1, <2>2, RecordedEffect
    <2>4. tasks[Top].work = NoWork
      BY <2>1, <2>3 DEF UniqueRequest
    <2>5. ASSUME NEW u \in TaskId, tasks[u].work # NoWork
          PROVE  Live(u)' = Live(u) /\ tasks'[u].result = tasks[u].result
      BY <2>3, <2>4, <2>5 DEF Live, Stays, Becomes
    <2>6. NoneAsked
      BY <2>3 DEF NoneAsked, Stays, Becomes
    <2> QED
      BY <2>1, <2>5, <2>6, OverStays, LedgerIdles
  <1>13. CASE Push
    <2> DEFINE id == taskSequence + 1
               parent == IF stack = <<>> THEN 0 ELSE Top
    <2>1. /\ TaskId' = TaskId \cup {id}
          /\ tasks'[id] = NewTask("reasoning", parent, "running", NoWork)
          /\ \A u \in TaskId : u # parent => Stays(u)
          /\ parent # 0 => Becomes(parent, "waiting", tasks[parent].result, tasks[parent].error)
          /\ stack' # <<>>
      BY <1>13, PushedEffect
    <2>2. /\ TaskId = {} \/ stack # <<>>
          /\ op # "http" /\ op' # "http" /\ UNCHANGED hostExecutions
          /\ 0 \notin TaskId
      BY <1>0, <1>13 DEF Push, BetweenBatches, Reasoning, Working, Idle, hostVars, TypeOK, TaskId
    <2>3. stack # <<>> => parent = Top /\ tasks[Top].status = "running"
      BY TopRuns DEF LineInv, TypeInv
    <2> HIDE DEF id, parent
    <2>4. tasks'[id].work = NoWork
      BY <2>1 DEF NewTask
    <2>5. ASSUME NEW u \in TaskId
          PROVE  /\ Live(u)' = Live(u) /\ tasks'[u].result = tasks[u].result
                 /\ tasks'[u].work = tasks[u].work
      BY <2>1, <2>2, <2>3 DEF Live, Stays, Becomes
    <2>6. NoneAsked
      BY <2>1, <2>4, <2>5 DEF NoneAsked
    <2>7. Over' = Over
      BY <2>1, <2>2 DEF Over
    <2> QED
      BY <2>2, <2>5, <2>6, <2>7, LedgerIdles
  <1>14. ASSUME NEW n \in 1..MaxBatchCalls, QueueAgentWork(n)
         PROVE  [Ledger!Next]_(Ledger!vars)
    <2> DEFINE ids == taskSequence + 1 .. taskSequence + n
    <2>1. /\ TaskId' = TaskId \cup ids
          /\ \A u \in TaskId : Stays(u)
          /\ \A u \in ids : tasks'[u] = NewTask("agent", Top, "pending", NoWork)
      BY <1>14, QueuedEffect
    <2>2. /\ stack # <<>> /\ stack' # <<>> /\ op # "http" /\ op' # "http"
          /\ UNCHANGED hostExecutions
      BY <1>14 DEF QueueAgentWork, BetweenBatches, Reasoning, Working, Idle, hostVars
    <2> HIDE DEF ids
    <2>3. \A u \in TaskId : Live(u)' = Live(u) /\ tasks'[u].result = tasks[u].result
      BY <2>1 DEF Live, Stays, Becomes
    <2>4. NoneAsked
      BY <2>1 DEF NoneAsked, Stays, Becomes, NewTask
    <2> QED
      BY <2>2, <2>3, <2>4, OverStays, LedgerIdles
  <1> QED
    BY <1>2, <1>3, <1>4, <1>5, <1>6, <1>7, <1>8, <1>9, <1>10, <1>11, <1>12, <1>13, <1>14
    DEF Next, StoreStep, CallerStep

\* Every behaviour of the store is one of the ledger: an identity is accepted
\* once, executed at most once and within the budget, its outcome kept, and
\* everything settles when the run is over.
THEOREM ImplementsLedgerHolds == Spec => ImplementsLedger
  <1>1. Init => LineInv
    BY TypeInit, LineInit DEF LineInv
  <1>2. LineInv /\ [Next]_vars => LineInv'
    BY TypeStep, LineStep DEF LineInv
  <1> QED
    BY <1>1, <1>2, LedgerInit, LedgerStep, UniqueRequestHolds, PTL
    DEF Spec, ImplementsLedger, Ledger!Spec

=============================================================================
