-------------------------- MODULE McpRuntimeProofs --------------------------
(***************************************************************************)
(* The properties of McpRuntime for any number of servers, pages, tools    *)
(* and calls and any budget, up to the refinement of Dispatcher.           *)
(***************************************************************************)
EXTENDS McpRuntime, FiniteSetTheorems, TLAPS

-----------------------------------------------------------------------------
(* Type correctness *)

LEMMA TypeStep ==
    ASSUME TypeOK, [Next]_vars
    PROVE  TypeOK'
  <1> USE McpAssumption DEF McpAssumption, TypeOK, Calls, Server, discovery, calling, network
  <1>1. CASE Connect
    BY <1>1 DEF Connect, Connecting
  <1>2. ASSUME NEW tools \in 0..1, NEW cursor \in Cursors, ReadPage(tools, cursor)
        PROVE  TypeOK'
    BY <1>2 DEF ReadPage, Discovering, Fits
  <1>3. ASSUME NEW tools \in 0..1, ReadLastPage(tools)
        PROVE  TypeOK'
    BY <1>3 DEF ReadLastPage, Discovering, Fits
  <1>4. CASE StartFails
    BY <1>4 DEF StartFails
  <1>5. ASSUME NEW n \in Batches, AdmitBatch(n)
        PROVE  TypeOK'
    BY <1>5 DEF AdmitBatch, Idle, Batches
  <1>6. ASSUME NEW n \in Batches, RefuseBatch(n)
        PROVE  TypeOK'
    <2>1. "not_dispatched" \in D!Reports
      BY DEF D!Reports
    <2>2. report' \in [Calls -> D!Reports]
      BY <1>6, <2>1 DEF RefuseBatch, Decided
    <2>3. made' \in 0..MaxCalls /\ last' = made'
      BY <1>6 DEF RefuseBatch, Idle, Batches
    <2> QED
      BY <1>6, <2>2, <2>3 DEF RefuseBatch, Idle
  <1>7. ASSUME NEW s \in Server, Send(s)
        PROVE  TypeOK'
    BY <1>7 DEF Send, Current, Content
  <1>8. ASSUME NEW c \in Calls,
               Execute(c) \/ Refuse(c) \/ LoseRequest(c) \/ LoseAnswer(c)
        PROVE  TypeOK'
    <2>1. CASE Execute(c)
      BY <1>8, <2>1 DEF Execute
    <2>2. CASE Refuse(c)
      BY <1>8, <2>2 DEF Refuse
    <2>3. CASE LoseRequest(c) \/ LoseAnswer(c)
      BY <1>8, <2>3 DEF LoseRequest, LoseAnswer
    <2> QED
      BY <1>8, <2>1, <2>2, <2>3
  <1>9. ASSUME NEW c \in Calls, Overflow(c)
        PROVE  TypeOK'
    BY <1>9 DEF Overflow, Content
  <1>10. ASSUME NEW c \in Calls, NEW content \in Content, Capture(c, content)
         PROVE  TypeOK'
    BY <1>10 DEF Capture
  <1>11. CASE ReturnResult
    BY <1>11 DEF ReturnResult, Waiting, Current, D!Reports
  <1>12. ASSUME NEW execution \in {"outcome_unknown", "result_rejected"}, ReturnFailure(execution)
         PROVE  TypeOK'
    BY <1>12 DEF ReturnFailure, Waiting, Current, Decided, D!Reports, D!Uncertain
  <1>13. ASSUME NEW r \in {"sensitive", "cancelled"}, ReturnError(r)
         PROVE  TypeOK'
    BY <1>13 DEF ReturnError, Waiting, Current, D!Reports, D!Uncertain
  <1>14. CASE EndRun
    BY <1>14 DEF EndRun
  <1>15. CASE Close
    BY <1>15 DEF Close
  <1>16. CASE UNCHANGED vars
    BY <1>16 DEF vars
  <1> QED
    BY <1>1, <1>2, <1>3, <1>4, <1>5, <1>6, <1>7, <1>8, <1>9, <1>10, <1>11, <1>12,
       <1>13, <1>14, <1>15, <1>16 DEF Next

\* Every reachable state is well typed: counters within their limits, and a
\* call is in flight only while its batch lasts.
THEOREM TypeCorrect == Spec => []TypeOK
  <1>1. Init => TypeOK
    BY McpAssumption
       DEF McpAssumption, Init, TypeOK, Content, Calls, Server, D!Reports, D!Uncertain
  <1> QED
    BY <1>1, TypeStep, PTL DEF Spec

-----------------------------------------------------------------------------
(* Start-up and closing *)

\* While servers are being connected, the sessions open are those before the
\* server that is next, and perhaps its own.
SessionInv ==
    /\ AllOrNothing
    /\ phase = "connecting" =>
         /\ 1 .. (connecting - 1) \subseteq sessions
         /\ sessions \subseteq 1..connecting

LEMMA SessionStep ==
    ASSUME TypeOK, SessionInv, [Next]_vars
    PROVE  SessionInv'
  <1> USE McpAssumption DEF McpAssumption, TypeOK, SessionInv, AllOrNothing, Server, discovery, calling, network
  <1>1. CASE Connect
    <2>1. connecting' = connecting /\ sessions' = sessions \cup {connecting} /\ phase' = "connecting"
      BY <1>1 DEF Connect, Connecting
    <2>2. connecting \in 1..connecting /\ connecting \in Nat
      BY <1>1 DEF Connect, Connecting
    <2> QED
      BY <1>1, <2>1, <2>2 DEF Connect, Connecting
  <1>2. ASSUME NEW tools \in 0..1, NEW cursor \in Cursors, ReadPage(tools, cursor)
        PROVE  SessionInv'
    BY <1>2 DEF ReadPage, Discovering
  <1>3. ASSUME NEW tools \in 0..1, ReadLastPage(tools)
        PROVE  SessionInv'
    <2>1. connecting' = connecting + 1 /\ sessions' = sessions
      BY <1>3 DEF ReadLastPage
    <2>2. sessions = 1..connecting
      <3>1. /\ phase = "connecting" /\ connecting \in sessions /\ connecting \in Nat
            /\ 1 .. (connecting - 1) \subseteq sessions /\ sessions \subseteq 1..connecting
        BY <1>3 DEF ReadLastPage, Discovering
      <3>2. \A x \in 1..connecting : x \in 1 .. (connecting - 1) \/ x = connecting
        BY <3>1
      <3> HIDE DEF TypeOK, SessionInv, AllOrNothing, Server
      <3> QED
        BY <3>1, <3>2
    <2>3. CASE connecting = Servers
      BY <1>3, <2>1, <2>2, <2>3 DEF ReadLastPage
    <2>4. CASE connecting # Servers
      <3>1. connecting \in Nat /\ phase' = "connecting"
        BY <1>3, <2>4 DEF ReadLastPage, Discovering
      <3>2. connecting' - 1 = connecting /\ 1..connecting \subseteq 1..connecting'
        BY <3>1, <2>1
      <3> QED
        BY <3>1, <3>2, <2>1, <2>2
    <2> QED
      BY <2>3, <2>4
  <1>4. CASE StartFails \/ Close
    BY <1>4 DEF StartFails, Close
  <1>5. CASE EndRun \/ ReturnResult \/ \E r \in {"sensitive", "cancelled"} : ReturnError(r)
    BY <1>5 DEF EndRun, ReturnResult, ReturnError, Waiting
  <1>6. CASE UNCHANGED <<phase, discovery>>
    BY <1>6
  <1>7. ASSUME [Next]_vars
        PROVE  \/ Connect \/ StartFails \/ Close \/ EndRun \/ ReturnResult
               \/ \E tools \in 0..1 : ReadLastPage(tools) \/ \E cursor \in Cursors : ReadPage(tools, cursor)
               \/ \E r \in {"sensitive", "cancelled"} : ReturnError(r)
               \/ UNCHANGED <<phase, discovery>>
    BY <1>7 DEF Next, vars, AdmitBatch, RefuseBatch, Send, Execute, Refuse, LoseRequest,
                LoseAnswer, Overflow, Capture, ReturnFailure
  <1> QED
    BY <1>1, <1>2, <1>3, <1>4, <1>5, <1>6, <1>7

\* However start-up fails and however the run ends, a runtime holds the
\* sessions of all its servers or of none.
THEOREM AllOrNothingHolds == Spec => []AllOrNothing
  <1>1. Init => SessionInv
    BY McpAssumption DEF McpAssumption, Init, SessionInv, AllOrNothing, Server
  <1>2. SessionInv => AllOrNothing
    BY DEF SessionInv
  <1> QED
    BY <1>1, <1>2, SessionStep, TypeCorrect, PTL DEF Spec

-----------------------------------------------------------------------------
(* The budget *)

LEMMA BudgetStep ==
    ASSUME TypeOK, BudgetReserved, [Next]_vars
    PROVE  BudgetReserved'
  <1> USE McpAssumption DEF McpAssumption, TypeOK, BudgetReserved, discovery, calling, network
  <1>1. ASSUME NEW n \in Batches, AdmitBatch(n) \/ RefuseBatch(n)
        PROVE  BudgetReserved'
    BY <1>1 DEF AdmitBatch, RefuseBatch, Idle, WithinBudget, Batches
  <1>2. ASSUME NEW s \in Server, Send(s)
        PROVE  BudgetReserved'
    BY <1>2 DEF Send, WithinBudget, Server
  <1>3. CASE ReturnResult
    BY <1>3 DEF ReturnResult, Waiting, Current
  <1>4. ASSUME NEW execution, ReturnFailure(execution)
        PROVE  BudgetReserved'
    BY <1>4 DEF ReturnFailure
  <1>5. ASSUME NEW r, ReturnError(r)
        PROVE  BudgetReserved'
    BY <1>5 DEF ReturnError, Current
  <1>6. CASE EndRun
    BY <1>6 DEF EndRun
  <1>7. CASE UNCHANGED <<invocations, made, last, target>>
    BY <1>7
  <1> QED
    BY <1>1, <1>2, <1>3, <1>4, <1>5, <1>6, <1>7
       DEF Next, vars, Connect, StartFails, ReadPage, ReadLastPage, Execute, Refuse,
           LoseRequest, LoseAnswer, Overflow, Capture, Close

\* A batch that was admitted always has room for its remaining calls, for
\* every budget and size of batch.
THEOREM BudgetReservedHolds == Spec => []BudgetReserved
  <1>1. Init => BudgetReserved
    BY McpAssumption DEF McpAssumption, Init, BudgetReserved
  <1> QED
    BY <1>1, BudgetStep, TypeCorrect, PTL DEF Spec

-----------------------------------------------------------------------------
(* The refinement *)

\* The calls that were sent: those reported on otherwise than not_dispatched,
\* and the one waited for.
Sent ==
    {c \in Calls : c <= made /\ report[c] # "not_dispatched"}
        \cup {c \in Calls : target > 0 /\ c = Current}

\* What is executed or on its way was sent, once; nothing is known of calls
\* not yet decided; and results, reported or on the wire, were executed.
KnownInv ==
    /\ \A c \in Calls : executions[c] \in {0, 1}
    /\ \A c \in Calls : executions[c] = 1 => c \in Sent
    /\ \A c \in requests : executions[c] = 0 /\ c \in Sent
    /\ \A c \in Calls : c > made => report[c] = "none"
    /\ \A c \in Calls : report[c] = "result" => executions[c] = 1
    /\ target > 0 /\ wire[target] = "valid" => executions[Current] = 1

SentInv ==
    /\ IsFiniteSet(Sent)
    /\ Cardinality(Sent) <= invocations

\* Only Send makes another call one that was sent.
LEMMA SentStep ==
    ASSUME TypeOK, KnownInv, [Next]_vars
    PROVE  \/ Sent' = Sent /\ invocations' = invocations
           \/ Sent' = Sent \cup {Current} /\ invocations' = invocations + 1
  <1> USE DEF TypeOK, Sent, Current, Calls, Server, discovery, calling, network
  <1>1. ASSUME NEW n \in Batches, RefuseBatch(n)
        PROVE  Sent' = Sent
    <2>1. \A c \in Calls : c <= made' /\ report'[c] # "not_dispatched"
                             <=> c <= made /\ report[c] # "not_dispatched"
      BY <1>1, McpAssumption DEF McpAssumption, RefuseBatch, Idle, Decided, Batches, KnownInv
    <2> QED
      BY <1>1, <2>1 DEF RefuseBatch, Idle
  <1>2. ASSUME NEW s \in Server, Send(s)
        PROVE  Sent' = Sent \cup {Current}
    BY <1>2, McpAssumption DEF McpAssumption, Send
  <1>3. CASE ReturnResult
    <2>1. \A c \in Calls : c <= made' /\ report'[c] # "not_dispatched"
                             <=> (c <= made /\ report[c] # "not_dispatched") \/ c = Current
      BY <1>3 DEF ReturnResult, Waiting
    <2> QED
      BY <1>3, <2>1 DEF ReturnResult, Waiting
  <1>4. ASSUME NEW execution \in {"outcome_unknown", "result_rejected"}, ReturnFailure(execution)
        PROVE  Sent' = Sent
    <2>1. \A c \in Calls : c <= made' /\ report'[c] # "not_dispatched"
                             <=> (c <= made /\ report[c] # "not_dispatched") \/ c = Current
      BY <1>4 DEF ReturnFailure, Waiting, Decided
    <2> QED
      BY <1>4, <2>1 DEF ReturnFailure, Waiting
  <1>5. ASSUME NEW r \in {"sensitive", "cancelled"}, ReturnError(r)
        PROVE  Sent' = Sent
    <2>1. \A c \in Calls : c <= made' /\ report'[c] # "not_dispatched"
                             <=> (c <= made /\ report[c] # "not_dispatched") \/ c = Current
      BY <1>5 DEF ReturnError, Waiting
    <2> QED
      BY <1>5, <2>1 DEF ReturnError, Waiting
  <1>6. ASSUME UNCHANGED <<made, report, target>>
        PROVE  Sent' = Sent
    <2>1. made' = made /\ report' = report /\ target' = target
      BY <1>6
    <2> HIDE DEF TypeOK, Server, discovery, calling, network
    <2> QED
      BY <2>1
  <1>7. \/ \E n \in Batches : RefuseBatch(n)
        \/ \E s \in Server : Send(s)
        \/ ReturnResult
        \/ \E execution \in {"outcome_unknown", "result_rejected"} : ReturnFailure(execution)
        \/ \E r \in {"sensitive", "cancelled"} : ReturnError(r)
        \/ UNCHANGED <<made, report, target, invocations>>
    BY DEF Next, vars, Connect, StartFails, ReadPage, ReadLastPage, AdmitBatch, Execute, Refuse,
           LoseRequest, LoseAnswer, Overflow, Capture, EndRun, Close
  <1>8. (\E s \in Server : Send(s)) => invocations' = invocations + 1
    BY DEF Send
  <1>9. \/ \E n \in Batches : RefuseBatch(n)
        \/ ReturnResult
        \/ \E execution \in {"outcome_unknown", "result_rejected"} : ReturnFailure(execution)
        \/ \E r \in {"sensitive", "cancelled"} : ReturnError(r)
        => invocations' = invocations
    BY DEF RefuseBatch, ReturnResult, ReturnFailure, ReturnError
  <1> QED
    BY <1>1, <1>2, <1>3, <1>4, <1>5, <1>6, <1>7, <1>8, <1>9

LEMMA SentInvStep ==
    ASSUME TypeOK, KnownInv, SentInv, [Next]_vars
    PROVE  SentInv'
  <1>1. invocations \in Nat /\ Cardinality(Sent) \in Nat
    BY FS_CardinalityType DEF TypeOK, SentInv
  <1>2. /\ IsFiniteSet(Sent \cup {Current})
        /\ Cardinality(Sent \cup {Current}) \in Nat
        /\ Cardinality(Sent \cup {Current}) <= Cardinality(Sent) + 1
    BY <1>1, FS_AddElement, FS_CardinalityType DEF SentInv
  <1>3. CASE Sent' = Sent /\ invocations' = invocations
    BY <1>3 DEF SentInv
  <1>4. CASE Sent' = Sent \cup {Current} /\ invocations' = invocations + 1
    BY <1>1, <1>2, <1>4 DEF SentInv
  <1> QED
    BY <1>3, <1>4, SentStep

LEMMA KnownStep ==
    ASSUME TypeOK, KnownInv, [Next]_vars
    PROVE  KnownInv'
  <1> USE McpAssumption
      DEF McpAssumption, TypeOK, KnownInv, Sent, Current, Calls, Server, discovery, calling,
          network
  <1>1. ASSUME NEW n \in Batches, AdmitBatch(n)
        PROVE  KnownInv'
    BY <1>1 DEF AdmitBatch
  <1>2. ASSUME NEW n \in Batches, RefuseBatch(n)
        PROVE  KnownInv'
    BY <1>2 DEF RefuseBatch, Idle, Decided, Batches
  <1>3. ASSUME NEW s \in Server, Send(s)
        PROVE  KnownInv'
    BY <1>3 DEF Send
  <1>4. ASSUME NEW c \in Calls, Execute(c)
        PROVE  KnownInv'
    BY <1>4 DEF Execute
  <1>5. ASSUME NEW c \in Calls, Refuse(c) \/ LoseRequest(c) \/ LoseAnswer(c)
        PROVE  KnownInv'
    <2>1. /\ made' = made /\ target' = target /\ wire' = wire /\ report' = report
          /\ requests' \subseteq requests /\ executions' = executions
      BY <1>5 DEF Refuse, LoseRequest, LoseAnswer
    <2> HIDE DEF TypeOK, Calls, Server, discovery, calling, network
    <2> QED
      BY <2>1
  <1>6. ASSUME NEW c \in Calls, Overflow(c)
        PROVE  KnownInv'
    BY <1>6 DEF Overflow, Waiting
  <1>7. ASSUME NEW c \in Calls, NEW content \in Content, Capture(c, content)
        PROVE  KnownInv'
    BY <1>7 DEF Capture, Waiting
  <1>8. CASE ReturnResult
    <2>1. wire[target] = "valid"
      BY <1>8 DEF ReturnResult, Waiting, Classify, Content
    <2> QED
      BY <1>8, <2>1 DEF ReturnResult, Waiting
  <1>9. ASSUME NEW execution \in {"outcome_unknown", "result_rejected"}, ReturnFailure(execution)
        PROVE  KnownInv'
    BY <1>9 DEF ReturnFailure, Waiting, Decided
  <1>10. ASSUME NEW r \in {"sensitive", "cancelled"}, ReturnError(r)
         PROVE  KnownInv'
    BY <1>10 DEF ReturnError, Waiting
  <1>11. ASSUME UNCHANGED <<made, target, wire, report, network>>
         PROVE  KnownInv'
    <2>1. /\ made' = made /\ target' = target /\ wire' = wire /\ report' = report
          /\ requests' = requests /\ executions' = executions
      BY <1>11
    <2> HIDE DEF TypeOK, Calls, Server, discovery, calling, network
    <2> QED
      BY <2>1
  <1> QED
    BY <1>1, <1>2, <1>3, <1>4, <1>5, <1>6, <1>7, <1>8, <1>9, <1>10, <1>11
       DEF Next, vars, Connect, StartFails, ReadPage, ReadLastPage, EndRun, Close

\* The cardinality the dispatcher counts with is the one used here.
LEMMA SameCardinality ==
    ASSUME NEW S
    PROVE  D!Cardinality(S) = Cardinality(S)
  BY DEF D!Cardinality, Cardinality

\* A step of the runtime, its servers and the network is a step of the
\* dispatcher, or none: executing a request that was sent fits the budget,
\* and a report says no more than KnownInv.
LEMMA DispatchStep ==
    ASSUME TypeOK, KnownInv, SentInv, BudgetReserved, [Next]_vars
    PROVE  [D!Next]_<<executions, report>>
  <1> USE DEF TypeOK, discovery, calling, network
  <1>1. ASSUME NEW c \in Calls, Execute(c)
        PROVE  D!Execute(c)
    <2>1. c \in requests /\ executions[c] = 0 /\ c \in Sent
      BY <1>1 DEF Execute, KnownInv
    <2>4. report' = report /\ executions' = [executions EXCEPT ![c] = executions[c] + 1]
      BY <1>1 DEF Execute
    <2>2. report[c] \in D!Uncertain
      BY <2>1 DEF KnownInv, Sent, D!Reports, Current, D!Uncertain
    <2>3. Cardinality(D!Executed) < MaxInvocations
      <3> DEFINE Others == Sent \ {c}
      <3>1. D!Executed \subseteq Others
        BY <2>1 DEF KnownInv, D!Executed, Calls
      <3>2. /\ IsFiniteSet(Others) /\ Cardinality(Others) = Cardinality(Sent) - 1
            /\ Cardinality(Others) \in Nat /\ Cardinality(Sent) \in Nat
        BY <2>1, FS_RemoveElement, FS_CardinalityType DEF SentInv
      <3>3. Cardinality(D!Executed) \in Nat /\ Cardinality(D!Executed) <= Cardinality(Others)
        BY <3>1, <3>2, FS_Subset, FS_CardinalityType
      <3>4. invocations <= MaxInvocations /\ MaxInvocations \in Nat /\ invocations \in Nat
        BY McpAssumption DEF McpAssumption, BudgetReserved
      <3> QED
        BY <3>2, <3>3, <3>4 DEF SentInv
    <2>5. c \notin D!Executed
      BY <2>1 DEF D!Executed
    <2>6. executions' = [executions EXCEPT ![c] = 1]
      BY <2>1, <2>4
    <2> HIDE DEF TypeOK
    <2> QED
      BY <2>2, <2>3, <2>4, <2>5, <2>6, SameCardinality DEF D!Execute
  <1>2. ASSUME UNCHANGED executions, report' \in [Calls -> D!Reports],
               \A c \in Calls :
                  \/ report'[c] = report[c]
                  \/ /\ report[c] = "none"
                     /\ report'[c] = "not_dispatched" => executions[c] = 0
                     /\ report'[c] = "result" => executions[c] = 1
        PROVE  D!Report
    BY <1>2 DEF D!Report, D!Executed
  <1>3. report' \in [Calls -> D!Reports]
    BY TypeStep
  <1>4. ASSUME NEW n \in Batches, RefuseBatch(n)
        PROVE  D!Report
    BY <1>2, <1>3, <1>4, McpAssumption
       DEF McpAssumption, RefuseBatch, Idle, Decided, Batches, KnownInv, Sent, Calls, Current
  <1>5. ASSUME ReturnResult
        PROVE  D!Report
    <2>1. wire[target] = "valid"
      BY <1>5 DEF ReturnResult, Waiting, Classify, Content, Server
    <2>2. Current \in Calls /\ report[Current] = "none" /\ executions[Current] = 1
      BY <1>5, <2>1, McpAssumption DEF McpAssumption, ReturnResult, Waiting, KnownInv, Calls, Current
    <2>3. report' = [report EXCEPT ![Current] = "result"]
      BY <1>5 DEF ReturnResult
    <2>7. UNCHANGED executions
      BY <1>5 DEF ReturnResult
    <2>4. \A c \in Calls : c # Current => report'[c] = report[c]
      BY <2>3
    <2>5. report'[Current] = "result"
      BY <2>2, <2>3
    <2>6. \A c \in Calls :
             \/ report'[c] = report[c]
             \/ /\ report[c] = "none"
                /\ report'[c] = "not_dispatched" => executions[c] = 0
                /\ report'[c] = "result" => executions[c] = 1
      <3> HIDE DEF TypeOK, Current
      <3> QED
        BY <2>2, <2>4, <2>5
    <2> QED
      BY <1>2, <1>3, <2>6, <2>7
  <1>6. ASSUME NEW execution \in {"outcome_unknown", "result_rejected"}, ReturnFailure(execution)
        PROVE  D!Report
    <2>1. \A c \in Calls : c > made => report[c] = "none"
      BY DEF KnownInv
    <2>2. \A c \in Calls : c > Current => executions[c] = 0
      BY McpAssumption DEF McpAssumption, KnownInv, Sent, Calls, Current
    <2>3. made \in Nat /\ \A c \in Calls : c \in Nat
      BY McpAssumption DEF McpAssumption, Calls
    <2>4. \A c \in Calls :
             report'[c] = IF c = Current THEN execution
                          ELSE IF c \in Current..last THEN "not_dispatched" ELSE report[c]
      BY <1>6 DEF ReturnFailure, Decided
    <2>5. \A c \in Calls : c # Current /\ c \in Current..last => c > Current /\ c > made
      BY <2>3 DEF Current
    <2>6. Current > made
      BY <2>3 DEF Current
    <2>7. UNCHANGED executions
      BY <1>6 DEF ReturnFailure
    <2> QED
      BY <1>2, <1>3, <2>1, <2>2, <2>4, <2>5, <2>6, <2>7
  <1>7. ASSUME NEW r \in {"sensitive", "cancelled"}, ReturnError(r)
        PROVE  D!Report
    BY <1>2, <1>3, <1>7 DEF ReturnError, Waiting, KnownInv, Calls, Current
  <1>8. \/ \E c \in Calls : Execute(c)
        \/ \E n \in Batches : RefuseBatch(n)
        \/ ReturnResult
        \/ \E execution \in {"outcome_unknown", "result_rejected"} : ReturnFailure(execution)
        \/ \E r \in {"sensitive", "cancelled"} : ReturnError(r)
        \/ UNCHANGED <<executions, report>>
    BY DEF Next, vars, Connect, StartFails, ReadPage, ReadLastPage, AdmitBatch, Send, Refuse,
           LoseRequest, LoseAnswer, Overflow, Capture, EndRun, Close
  <1> QED
    BY <1>1, <1>4, <1>5, <1>6, <1>7, <1>8 DEF D!Next

\* Whatever is lost, late, refused or cancelled, a call is executed at most
\* once and within the budget, and its report is never revised nor more than
\* is known, for every number of servers and calls.
THEOREM ImplementsDispatcherHolds == Spec => ImplementsDispatcher
  <1>1. Init => D!Init /\ KnownInv /\ SentInv
    <2> SUFFICES ASSUME Init PROVE D!Init /\ KnownInv /\ SentInv
      OBVIOUS
    <2>1. Sent = {} /\ invocations = 0
      BY DEF Init, Sent, Calls
    <2>2. SentInv
      BY <2>1, FS_EmptySet DEF SentInv
    <2> QED
      BY <2>2 DEF Init, D!Init, KnownInv
  <1> QED
    BY <1>1, DispatchStep, KnownStep, SentInvStep, TypeCorrect, BudgetReservedHolds, PTL
       DEF Spec, ImplementsDispatcher, D!Spec
=============================================================================
