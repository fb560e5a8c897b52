-------------------------- MODULE ObjectiveRunProofs --------------------------
(***************************************************************************)
(* The safety properties of ObjectiveRun, for every cycle limit, every     *)
(* attempt limit and every number of children.                             *)
(*                                                                         *)
(* None of them is inductive: what the end of the run makes of the root    *)
(* task, the outcome and the error rests on what the loop left, and that   *)
(* on where it was left.  RunInv says it for every phase of the run.       *)
(***************************************************************************)
EXTENDS ObjectiveRun, TLAPS

Before == {"start", "push", "admit"}
Loop == {"cycle", "provide", "evaluate", "judge", "publish", "complete"}
Ending == {"drain", "unwind", "exit", "done"}

\* Where the run stands among its cycles and the attempts of an evaluation.
Progress ==
    /\ pc \in Before => cycle = 0
    /\ pc = "cycle" => cycle = 0 \/ (verdict = "unachieved" /\ cycle < MaxCycles)
    /\ pc \in {"provide", "evaluate"} => cycle # 0 /\ verdict = "none"
    /\ pc = "provide" => attempt = 0
    /\ pc = "evaluate" => attempt < MaxStructuredAttempts
    /\ pc = "judge" => cycle # 0 /\ verdict # "none"
    /\ pc = "publish" => cycle # 0 /\ verdict # "none" /\ LastCycle
    /\ pc = "complete" => verdict = "achieved"
    /\ pc \in Before \cup (Loop \ {"complete"}) => published = 0

\* Before the end nothing is settled, and nothing has gone wrong.
Untouched ==
    /\ pc \in {"start", "push"} => root = "none" /\ children = 0
    /\ pc = "admit" => root = "running" /\ children = 0
    /\ pc \in Loop => root = "running"
    /\ pc \in Before \cup Loop =>
           outcome = "failed" /\ err = "none" /\ reported = "none" /\ lines = "written"

\* What the loop left: the outcome, the error and the root task agree.
LeftBehind ==
    pc = "settle" =>
        /\ outcome = "achieved" =>
               err = "none" /\ root = "completed" /\ children = 0
        /\ outcome = "incomplete" =>
               err = "incomplete" /\ root = "running" /\ cycle = MaxCycles /\ verdict = "unachieved"
        /\ outcome = "failed" => err \in {"failed", "cancelled"} /\ root \in {"running", "failed"}
        /\ outcome # "cancelled"
        /\ reported = "none" /\ lines = "written"

\* What the error of the run says of its end.
Verdicts ==
    pc \in Ending =>
        /\ err = "none" => \/ root = "completed" /\ reported = "achieved"
                           \/ root = "none" /\ reported = "usage"
        /\ err = "incomplete" => root = "incomplete" /\ cycle = MaxCycles /\ verdict = "unachieved"
        /\ err = "failed" => root # "completed" \/ lines = "lost"

ExitInv ==
    /\ err = "cancelled" => cancelled
    /\ pc = "done" => exit = ExitCode
    /\ pc # "done" => exit = -1

RunInv ==
    /\ TypeOK
    /\ Progress
    /\ Untouched
    /\ LeftBehind
    /\ OneOutcome
    /\ Verdicts
    /\ ExitInv
    /\ PublishedWasEvaluated

-----------------------------------------------------------------------------
LEMMA InitRunInv == Init => RunInv
  <1> SUFFICES ASSUME Init PROVE RunInv
    OBVIOUS
  <1>1. cancelled \in BOOLEAN /\ response \in BOOLEAN
    BY DEF Init
  <1>2. TypeOK
    BY <1>1, RunAssumption DEF Init, TypeOK, Outcome, RootStatus, Error
  <1>3. /\ Progress /\ Untouched /\ LeftBehind /\ OneOutcome /\ Verdicts /\ ExitInv
        /\ PublishedWasEvaluated
    BY DEF Init, Progress, Untouched, LeftBehind, OneOutcome, Verdicts, ExitInv,
           PublishedWasEvaluated, Before, Loop, Ending
  <1> QED
    BY <1>2, <1>3 DEF RunInv

LEMMA NextRunInv == RunInv /\ [Next]_vars => RunInv'
  <1> SUFFICES ASSUME RunInv, [Next]_vars
               PROVE  RunInv'
    OBVIOUS
  <1> USE RunAssumption DEF Before, Loop, Ending, Outcome, RootStatus, Error
  <1>0. CASE ShowUsage
    BY <1>0
    DEF ShowUsage, judgment, store, ending, process,
        RunInv, TypeOK, Progress, Untouched, LeftBehind, OneOutcome, Verdicts, ExitInv,
        PublishedWasEvaluated, ExitCode, LastCycle
  <1>1. CASE Compose
    BY <1>1
    DEF Compose, judgment, store, ending, process,
        RunInv, TypeOK, Progress, Untouched, LeftBehind, OneOutcome, Verdicts, ExitInv,
        PublishedWasEvaluated, ExitCode, LastCycle
  <1>2. CASE Push
    BY <1>2
    DEF Push, judgment, store, ending, process,
        RunInv, TypeOK, Progress, Untouched, LeftBehind, OneOutcome, Verdicts, ExitInv,
        PublishedWasEvaluated, ExitCode, LastCycle
  <1>3. CASE AdmitRequest
    BY <1>3
    DEF AdmitRequest, judgment, store, ending, process,
        RunInv, TypeOK, Progress, Untouched, LeftBehind, OneOutcome, Verdicts, ExitInv,
        PublishedWasEvaluated, ExitCode, LastCycle
  <1>4. CASE BeginCycle
    <2>1. response' \in BOOLEAN
      BY <1>4 DEF BeginCycle, judgment, RunInv, TypeOK
    <2> QED
      BY <1>4, <2>1
      DEF BeginCycle, Leave, judgment, store, ending, process,
          RunInv, TypeOK, Progress, Untouched, LeftBehind, OneOutcome, Verdicts, ExitInv,
          PublishedWasEvaluated, ExitCode, LastCycle
  <1>5. CASE Provide
    <2>1. response' \in BOOLEAN
      BY <1>5 DEF Provide
    <2> QED
      BY <1>5, <2>1
      DEF Provide, Depth, judgment, store, ending, process,
          RunInv, TypeOK, Progress, Untouched, LeftBehind, OneOutcome, Verdicts, ExitInv,
          PublishedWasEvaluated, ExitCode, LastCycle
  <1>6. CASE ProviderFails
    BY <1>6
    DEF ProviderFails, Leave, CycleError, Depth, judgment, store, ending, process,
        RunInv, TypeOK, Progress, Untouched, LeftBehind, OneOutcome, Verdicts, ExitInv,
        PublishedWasEvaluated, ExitCode, LastCycle
  <1>7. CASE Correct
    BY <1>7
    DEF Correct, judgment, store, ending, process,
        RunInv, TypeOK, Progress, Untouched, LeftBehind, OneOutcome, Verdicts, ExitInv,
        PublishedWasEvaluated, ExitCode, LastCycle
  <1>8. CASE EvaluationFails
    BY <1>8
    DEF EvaluationFails, Leave, CycleError, StoreAfterFailure, judgment, store, ending, process,
        RunInv, TypeOK, Progress, Untouched, LeftBehind, OneOutcome, Verdicts, ExitInv,
        PublishedWasEvaluated, ExitCode, LastCycle
  <1>9. CASE Evaluate
    BY <1>9
    DEF Evaluate, judgment, store, ending, process,
        RunInv, TypeOK, Progress, Untouched, LeftBehind, OneOutcome, Verdicts, ExitInv,
        PublishedWasEvaluated, ExitCode, LastCycle
  <1>10. CASE Judge
    BY <1>10
    DEF Judge, Leave, LastCycle, judgment, store, ending, process,
        RunInv, TypeOK, Progress, Untouched, LeftBehind, OneOutcome, Verdicts, ExitInv,
        PublishedWasEvaluated, ExitCode
  <1>11. CASE Publish
    BY <1>11
    DEF Publish, Leave, LastCycle, judgment, store, ending, process,
        RunInv, TypeOK, Progress, Untouched, LeftBehind, OneOutcome, Verdicts, ExitInv,
        PublishedWasEvaluated, ExitCode
  <1>12. CASE CompleteObjective
    BY <1>12
    DEF CompleteObjective, Leave, judgment, store, ending, process,
        RunInv, TypeOK, Progress, Untouched, LeftBehind, OneOutcome, Verdicts, ExitInv,
        PublishedWasEvaluated, ExitCode, LastCycle
  <1>13. CASE Settle
    BY <1>13
      DEF Settle, Ended, FinalOutcome, judgment, store, ending, process,
          RunInv, TypeOK, Progress, Untouched, LeftBehind, OneOutcome, Verdicts, ExitInv,
          PublishedWasEvaluated, ExitCode, LastCycle
  <1>14. CASE DrainMilestones
    BY <1>14
      DEF DrainMilestones, judgment, store, ending, process,
          RunInv, TypeOK, Progress, Untouched, LeftBehind, OneOutcome, Verdicts, ExitInv,
          PublishedWasEvaluated, ExitCode, LastCycle
  <1>15. CASE Unwind
    BY <1>15
    DEF Unwind, judgment, store, ending, process,
        RunInv, TypeOK, Progress, Untouched, LeftBehind, OneOutcome, Verdicts, ExitInv,
        PublishedWasEvaluated, ExitCode, LastCycle
  <1>16. CASE Exit
    BY <1>16
    DEF Exit, ExitCode, judgment, store, ending, process,
        RunInv, TypeOK, Progress, Untouched, LeftBehind, OneOutcome, Verdicts, ExitInv,
        PublishedWasEvaluated, LastCycle
  <1>17. CASE Cancel
    BY <1>17
    DEF Cancel, judgment, store, ending, process,
        RunInv, TypeOK, Progress, Untouched, LeftBehind, OneOutcome, Verdicts, ExitInv,
        PublishedWasEvaluated, ExitCode, LastCycle
  <1>18. CASE UNCHANGED vars
    BY <1>18
    DEF vars, judgment, store, ending, process, RunInv, TypeOK, Progress, Untouched, LeftBehind, OneOutcome,
        Verdicts, ExitInv, PublishedWasEvaluated, ExitCode, LastCycle
  <1> QED
    BY <1>0, <1>1, <1>2, <1>3, <1>4, <1>5, <1>6, <1>7, <1>8, <1>9, <1>10, <1>11, <1>12, <1>13, <1>14, <1>15, <1>16, <1>17, <1>18 DEF Next, RunStep, Finished

LEMMA RunInvariant == Spec => []RunInv
  <1> QED
    BY InitRunInv, NextRunInv, PTL DEF Spec

\* Every variable keeps its shape and the counters stay within their limits,
\* whatever the limits of cycles and attempts are.
THEOREM TypeCorrect == Spec => []TypeOK
  <1>1. RunInv => TypeOK
    BY DEF RunInv
  <1> QED
    BY <1>1, RunInvariant, PTL

\* However a run ends, its tasks are settled and the root is completed exactly
\* when the outcome is achieved (the deferred function of the run).
THEOREM OneOutcomeHolds == Spec => []OneOutcome
  <1>1. RunInv => OneOutcome
    BY DEF RunInv
  <1> QED
    BY <1>1, RunInvariant, PTL

\* What is published is the response of the last cycle, after its evaluation.
THEOREM PublishedWasEvaluatedHolds == Spec => []PublishedWasEvaluated
  <1>1. RunInv => PublishedWasEvaluated
    BY DEF RunInv
  <1> QED
    BY <1>1, RunInvariant, PTL

\* The exit code says what became of the run (exitCode, main).
THEOREM ExitCodesHold == Spec => []ExitCodes
  <1>1. RunInv => ExitCodes
    <2> SUFFICES ASSUME RunInv, pc = "done" PROVE ExitCodes
      BY DEF RunInv, ExitInv, ExitCodes
    <2>1. /\ err \in Error /\ exit = ExitCode /\ Verdicts
          /\ err = "cancelled" => cancelled
      BY DEF RunInv, TypeOK, ExitInv
    <2> QED
      BY <2>1 DEF Error, ExitCode, Verdicts, Ending, ExitCodes
  <1> QED
    BY <1>1, RunInvariant, PTL

\* Only a valid negative evaluation starts another cycle.
THEOREM ContinuesOnVerdictHolds == Spec => ContinuesOnVerdict
  <1>1. RunInv /\ [Next]_vars => [(cycle' # cycle /\ cycle # 0) => verdict = "unachieved"]_vars
    <2> SUFFICES ASSUME RunInv, Next, cycle' # cycle, cycle # 0
                 PROVE  verdict = "unachieved"
      BY DEF vars, judgment, store, ending, process
    <2>1. BeginCycle
      BY DEF Next, RunStep, Finished, vars, ShowUsage, Compose, Push, AdmitRequest, Provide, ProviderFails,
             Correct, EvaluationFails, Evaluate, Judge, Publish, CompleteObjective, Settle,
             DrainMilestones, Unwind, Exit, Cancel
    <2> QED
      BY <2>1 DEF BeginCycle, RunInv, Progress
  <1> QED
    BY <1>1, RunInvariant, PTL DEF Spec, ContinuesOnVerdict

=============================================================================
