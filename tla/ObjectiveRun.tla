---------------------------- MODULE ObjectiveRun ----------------------------
(***************************************************************************)
(* One run of grodt (cmd/grodt): the cycles of runObjectiveWithEvaluator,  *)
(* each a pass over the provider chain and an evaluation of the objective  *)
(* by structured generation; the publication of the response; the          *)
(* completion of the root task and of the children above it; and the       *)
(* deferred end, report, trace artifact and exit code.                     *)
(*                                                                         *)
(* Of the store it keeps the status of the root task and the number of     *)
(* active reasoning children.  The provider chain is one step that handles *)
(* the request, or fails; pc names the statement of the run that comes     *)
(* next.  The context may be done, and a line fail to be written, at any   *)
(* point.                                                                  *)
(***************************************************************************)
EXTENDS Integers

CONSTANTS
    MaxCycles,              \* main.go: 500
    MaxStructuredAttempts,  \* structured.go: 5
    Tools,                  \* MCP servers are configured
    MaxChildren             \* model bound: active children of the root

ASSUME RunAssumption ==
    /\ MaxCycles \in Nat \ {0}
    /\ MaxStructuredAttempts \in Nat \ {0}
    /\ Tools \in BOOLEAN
    /\ MaxChildren \in Nat

Outcome == {"achieved", "incomplete", "failed", "cancelled"}
RootStatus == {"none", "running", "completed", "incomplete", "failed", "cancelled"}
Error == {"none", "incomplete", "failed", "cancelled"}

\* How many reasoning children a pass over the providers may leave active.
Depth == 0..(IF Tools THEN MaxChildren ELSE 0)

VARIABLES
    pc,
    cancelled,  \* the context of the run is done
    cycle,
    verdict,    \* the valid evaluation of this cycle, if there is one
    response,   \* State.Response is nonempty
    attempt,    \* inferences of the evaluation in progress
    root,       \* status of the root task
    children,   \* active reasoning children above it
    published,  \* cycle whose response went to the output, 0 if none
    outcome,
    err,        \* the error the run returns
    reported,   \* the Status line or the usage, "none" before it is written
    lines,      \* "lost" once a line of the ending could not be written
    captured,   \* root status in the state the deferred trace call holds
    artifact,   \* root status in final-state.json; both "unset" without one
    exit        \* exit code, -1 before the end

store == <<root, children>>
judgment == <<verdict, response, attempt>>
ending == <<published, outcome, reported, lines>>
process == <<captured, artifact, exit>>
vars == <<pc, cancelled, cycle, judgment, store, ending, err, process>>

-----------------------------------------------------------------------------
Init ==
    /\ pc = "start"
    /\ cancelled = FALSE
    /\ cycle = 0
    /\ verdict = "none"
    /\ response = FALSE
    /\ attempt = 0
    /\ root = "none"
    /\ children = 0
    /\ published = 0
    /\ outcome = "failed"
    /\ err = "none"
    /\ reported = "none"
    /\ lines = "written"
    /\ captured = "unset"
    /\ artifact = "unset"
    /\ exit = -1

\* The run leaves its loop with an error; the deferred function comes next.
Leave(e) ==
    /\ err' = e
    /\ pc' = "settle"

\* safeCycleError: a done context wins over what else went wrong.
CycleError == IF cancelled THEN "cancelled" ELSE "failed"

\* An admission may spend the last host execution: the store has then ended
\* every task, before the error reaches the run.
StoreAfterFailure ==
    \/ root' = "failed" /\ children' = 0
    \/ UNCHANGED store

-----------------------------------------------------------------------------
(* Before the first cycle *)

\* run: -h writes the usage and runs nothing.
ShowUsage ==
    /\ pc = "start"
    /\ \/ reported' = "usage" /\ UNCHANGED <<err, lines>>
       \/ err' = "failed" /\ lines' = "lost" /\ UNCHANGED reported
    /\ pc' = "exit"
    /\ UNCHANGED <<cancelled, cycle, judgment, store, published, outcome, process>>

\* run: with a trace directory, the call that saves the final state is deferred
\* and its argument evaluated here.
Compose ==
    /\ pc = "start"
    /\ \/ ~cancelled /\ captured' \in {"unset", root} /\ pc' = "push" /\ UNCHANGED err
       \/ cancelled /\ err' = "cancelled" /\ pc' = "exit" /\ UNCHANGED captured
       \/ err' = "failed" /\ pc' = "exit" /\ UNCHANGED captured
    /\ UNCHANGED <<cancelled, cycle, judgment, store, ending, artifact, exit>>

Push ==
    /\ pc = "push"
    /\ \/ ~cancelled /\ root' = "running" /\ pc' = "admit" /\ UNCHANGED err
       \/ cancelled /\ err' = "cancelled" /\ pc' = "drain" /\ UNCHANGED root
       \/ err' = "failed" /\ pc' = "drain" /\ UNCHANGED root
    /\ UNCHANGED <<cancelled, cycle, judgment, children, ending, process>>

\* The user event.  Its failure ends the run without a report.
AdmitRequest ==
    /\ pc = "admit"
    /\ \/ ~cancelled /\ pc' = "cycle" /\ UNCHANGED <<root, err>>
       \/ cancelled /\ root' = "cancelled" /\ err' = "cancelled" /\ pc' = "drain"
       \/ root' = "failed" /\ err' = "failed" /\ pc' = "drain"
    /\ UNCHANGED <<cancelled, cycle, judgment, children, ending, process>>

-----------------------------------------------------------------------------
(* A cycle *)

\* Mutant of BeginCycle: a cycle that follows another is not counted.
BeginCycleUncounted ==
    /\ pc = "cycle"
    /\ \/ /\ ~cancelled
          /\ cycle' = 1 /\ verdict' = "none" /\ response' = FALSE
          /\ attempt' = 0
          /\ pc' = "provide"
          /\ UNCHANGED err
       \/ cancelled /\ Leave("cancelled") /\ UNCHANGED <<cycle, judgment>>
       \/ Leave("failed") /\ UNCHANGED <<cycle, judgment>>
    /\ UNCHANGED <<cancelled, store, ending, process>>

\* Mutant of BeginCycle: the attempts of the last evaluation still count.
BeginCycleCounting ==
    /\ pc = "cycle"
    /\ \/ /\ ~cancelled
          /\ cycle' = cycle + 1 /\ verdict' = "none" /\ response' = FALSE
          /\ pc' = "provide"
          /\ UNCHANGED <<attempt, err>>
       \/ cancelled /\ Leave("cancelled") /\ UNCHANGED <<cycle, judgment>>
       \/ Leave("failed") /\ UNCHANGED <<cycle, judgment>>
    /\ UNCHANGED <<cancelled, store, ending, process>>

\* A cycle starts from a fresh loop.State; its progress line may not be written.
BeginCycle ==
    /\ pc = "cycle"
    /\ \/ /\ ~cancelled
          /\ cycle' = cycle + 1 /\ verdict' = "none" /\ response' = FALSE
          /\ attempt' = 0
          /\ pc' = "provide"
          /\ UNCHANGED err
       \/ cancelled /\ Leave("cancelled") /\ UNCHANGED <<cycle, judgment>>
       \/ Leave("failed") /\ UNCHANGED <<cycle, judgment>>
    /\ UNCHANGED <<cancelled, store, ending, process>>

\* Process: the provider handles the request.  With tools it may have pushed and
\* settled children, and it may have had the objective confirmed on the way, in
\* which case the rationale is the response.
Provide ==
    /\ pc = "provide"
    /\ ~cancelled
    /\ children' \in Depth
    /\ \/ response' \in BOOLEAN /\ UNCHANGED verdict /\ pc' = "evaluate"
       \/ Tools /\ response' = TRUE /\ verdict' = "achieved" /\ pc' = "judge"
    /\ UNCHANGED <<cancelled, cycle, attempt, root, ending, err, process>>

ProviderFails ==
    /\ pc = "provide"
    /\ \/ children' \in Depth /\ UNCHANGED root
       \/ children' = 0 /\ root' = "failed"
    /\ Leave(CycleError)
    /\ UNCHANGED <<cancelled, cycle, judgment, ending, process>>

\* Generate: a candidate that is JSON but violates the schema is corrected.
Correct ==
    /\ pc = "evaluate"
    /\ ~cancelled
    /\ attempt + 1 < MaxStructuredAttempts
    /\ attempt' = attempt + 1
    /\ UNCHANGED <<pc, cancelled, cycle, verdict, response, store, ending, err, process>>

\* Mutant of EvaluationFails: a failed evaluation starts another cycle.
EvaluationRetried ==
    /\ pc = "evaluate"
    /\ attempt' \in {attempt, attempt + 1}
    /\ StoreAfterFailure
    /\ pc' = IF cycle < MaxCycles THEN "cycle" ELSE "judge"
    /\ UNCHANGED <<cancelled, cycle, verdict, response, ending, err, process>>

\* A provider error, malformed JSON, the last candidate invalid, a blank
\* rationale, or the failure of the observation that follows: all are terminal.
\* A context already done stops before the inference.
EvaluationFails ==
    /\ pc = "evaluate"
    /\ attempt' \in {attempt, attempt + 1}
    /\ attempt' = attempt => cancelled
    /\ StoreAfterFailure
    /\ Leave(CycleError)
    /\ UNCHANGED <<cancelled, cycle, verdict, response, ending, process>>

\* A valid candidate, decoded and admitted, is the evaluation of the cycle.
Evaluate ==
    /\ pc = "evaluate"
    /\ ~cancelled
    /\ attempt' = attempt + 1
    /\ verdict' \in {"achieved", "unachieved"}
    /\ pc' = "judge"
    /\ UNCHANGED <<cancelled, cycle, response, store, ending, err, process>>

\* Mutant of LastCycle: a response is published whatever was evaluated.
FirstResponse == response

LastCycle == verdict = "achieved" \/ cycle = MaxCycles

\* The context, then the evaluation line, then: publish or go on.
Judge ==
    /\ pc = "judge"
    /\ \/ ~cancelled /\ pc' = (IF LastCycle THEN "publish" ELSE "cycle") /\ UNCHANGED err
       \/ cancelled /\ Leave("cancelled")
       \/ Leave("failed")
    /\ UNCHANGED <<cancelled, cycle, judgment, store, ending, process>>

\* The response goes out before the objective is completed.
Publish ==
    /\ pc = "publish"
    /\ \/ /\ published' = (IF response THEN cycle ELSE 0)
          /\ IF verdict = "achieved"
             THEN pc' = "complete" /\ UNCHANGED <<outcome, err>>
             ELSE outcome' = "incomplete" /\ Leave("incomplete")
       \/ response /\ Leave("failed") /\ UNCHANGED <<published, outcome>>
    /\ UNCHANGED <<cancelled, cycle, judgment, store, reported, lines, process>>

\* CompleteObjective, one commit at a time: each child is completed or abandoned,
\* then the root completes.  A commit fails when the context is done (and when
\* work is pending, which no handled request leaves behind).
CompleteObjective ==
    /\ pc = "complete"
    /\ \/ /\ ~cancelled /\ children > 0
          /\ children' = children - 1
          /\ UNCHANGED <<pc, root, outcome, err>>
       \/ /\ ~cancelled /\ children = 0
          /\ root' = "completed" /\ outcome' = "achieved" /\ Leave("none")
          /\ UNCHANGED children
       \/ cancelled /\ Leave("cancelled") /\ UNCHANGED <<store, outcome>>
    /\ UNCHANGED <<cancelled, cycle, judgment, published, reported, lines, process>>

-----------------------------------------------------------------------------
(* The end of the run *)

\* What the deferred function makes of the error it finds.
FinalOutcome == IF err = "cancelled" THEN "cancelled" ELSE outcome

\* Mutant of Ended: the tasks are left as they are.
LeftRunning(status) == UNCHANGED store

\* End, under WithoutCancel: what has settled before stays.
Ended(status) ==
    /\ root' = (IF root = "running" THEN status ELSE root)
    /\ children' = 0

\* The deferred function: the outcome, End, and the report, which may fail.
Settle ==
    /\ pc = "settle"
    /\ outcome' = FinalOutcome
    /\ IF FinalOutcome = "achieved" THEN UNCHANGED store ELSE Ended(FinalOutcome)
    /\ \/ reported' = FinalOutcome /\ UNCHANGED <<err, lines>>
       \/ err' = "failed" /\ lines' = "lost" /\ UNCHANGED reported
    /\ pc' = "drain"
    /\ UNCHANGED <<cancelled, cycle, judgment, published, process>>

\* execute: the milestones still to be written; their failure joins the error.
DrainMilestones ==
    /\ pc = "drain"
    /\ \/ UNCHANGED <<err, lines>>
       \/ lines' = "lost" /\ err' = (IF err = "none" THEN "failed" ELSE err)
    /\ pc' = "unwind"
    /\ UNCHANGED <<cancelled, cycle, judgment, store, published, outcome, reported, process>>

\* The calls deferred by run: the final artifact, if it can be written, and Close.
Unwind ==
    /\ pc = "unwind"
    /\ artifact' \in {"unset", captured}
    /\ pc' = "exit"
    /\ UNCHANGED <<cancelled, cycle, judgment, store, ending, err, captured, exit>>

\* Mutant of ExitCode: an incomplete objective is a success.
ExitCodeLenient == IF err \in {"none", "cancelled", "incomplete"} THEN 0 ELSE 1

ExitCode ==
    CASE err \in {"none", "cancelled"} -> 0
      [] err = "incomplete" -> 2
      [] err = "failed" -> 1

Exit ==
    /\ pc = "exit"
    /\ exit' = ExitCode
    /\ pc' = "done"
    /\ UNCHANGED <<cancelled, cycle, judgment, store, ending, err, captured, artifact>>

\* SIGINT or SIGTERM; the handler is gone once the run has returned.
Cancel ==
    /\ ~cancelled /\ pc \notin {"exit", "done"}
    /\ cancelled' = TRUE
    /\ UNCHANGED <<pc, cycle, judgment, store, ending, err, process>>

-----------------------------------------------------------------------------
RunStep ==
    \/ ShowUsage
    \/ Compose
    \/ Push
    \/ AdmitRequest
    \/ BeginCycle
    \/ Provide
    \/ ProviderFails
    \/ Correct
    \/ EvaluationFails
    \/ Evaluate
    \/ Judge
    \/ Publish
    \/ CompleteObjective
    \/ Settle
    \/ DrainMilestones
    \/ Unwind
    \/ Exit

Finished == pc = "done" /\ UNCHANGED vars

Next == RunStep \/ Cancel \/ Finished

Spec == Init /\ [][Next]_vars

\* Each LLM request has its timeout, each module and HTTP request too: whatever
\* the run waits for comes back.
FairSpec == Spec /\ WF_vars(RunStep)

-----------------------------------------------------------------------------
(* Properties *)

\* Every variable keeps its shape; the counters stay within their limits.
TypeOK ==
    /\ pc \in {"start", "push", "admit", "cycle", "provide", "evaluate", "judge",
               "publish", "complete", "settle", "drain", "unwind", "exit", "done"}
    /\ cancelled \in BOOLEAN
    /\ cycle \in 0..MaxCycles
    /\ verdict \in {"none", "achieved", "unachieved"}
    /\ response \in BOOLEAN
    /\ attempt \in 0..MaxStructuredAttempts
    /\ root \in RootStatus
    /\ children \in 0..MaxChildren
    /\ published \in 0..MaxCycles
    /\ outcome \in Outcome
    /\ err \in Error
    /\ reported \in Outcome \cup {"none", "usage"}
    /\ lines \in {"written", "lost"}
    /\ captured \in RootStatus \cup {"unset"}
    /\ artifact \in RootStatus \cup {"unset"}
    /\ exit \in -1..2

\* "Only valid evaluations drive continuation" (runObjectiveWithEvaluator): a new
\* cycle follows a valid negative evaluation of the one before, nothing else.
ContinuesOnVerdict == [][(cycle' # cycle /\ cycle # 0) => verdict = "unachieved"]_vars

\* However the run ends, and whatever was half done when it did, nothing stays
\* active, and the root task is completed exactly when the outcome is achieved.
\* Nothing has run where the usage was asked for.
OneOutcome ==
    pc \in {"drain", "unwind", "exit", "done"} =>
        /\ children = 0 /\ root # "running"
        /\ root = "completed" <=> outcome = "achieved"
        /\ reported \in {"none", outcome} \/ (reported = "usage" /\ root = "none")
        /\ outcome = "incomplete" => root = "incomplete"

\* The published response is that of the last cycle, once it has been evaluated.
PublishedWasEvaluated ==
    published # 0 =>
        /\ published = cycle
        /\ \/ verdict = "achieved"
           \/ verdict = "unachieved" /\ cycle = MaxCycles

\* The exit codes of the README: 0 achieved or cancelled, 2 the cycle limit
\* without achievement, 1 anything else, a report that was not written included.
\* A run that was only asked for its usage exits with 0 once that is written.
ExitCodes ==
    /\ exit = 0 => \/ root = "completed" /\ reported = "achieved"
                   \/ root = "none" /\ reported = "usage"
                   \/ cancelled
    /\ exit = 2 => root = "incomplete" /\ cycle = MaxCycles /\ verdict = "unachieved"
    /\ exit = 1 => root # "completed" \/ lines = "lost"

\* Every run comes to its end, whatever the model, the modules and the tools say.
Terminates == <>(pc = "done")

\* "failed cycles never publish a response" (runObjectiveWithEvaluator): nor does
\* one that the end of the run calls cancelled.
FailedNeverPublishes ==
    (pc = "done" /\ outcome \in {"failed", "cancelled"}) => published = 0

\* "a final state snapshot" (README, on --trace-dir): the artifact of the run
\* holds the state the run ended in.
FinalStateSaved == (pc = "done" /\ artifact # "unset") => artifact = root

=============================================================================
