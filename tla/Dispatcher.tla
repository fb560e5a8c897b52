----------------------------- MODULE Dispatcher -----------------------------
(***************************************************************************)
(* What the loop is promised about the calls it makes through the MCP      *)
(* runtime: a call is executed at most once, within the budget of the run, *)
(* and its report says what can be known of that.  "not_dispatched" means  *)
(* never executed, also later; "result" means executed; after any other    *)
(* report the call may have been executed, and may still be.               *)
(***************************************************************************)
EXTENDS Integers, FiniteSets

CONSTANTS Calls, Budget

VARIABLES
    executions,   \* how often a server has executed each call
    report        \* what the loop was told of each call

Uncertain == {"none", "outcome_unknown", "result_rejected", "sensitive", "cancelled"}
Reports == {"not_dispatched", "result"} \cup Uncertain

Executed == {c \in Calls : executions[c] > 0}

Init ==
    /\ executions = [c \in Calls |-> 0]
    /\ report = [c \in Calls |-> "none"]

Execute(c) ==
    /\ c \notin Executed
    /\ report[c] \in Uncertain
    /\ Cardinality(Executed) < Budget
    /\ executions' = [executions EXCEPT ![c] = 1]
    /\ UNCHANGED report

\* One report may decide about calls that will not be made after it; a report
\* is never revised.
Report ==
    /\ UNCHANGED executions
    /\ report' \in [Calls -> Reports]
    /\ \A c \in Calls :
          \/ report'[c] = report[c]
          \/ /\ report[c] = "none"
             /\ report'[c] = "not_dispatched" => c \notin Executed
             /\ report'[c] = "result" => c \in Executed

Next == (\E c \in Calls : Execute(c)) \/ Report

Spec == Init /\ [][Next]_<<executions, report>>
=============================================================================
