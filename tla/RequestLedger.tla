---------------------------- MODULE RequestLedger ----------------------------
(***************************************************************************)
(* What internal/state promises a module about the host work it asks for:  *)
(* a request identity is accepted once, with one payload; its work is      *)
(* executed at most once, one request at a time, within the budget of the  *)
(* run; its outcome, once there, is kept until the request settles; and    *)
(* when the run is over everything has settled and nothing more is asked.  *)
(***************************************************************************)
EXTENDS Naturals

CONSTANTS
    Keys,       \* request identities, each within its partition
    Payloads,
    NoPayload,  \* the payload of an identity nobody has used
    Budget      \* executions per run

VARIABLES
    progress,   \* key -> how far its request is
    payload,    \* key -> what was asked
    spent,      \* executions so far
    over        \* the run has ended

vars == <<progress, payload, spent, over>>

Progress == {"unknown", "queued", "executing", "recorded", "settled"}

Init ==
    /\ progress = [k \in Keys |-> "unknown"]
    /\ payload = [k \in Keys |-> NoPayload]
    /\ spent = 0
    /\ over = FALSE

Moves(k, from, to) ==
    /\ progress[k] = from
    /\ progress' = [progress EXCEPT ![k] = to]

Ask(k, d) ==
    /\ ~over
    /\ Moves(k, "unknown", "queued")
    /\ payload' = [payload EXCEPT ![k] = d]
    /\ UNCHANGED <<spent, over>>

Execute(k) ==
    /\ spent < Budget
    /\ \A j \in Keys : progress[j] # "executing"
    /\ Moves(k, "queued", "executing")
    /\ spent' = spent + 1
    /\ UNCHANGED <<payload, over>>

Record(k) ==
    /\ Moves(k, "executing", "recorded")
    /\ UNCHANGED <<payload, spent, over>>

Settle(k) ==
    /\ Moves(k, "recorded", "settled")
    /\ UNCHANGED <<payload, spent, over>>

\* The run ends between executions; what was asked for settles with it.
Finish ==
    /\ ~over
    /\ \A k \in Keys : progress[k] # "executing"
    /\ over' = TRUE
    /\ progress' = [k \in Keys |->
                        IF progress[k] = "unknown" THEN "unknown" ELSE "settled"]
    /\ UNCHANGED <<payload, spent>>

Next ==
    \/ \E k \in Keys :
           \/ \E d \in Payloads : Ask(k, d)
           \/ Execute(k)
           \/ Record(k)
           \/ Settle(k)
    \/ Finish

Spec == Init /\ [][Next]_vars

=============================================================================
