--------------------------- MODULE TaskStoreLedger ---------------------------
(***************************************************************************)
(* TaskStore implements RequestLedger: how far a request is can be read    *)
(* from the host task that holds its identity.                             *)
(***************************************************************************)
EXTENDS TaskStore

CONSTANT NoPayload

ASSUME LedgerAssumption == NoPayload \notin Payloads

Keys == Partition \X RequestIDs

Holder(k) == CHOOSE t \in Holders(k[1], k[2]) : TRUE

ProgressOf(k) ==
    IF Holders(k[1], k[2]) = {} THEN "unknown"
    ELSE LET t == Holder(k)
         IN  IF ~Live(t) THEN "settled"
             ELSE IF tasks[t].result THEN "recorded"
             ELSE IF op = "http" /\ t = Top THEN "executing"
             ELSE "queued"

PayloadOf(k) ==
    IF Holders(k[1], k[2]) = {} THEN NoPayload ELSE tasks[Holder(k)].work.payload

Ledger == INSTANCE RequestLedger WITH
    Budget <- MaxHostExecutions,
    progress <- [k \in Keys |-> ProgressOf(k)],
    payload <- [k \in Keys |-> PayloadOf(k)],
    spent <- hostExecutions,
    over <- TaskId # {} /\ stack = <<>>

\* Cancellation, failing modules, a failed batch and the end of the run
\* included, every step of the store is a step of the ledger or leaves it alone.
ImplementsLedger == Ledger!Spec

=============================================================================
