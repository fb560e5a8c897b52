---------------------------- MODULE MCTaskStore -----------------------------
(* Small instances of TaskStore for TLC. *)
EXTENDS TaskStoreLedger, TLC

CONSTANTS a, b, x, y

OnePartition == <<a>>
TwoPartitions == <<a, b>>

\* Payloads are told apart by equality alone.
PayloadSymmetry == Permutations(Payloads)

=============================================================================
