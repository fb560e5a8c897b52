------------------------- MODULE MCJournalReporter -------------------------
(* Plans of at most two steps that differ in every field.                  *)
EXTENDS JournalReporter

PlanContents ==
    {[status |-> "active", steps |-> <<"pending">>, current |-> "one", focus |-> ""],
     [status |-> "active", steps |-> <<"satisfied", "pending">>, current |-> "two", focus |-> ""],
     [status |-> "satisfied", steps |-> <<"satisfied", "satisfied">>, current |-> "", focus |-> "why"]}
=============================================================================
