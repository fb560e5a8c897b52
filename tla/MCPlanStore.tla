---------------------------- MODULE MCPlanStore -----------------------------
(* Small instances of PlanStore for TLC. *)
EXTENDS PlanStore

\* Every version a partition can have, and so stale and future ones.
References == [partition : Partition, version : 0..MaxVersion]

Unstarted == [status |-> "pending", outcome |-> "none", evidence |-> {}, gaps |-> "none"]
Claim(st, ref, gaps) ==
    [status |-> st, outcome |-> "stated", evidence |-> {ref}, gaps |-> gaps]

\* Not started, under way, satisfied; patches give up and invalidate.
StepContent ==
    {Unstarted} \cup {Claim("partial", ref, "some") : ref \in References}
                \cup {Claim("satisfied", ref, "none") : ref \in References}

Under(c, focus) ==
    [status |-> c.status, outcome |-> c.outcome, evidence |-> c.evidence,
     gaps |-> c.gaps, focus |-> focus]

PlanHeading ==
    {Under([Unstarted EXCEPT !.status = st], "none") : st \in {"active", "invalidated"}}
    \cup {Under([Unstarted EXCEPT !.status = "partial"], f) : f \in Intent}
    \cup {Under(Claim("satisfied", ref, "none"), "none") : ref \in References}
=============================================================================
