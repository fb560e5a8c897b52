-------------------------- MODULE JournalReporter --------------------------
(***************************************************************************)
(* The milestone reporter (cmd/grodt/milestones.go) behind the journal of  *)
(* the store (state/store.go JournalSince): each drain writes the lines of *)
(* the entries after its cursor, one by one, to a writer that may fail.    *)
(* What is written of a plan is its difference from the last one of its    *)
(* task.  Drains and the store run in one thread of control.               *)
(***************************************************************************)
EXTENDS Integers, Sequences, FiniteSets, SequencesExt

CONSTANTS
    Task,
    Content,     \* plans but for their revision: [status, steps, current, focus]
    MaxJournal   \* model bound: journal entries

ASSUME JournalAssumption ==
    \A c \in Content : Len(c.steps) \in Nat /\ DOMAIN c.steps = 1..Len(c.steps)

VARIABLES
    journal,
    cursor,      \* the last entry the reporter is done with
    plans,       \* the last plan reported of each task
    failed,      \* "no", or "yes" once a write has failed
    next, end,   \* the entries a drain still has to process
    pending,     \* lines of the entry before next still to be written
    written      \* the lines on the terminal

vars == <<journal, cursor, plans, failed, next, end, pending, written>>

NoPlan == [revision |-> 0, content |-> [status |-> "", steps |-> <<>>, current |-> "", focus |-> ""]]

\* A plan revision; another entry with a line of its own; an entry of a kind
\* that is selected but has no line, or is not selected.
Revised(task, plan) == [kind |-> "revised", task |-> task, plan |-> plan]
Others == {[kind |-> "event"], [kind |-> "quiet"], [kind |-> "unselected"]}

Init ==
    /\ journal = <<>> /\ cursor = 0
    /\ plans = [t \in Task |-> NoPlan]
    /\ failed = "no"
    /\ next = 1 /\ end = 0 /\ pending = <<>>
    /\ written = <<>>

-----------------------------------------------------------------------------
(* The lines of an entry. *)

\* A field that is not what it was.
IfChanged(old, new, line) == IF old = new THEN <<>> ELSE <<line>>

StepLines(old, new) ==
    FlattenSeq([i \in DOMAIN new.steps |->
        IfChanged(IF i \in DOMAIN old.steps THEN old.steps[i] ELSE "", new.steps[i],
                  <<"step", i, new.steps[i]>>)])

PlanLines(task, old, new) ==
    <<<<"accepted", task, new.revision>>>>
    \o StepLines(old.content, new.content)
    \o IfChanged(old.content.current, new.content.current, <<"current", new.content.current>>)
    \o IfChanged(old.content.focus, new.content.focus, <<"focus", new.content.focus>>)
    \o (IF old = NoPlan THEN <<>>
        ELSE IfChanged(old.content.status, new.content.status, <<"status", new.content.status>>))

\* Revision aside, the plan reported last.
Unchanged(old, new) == old /= NoPlan /\ old.content = new.content

Lines(entry, old) ==
    CASE entry.kind = "revised" ->
           IF Unchanged(old, entry.plan) THEN <<>> ELSE PlanLines(entry.task, old, entry.plan)
      [] entry.kind = "event" -> <<<<"event">>>>
      [] OTHER -> <<>>

-----------------------------------------------------------------------------
Idle == next > end /\ pending = <<>>

Revisions(task) == {i \in DOMAIN journal : journal[i].kind = "revised" /\ journal[i].task = task}

\* The store commits an entry.
Commit ==
    /\ Idle /\ Len(journal) < MaxJournal
    /\ \/ \E entry \in Others : journal' = Append(journal, entry)
       \/ \E t \in Task, c \in Content :
             LET plan == [revision |-> Cardinality(Revisions(t)) + 1, content |-> c]
             IN  journal' = Append(journal, Revised(t, plan))
    /\ UNCHANGED <<cursor, plans, failed, next, end, pending, written>>

\* Mutant: an error is reported once, and the next drain starts over.
DrainAgain ==
    /\ Idle /\ cursor < Len(journal)
    /\ next' = cursor + 1 /\ end' = Len(journal)
    /\ UNCHANGED <<journal, cursor, plans, failed, pending, written>>

\* A drain; after a failed one every other returns its error.
Drain ==
    /\ Idle /\ cursor < Len(journal)
    /\ failed = "no"
    /\ next' = cursor + 1 /\ end' = Len(journal)
    /\ UNCHANGED <<journal, cursor, plans, failed, pending, written>>

\* The cursor moves past an entry when it is done with, an entry that was not
\* selected with the ones around it or with the drain.
Advance(entry) == cursor' = IF entry.kind /= "unselected" \/ next = end THEN next ELSE cursor

Process ==
    /\ next <= end /\ pending = <<>>
    /\ LET entry == journal[next]
           lines == Lines(entry, IF entry.kind = "revised" THEN plans[entry.task] ELSE NoPlan)
       IN  /\ plans' = IF entry.kind = "revised" THEN [plans EXCEPT ![entry.task] = entry.plan]
                                                 ELSE plans
           /\ pending' = lines
           /\ IF lines = <<>> THEN Advance(entry) /\ next' = next + 1
                              ELSE UNCHANGED <<cursor, next>>
    /\ UNCHANGED <<journal, failed, end, written>>

WriteLine ==
    /\ pending /= <<>>
    /\ written' = Append(written, Head(pending))
    /\ pending' = Tail(pending)
    /\ IF Len(pending) = 1 THEN cursor' = next /\ next' = next + 1
                           ELSE UNCHANGED <<cursor, next>>
    /\ UNCHANGED <<journal, plans, failed, end>>

WriteFails ==
    /\ pending /= <<>>
    /\ failed' = "yes"
    /\ pending' = <<>> /\ next' = end + 1
    /\ UNCHANGED <<journal, cursor, plans, end, written>>

Next == Commit \/ Drain \/ Process \/ WriteLine \/ WriteFails

Spec == Init /\ [][Next]_vars

-----------------------------------------------------------------------------
\* What a single drain of the whole journal would write: an entry is compared
\* with the last plan of its task before it.
Previous(i) ==
    LET earlier == {j \in Revisions(journal[i].task) : j < i}
    IN  IF earlier = {} THEN NoPlan
        ELSE journal[CHOOSE j \in earlier : \A k \in earlier : k <= j].plan

Transcript ==
    FlattenSeq([i \in DOMAIN journal |->
        Lines(journal[i], IF journal[i].kind = "revised" THEN Previous(i) ELSE NoPlan)])

\* However commits and drains alternate and wherever a write fails, what is on
\* the terminal is the beginning of what one drain of the whole journal would
\* write, no line twice and none left out; it is all of that once a drain has
\* succeeded (milestones.go drain).
ReportsJournal ==
    /\ IsPrefix(written, Transcript)
    /\ Idle /\ cursor = Len(journal) => written = Transcript
=============================================================================
