\* Two tasks, three plans, four entries.
CONSTANTS
    Task = {"root", "child"}
    Content <- PlanContents
    MaxJournal = 4
SPECIFICATION Spec
INVARIANT ReportsJournal
CHECK_DEADLOCK FALSE
