----------------------------- MODULE McpRuntime -----------------------------
(***************************************************************************)
(* The MCP runtime of a run (internal/mcp/client.go, http.go, failure.go)  *)
(* between the tool loop and its servers: it opens every session and reads *)
(* every page of tools or does not start, checks batches against the       *)
(* budget of the run, sends one call at a time, and reports what it can    *)
(* know of it.  A request may be lost, refused, executed and its answer    *)
(* lost, late, too large or malformed, and the run may be cancelled.       *)
(*                                                                         *)
(* Correlation of responses with requests is the SDK's (external); the     *)
(* runtime's own copy of the response on the wire is not.  Assumed of the  *)
(* servers: a call whose answer holds a result was executed.               *)
(***************************************************************************)
EXTENDS Integers, FiniteSets

CONSTANTS
    Servers,             \* number of configured servers
    MaxDiscoveryPages,   \* policy.go: 32
    MaxTools,            \* policy.go: 256
    Cursors,             \* the cursors a server may continue a page with
    MaxInvocations,      \* policy.go: 32
    MaxBatchCalls,       \* policy.go: 8
    MaxCalls             \* model bound: calls submitted in a run

ASSUME McpAssumption ==
    /\ Servers \in Nat \ {0} /\ MaxDiscoveryPages \in Nat \ {0} /\ MaxTools \in Nat
    /\ MaxInvocations \in Nat /\ MaxBatchCalls \in Nat \ {0} /\ MaxCalls \in Nat

Calls == 1..MaxCalls
Server == 1..Servers

VARIABLES
    phase,         \* "connecting", "ready", "failed", "ending" or "closed"
    sessions,      \* servers with an open session
    connecting,    \* the server being connected
    page, seen,    \* pages read from it, and cursors it has given
    catalog,       \* number of tools discovered
    invocations,
    made,          \* calls decided so far
    last,          \* the last call of the batch under way; made with none
    target,        \* the server call made + 1 was sent to; 0 when it was not
    wire,          \* the last response captured of each server
    requests,      \* calls on their way to a server
    answered,      \* calls a server has answered, the answer on its way
    executions,    \* how often a server has executed each call
    report         \* what the loop was told of each call

discovery == <<sessions, connecting, page, seen, catalog>>
network == <<requests, answered, executions>>
calling == <<invocations, made, last, target, wire, report>>
vars == <<phase, discovery, calling, network>>

\* What a response holds for the runtime: nothing yet, more than MaxWireBytes,
\* a connection value, no result (a JSON-RPC error), a result that the host or
\* the SDK rejects, or a result.
Content == {"nothing", "overflow", "sensitive", "error", "rejected", "valid"}

Init ==
    /\ phase = "connecting"
    /\ sessions = {} /\ connecting = 1 /\ page = 0 /\ seen = {} /\ catalog = 0
    /\ invocations = 0 /\ made = 0 /\ last = 0 /\ target = 0
    /\ wire = [s \in Server |-> "nothing"]
    /\ requests = {} /\ answered = {}
    /\ executions = [c \in Calls |-> 0]
    /\ report = [c \in Calls |-> "none"]

-----------------------------------------------------------------------------
(* New: every server in order, every page of its tools. *)

Connecting == phase = "connecting" /\ connecting \notin sessions
Discovering == phase = "connecting" /\ connecting \in sessions

Connect ==
    /\ Connecting
    /\ sessions' = sessions \cup {connecting}
    /\ page' = 0 /\ seen' = {}
    /\ UNCHANGED <<phase, connecting, catalog, calling, network>>

\* The session is usable: a page is read, and it fits.
Fits(tools) == page < MaxDiscoveryPages /\ catalog + tools <= MaxTools

ReadPage(tools, cursor) ==
    /\ Discovering
    /\ Fits(tools)
    /\ cursor \in Cursors \ seen
    /\ catalog' = catalog + tools
    /\ page' = page + 1 /\ seen' = seen \cup {cursor}
    /\ UNCHANGED <<phase, sessions, connecting, calling, network>>

ReadLastPage(tools) ==
    /\ Discovering
    /\ Fits(tools)
    /\ catalog' = catalog + tools
    /\ page' = 0 /\ seen' = {}
    /\ connecting' = connecting + 1
    /\ phase' = IF connecting = Servers THEN "ready" ELSE phase
    /\ UNCHANGED <<sessions, calling, network>>

\* Mutant: the server whose discovery fails is not among those closed.
StartFailsOpen ==
    /\ phase = "connecting"
    /\ phase' = "failed"
    /\ sessions' = sessions \cap {connecting}
    /\ UNCHANGED <<connecting, page, seen, catalog, calling, network>>

\* The configuration, a connection, a page or a tool is bad, a cursor comes
\* again, or there is a page too many: every open session is closed.
StartFails ==
    /\ phase = "connecting"
    /\ phase' = "failed"
    /\ sessions' = {}
    /\ UNCHANGED <<connecting, page, seen, catalog, calling, network>>

-----------------------------------------------------------------------------
(* Preflight of a batch, and its calls one after the other. *)

Current == made + 1
Idle == phase = "ready" /\ made = last /\ target = 0
Waiting == phase = "ready" /\ target > 0
Batches == 1 .. (MaxBatchCalls + 1)

\* Mutant: the budget is left to the check of each single call.
WithinLimitOnly(n) == n <= MaxBatchCalls

WithinBudget(n) == n <= MaxBatchCalls /\ n <= MaxInvocations - invocations

Decided(from, to, r) == [c \in Calls |-> IF c \in from..to THEN r ELSE report[c]]

AdmitBatch(n) ==
    /\ Idle /\ made + n <= MaxCalls
    /\ WithinBudget(n)
    /\ last' = made + n
    /\ UNCHANGED <<phase, discovery, invocations, made, target, wire, report, network>>

\* Over budget or limit, or a call invalid: none of the batch is executed.
RefuseBatch(n) ==
    /\ Idle /\ made + n <= MaxCalls
    /\ report' = Decided(made + 1, made + n, "not_dispatched")
    /\ made' = made + n /\ last' = made + n
    /\ UNCHANGED <<phase, discovery, invocations, target, wire, network>>

\* Mutant: the response of the previous call is left in the capture.
SendUnreset(s) ==
    /\ phase = "ready" /\ made < last /\ target = 0
    /\ WithinBudget(1)
    /\ invocations' = invocations + 1
    /\ target' = s
    /\ requests' = requests \cup {Current}
    /\ UNCHANGED <<phase, discovery, made, last, report, wire, answered, executions>>

\* Invoke up to CallTool: the call is counted and the capture reset first.
Send(s) ==
    /\ phase = "ready" /\ made < last /\ target = 0
    /\ WithinBudget(1)
    /\ invocations' = invocations + 1
    /\ wire' = [wire EXCEPT ![s] = "nothing"]
    /\ target' = s
    /\ requests' = requests \cup {Current}
    /\ UNCHANGED <<phase, discovery, made, last, report, answered, executions>>

-----------------------------------------------------------------------------
(* The servers and the network (external). *)

Execute(c) ==
    /\ c \in requests
    /\ requests' = requests \ {c}
    /\ executions' = [executions EXCEPT ![c] = @ + 1]
    /\ answered' = answered \cup {c}
    /\ UNCHANGED <<phase, discovery, calling>>

Refuse(c) ==
    /\ c \in requests
    /\ requests' = requests \ {c}
    /\ answered' = answered \cup {c}
    /\ UNCHANGED <<phase, discovery, calling, executions>>

LoseRequest(c) ==
    /\ c \in requests
    /\ requests' = requests \ {c}
    /\ UNCHANGED <<phase, discovery, calling, answered, executions>>

\* Mutant: a POST whose answer is lost is replayed by the transport.
ReplayLost(c) ==
    /\ c \in answered
    /\ answered' = answered \ {c}
    /\ requests' = IF c = Current THEN requests \cup {c} ELSE requests
    /\ UNCHANGED <<phase, discovery, calling, executions>>

\* RoundTrip clears GetBody: a lost answer, or one that comes after its call
\* was given up, is dropped.
LoseAnswer(c) ==
    /\ c \in answered
    /\ answered' = answered \ {c}
    /\ UNCHANGED <<phase, discovery, calling, requests, executions>>

\* The response to the call that waits is copied as it is read.
Capture(c, content) ==
    /\ Waiting /\ c = Current /\ c \in answered
    /\ wire[target] = "nothing"
    /\ content = "valid" => executions[c] > 0
    /\ answered' = answered \ {c}
    /\ wire' = [wire EXCEPT ![target] = content]
    /\ UNCHANGED <<phase, discovery, invocations, made, last, target, report, requests,
                   executions>>

\* A stream passes MaxWireBytes before it holds an answer.
Overflow(c) ==
    /\ Waiting /\ c = Current /\ c \in requests
    /\ wire' = [wire EXCEPT ![target] = "overflow"]
    /\ UNCHANGED <<phase, discovery, invocations, made, last, target, report, network>>

-----------------------------------------------------------------------------
(* The rest of Invoke, and the loop after it. *)

\* The execution that each response leads to; a response that the SDK had no
\* time to deliver is rejected.
Classify(content) ==
    CASE content = "overflow" -> {"result_rejected"}
      [] content = "sensitive" -> {"sensitive"}
      [] content \in {"nothing", "error"} -> {"outcome_unknown"}
      [] content = "rejected" -> {"result_rejected"}
      [] content = "valid" -> {"result", "result_rejected"}

\* A result: the loop goes on with the batch.
ReturnResult ==
    /\ Waiting
    /\ "result" \in Classify(wire[target])
    /\ report' = [report EXCEPT ![Current] = "result"]
    /\ made' = Current /\ target' = 0
    /\ UNCHANGED <<phase, discovery, invocations, last, wire, network>>

\* An InvocationFailure: the rest of the batch is not attempted.
ReturnFailure(execution) ==
    /\ Waiting
    /\ execution \in Classify(wire[target]) \ {"result", "sensitive"}
    /\ report' = [Decided(Current, last, "not_dispatched") EXCEPT ![Current] = execution]
    /\ made' = last /\ target' = 0
    /\ UNCHANGED <<phase, discovery, invocations, last, wire, network>>

\* Any other error ends the run: a connection value in the result, or the
\* run's context, which takes the place of every InvocationFailure.
ReturnError(r) ==
    /\ Waiting
    /\ \/ r = "sensitive" /\ r \in Classify(wire[target])
       \/ r = "cancelled" /\ Classify(wire[target]) /= {"sensitive"}
    /\ report' = [report EXCEPT ![Current] = r]
    /\ made' = Current /\ last' = Current /\ target' = 0
    /\ phase' = "ending"
    /\ UNCHANGED <<discovery, invocations, wire, network>>

\* The run ends between two calls: it is done, it is cancelled, or the store
\* fails; what is left of the batch is never made.
EndRun ==
    /\ phase = "ready" /\ target = 0
    /\ phase' = "ending"
    /\ last' = made
    /\ UNCHANGED <<discovery, invocations, made, target, wire, report, network>>

\* Close, deferred by main: every session, also after one has failed to close.
Close ==
    /\ phase = "ending"
    /\ phase' = "closed"
    /\ sessions' = {}
    /\ UNCHANGED <<connecting, page, seen, catalog, calling, network>>

Next ==
    \/ Connect \/ StartFails
    \/ \E tools \in 0..1 : ReadLastPage(tools) \/ \E cursor \in Cursors : ReadPage(tools, cursor)
    \/ \E n \in Batches : AdmitBatch(n) \/ RefuseBatch(n)
    \/ \E s \in Server : Send(s)
    \/ \E c \in Calls :
          \/ Execute(c) \/ Refuse(c) \/ LoseRequest(c) \/ LoseAnswer(c) \/ Overflow(c)
          \/ \E content \in Content \ {"nothing"} : Capture(c, content)
    \/ ReturnResult
    \/ \E execution \in {"outcome_unknown", "result_rejected"} : ReturnFailure(execution)
    \/ \E r \in {"sensitive", "cancelled"} : ReturnError(r)
    \/ EndRun \/ Close

Spec == Init /\ [][Next]_vars

-----------------------------------------------------------------------------
(* Properties *)

D == INSTANCE Dispatcher WITH Budget <- MaxInvocations

\* Types of the state.
TypeOK ==
    /\ phase \in {"connecting", "ready", "failed", "ending", "closed"}
    /\ sessions \subseteq Server /\ connecting \in 1 .. (Servers + 1)
    /\ phase = "connecting" => connecting \in Server
    /\ page \in 0..MaxDiscoveryPages /\ seen \subseteq Cursors
    /\ catalog \in 0..MaxTools
    /\ invocations \in Nat
    /\ made \in 0..MaxCalls /\ last \in 0..MaxCalls /\ made <= last
    /\ target \in 0..Servers /\ (target > 0 => made < last)
    /\ wire \in [Server -> Content]
    /\ requests \subseteq Calls /\ answered \subseteq Calls
    /\ executions \in [Calls -> Nat]
    /\ report \in [Calls -> D!Reports]

\* A call is executed at most once, whatever is lost, late or cancelled; what
\* is reported of it is never revised and never more than can be known: a call
\* reported not_dispatched is never executed, one reported with a result was
\* (client.go Invoke, http.go RoundTrip and reset).
ImplementsDispatcher == D!Spec

\* A runtime that did not start, or is closed, holds no session; one that
\* started holds all of them (client.go New, Close).
AllOrNothing ==
    /\ phase \in {"failed", "closed"} => sessions = {}
    /\ phase \in {"ready", "ending"} => sessions = Server

\* What is left of an admitted batch always fits in the budget of the run: no
\* call of it is refused for the calls before it (client.go Preflight).
BudgetReserved ==
    /\ invocations <= MaxInvocations
    /\ last - made - (IF target > 0 THEN 1 ELSE 0) <= MaxInvocations - invocations
=============================================================================
