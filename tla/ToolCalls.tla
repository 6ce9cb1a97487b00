----------------------------- MODULE ToolCalls -----------------------------
(***************************************************************************)
(* The life of a tools/call from the HTTP worker thread that receives it   *)
(* to its reply: admission, the concurrency gate, the table of pending     *)
(* request ids that notifications/cancelled looks up, the hand-over to the *)
(* IDA main thread, and the clean-up, counters and audit trail after it.   *)
(* resources/read runs the same tools without the gate and without an      *)
(* entry in the table.  What happens on the main thread while the tool     *)
(* body runs is the subject of NativeCancel and MainThread; here it is one step.*)
(***************************************************************************)
EXTENDS Naturals, FiniteSets, Admission

CONSTANTS
    Workers,      \* worker threads of _McpThreadingHTTPServer
    NoWorker,
    Ids,          \* JSON-RPC ids a Python dict takes as keys
    Unhashable,   \* JSON-RPC ids it does not (arrays, objects)
    NoId,         \* no id
    Requests,     \* the tools/call requests clients send
    GateOn,       \* max_concurrent_tools > 0
    MaxReceived   \* bound: requests received in all

ASSUME ToolCallsAssumption ==
    /\ IsFiniteSet(Workers)
    /\ NoWorker \notin Workers
    /\ NoId \notin Ids
    /\ Ids \intersect Unhashable = {}
    /\ Requests \subseteq
         [id : Ids \union Unhashable \union {NoId}, tool : Names, flags : Flags]
    /\ GateOn \in BOOLEAN
    /\ MaxReceived \in Nat

VARIABLES
    pc,          \* how far each worker is in its current request
    req,         \* that request
    outcome,     \* what its reply says
    pending,     \* _pending_requests: id -> the call whose Event it holds
    cancelled,   \* whether the Event of a worker's call is set
    gate,        \* permits left in _tool_gate
    main,        \* whose body runs on the IDA main thread
    stats,       \* _stats_totals
    audit,       \* audit records written, by their "ok" field
    answers,     \* replies sent for tools/call, by outcome and audited or not
    received     \* requests received

vars == <<pc, req, outcome, pending, cancelled, gate, main, stats, audit,
          answers, received>>

Outcomes == {"ok", "error", "cancelled", "busy", "refused", "crashed"}

Ran == {"ok", "error", "cancelled"}

Locations == {"idle", "gate", "register", "dispatch", "queued", "main",
              "finally", "release", "record", "audit", "reply"}

NoRequest == [kind |-> "none"]

CallOf(r) == [kind |-> "call", id |-> r.id, tool |-> r.tool, flags |-> r.flags]

(* A resources/read: its reader calls the @idasync tool directly. *)
ReadOf == [kind |-> "read"]

IsCall(w) == req[w].kind = "call"

(* The calls `_write_audit` is called for. *)
Audited(t) == t \in UnsafeTools \/ GroupOf[t] # NoGroup

Init ==
    /\ pc = [w \in Workers |-> "idle"]
    /\ req = [w \in Workers |-> NoRequest]
    /\ outcome = [w \in Workers |-> "ok"]
    /\ pending = [i \in Ids |-> NoWorker]
    /\ cancelled = [w \in Workers |-> FALSE]
    /\ gate = 1
    /\ main = NoWorker
    /\ stats = [calls |-> 0, errors |-> 0, busy |-> 0]
    /\ audit = [ok |-> 0, failed |-> 0]
    /\ answers = [p \in BOOLEAN \X Outcomes |-> 0]
    /\ received = 0

Goto(w, from, to) == pc[w] = from /\ pc' = [pc EXCEPT ![w] = to]

Ends(w, o) == outcome' = [outcome EXCEPT ![w] = o]

(***************************************************************************)
(* The worker reads a request.                                             *)
(***************************************************************************)
Receive(w, r, to) ==
    /\ received < MaxReceived
    /\ received' = received + 1
    /\ Goto(w, "idle", to)
    /\ req' = [req EXCEPT ![w] = r]

(* The head of `_mcp_tools_call`: an admitted call goes on to the gate. *)
Admit(w, r) ==
    /\ Verdict(r.flags, r.tool) = "admitted"
    /\ Receive(w, CallOf(r), "gate")
    /\ UNCHANGED <<outcome, pending, cancelled, gate, main, stats, audit, answers>>

Refuse(w, r) ==
    /\ Verdict(r.flags, r.tool) # "admitted"
    /\ Receive(w, CallOf(r), "reply")
    /\ Ends(w, "refused")
    /\ UNCHANGED <<pending, cancelled, gate, main, stats, audit, answers>>

(* `_mcp_resources_read`: no admission, no gate, no cancel Event. *)
ReadResource(w) ==
    /\ Receive(w, ReadOf, "queued")
    /\ UNCHANGED <<outcome, pending, cancelled, gate, main, stats, audit, answers>>

(* notifications/cancelled naming id i, taken by an idle worker:           *)
(* `cancel_request` sets the Event the table holds for i, if any.          *)
HandleCancelled(w, i) ==
    /\ pc[w] = "idle"
    /\ pending[i] # NoWorker
    /\ cancelled' = [cancelled EXCEPT ![pending[i]] = TRUE]
    /\ UNCHANGED <<pc, req, outcome, pending, gate, main, stats, audit,
                   answers, received>>

(***************************************************************************)
(* The gate.                                                               *)
(***************************************************************************)
(* Mutant: the gate admits although no permit is left. *)
AcquireGateBlind(w) ==
    /\ Goto(w, "gate", "register")
    /\ gate' = 0
    /\ UNCHANGED <<req, outcome, pending, cancelled, main, stats, audit,
                   answers, received>>

AcquireGate(w) ==
    /\ Goto(w, "gate", "register")
    /\ IF GateOn THEN gate > 0 /\ gate' = gate - 1 ELSE UNCHANGED gate
    /\ UNCHANGED <<req, outcome, pending, cancelled, main, stats, audit,
                   answers, received>>

RejectBusy(w) ==
    /\ GateOn
    /\ gate = 0
    /\ Goto(w, "gate", "reply")
    /\ Ends(w, "busy")
    /\ stats' = [stats EXCEPT !.busy = @ + 1]
    /\ UNCHANGED <<req, pending, cancelled, gate, main, audit, answers, received>>

(***************************************************************************)
(* `register_pending_request`: a fresh Event for the id.  It runs after    *)
(* the gate is taken and before the `try` whose `finally` gives it back,   *)
(* so an id a dict does not take as a key escapes with the gate held.      *)
(***************************************************************************)
Register(w) ==
    /\ Goto(w, "register", "dispatch")
    /\ req[w].id \notin Unhashable
    /\ cancelled' = [cancelled EXCEPT ![w] = FALSE]
    /\ pending' = IF req[w].id \in Ids
                  THEN [pending EXCEPT ![req[w].id] = w] ELSE pending
    /\ UNCHANGED <<req, outcome, gate, main, stats, audit, answers, received>>

RegisterRaises(w) ==
    /\ Goto(w, "register", "reply")
    /\ req[w].id \in Unhashable
    /\ Ends(w, "crashed")
    /\ UNCHANGED <<req, pending, cancelled, gate, main, stats, audit,
                   answers, received>>

(***************************************************************************)
(* `self.tools.dispatch`: an unknown name or bad arguments fail on the     *)
(* worker; otherwise the @idasync wrapper posts the body to the main       *)
(* thread and waits on its result container.                               *)
(***************************************************************************)
Post(w) ==
    /\ Goto(w, "dispatch", "queued")
    /\ req[w].tool \in Registered
    /\ UNCHANGED <<req, outcome, pending, cancelled, gate, main, stats, audit,
                   answers, received>>

FailOnWorker(w) ==
    /\ Goto(w, "dispatch", "finally")
    /\ Ends(w, "error")
    /\ UNCHANGED <<req, pending, cancelled, gate, main, stats, audit,
                   answers, received>>

RunOnMain(w) ==
    /\ main = NoWorker
    /\ Goto(w, "queued", "main")
    /\ main' = w
    /\ UNCHANGED <<req, outcome, pending, cancelled, gate, stats, audit,
                   answers, received>>

LeaveMain(w, o) ==
    /\ main = w
    /\ Goto(w, "main", IF IsCall(w) THEN "finally" ELSE "reply")
    /\ Ends(w, o)
    /\ main' = NoWorker
    /\ UNCHANGED <<req, pending, cancelled, gate, stats, audit, answers, received>>

(* Mutant: an exception of the body escapes `runned`, and the worker waits *)
(* for ever on its result container.                                       *)
FinishOnMainUncaptured(w) ==
    \/ LeaveMain(w, "ok")
    \/ /\ main = w
       /\ main' = NoWorker
       /\ UNCHANGED <<pc, req, outcome, pending, cancelled, gate, stats, audit,
                      answers, received>>

(* The body returned, or failed or timed out; `runned` captures either. *)
FinishOnMain(w) == \E o \in {"ok", "error"} : LeaveMain(w, o)

(* The profile hook saw the call's Event set (NativeCancel). *)
InterruptOnMain(w) ==
    /\ IsCall(w)
    /\ req[w].id \in Ids
    /\ cancelled[w]
    /\ LeaveMain(w, "cancelled")

(***************************************************************************)
(* The `finally` of `_mcp_tools_call`.                                     *)
(***************************************************************************)
(* Mutant: the entry is dropped on success only. *)
UnregisterOnSuccess(w) ==
    /\ Goto(w, "finally", "release")
    /\ pending' = IF req[w].id \in Ids /\ outcome[w] = "ok"
                  THEN [pending EXCEPT ![req[w].id] = NoWorker] ELSE pending
    /\ UNCHANGED <<req, outcome, cancelled, gate, main, stats, audit,
                   answers, received>>

Unregister(w) ==
    /\ Goto(w, "finally", "release")
    /\ pending' = IF req[w].id \in Ids
                  THEN [pending EXCEPT ![req[w].id] = NoWorker] ELSE pending
    /\ UNCHANGED <<req, outcome, cancelled, gate, main, stats, audit,
                   answers, received>>

(* Mutant: a cancelled call keeps the gate. *)
ReleaseUnlessCancelled(w) ==
    /\ Goto(w, "release", IF GateOn THEN "record" ELSE "reply")
    /\ gate' = IF GateOn /\ outcome[w] # "cancelled" THEN gate + 1 ELSE gate
    /\ UNCHANGED <<req, outcome, pending, cancelled, main, stats, audit,
                   answers, received>>

(* Without a gate there is nothing to release, and nothing is recorded. *)
Release(w) ==
    /\ Goto(w, "release", IF GateOn THEN "record" ELSE "reply")
    /\ gate' = IF GateOn THEN gate + 1 ELSE gate
    /\ UNCHANGED <<req, outcome, pending, cancelled, main, stats, audit,
                   answers, received>>

(* Mutant: a cancelled call is counted as a success. *)
RecordCancelledAsOk(w) ==
    /\ Goto(w, "record", IF Audited(req[w].tool) THEN "audit" ELSE "reply")
    /\ stats' = [calls |-> stats.calls + 1,
                 errors |-> stats.errors + IF outcome[w] = "error" THEN 1 ELSE 0,
                 busy |-> stats.busy]
    /\ UNCHANGED <<req, outcome, pending, cancelled, gate, main, audit,
                   answers, received>>

Record(w) ==
    /\ Goto(w, "record", IF Audited(req[w].tool) THEN "audit" ELSE "reply")
    /\ stats' = [calls |-> stats.calls + 1,
                 errors |-> stats.errors + IF outcome[w] = "ok" THEN 0 ELSE 1,
                 busy |-> stats.busy]
    /\ UNCHANGED <<req, outcome, pending, cancelled, gate, main, audit,
                   answers, received>>

(* Mutant: only successful calls reach the audit trail. *)
WriteAuditOnSuccess(w) ==
    /\ Goto(w, "audit", "reply")
    /\ audit' = IF outcome[w] = "ok" THEN [audit EXCEPT !.ok = @ + 1] ELSE audit
    /\ UNCHANGED <<req, outcome, pending, cancelled, gate, main, stats,
                   answers, received>>

WriteAudit(w) ==
    /\ Goto(w, "audit", "reply")
    /\ audit' = IF outcome[w] = "ok" THEN [audit EXCEPT !.ok = @ + 1]
                                     ELSE [audit EXCEPT !.failed = @ + 1]
    /\ UNCHANGED <<req, outcome, pending, cancelled, gate, main, stats,
                   answers, received>>

(* The HTTP reply; the worker waits for the next request. *)
Reply(w) ==
    /\ Goto(w, "reply", "idle")
    /\ req' = [req EXCEPT ![w] = NoRequest]
    /\ answers' = IF IsCall(w)
                  THEN [answers EXCEPT ![<<Audited(req[w].tool), outcome[w]>>] = @ + 1]
                  ELSE answers
    /\ UNCHANGED <<outcome, pending, cancelled, gate, main, stats, audit, received>>

(***************************************************************************)
(* The specification.                                                      *)
(***************************************************************************)
WorkerStep(w) ==
    \/ AcquireGate(w) \/ RejectBusy(w)
    \/ Register(w) \/ RegisterRaises(w)
    \/ Post(w) \/ FailOnWorker(w)
    \/ Unregister(w) \/ Release(w) \/ Record(w) \/ WriteAudit(w) \/ Reply(w)

BodyEnds(w) == FinishOnMain(w) \/ InterruptOnMain(w)

Next ==
    \E w \in Workers :
        \/ \E r \in Requests : Admit(w, r) \/ Refuse(w, r)
        \/ ReadResource(w)
        \/ \E i \in Ids : HandleCancelled(w, i)
        \/ WorkerStep(w)
        \/ RunOnMain(w)
        \/ BodyEnds(w)

(* A runnable thread runs.  IDA takes every posted request in the end,     *)
(* whatever else is posted, and a body ends because NativeCancel bounds it.*)
Fairness ==
    \A w \in Workers :
        /\ WF_vars(WorkerStep(w))
        /\ SF_vars(RunOnMain(w))
        /\ WF_vars(BodyEnds(w))

Spec == Init /\ [][Next]_vars

FairSpec == Spec /\ Fairness

(***************************************************************************)
(* Properties.                                                             *)
(***************************************************************************)
Holding == {"register", "dispatch", "queued", "main", "finally", "release"}

(* The calls that are past the gate and have not given it back. *)
Holds(w) == IsCall(w) /\ pc[w] \in Holding

(* The calls whose id stands in the table. *)
InTable(w) == /\ IsCall(w)
              /\ req[w].id \in Ids
              /\ pc[w] \in {"dispatch", "queued", "main", "finally"}

(* The variables stay within their types; in particular the gate's counter *)
(* never exceeds the one permit `Semaphore(1)` starts with.                *)
TypeOK ==
    /\ pc \in [Workers -> Locations]
    /\ req \in [Workers -> {CallOf(r) : r \in Requests} \union {ReadOf, NoRequest}]
    /\ outcome \in [Workers -> Outcomes]
    /\ pending \in [Ids -> Workers \union {NoWorker}]
    /\ cancelled \in [Workers -> BOOLEAN]
    /\ gate \in {0, 1}
    /\ main \in Workers \union {NoWorker}
    /\ stats \in [calls : Nat, errors : Nat, busy : Nat]
    /\ audit \in [ok : Nat, failed : Nat]
    /\ answers \in [BOOLEAN \X Outcomes -> Nat]
    /\ received \in Nat

(* With the gate on, at most one tools/call is between taking the gate and *)
(* giving it back, whatever ids and outcomes the calls have: the gate is a *)
(* lock although its acquire and its release stand in different blocks.    *)
OneCallAtATime ==
    GateOn => \A v, w \in Workers : Holds(v) /\ Holds(w) => v = w

(* The gate is never lost: when it is taken, some call is on its way to    *)
(* give it back.  Otherwise every later call is "Server busy" for good.    *)
GateNotLost == GateOn /\ gate = 0 => \E w \in Workers : Holds(w)

(* The table never keeps an entry of a call that is over: an entry leads   *)
(* to a call in flight that carries its id.                                *)
NoStaleEntry ==
    \A i \in Ids : pending[i] # NoWorker =>
        InTable(pending[i]) /\ req[pending[i]].id = i

(* With the gate on, every call in flight can be cancelled by its id: its  *)
(* entry is its own, although clients choose ids independently.            *)
CancelReachesCall ==
    GateOn => \A w \in Workers : InTable(w) => pending[req[w].id] = w

(* Both: the table holds exactly the calls in flight, each under its id.   *)
TableExact == NoStaleEntry /\ CancelReachesCall

(* A body runs only for a call that tools/list would have shown under the  *)
(* same flags: what the two handlers decide apart never differs.           *)
OnlyListedRun ==
    \A w \in Workers : IsCall(w) /\ pc[w] \in {"queued", "main"} =>
        req[w].tool \in Listed(req[w].flags)

Answered(b, os) ==
    LET n(o) == answers[<<b, o>>]
    IN (IF "ok" \in os THEN n("ok") ELSE 0)
       + (IF "error" \in os THEN n("error") ELSE 0)
       + (IF "cancelled" \in os THEN n("cancelled") ELSE 0)

(* Calls already counted (audited) and not yet answered, with outcome in os. *)
Unanswered(at, os) ==
    Cardinality({w \in Workers : IsCall(w) /\ pc[w] \in at /\ outcome[w] \in os})

(* With the gate on, the counters of server_health are those of the        *)
(* replies: each executed call is counted once, as an error exactly when   *)
(* its reply is one.                                                       *)
StatsMatchReplies ==
    GateOn =>
        /\ stats.calls = Answered(TRUE, Ran) + Answered(FALSE, Ran)
                         + Unanswered({"audit", "reply"}, Ran)
        /\ stats.errors = Answered(TRUE, Ran \ {"ok"}) + Answered(FALSE, Ran \ {"ok"})
                          + Unanswered({"audit", "reply"}, Ran \ {"ok"})
        /\ stats.busy = answers[<<TRUE, "busy">>] + answers[<<FALSE, "busy">>]
                        + Unanswered({"reply"}, {"busy"})

(* Every unsafe or extension call that ran has exactly one audit record,   *)
(* written before its reply, whose "ok" agrees with the reply.             *)
AuditMatchesReplies ==
    LET late(os) == Cardinality({w \in Workers :
            /\ IsCall(w) /\ pc[w] = "reply" /\ outcome[w] \in os
            /\ Audited(req[w].tool)})
    IN /\ audit.ok = Answered(TRUE, {"ok"}) + late({"ok"})
       /\ audit.failed = Answered(TRUE, Ran \ {"ok"}) + late(Ran \ {"ok"})

(* Both: what server_health and the audit file tell of the calls is what   *)
(* the clients were told.                                                  *)
LedgerMatchesReplies == StatsMatchReplies /\ AuditMatchesReplies

(* Every request is answered. *)
EveryRequestAnswered ==
    \A w \in Workers : (pc[w] # "idle") ~> (pc[w] = "idle")

(***************************************************************************)
(* ToolCalls implements SerialCalls: the call in progress is the one that  *)
(* holds the gate; reads and refused calls do not take part.               *)
(***************************************************************************)
HolderBar == IF \E w \in Workers : Holds(w)
             THEN CHOOSE w \in Workers : Holds(w) ELSE NoWorker

PhaseOf(w) ==
    IF ~IsCall(w) THEN "idle"
    ELSE IF pc[w] = "gate" THEN "asked"
    ELSE IF pc[w] \in Holding THEN "running"
    ELSE IF pc[w] = "reply" /\ outcome[w] = "busy" THEN "busy"
    ELSE IF pc[w] = "reply" /\ outcome[w] = "refused" THEN "idle"
    ELSE "done"

Serial == INSTANCE SerialCalls
          WITH holder <- HolderBar, phase <- [w \in Workers |-> PhaseOf(w)]

(* Calls are serialised, turned away only while another one is in          *)
(* progress, and each one is answered.                                     *)
SerializedCalls == Serial!Spec
============================================================================
