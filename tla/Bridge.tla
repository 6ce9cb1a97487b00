------------------------------- MODULE Bridge -------------------------------
(***************************************************************************)
(* .pi/extensions/ida-mcp.ts: the pi bridge.  One JavaScript thread, so a  *)
(* step is what runs between two awaits.  It forwards tool calls, gives up *)
(* on those that take too long, asks the server to cancel them, and keeps  *)
(* a footer that tells online, busy and offline apart from what pings and  *)
(* commands find.  The server is here what the bridge can tell of it: up   *)
(* or not, and running a call, when it may leave other requests without an *)
(* answer (IDA is frozen).  What a cancel does to the call is              *)
(* `_mcp_notifications_cancelled` of mcp.py, called by jsonrpc.py.         *)
(***************************************************************************)
EXTENDS Naturals, FiniteSets

CONSTANTS
    Calls,      \* tool calls, one request id each (nextRpcId)
    Commands,   \* subset of {"status", "level"}: what the user asks besides
    MaxCrashes  \* bound: how often IDA goes down

ASSUME BridgeAssumption ==
    /\ IsFiniteSet(Calls)
    /\ Commands \subseteq {"status", "level"}
    /\ MaxCrashes \in Nat

VARIABLES
    up,         \* the server listens
    crashes,
    ran,        \* what the server knows of each call
    event,      \* each call's cancel Event is set
    cancels,    \* calls whose notifications/cancelled is on its way
    told,       \* calls the server was told to cancel while they ran
    phase,      \* what the bridge knows of each call
    inFlight,
    hold,       \* lastCallTimeoutAt is less than BUSY_HOLD_MS ago
    lastOnline,
    footer,
    tools,      \* registered.size > 0
    check,      \* where refreshIdaStatus is
    status      \* where ida_status is

server == <<up, crashes, ran, event, told>>
view == <<lastOnline, footer, tools, check, status>>
vars == <<server, cancels, phase, inFlight, hold, view>>

(* The extension has loaded: one tools/list went through, or did not. *)
Init ==
    /\ up \in BOOLEAN /\ crashes = 0
    /\ ran = [c \in Calls |-> "none"]
    /\ event = [c \in Calls |-> FALSE]
    /\ cancels = {} /\ told = {}
    /\ phase = [c \in Calls |-> "new"]
    /\ inFlight = 0 /\ hold = FALSE
    /\ lastOnline = up /\ tools = up
    /\ footer = IF up THEN "online" ELSE "offline"
    /\ check = "idle" /\ status = "idle"

Frozen == \E c \in Calls : ran[c] = "running"
NoAnswer == ~up \/ Frozen
LikelyBusy == inFlight > 0 \/ hold

StatusText(n) == IF n > 0 THEN "busy" ELSE "online"

(* refreshFooterQuietly, with the new value of inFlight. *)
RefreshFooter == footer' = IF lastOnline THEN StatusText(inFlight') ELSE footer

(***************************************************************************)
(* Tool calls.                                                             *)
(***************************************************************************)
CallTool(c) ==
    /\ phase[c] = "new"
    /\ phase' = [phase EXCEPT ![c] = "waiting"]
    /\ inFlight' = inFlight + 1
    /\ RefreshFooter
    /\ UNCHANGED <<server, cancels, hold, lastOnline, tools, check, status>>

(* The bridge stops waiting for call c, with an answer or without. *)
Settle(c) ==
    /\ phase[c] = "waiting"
    /\ phase' = [phase EXCEPT ![c] = "over"]
    /\ inFlight' = inFlight - 1
    /\ RefreshFooter
    /\ UNCHANGED <<server, lastOnline, tools, check, status>>

GetReply(c) ==
    /\ ran[c] = "ended" /\ up
    /\ Settle(c)
    /\ UNCHANGED <<cancels, hold>>

(* Mutant: only an answered call is taken out of inFlight. *)
ConnectionFailsCounted(c) ==
    /\ ~up
    /\ phase[c] = "waiting"
    /\ phase' = [phase EXCEPT ![c] = "over"]
    /\ UNCHANGED <<server, cancels, inFlight, hold, view>>

ConnectionFails(c) ==
    /\ ~up
    /\ Settle(c)
    /\ UNCHANGED <<cancels, hold>>

(* The client-side timeout, or an abort by the user: sendCancel. *)
GiveUp(c, timedOut) ==
    /\ Settle(c)
    /\ cancels' = cancels \union {c}
    /\ hold' = (hold \/ timedOut)

HoldOver ==
    /\ hold
    /\ hold' = FALSE
    /\ UNCHANGED <<server, cancels, phase, inFlight, view>>

(***************************************************************************)
(* The server.  A request may still arrive when nobody waits for it.       *)
(***************************************************************************)
Arrive(c) ==
    /\ up /\ phase[c] # "new" /\ ran[c] = "none"
    /\ ran' = [ran EXCEPT ![c] = IF Frozen THEN "ended" ELSE "running"]
    /\ UNCHANGED <<up, crashes, event, told, cancels, phase, inFlight, hold, view>>

ToolEnds(c) ==
    /\ ran[c] = "running"
    /\ ran' = [ran EXCEPT ![c] = "ended"]
    /\ UNCHANGED <<up, crashes, event, told, cancels, phase, inFlight, hold, view>>

(* The handler takes `requestId` and `_meta`; the dispatcher refuses a     *)
(* notification with any other parameter, and nobody is told.              *)
Accepted == {"requestId", "_meta"}
Sent == {"requestId", "reason"}

DeliverCancel(c) ==
    /\ up /\ c \in cancels
    /\ cancels' = cancels \ {c}
    /\ event' = [event EXCEPT ![c] = @ \/ (Sent \subseteq Accepted /\ ran[c] = "running")]
    /\ told' = IF ran[c] = "running" THEN told \union {c} ELSE told
    /\ UNCHANGED <<up, crashes, ran, phase, inFlight, hold, view>>

(* sendCancel gives up after three seconds. *)
LoseCancel(c) ==
    /\ NoAnswer /\ c \in cancels
    /\ cancels' = cancels \ {c}
    /\ UNCHANGED <<server, phase, inFlight, hold, view>>

GoDown ==
    /\ up /\ crashes < MaxCrashes
    /\ up' = FALSE /\ crashes' = crashes + 1
    /\ ran' = [c \in Calls |-> IF ran[c] = "running" THEN "lost" ELSE ran[c]]
    /\ UNCHANGED <<event, told, cancels, phase, inFlight, hold, view>>

ComeUp ==
    /\ ~up
    /\ up' = TRUE
    /\ UNCHANGED <<crashes, ran, event, told, cancels, phase, inFlight, hold, view>>

(***************************************************************************)
(* refreshIdaStatus: the poller and the session events, one at a time.     *)
(***************************************************************************)
CheckBegin ==
    /\ check = "idle"
    /\ check' = "ping"
    /\ UNCHANGED <<server, cancels, phase, inFlight, hold, lastOnline, footer, tools, status>>

SeenOnline ==
    /\ lastOnline' = TRUE
    /\ footer' = StatusText(inFlight)

PingAnswered ==
    /\ check = "ping" /\ up
    /\ IF tools THEN SeenOnline /\ check' = "idle"
                ELSE UNCHANGED <<lastOnline, footer>> /\ check' = "list"
    /\ UNCHANGED <<server, cancels, phase, inFlight, hold, tools, status>>

(* ensureTriageTools; that it fails is ignored. *)
ListEnds ==
    /\ check = "list"
    /\ \/ up /\ tools' = TRUE
       \/ NoAnswer /\ UNCHANGED tools
    /\ SeenOnline
    /\ check' = "idle"
    /\ UNCHANGED <<server, cancels, phase, inFlight, hold, status>>

(* Mutant: a ping that fails always means offline. *)
PingFailsOffline ==
    /\ check = "ping" /\ NoAnswer
    /\ footer' = "offline" /\ lastOnline' = FALSE
    /\ check' = "idle"
    /\ UNCHANGED <<server, cancels, phase, inFlight, hold, tools, status>>

(* Mutant: a footer that was online stays when the ping fails. *)
PingFailsBusy ==
    /\ check = "ping" /\ NoAnswer
    /\ IF lastOnline
       THEN footer' = "busy" /\ UNCHANGED lastOnline
       ELSE UNCHANGED <<footer, lastOnline>>
    /\ check' = "idle"
    /\ UNCHANGED <<server, cancels, phase, inFlight, hold, tools, status>>

PingFailsTo(where) ==
    /\ check = "ping" /\ NoAnswer
    /\ IF LikelyBusy /\ lastOnline
       THEN footer' = "busy" /\ UNCHANGED lastOnline
       ELSE /\ footer' = IF lastOnline THEN "offline" ELSE footer
            /\ lastOnline' = FALSE
    /\ check' = where
    /\ UNCHANGED <<server, cancels, phase, inFlight, hold, tools, status>>

(* Mutant: `checking` is not reset when the ping fails. *)
PingFailsStays == PingFailsTo("stuck")

PingFails == PingFailsTo("idle")

(***************************************************************************)
(* Commands: /ida <level>, and ida_status (a ping, then server_health).    *)
(***************************************************************************)
SwitchLevel ==
    /\ "level" \in Commands
    /\ \/ up /\ tools' = TRUE /\ SeenOnline
       \/ NoAnswer /\ lastOnline' = FALSE /\ footer' = "offline" /\ UNCHANGED tools
    /\ UNCHANGED <<server, cancels, phase, inFlight, hold, check, status>>

(* Without an answer to the ping, and likely busy, it says so and is done. *)
StatusPing ==
    /\ "status" \in Commands /\ status = "idle"
    /\ up \/ ~LikelyBusy
    /\ status' = "call"
    /\ inFlight' = inFlight + 1
    /\ RefreshFooter
    /\ UNCHANGED <<server, cancels, phase, hold, lastOnline, tools, check>>

StatusAnswered ==
    /\ status = "call" /\ up
    /\ status' = "idle"
    /\ inFlight' = inFlight - 1
    /\ lastOnline' = TRUE
    /\ footer' = StatusText(inFlight')
    /\ UNCHANGED <<server, cancels, phase, hold, tools, check>>

(* A timeout sets lastCallTimeoutAt before the footer is chosen. *)
StatusFails ==
    /\ status = "call" /\ NoAnswer
    /\ status' = "idle"
    /\ inFlight' = inFlight - 1
    /\ hold' = (hold \/ up)
    /\ IF inFlight' > 0 \/ hold'
       THEN footer' = "busy" /\ UNCHANGED lastOnline
       ELSE footer' = "offline" /\ lastOnline' = FALSE
    /\ UNCHANGED <<server, cancels, phase, tools, check>>

CheckStep == CheckBegin \/ PingAnswered \/ PingFails \/ ListEnds
StatusStep == StatusAnswered \/ StatusFails
CallEnds(c) == GetReply(c) \/ ConnectionFails(c) \/ GiveUp(c, TRUE)

Next ==
    \/ \E c \in Calls :
          \/ CallTool(c) \/ CallEnds(c) \/ GiveUp(c, FALSE)
          \/ Arrive(c) \/ ToolEnds(c) \/ DeliverCancel(c) \/ LoseCancel(c)
    \/ HoldOver \/ GoDown \/ ComeUp
    \/ CheckStep
    \/ SwitchLevel \/ StatusPing \/ StatusStep

Spec == Init /\ [][Next]_vars

(* The poller's interval and the timeouts of the bridge expire, and the    *)
(* server bounds every tool (NativeCancel: EveryCallEnds).                 *)
Fairness ==
    /\ WF_vars(CheckStep) /\ WF_vars(StatusStep) /\ WF_vars(HoldOver)
    /\ \A c \in Calls : WF_vars(CallEnds(c)) /\ WF_vars(ToolEnds(c))

FairSpec == Spec /\ Fairness

(***************************************************************************)
(* Properties.                                                             *)
(***************************************************************************)
(* inFlight counts exactly the calls that wait, and ida_status. *)
TypeOK ==
    /\ up \in BOOLEAN /\ hold \in BOOLEAN /\ lastOnline \in BOOLEAN /\ tools \in BOOLEAN
    /\ ran \in [Calls -> {"none", "running", "ended", "lost"}]
    /\ event \in [Calls -> BOOLEAN]
    /\ cancels \subseteq Calls /\ told \subseteq Calls
    /\ phase \in [Calls -> {"new", "waiting", "over"}]
    /\ inFlight = Cardinality({c \in Calls : phase[c] = "waiting"})
                    + (IF status = "call" THEN 1 ELSE 0)
    /\ footer \in {"online", "busy", "offline"}
    /\ check \in {"idle", "ping", "list"} /\ status \in {"idle", "call"}

(* The bridge never takes a busy IDA for a dead one: what it knew online   *)
(* it calls offline only when no call of its own is out or has just timed  *)
(* out (ida-mcp.ts, "Busy vs offline"), save for the `/ida <level>`        *)
(* command, whose `catch` does not ask.                                    *)
BusyIsNotOffline ==
    [][lastOnline /\ ~lastOnline' /\ ~SwitchLevel => ~(inFlight' > 0 \/ hold')]_vars

(* An IDA that stays up is seen online from some time on, also when it was *)
(* opened after pi or came back after a crash.                             *)
UpIsOnline == (<>[]up) => <>[]lastOnline

(* An IDA that is gone for good is known to be gone in the end, however    *)
(* many calls were out when it went (ida-mcp.ts, "Dynamic indicator").     *)
GoneIsKnown == (<>[]~up) => <>[]~lastOnline

(* A running call the server was told to cancel has its Event set          *)
(* (ida-mcp.ts, header and sendCancel).                                    *)
CancelReachesTool == \A c \in told : event[c]
=============================================================================
