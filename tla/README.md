# Formal models of ida_mcp

TLA+ models of ida_mcp, the MCP server that lives inside an IDA Pro process: HTTP
worker threads take JSON-RPC requests, run tools on IDA's one main thread under a
time limit, and answer. Every definition is translated from the Python and
TypeScript sources under `src/`; `PROJECT.json` gives, for each definition, the
lines it stands for. TLC checks the models on small instances; TLAPS proves the
properties that matter most for every instance.

Run one model with `tlc -config X.cfg M`, check one proof module with
`tlapm M_proofs.tla`.

## 1. The system

### Parts

| Part | Code | State | Operations |
|---|---|---|---|
| Dispatcher | `zeromcp/mcp.py`, `zeromcp/jsonrpc.py` | `_tool_gate` (a one-permit semaphore), `_pending_requests` (id → Event), `_stats_totals`, the audit file, thread-local request flags | `_mcp_tools_list`, `_mcp_tools_call`, `_mcp_resources_read`, `_mcp_notifications_cancelled`, `_record_call`, `_write_audit` |
| Admission | `mcp.py`, `rpc.py` | `MCP_UNSAFE`, the extension registry, the auth token (constant after start) | `_parse_request_flags`, `_auth_ok`, the filters of list and call |
| Main-thread wrapper | `sync.py` | `call_stack`, `_sync_state.pre_call_batch`, `_deadline_state.deadline`, the profile hook, IDA's batch mode and sticky cancel flag, one native timer per call | `_sync_wrapper.runned`, `sync_wrapper.timed_ff`, `profilefunc`, `_fire_native_cancel`, `check_cancelled`, `_HardInterruptWatchdog` |
| Debugger start | `api_debug.py` | the pending `_DbgStartBatchHook` | `dbg_start`, the hook's event and timer restores |
| Profiles | `profiles.py` | `_cache`, `_cache_complete` | `list_profiles`, `get_profile`, `reload_profiles` |
| Instance lifecycle | `ida_mcp_loader.py`, `server.py`, `mcp.py` | `MCP_SERVER._running`, `_OWN_PORT`, the listening socket | `run`, `term`, `start_server`, `stop_server`, `close_instance`, `serve`, `stop` |
| Discovery | `discovery.py` | `instance_<port>.json` files | `register_instance`, `unregister_instance`, `probe_instance`, `discover_instances` |
| pi bridge | `.pi/extensions/ida-mcp.ts` | `inFlight`, `lastCallTimeoutAt`, `lastOnline`, footer, registered tools, `checking` | `callRemoteTool`, `sendCancel`, `refreshIdaStatus`, `ida_status`, `/ida <level>` |
| HTTP transport | `mcp.py` | `_sse_connections` with `alive` and a lock each, HTTP sessions | GET/POST/DELETE, `_handle_sse_get`, `_handle_sse_post`, `send_event`, body limits, `register_http_session` |
| Requests | `jsonrpc.py`, `mcp.py` | none | Host and Origin checks, bodies, `dispatch`, `_coerce_scalar`, schemas, structured results, prompts, resources |
| Script tools | `api_python.py`, `sync.py` | `sys.stdout` and `sys.stderr`, one watchdog thread per script with its lock and Event | `_run_code`, `_guarded_body`, `_HardInterruptWatchdog` |
| Listing and analysis tools | `api_query.py`, `api_analysis.py`, `api_search.py`, `api_strings.py`, `api_xrefs.py`, `api_composite.py`, `api_sigmaker.py`, `regex_guard.py` ... | none: they read IDA's database | pages, searches, cross-references, call graphs, surveys, signatures |
| Editing tools | `api_hooks.py`, `api_comments.py`, `api_debug.py`, `api_typeinfo.py`, `api_modify.py` | `_HOOKS` and `_HOOK_SEQ`; bookmarks, breakpoints, enums and bytes in IDA | install and remove hooks, bookmarks, batches of breakpoints, `enum_upsert`, patches |

### How they interact

A worker thread reads a request and puts its flags in thread-locals (for a
profile it asks `profiles.py`); `tools/call` decides admission, takes the gate,
registers the id in the pending table, and dispatches. The `@idasync` wrapper
posts a closure to the main thread through `execute_sync` and waits on a queue
for the result. On the main thread `runned` sets batch mode and guards
re-entrance, `timed_ff` installs the time limit, and the body runs. Another
worker may meanwhile take `notifications/cancelled` and set the Event; the
profile hook reads it at the next Python call of the body. On the way out the
wrapper puts back what it saved, and the worker clears the table, releases the
gate, counts and audits, then answers. The bridge is a client that gives up
after its own timeout and sends a cancel; its poller pings the same server. An old client may instead open `GET /sse` and post to it: the reply then travels on the
GET's stream, written by the POST's thread while the GET's own thread pings and takes
the stream down. A script tool has a second guard, a watchdog thread that throws an
exception into the main thread. The
plugin's menu, its exit and the `close_instance` tool start and stop the server
and its registration file, which other processes read, probe and clean up.

### What is hard, and what makes it correct

* **Dispatcher.** The gate is taken and given back in different blocks by
  different threads; ids are chosen by clients; counters are written after the
  gate was given back. Correct when calls never overlap, the gate always comes
  back, the table is exact, and counters and audit agree with the replies.
* **Admission.** Two handlers decide the same question with their own code.
  Correct when what is admitted is what is listed.
* **Time limit and cancel.** A timer thread, a profile hook and the user's
  Cancel race with the body and with its clean-up; the timer of one tool may
  fire in the next. Correct when a body is interrupted for its own reasons only
  and the main thread is always given back.
* **Watchdog.** It looks whether the script is still on the stack and then injects;
  the exception lands later. Correct when it strikes that script or nothing, and a
  script that never ends is stopped all the same.
* **SSE streams.** Two threads write, one closes, a third deletes. Correct when the
  table lists live streams only and a reply is lost for a reason outside the server.
* **Requests.** The same request comes over three transports. Correct when each gets
  the reply JSON-RPC owes it, arguments fit the schema, and what is kept stays bounded.
* **Tools that read.** Pages, limits, caps and a deadline cut one answer at different
  places. Correct when what is left out is announced and what is there is right.
* **Tools that write.** IDA may fail any call in the middle. Correct when what the
  reply said is what the database holds.
* **Main-thread state.** Bodies call tools, are refused, catch that and call
  again. Correct when everything saved is put back in nesting order.
* **Profiles.** A table is cleared and refilled without a lock. Correct when
  nobody keeps a wrong table.
* **Instances.** Files and ports outlive and precede the processes that own
  them. Correct when a stopped server is gone from both and a scan removes only
  what is stale.
* **Bridge.** Every await lets others write the same footer. Correct when busy
  is not taken for dead, nor dead for busy.

The single hazards, each with its line and the properties that watch it, are in
`PROJECT.json`.

## 2. The modules

| Module | Models | Composition |
|---|---|---|
| `Admission` | the flags of a request, the filter of tools/list, the refusals of tools/call | extended by `ToolCalls` |
| `SerialCalls` | the abstract promise: one call at a time, busy only while another one runs, every call answered | refined by `ToolCalls` |
| `ToolCalls` | the dispatcher from receipt to reply | instantiates `SerialCalls` |
| `MCToolCalls` | tools and requests for TLC | extends `ToolCalls` |
| `ToolCalls_proofs` | theorems on `Admission` and `ToolCalls` | extends `ToolCalls` |
| `NativeCancel`, `NativeCancel_proofs` | `timed_ff`: time limit, cancel, grace, clean-up, its theorems | the detail of the step *body ends* of `ToolCalls` |
| `MainThread` | `runned`: re-entrance, batch mode, saved state; `dbg_start`'s hook | the other detail of that step |
| `MainThread_proofs` | theorems on `MainThread` | extends `MainThread` |
| `ProfileCache` | the profile table | stands alone: `Admission` takes the answer as `filtered` |
| `Instances`, `Instances_proofs` | several processes, ports and files, its theorems | stands alone |
| `Bridge`, `Bridge_proofs` | the pi bridge and what it can see of the server, its theorems | stands alone |
| `HardInterrupt`, `HardInterrupt_proofs` | the watchdog against `_run_code` and `_guarded_body`, its theorems | the detail of `WatchdogInterrupts` of `NativeCancel` |
| `HttpTransport`, `HttpTransport_proofs` | the SSE connections, posts to them, DELETE, stop and serve, its theorems | what a post runs is `Requests` and `ToolCalls` |
| `Series` | sums, selections and orders of a sequence | extended by `Requests`, `SigTools`, `ListTools` and `GraphTools` |
| `Requests` | one request between socket and tool: headers, body, envelope, arguments, result, sessions, prompts, resources | operators |
| `RequestChecks` | what is promised of each request, with references | extends `Requests` and `Asking` |
| `ListTools` | pages, filters, orders, searches, strings, cross-references | operators |
| `GraphTools` | call graph, data-flow trace, group of functions, profile, survey | operators |
| `GraphChecks` | what is promised of them, with references | extends `GraphTools` and `Asking` |
| `SigTools` | byte signatures | operators |
| `RegexGuard` | the check of a client's regular expression | operators |
| `PatternChecks` | what is promised of signatures and patterns | extends `SigTools`, `RegexGuard`, `Asking` |
| `Asking` | the variables that hold one input | extended by the modules of checks |
| `EditSession` | hooks, bookmarks, breakpoints, enums, patches over several calls | a state machine |
| `ToolInvariants` | the invariants behind those promises: of the profile table, of editing in any order, of the loops over batches, session tables, signatures, traces and call graphs | extends `ProfileCache`, `EditSession`, `RequestChecks`, `GraphChecks`, `PatternChecks` |
| `ToolState_proofs` | theorems on what requests and tools keep and compute | extends `ToolInvariants` |
| `MCTools` | inputs for the operators, sessions for `EditSession` | extends the modules of tools, requests and checks |

### State and actions against the code

**ToolCalls.** `pc` is where a worker stands in `_mcp_tools_call`: `gate`
(before `acquire`), `register` (before `register_pending_request`), `dispatch`,
`queued` (waiting on the container), `main`, then the `finally`: `finally`,
`release`, `record`, `audit`, `reply`. `pending` is `_pending_requests`, an entry being
the worker whose Event it holds. A request is a record of id, tool and flags;
arguments and results are not represented, an outcome is `ok`, `error`,
`cancelled`, `busy`, `refused` or `crashed` (an exception that leaves the
handler). `Unhashable` holds ids that are JSON arrays or objects, which a dict
does not take as keys. `AcquireGate` is one attempt at the non-blocking acquire;
`RejectBusy` is the other outcome. `ReadResource` runs a tool with neither gate nor
entry. Which calls are audited is decided by the marks of the tool
(`Audited`), as in the code, not by what the tool did.

**NativeCancel.** Calls run one after the other; `at` is where `timed_ff` is:
`body`, `cleanup` (before `sys.setprofile(old)`), `restored`, `clear`. `Reasons`
is what `profilefunc` raises, in the order the code checks; a hook that raised
is gone, as CPython has it. `sys.setprofile` is itself a profile event, so
`HookInterruptsCleanUp` may strike in the `finally`. Timers have their own steps:
`TimerFires` notes the time, `SetNativeFlag` sets IDA's flag, and anything may happen
in between. `flag` is IDA's one bit together with who has set it since it was last
cleared: the user during a call, or a call's timer. Time is an integer clock that ticks by
itself. The watchdog of the script tools looks (`WatchdogNotices`, which dates a cancel by the
poll that sees it) and strikes (`WatchdogInterrupts`) once either branch of `_due_at` is over;
how it strikes is the subject of HardInterrupt.

**MainThread.** A frame holds what one `runned` and `timed_ff` saved. `entries` is the
length of `call_stack`, which the guard pops before it raises. `Leave` is both
`finally` blocks with all they restore. The profile hook may raise wherever it is in force, and
is then gone: in a body that may catch it (`HookRaises`), where a nested tool enters
(`EnterStruck`), in the `finally` of `timed_ff` (`CleanUpStruck`) or of `runned` (`LeaveStruck`),
each of which skips what comes after. `struck` says of a body that it lost its hook, and where.
A debugger hook may be armed, replaced and fire while other tools run; the ghost `stray`
records that one was armed or fired out of place: in a tool when it was armed outside of
all, outside when it was armed inside, or by a `dbg_start` that found batch mode left on for
an earlier one.

**ProfileCache.** A request is `Ask` and then either a copy of the table or clear,
fill and mark; `filtered` / `open` is whether `get_profile` found the name.

**Instances.** `file[n]` is what the file of port n says: a pid, and which of its starts wrote
it. The `_running` test and the bind are one step, the registration a second, which may fail and is then
swallowed; stop and unregister are two; a scan reads, probes and unlinks one file in three, may fail to
read or to unlink, and may be cut anywhere. `CloseInterrupted` strikes before or after the socket is closed and before
or after `_OWN_PORT` is cleared. Three ghosts remember the processes whose last stop was cut short or whose
serving ended by an exception (`cut`), whose file was not written or not removed (`failed`), and whose
current registration another process removed (`robbed`).

**Bridge.** A step is what runs between two awaits. `ran`, `event` and `told` are
the server's side; the dispatcher's refusal of an unknown parameter is the set
inclusion `Sent \subseteq Accepted`, from both sources.

**HardInterrupt.** `live` is the script whose `_guarded_body` is on the stack, which is
what `_main_in_tool` looks for; `at` is where `_run_code` and the clean-up are, in
particular `disarm`, `awaiting` and `locked` of `disarm()`. `Look` is the test under
the watchdog's lock and `Inject` the injection: between the two the main thread goes
on, except that it cannot take that lock. An injected exception is `pending` until
`Deliver` raises it where the main thread then is; `Struck` says what that place does
with it. `HookRaises` is the profile hook, which raises once.

**HttpTransport.** `get` is where a GET's handler is: `registered` (in the table, before the
`endpoint` event), `streaming`, `leaving`, `unlisted`, `closed`. `post` and `to` are a
POST's thread and the connection it looked up, which it keeps after the table forgot
it. `waiting` is a POST that reads its body, from a socket that has no timeout: the body arrives
(`BodyArrives`) when the client likes, or never.
`lock` is the lock of `send_event`. DELETE takes two steps, the pop and `alive = False`.
`excuse` is a ghost: the streams whose client left or lagged, that were deleted or that
lived through a stop.

**Requests, ListTools, GraphTools, SigTools, RegexGuard.** A tool is an operator from what
IDA or the client gives to the reply. What IDA enumerates is a sequence of rows, a
pattern is the set of names it matches. An image is its bytes with what IDA decodes at each: the
size of the instruction, and which of its bytes are operands. A database gives for each function its
references in the order of the code, calls and jumps, and the list of what refers to it, so that a second
reference to the same function is a second edge; a trace takes an address for such a function. A parsed regex is the table of its nodes
in the order `_check` visits them, each with the node whose sub-pattern it is in; `Passed` is the
argument `_check` passes down. A walk over instructions is the function of its results after
0, 1, ... of them, a loop that stops early the least place where it stops. The recursion of `callgraph` is a
function of the levels that are left, an order the rank of each element. A cancel says at which hit or visit
IDA's flag is set and whether it is inside a search of the SDK, which then finds nothing more, or at the
poll between two searches, which announces it. `img.fails` are the searches for a signature that raise or
are broken off, which `_find_nth` takes for "no match". Each module ends with reference definitions -
reachability, the shortest unique run of instructions, the nodes a node is in - which
the operators are compared with.

**EditSession.** The state is IDA's (bookmarks, breakpoints, members, bytes, tracers)
and the plugin's (`_HOOKS`); each action is one tool call, and an argument says which
call of the SDK fails - of a condition of a breakpoint any of six. `told` and `batch` are ghosts that hold
what the replies promised; `told.lost` are the enum members that a call failed to read back
and so dropped.

## 3. What the runs check

Runs that pass:

| Run | Instance | Shows |
|---|---|---|
| `tool_calls` | 3 workers, 7 requests, 3 received | types; `OneCallAtATime`, `TableExact`, `OnlyListedRun`, `LedgerMatchesReplies` |
| `tool_calls_live` | 2 workers, 3 requests with hashable ids, 3 received, fairness | `GateNotLost`, `EveryRequestAnswered`, and that ToolCalls implements SerialCalls with its fairness (`SerializedCalls`) |
| `native_cancel` | 2 calls, the second of a script, limits of one tick, 5 instants, fairness | `InterruptJustified`, `NothingOutlivesTool`, `EveryCallEnds` |
| `hard_interrupt` | 2 scripts, 2 attempts each, fairness | `ScriptLeavesNothing`: no injected exception outlives its script and the streams are put back; `RunawayStopped` |
| `main_thread` | 3 tools, depth 4, `dbg_start` anywhere, the profile hook raising anywhere | `CleanAtIdle`, `BatchKept`, `SavedInOrder` |
| `profile_cache` | 3 threads, 2 profiles and an unknown name, reloads | `LoaderIsRight`, `TableHeals` |
| `instances` | 2 processes, 2 ports they may share, 2 starts each | `OnlyStaleUnlinked`, `RunningIsListed`, `StoppedIsGone`, `OwnsWhatItServes` |
| `bridge` | 2 calls, `ida_status` and level switches, one crash, fairness | `BusyIsNotOffline`, `UpIsOnline`, `GoneIsKnown` |
| `http_transport` | 1 SSE stream, 1 plain GET stream, 2 posters, fairness | `StreamsKept`: live handlers only in the table, replies lost only with an excuse, no two replies mixed; `StreamsAndPostsEnd` |
| `tools` | all inputs below the bounds, and editing sessions | `ListsSound`, `GraphsSound`, `PatternsSound`, `RequestsSound` against reference definitions; `HooksAreThose`, `EditsAsTold` |

The properties of `tools` are conjunctions, one conjunct per question:

* `ListsSound`: a client that walks a list by what the replies tell it gets every
  matching row once and in order; a search that is neither partial nor at its cap, nor was struck inside
  an SDK search, has every match; the directional xref tools split `get_xrefs` between them and the
  counts agree.
* `GraphsSound`: the nodes of a call graph hang on the root by listed edges, and are
  all there is when no limit was met; a trace has every function once at its true distance;
  a group is split by who calls it from outside; profile and analysis agree and cut off what matters least;
  each function has one class and each import one category, what a survey does not list has no more references
  than what it lists, and the roots left out of a summary come after all those it names.
* `PatternsSound`: a signature called unique matches its address only, and no shorter
  run of whole instructions does, but for a search that failed, which each clause names; a regex is refused exactly when one repeat lies
  below another, one of the two is unbounded and nothing between them is atomic.
* `RequestsSound`: a loopback server is reached under loopback names only; a body is
  bounded however it is framed or packed; a request with an id gets one answer with that
  id; a coerced argument has the type of the schema; what is counted an error is told as one, and what is no error fits the output cap; sessions
  are the latest, audit values bounded; what is offered works.
* `HooksAreThose`: one hook per type, every listed one is called by IDA and has counted
  all its events and kept the last; `EditsAsTold`: bookmarks, breakpoints, members and bytes
  are what the replies said; an item of a batch that fails leaves an old condition or none, unless its error
  says that the new one is in force; an enum keeps every member it was given, but for those a failed read dropped.

Runs that find the code at odds with what the repository says of it:

| Run | Property | What happens |
|---|---|---|
| `gate_lost` | `GateNotLost` | an id that is an array takes the gate and never gives it back: `register_pending_request` raises between `acquire` (`mcp.py:1217`) and the `try` |
| `bridge_cancel` | `CancelReachesTool` | the bridge's cancel carries `reason`, which the handler does not take; the error of a notification is dropped (`ida-mcp.ts:178`) |

Each property of a passing run has a mutant: a changed definition, kept in
the module before the one it replaces and marked *Mutant*, under which TLC
finds the property violated. A property that is a conjunction has further mutants for
its other conjuncts beside the one listed in `PROJECT.json`.

### Bounds, and why they are enough

* *Workers, MaxReceived = 3.* The interesting cases need a holder, a second call
  that meets the gate and a cancel, a reader, or a third call after a release. The
  workers are symmetric in `tool_calls`; the run with liveness uses none.
* *Calls = 2, one tick each.* What one call leaves to the next needs two; each of
  deadline, grace and hard interrupt can come before, at or after the others.
  The second call is a script, the first is not, and either may be cut short.
* *MaxDepth = 4.* Refused and admitted calls alternate twice, so a restore out of
  order would show, and the hook of an outer body can strike around an inner one.
* *Threads = 3.* Two that load and one that looks.
* *Procs, Ports, MaxStarts = 2.* Owner and intruder, a common port or one each, a
  restart, in all combinations: a start between the probe and the unlink of a scan, the exit of a process
  whose bind failed, a stop of what another one serves.
* *MaxCrashes = 1, Calls = 2* in the bridge: gone, back, with one call out and one
  to come.
* *Calls, MaxAttempts = 2* in the watchdog: what one script leaves to the next, and
  a retry after an attempt that was swallowed.
* *One SSE stream, one plain one, two posters.* Streams share nothing but the table,
  of which each handler touches its own entry; two posters are needed for the lock, and for a
  post that looked a connection up before it was deleted and one after. The proof has any number.
* *Tools.* Lists and xrefs of up to 3 rows with pages of 1 to 4, so that a page ends
  before, at and after the end; graphs of 3 and 4 functions with jumps, self-calls and cycles,
  surveys that see 3, and limits that are met and that are not; images of up to 5 bytes, where each kind
  of instruction meets itself and the end, and one failing search in those of up to 3; regexes of up to 4 nodes and a branch; bodies of up to
  3 chunks around a limit of 3; sessions of up to 5 operations over a table of 2; 3 hooks and 3 events
  over a log of 2; 3 bookmark slots; batches of 2 breakpoint items; 2 enum members with 2
  values; patches of 2 bytes over two segments with a gap, a window of 2 and a cap of 3. The caps of
  the code (200 matches, 50 xref sites, 256 slots, 1000 patches ...) are constants, set
  small enough to be met.

### Fairness

`ToolCalls`: weak fairness of a worker's own steps, as the operating system runs
runnable threads; strong fairness of `RunOnMain`, as IDA serves its queue of
`execute_sync` requests in order although others keep coming; weak fairness of
the end of a body, which `native_cancel` justifies with `EveryCallEnds`. No
fairness for what clients send.
`NativeCancel`: the clock ticks, the main thread executes its clean-up, the
watchdog thread runs, and a body makes Python calls, so its profile hook is
called. The last one is what the code relies on: a body that stays in C for ever
is not bounded by it, and the model does not say so. A body is never fair to return, nor
to poll.
`HardInterrupt`: the watchdog thread runs, an injected exception is delivered, and the
code around the script is executed. The script is not fair to end nor to make calls.
`HttpTransport`: handlers and posters run; a poster that waits for a stream's lock
gets it (strong fairness of `Grab`), as the holder's write is bounded by the socket's
timeout and nobody keeps the lock longer. No fairness for clients, stops or pings: a client need never
send the body it announced, so `StreamsAndPostsEnd` is about posts whose body is there.
`Bridge`: the poller's interval and the timeouts of the bridge expire, tools end.
Nothing says that IDA stays up, or that a cancel arrives.

## 4. What is proved

| Module | Theorems | State |
|---|---|---|
| ToolCalls | `ListedIffAdmitted`, `TokenHintHelps` | for all flags, a registered tool is admitted iff it is listed; the server's token ends every demand for one |
| | `TypeCorrect`, `MutualExclusion` | `TypeOK`, hence never more than one permit; `OneCallAtATime`, unhashable ids included |
| | `TableExactAlways` | `TableExact`: every entry leads to a call in flight with that id and, with the gate on, every such call has its entry |
| | `OnlyListed` | `OnlyListedRun`: only listed tools run |
| | `GateNeverLost` | `GateNotLost`, assuming `AllHashable` |
| | `LedgerAlwaysTells` | `LedgerMatchesReplies`, assuming `GateOn`: counters and audit are those of the replies |
| | `UngatedIsUnrecorded` | assuming `~ GateOn`, nothing is ever counted or audited |
| | `ImplementsSerialCalls` | ToolCalls refines `SerialCalls!SafetySpec`, assuming `GateOn` and `AllHashable` |
| MainThread | `TypeCorrect`, `CleanAtIdleAlways`, `SavedInOrderAlways` | the main thread is put back at every depth, wherever the profile hook raises |
| | `BatchKeptAlways` | `BatchKept`: dialogs are off inside every body and back afterwards, as long as no debugger hook was armed or fired out of place |
| NativeCancel | `TypeCorrect`, `InterruptJustifiedAlways` | a body is interrupted for a cause - its own, or the late timer of an earlier tool -, not before its grace is over |
| | `NothingOutlivesToolAlways` | neither hook nor deadline is there for the next tool |
| HardInterrupt | `TypeCorrect`, `ScriptLeavesNothingAlways` | no interrupt outlives its script, for any number of scripts and attempts |
| Instances | `TypeCorrect`, `StoppedIsGoneAlways`, `OwnsWhatItServesAlways` | a stop leaves neither socket nor file; what a process believes to own it serves |
| | `OnlyStaleUnlinkedAlways`, `RunningIsListedAlways` | what a scan read and found stale stays so; every running server is listed, unless it could not register or was robbed - with shared ports and restarts |
| Bridge | `TypeCorrect`, `FooterTellsAlways` | the count in flight is that of the calls; the footer says what the bridge knows |
| | `BusyIsNotOfflineAlways` | the action property `BusyIsNotOffline` |
| HttpTransport | `TypeCorrect`, `StreamsKeptAlways` | replies are lost only through client, DELETE or stop, for any number of streams and posters |
| RequestChecks | `RequestsSoundAlways` | `[]Asked => []RequestsSound`, for inputs of any size and any caps |
| | `HeadersAreLocalAlways`, `BodyIsBoundedAlways`, `RepliesFitAlways`, `ArgumentFitsAlways` | its conjuncts on one request, each a fact about the operators: headers, body, envelope, arguments |
| | `ResultIsCountedAlways`, `SessionsAreTheLatestAlways`, `NumbersAreBoundedAlways`, `OffersHoldAlways` | its conjuncts on what is counted, kept and offered |
| PatternChecks | `PatternsSoundAlways` | `[]PatternAsked => []PatternsSound`, for images and patterns of any size |
| GraphChecks | `GraphsSoundAlways` | `[]GraphAsked => []GraphsSound`, for finite databases of any size, any limits, depths and cancels |
| | `TracesAreExactAlways`, `CallgraphsAreSoundAlways` | its conjuncts on the two walks, each a fact about the operators |
| ProfileCache | `TypeCorrect`, `LoadersAreRight`, `TableHealsAlways` | the table is whole or empty, loaders are right, races heal |
| EditSession | `HooksAreThoseAlways` | `HooksAreThose` for tools in any order and with any arguments |
| | `EditsAsToldAlways` | `EditsAsTold`, likewise, with batches of any length and any segments, cap and window |
| | `BookmarksAreKeptAlways`, `MembersAreKeptAlways`, `BytesAsToldAlways`, `BatchesAreAnsweredAlways`, `PatchesAreListedAlways` | its conjuncts |

They hold for every value of the constants that the named assumptions of the
modules allow, which type them and say that workers and calls are finitely many (they
are counted; processes, ports, streams, posters and threads need not be). Some theorems
name a premise of their own: `AllHashable` says that clients send ids a dict takes
as keys; without it `GateNotLost` is false, as the run `gate_lost` shows. `GateOn`
says `max_concurrent_tools` > 0, the default; `UngatedIsUnrecorded` is the other case.
`Asked`, `PatternAsked` and `GraphAsked` say that an
input is one: chunks and sizes are numbers, samples are sequences, an image decodes its own bytes, the
nodes of a pattern come after those they lie in, a database has finitely many functions, whose references
lead to functions of it, and IDA lists the same references from either end. They bound nothing; TLC finds them true in
every state of `tools`. The constants are any caps, 0 included, except that `SigAssumption` wants a poll
interval, a cap of sites and a longest range of at least 1, and `EditSessionAssumption` a cap of patches
of at least 1 and segments that are disjoint and in order, as IDA enumerates them. `EditSpec` (`ToolInvariants`), over which the editing tools are proved, lets
a client call them in any order with any arguments and IDA fail any of its calls; the
sessions of `MCTools` are some of its behaviours.

The arguments:

* *ToolCalls.* `GateInv` strengthens mutual exclusion with the types, with
  `CallsOnly` (only a call is at a location between gate and audit) and with
  `HoldersTakePermit` (with the gate on, a holder implies `gate = 0`). Mutual
  exclusion alone is not inductive: a second worker could acquire if a holder had
  left the permit. The table needs `GateInv` to know that nobody else with the same
  id is in flight when an entry is written or dropped. `GateNotLost` is
  inductive on top of it, with `AllHashable` to exclude `RegisterRaises`.
  The refinement maps the holder to the one call that holds the gate and each
  location to a phase; it needs `OutcomeInv` to tell what a call at `reply` was, and
  `GateNotLost` to justify turning a call away.
* *The ledger.* The counters are written after the gate was given back, so several calls
  may be counted and not yet answered. `Ledger` is five equations: a counter is the number of
  replies of its kind plus the number of open calls past it. Each step adds a call to one side
  and takes it from the other (`CountOneMore`, by cardinalities). `RanInv` tells that
  a call on its way to the counters ran and that only marked tools reach the audit; without it
  a busy answer could be counted as a call.
* *MainThread.* `ChainOf` says that each frame saved what the frame below
  was using, `OnTop` and `InForce` that the top frame, as far as it was not struck, is what is in force. Leaving pops
  one link; a strike marks the frame whose hook is lost, so the claims about it lapse and those about the frames
  below stand. `BatchKept` needs what each body runs with and not only the top one: `Levels` gives the batch
  mode of every level and what a pending hook will restore, unless `stray`; `LeftOn` says where batch mode
  is on without a tool.
* *NativeCancel.* `Begun` separates the calls that have begun, which have a deadline and a
  result of their own, from those to come: a timer that fires late belongs to one of the
  former, and its deadline is over. `SeenIsOwn` dates what the watchdog noticed after the cancel of the call that
  runs; `FlagHasCause` says of each raiser of the flag what `HasCause` will say of it. `HookInside` and `ExposedIsOwn` say at each place of `timed_ff` what is installed.
  They are stronger than `NothingOutlivesTool`, which looks between tools only.
* *HardInterrupt.* `Stack` says that the sentinel frame is on the stack exactly while
  script, reply and `disarm()` run; `Aim` that a watchdog between test and injection
  still has its script before it, since that script cannot pass `disarm()` without the
  lock, and that an earlier exception is still the script's. `cut` is the exception
  the docstring does not make (below).
* *Instances.* A port is bound by a process that runs or was cut short (`Bound`); a
  file names such a process or one that is about to remove it, unless that failed (`Filed`); who registers or
  scans runs (`Placed`). Starts are numbered, so a registration that was seen is never written again
  (`SeenOnce`); what a scan condemned was not the current one when it was probed, and cannot become so (`Condemned`).
* *Bridge.* `inFlight` is a number that the code keeps and a cardinality here: each
  call adds and takes itself once. `FooterTells` is not an equivalence of footer and `lastOnline`:
  TLC refutes that one, since `ida_status` paints busy and leaves `lastOnline` alone.
* *HttpTransport.* That replies are lost only with an excuse is not inductive: a
  poster may hold a connection that died since. `Blamed` says that whatever can stand in
  the way of a reply (not alive, not in the table, a handler on its way out, a stopped server, a client
  that does not read) is an excuse already, and excuses stay. `OneWriter` ties the lock to
  the poster that writes.
* *ProfileCache.* A thread that fills makes the table whole, one that clears will
  still fill; so a table that is not whole has a thread about to fill it.
* *EditSession.* `HookInv` says of each listed hook that its log is the end of what IDA told
  it (`LoggedLast`), that ids are given once, below `hookSeq`, and that a type has one hook: then
  a new one takes nothing of an old one's. `EditsInv` ties each part of `told` to the part of the
  database it speaks of; that a free slot is a slot needs the least element of a set of
  numbers (`MinIs`).
* *Batches and patches.* `AllHandledWell` says of every prefix of a batch that there are as
  many replies as items and that what an ok promised still holds unless a later item named the address;
  one item at a time keeps that. `list_patches` looks at places in ascending order:
  what it has `Looked` at grows with each place and the listed ones are the first of those, up to the cap.
* *Data of any size.* The library's induction theorems take operators as parameters. In
  their place `NatSets` proves induction for a *set* of numbers, from its least element; `RecursionExists`
  that a function defined by a step from its predecessor exists; `UpTo` and `ClimbExists` the
  forms for the places of a sequence. A loop is then a function of the number of its rounds, and what holds after
  n rounds is the set of n for which it does.
* *Requests.* Bodies: the sum of the chunks read so far never passes the limit and the first
  chunk that would is where reading stops, which is also what a plain length says. Sessions: the table's names
  are apart and in the order of their last use (`PrunedIs`, `RefreshedIs`, `RegisterIs`), so those pruned
  are the oldest. Coercion: by cases on annotation and value, nested unions included.
* *Patterns.* `Passed` is what `_check` hands down; along the line of a node's ancestors it
  says whether a repeat lies above with no atomic group between (`PassedIsFree`). Signatures: a walk settles
  inside the image (`WalkSettles`), the first match decides whether a second is looked for
  (`FirstMatch`, `UniqueIs`), and the least step at which the match is unique is where
  the loop of `_make_unique` ends, so no shorter run of instructions is unique.

* *Traces.* After each turn of the loop the visited functions are those of nodes and queue, each once;
  their depths are their distances; nodes and queue together are in order of distance, nothing queued being more than
  a step further than the last node; and whatever lies next to an expanded node is visited, or a cap was met
  (`TurnKeeps`, by `LooksKeeps` for each reference). As each turn but the last adds a node, the loop has ended
  after as many turns as there may be nodes.
* *Call graphs.* `Drawn` says of a graph in the making what the reply promises of nodes and edges but for the
  edges of the functions still open; `Grown`, of a graph and a later one, that nodes, edges and a reason only
  accrue. A visit at one level keeps both when those of the next level do (`VisitKeeps`, `FollowKeeps`),
  so by induction on the levels that are left. The functions within reach are then those listed, by induction on the distance.
* *Orders and surveys.* In a strict order of a finite set the ranks are apart (`SmallerAhead`), so each place has one
  element and `InOrder` lists each once; what is cut off a list then comes after all that was kept.

Each of these invariants was an invariant of a TLC run before it was proved.

Only model-checked:

* Liveness and everything that needs fairness: `EveryRequestAnswered` and the fairness part of
  `SerializedCalls`, `EveryCallEnds`, `RunawayStopped`, `UpIsOnline`, `GoneIsKnown`,
  `StreamsAndPostsEnd`. TLAPS has no rule for ENABLED, on which fairness rests.
* What `ListTools` computes: its searches are recursive operators, and its filters and orders are `SelectSeq` and
  `FoldLeft`, whose operator is a parameter: `ListsSound`.

## 5. What is not modelled

* The bytes of HTTP headers and the standard library's server; of texts, only the kinds
  that `_coerce_scalar` and `_parse_structured` tell apart.
* Tools that are one call of the SDK with formatting: decompile, disassemble, rename, types,
  segments, instructions, microcode, debugger attach, step, registers and memory. What they
  return is IDA's.
* `diff_before_after` (two decompilations compared as text), the formatting of blocks and
  comments, FLIRT files, `run_file`'s path check, the evaluation of Python.
* `compat.py`: which branch runs is a fact about the installed IDA. Packaging, workflows
  and skills are not program behaviour.
* The IDA SDK is external: `execute_sync`, batch mode, cancel flag, wait box,
  breakpoints, bookmarks and searches are modelled from how the sources use them, and any
  of the editing calls may fail.
* CPython's delivery of an injected exception is external too: at a call, a loop or
  the start of a function. `IDA_MCP_NO_HARD_INTERRUPT` is unset.
* Time has a model in `NativeCancel` and in the sessions of `Requests` only. `audit_path` is taken as
  set. Profile files do not change on disk.
* In `Bridge` the level's tool list, text and notifications, and two status checks that
  overlap by force.

`PROJECT.json` names the reason for each component.

### Other deviations

Met while reading and modelling, explained here rather than kept as runs. Each
was reproduced with TLC on a variant of a model, its properties or its
configuration, or follows from the definitions the properties had to except.

Dispatcher, main thread, instances, bridge:

* `mcp.py:1282`: with `max_concurrent_tools = 0` nothing is counted or audited, as
  both hang on `gate_acquired`; `README.md:83` promises a record for every mutating call.
* `sync.py:568`: a profile event after the deadline and before the timer thread has
  run raises at once, without the grace of `sync.py:75-76`. `GraceRespected`, part of
  `InterruptJustified`, states what does hold.
* `sync.py:603`: the hook may raise on the very call that removes it, and the rest of
  the `finally` (deadline, timer, cancel flag) is skipped; `DeadlineIsOwn`, part of
  `NothingOutlivesTool`, and `CleanAtIdle` say when. A body that lost its hook (`sync.py:553`), there or by
  catching what it raised, runs on without time limit and cancel; one whose hook strikes where a nested tool
  enters or leaves may be left with that tool's pre-call batch mode and entry (`PreIsCallers` excepts it).
* `sync.py:393-395`, `405-407`: the watchdog also strikes a script that swallowed a cancel; its
  `ToolInterrupt` says "timed out" then too, before the deadline.
* `sync.py:543`: a timer callback already begun is not stopped by `cancel()`; it can set the
  cancel flag after the clean-up and cancel the next tool, against `sync.py:607-608`.
* `api_debug.py:208`: a `dbg_start` hook that fires while another tool runs turns dialogs on in that tool, and
  if the tool saved batch mode 1 it puts it back for good; a second `dbg_start` while one is pending
  (`218-222`) makes the old hook restore at once and arms a new one with the batch mode left on for
  the old, which it then "restores". Both are against `api_debug.py:8-12`; `BatchKept` excepts
  them by name (`stray`).
* `profiles.py:42`: a look-up between `clear` and `update` of a second loader finds no
  profile and the request is not filtered; `README.md:234` says no races.
* `discovery.py:118`: a server that starts between the probe and the unlink of its
  predecessor's file loses its new registration; so does one whose file a scan could not read
  while it was written. `RunningIsListed` excepts them by name (`robbed`). A socket that listens is taken to accept
  within the probe's second.
* `server.py:361-369`: a registration that fails is reported in IDA and the server goes on, in no
  list (`failed`).
* `ida-mcp.ts:512`: the catch of `/ida <level>` paints offline during a long call, against
  `ida-mcp.ts:22-27`; `BusyIsNotOffline` excepts that step.
* `ida-mcp.ts:480` and `367`: when `ida_status` paints busy while `lastOnline` is
  false, a later failed check does not repaint. `GoneIsKnown` is about what the
  bridge knows, not about that footer.
* `sync.py:455`: the guard pops the outer tool's entry before it raises, so a body that
  catches the error makes a second nested call that is let through, against `sync.py:123-125`.
* `ida_mcp_loader.py:319`: `term` stops and unregisters its port whether or not this process
  serves it; a second IDA whose bind failed removes the first one's registration on exit, against
  `README.md:29` (`robbed`).
* `mcp.py:890`: `stop` clears `_running` before it closes the socket; `close_instance` cut
  short in between leaves a socket that no later stop closes, against `server.py:373`. Cut short after
  `server_close` (`mcp.py:894-900`, `server.py:376`) it leaves `_OWN_PORT` set with nothing behind it. A `serve_forever` that
  ends by an exception (`mcp.py:876-879`) leaves the socket bound. The model keeps these processes apart as `cut`.
* `sync.py:437`: the profile hook may raise in `disarm()` before `_done` is set. The
  watchdog is then not disarmed and its exception can land after the tool, against
  `sync.py:353-355` and `424-425`. `InterruptHitsScript` excepts it (`cut`).

HTTP and requests:

* `mcp.py:320`, `345`: only the socket of `GET /sse` gets a timeout (`538`). A client that announces a body
  and does not send it keeps a thread of the server for as long as it stays.
* `mcp.py:1246-1248`: the output cap is for results; the text of an error is sent whole, for -32603
  with a traceback (`jsonrpc.py:152-158`). `ResultIsCountedAsTold` bounds what is no error.
* A text POSTed to `/mcp` that does not parse is dispatched as an empty object and gets
  -32600; over SSE and stdio it gets -32700. A JSON string that holds a request is parsed twice and
  dispatched by POST; the others answer -32600.
* `has_http_session` has no caller: sessions are given and pruned but never asked for.
* A result `json.dumps` refuses counts as a success (`mcp.py:1243`).
* A poster that flushes a stream its GET handler has closed meets a `ValueError`, which
  nothing catches: the POST gets no 202. A kept-alive connection still dispatches after `stop()`.
  `stop()` and `serve()` within one second keep the old SSE streams, whose loops read `_running` once a second.

Tools that read:

* A search of the SDK breaks off when IDA's cancel flag is set (`sync.py:533-543`) and returns what it returns at the
  end. `api_search.py:63-67`, `93-97`, `125-129` and `207-209` end on it without a look at the flag: the reply is short
  and not marked `partial`; `find_bytes` (`api_analysis.py:720-752`) then says that there is no more.
  `SearchIsHonest` excepts a search struck inside (`StruckIn`).
* `api_sigmaker.py:116-117`: a search that raises, or is broken off so, counts as "no other match": a signature is told
  `unique` that is not. `UniquenessIsTold` excepts the step whose second search failed (`Failed`).
* `api_composite.py:955`: the roots of a call-graph summary are cut to 100 without a word, `truncated` being about functions.
* `callgraph` walks depth first with one visited set: a function first met at the depth limit
  is not expanded when a shorter way leads to it later, so functions within `max_depth` are missed. A
  root given inside a function is visited under its own address and again at its start.
* `trace_data_flow` stops at its caps without a word, as do the 200 matches of a search, the limits of the
  xref tools and the bytes and rows `list_patches` looks at (100000 a segment, 1000).
* `_callee_list` and `get_callee_count` count jumps, `get_callees` and `_caller_list` do not.
* `first_seen_at` of `_func_constants` is the last place. `get_xrefs` may return one more than
  its limit. `truncated` is set when there are exactly `limit` rows. The automatic width
  of `int_convert` fails for 128 to 255.

Tools that write:

* `api_hooks.py:158`: the older hook of a type is gone even if the new one then does not
  hook and the reply is an error. An `unhook()` that fails is swallowed; IDA goes on calling a tracer that is
  in no table (`stuck`).
* `api_comments.py`: a bookmark at address 0 looks like a free slot: it is never listed and its slot
  is given away. `delete_bookmark` takes an address below 256 for a slot.
* `api_debug.py:564`: a change of language that fails leaves the condition cleared, as does one after which the
  breakpoint cannot be reloaded (`568-571`). A condition that was "stored but did not compile", or was "set but
  breakpoint could not be reloaded" (`588-592`), is an error and in force; `BatchesAreAnswered` excepts the two.
* `api_typeinfo.py:408`: when IDA fails to give the old members, all or from some member on, `enum_upsert` stores
  the enum without them, against its docstring (`364-367`, "existing members are kept"). `MembersAreKept`
  excepts those members by name (`told.lost`), until they are given again.
* `patch_bytes` answers ok for bytes outside every segment, which are not written.

## 6. Plan

Done: Admission and ToolCalls with SerialCalls, NativeCancel, MainThread, ProfileCache,
Instances, Bridge; HardInterrupt, HttpTransport; the algorithms of requests and tools; editing
sessions. Proved: every safety property the runs check but `ListsSound`.

Next models:

1. That HardInterrupt refines the step of NativeCancel it details, as a temporal
   property of its own; today the two share names and the argument is in prose.
2. The rest of `api_debug.py`: states in which start, attach, step, exit and detach are
   legal and what each one waits for.
3. `currentLevel` of the bridge under replies out of order.

Next proofs: `ListsSound`, once its module is written as those of graphs, requests and
signatures are, without recursive operators; the conjuncts of `SerialCalls` as a corollary for a client.

Runs are kept few, one for each question; new modules join the runs of the component
they belong to where the state space allows it.
