--------------------------- MODULE HardInterrupt ---------------------------
(***************************************************************************)
(* The watchdog of script tools (sync.py, `_HardInterruptWatchdog`) against *)
(* the script it may have to stop (api_python.py, `_run_code`), one script  *)
(* after another.  The profile hook raises once; a bare `except:` can       *)
(* swallow that, and a call-free loop never meets it.  The watchdog then    *)
(* injects an asynchronous exception into the main thread, but only while   *)
(* the frame of `_guarded_body` is on its stack.  An injected exception is  *)
(* pending until the main thread comes to a call, a loop or the start of a  *)
(* function.  NativeCancel has all this as its step WatchdogInterrupts.     *)
(***************************************************************************)
EXTENDS Naturals

CONSTANTS
    Calls,          \* number of script tools, run one after another
    MaxAttempts     \* _HARD_INTERRUPT_MAX_ATTEMPTS

ASSUME HardInterruptAssumption ==
    Calls \in Nat \ {0} /\ MaxAttempts \in Nat \ {0}

VARIABLES
    cur,        \* the call that has the main thread, or had it last
    at,         \* where the main thread is
    live,       \* the call whose _guarded_body is on the stack, 0 if none
    captured,   \* sys.stdout and sys.stderr are those of _run_code
    pending,    \* an asynchronous exception is set for the main thread
    hook,       \* the profile hook is installed
    limit,      \* each call: before its limit, past it, past grace and extra
    wd,         \* each call's watchdog thread
    attempts,   \* and its injections
    done,       \* and its _done Event
    cut         \* the hook has raised in some disarm(), on entry or inside

vars == <<cur, at, live, captured, pending, hook, limit, wd, attempts, done, cut>>
main == <<cur, at, live, captured, pending, hook, done, cut>>
dog == <<wd, attempts>>

Call == 1..Calls
Places == {"idle", "script", "result", "handler", "restore", "return",
           "disarm", "awaiting", "locked", "gone"}

Init ==
    /\ cur = 0 /\ at = "idle" /\ live = 0
    /\ captured = FALSE /\ pending = FALSE /\ hook = FALSE /\ cut = FALSE
    /\ limit = [k \in Call |-> "before"]
    /\ wd = [k \in Call |-> "off"]
    /\ attempts = [k \in Call |-> 0]
    /\ done = [k \in Call |-> FALSE]

(* timed_ff starts the watchdog, installs the hook and enters the sentinel *)
(* frame; _run_code redirects the output.                                  *)
Start ==
    /\ at = "idle" /\ cur < Calls
    /\ cur' = cur + 1 /\ live' = cur' /\ at' = "script"
    /\ captured' = TRUE /\ hook' = TRUE
    /\ wd' = [wd EXCEPT ![cur'] = "waiting"]
    /\ UNCHANGED <<pending, limit, attempts, done, cut>>

(* Time passes, or a cancel request does: first for the hook (its limit    *)
(* and grace), then for the watchdog.                                      *)
Overdue(k) ==
    /\ k <= cur
    /\ \/ limit[k] = "before" /\ limit' = [limit EXCEPT ![k] = "past"]
       \/ limit[k] = "past" /\ limit' = [limit EXCEPT ![k] = "overdue"]
    /\ UNCHANGED <<main, dog>>

(***************************************************************************)
(* The main thread without interrupts.                                     *)
(***************************************************************************)
Go(from, to) ==
    /\ at = from /\ at' = to
    /\ UNCHANGED <<cur, pending, limit, dog, cut>>

(* A place with calls in it is not left while an exception is pending. *)
ScriptEnds == Go("script", "result") /\ ~pending /\ UNCHANGED <<live, captured, hook, done>>
MakeReply == Go("result", "restore") /\ ~pending /\ UNCHANGED <<live, captured, hook, done>>
MakeErrorReply == Go("handler", "restore") /\ ~pending /\ UNCHANGED <<live, captured, hook, done>>

(* Mutant: the streams are put back only after an orderly reply. *)
RestoreStreamsUnlessCut ==
    /\ Go("restore", "return")
    /\ captured' = pending
    /\ UNCHANGED <<live, hook, done>>

(* The `finally` of _run_code: two assignments, no call between them. *)
RestoreStreams ==
    /\ Go("restore", "return")
    /\ captured' = FALSE
    /\ UNCHANGED <<live, hook, done>>

LeaveScript == Go("return", "disarm") /\ ~pending /\ UNCHANGED <<live, captured, hook, done>>
EnterDisarm == Go("disarm", "awaiting") /\ ~pending /\ UNCHANGED <<live, captured, hook, done>>

(* Mutant: disarm does not take the lock. *)
TakeLockFree == Go("awaiting", "locked") /\ UNCHANGED <<live, captured, hook, done>>

TakeLock ==
    /\ Go("awaiting", "locked")
    /\ wd[cur] # "injecting"
    /\ UNCHANGED <<live, captured, hook, done>>

Disarm ==
    /\ Go("locked", "gone") /\ ~pending
    /\ done' = [done EXCEPT ![cur] = TRUE]
    /\ live' = 0
    /\ UNCHANGED <<captured, hook>>

(* The `finally` of timed_ff, which disarms once more. *)
LeaveTimed ==
    /\ Go("gone", "idle")
    /\ done' = [done EXCEPT ![cur] = TRUE]
    /\ hook' = FALSE
    /\ UNCHANGED <<live, captured>>

(***************************************************************************)
(* Where an exception that strikes at a place leads: the script may catch  *)
(* it, _run_code makes an error reply of it, and from the sentinel on it   *)
(* leaves at once.                                                         *)
(***************************************************************************)
Struck(from) ==
    CASE from = "script" -> {"script", "handler"}
      [] from = "result" -> {"handler"}
      [] from = "handler" -> {"restore"}
      [] from = "return" -> {"disarm"}
      [] from \in {"disarm", "locked"} -> {"gone"}
      [] from = "gone" -> {"idle"}
      [] OTHER -> {}

(* The profile hook raises on a call, and CPython removes it. *)
HookRaises ==
    /\ hook /\ at \in Places \ {"idle", "return"}
    /\ limit[cur] # "before"
    /\ at' \in Struck(at)
    /\ live' = IF at' = "gone" THEN 0 ELSE live
    /\ hook' = FALSE
    /\ cut' = (cut \/ at \in {"disarm", "locked"})
    /\ UNCHANGED <<cur, captured, pending, limit, dog, done>>

(* The injected exception is raised in the main thread. *)
Deliver ==
    /\ pending /\ pending' = FALSE
    /\ at' \in Struck(at)
    /\ live' = IF at' = "gone" THEN 0 ELSE live
    /\ hook' = (hook /\ at # "gone")
    /\ UNCHANGED <<cur, captured, limit, dog, done, cut>>

(***************************************************************************)
(* The watchdog thread.                                                    *)
(***************************************************************************)

(* Mutant: it does not look whether its frame is still on the stack. *)
LookBlind(k) ==
    /\ wd[k] = "waiting" /\ limit[k] = "overdue" /\ ~(at = "locked" /\ cur = k)
    /\ wd' = [wd EXCEPT ![k] = IF done[k] THEN "over" ELSE "injecting"]
    /\ UNCHANGED <<main, limit, attempts>>

(* Takes the lock, looks whether it is disarmed and whether its frame is   *)
(* on the main thread's stack.  A retry comes 2 s after the last attempt,  *)
(* which only a long SDK call of the script delays that much.              *)
Look(k) ==
    /\ wd[k] = "waiting" /\ limit[k] = "overdue"
    /\ ~(at = "locked" /\ cur = k)
    /\ pending => at = "script"
    /\ wd' = [wd EXCEPT ![k] = IF done[k] \/ live # k THEN "over" ELSE "injecting"]
    /\ UNCHANGED <<main, limit, attempts>>

(* Mutant: one injection only. *)
InjectOnce(k) ==
    /\ wd[k] = "injecting"
    /\ pending' = TRUE
    /\ attempts' = [attempts EXCEPT ![k] = @ + 1]
    /\ wd' = [wd EXCEPT ![k] = "over"]
    /\ UNCHANGED <<cur, at, live, captured, hook, limit, done, cut>>

(* Mutant: one attempt too many. *)
InjectOneMore(k) ==
    /\ wd[k] = "injecting"
    /\ pending' = TRUE
    /\ attempts' = [attempts EXCEPT ![k] = @ + 1]
    /\ wd' = [wd EXCEPT ![k] = IF attempts'[k] > MaxAttempts THEN "over" ELSE "waiting"]
    /\ UNCHANGED <<cur, at, live, captured, hook, limit, done, cut>>

(* PyThreadState_SetAsyncExc; the lock is released. *)
Inject(k) ==
    /\ wd[k] = "injecting"
    /\ pending' = TRUE
    /\ attempts' = [attempts EXCEPT ![k] = @ + 1]
    /\ wd' = [wd EXCEPT ![k] = IF attempts'[k] >= MaxAttempts THEN "over" ELSE "waiting"]
    /\ UNCHANGED <<cur, at, live, captured, hook, limit, done, cut>>

(* `while not self._done.wait(0.25)` *)
Retire(k) ==
    /\ wd[k] = "waiting" /\ done[k]
    /\ wd' = [wd EXCEPT ![k] = "over"]
    /\ UNCHANGED <<main, limit, attempts>>

Watchdog(k) == Look(k) \/ Inject(k) \/ Retire(k)

RunCode == MakeReply \/ MakeErrorReply \/ RestoreStreams \/ LeaveScript
Guarded == EnterDisarm \/ TakeLock \/ Disarm \/ LeaveTimed

Next ==
    \/ Start \/ ScriptEnds \/ RunCode \/ Guarded
    \/ HookRaises \/ Deliver
    \/ \E k \in Call : Overdue(k) \/ Watchdog(k)

Spec == Init /\ [][Next]_vars

(* Threads run; a script is not fair to end, nor to make calls. *)
Fairness ==
    /\ WF_vars(RunCode) /\ WF_vars(Guarded) /\ WF_vars(Deliver)
    /\ \A k \in Call : WF_vars(Watchdog(k))

FairSpec == Spec /\ Fairness

(***************************************************************************)
(* Properties.                                                             *)
(***************************************************************************)
TypeOK ==
    /\ cur \in 0..Calls /\ live \in 0..Calls
    /\ at \in Places
    /\ captured \in BOOLEAN /\ pending \in BOOLEAN /\ hook \in BOOLEAN /\ cut \in BOOLEAN
    /\ limit \in [Call -> {"before", "past", "overdue"}]
    /\ wd \in [Call -> {"off", "waiting", "injecting", "over"}]
    /\ attempts \in [Call -> 0..MaxAttempts]
    /\ done \in [Call -> BOOLEAN]

(* No interrupt outlives the script it was meant for, however check,       *)
(* injection, hook and clean-up interleave - unless the profile hook        *)
(* raises in disarm(), which then has not disarmed anything.               *)
InterruptHitsScript == pending /\ ~cut => live # 0

(* However a script ends, the console of IDA is its own again before       *)
(* anything else runs (api_python.py, the `finally` of _run_code).         *)
OutputPutBack == live = 0 => ~captured

(* A script leaves neither an interrupt nor its streams to the next tool.   *)
ScriptLeavesNothing == InterruptHitsScript /\ OutputPutBack

(* A runaway script gives the main thread back once its limit, grace and   *)
(* extra time are over, unless it swallows every attempt.                  *)
RunawayStopped ==
    \A k \in Call :
        (cur = k /\ limit[k] = "overdue")
            ~> (cur # k \/ at = "idle" \/ attempts[k] = MaxAttempts)
=============================================================================
