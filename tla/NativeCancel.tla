---------------------------- MODULE NativeCancel ----------------------------
(***************************************************************************)
(* sync.py, `timed_ff`: how one tool body after another runs on the IDA    *)
(* main thread under a time limit.  Three mechanisms watch a body: a       *)
(* threading.Timer that sets IDA's own cancel flag at the deadline (SDK    *)
(* loops poll it and bail), a profile hook that raises in the body once    *)
(* the call is cancelled or its deadline and grace are over, and the wait  *)
(* box whose Cancel button sets the same flag.  The clean-up after the     *)
(* body restores the profile hook, forgets the deadline, cancels the timer *)
(* and clears the flag; the hook is active until it is restored, and a     *)
(* timer that is already in its callback cannot be cancelled.              *)
(* The watchdog of script tools strikes when the time limit is long over   *)
(* or a cancel has been on its desk for a while; how it strikes is one     *)
(* step here (WatchdogInterrupts) and HardInterrupt's subject.             *)
(***************************************************************************)
EXTENDS Integers

CONSTANTS
    Calls,      \* number of tool calls, run one after another
    Scripts,    \* those of script tools, which can swallow the interrupt
    Timeout,    \* IDA_MCP_TOOL_TIMEOUT_SEC
    Grace,      \* _NATIVE_CANCEL_GRACE_SEC
    Extra,      \* _HARD_INTERRUPT_EXTRA_SEC
    MaxTime     \* bound: the last instant of the clock

ASSUME NativeCancelAssumption ==
    /\ Calls \in Nat /\ MaxTime \in Nat
    /\ Timeout \in Nat \ {0} /\ Grace \in Nat \ {0} /\ Extra \in Nat \ {0}
    /\ Scripts \subseteq 1..Calls

VARIABLES
    now,        \* time.monotonic()
    cur,        \* the call that has the main thread, or had it last
    at,         \* where timed_ff is
    hook,       \* the profile hook is installed
    exposed,    \* _deadline_state.deadline
    flag,       \* IDA's sticky cancel flag: who has set it since it was cleared
    timer,      \* each call's native_timer
    deadline,   \* each call's deadline
    firedAt,    \* each call's cancel_fired_at
    setAt,      \* when each call's cancel Event was set
    seen,       \* the current watchdog's cancel_seen
    result      \* how each body ended: why, when, its cancel_fired_at and the flag then

vars == <<now, cur, at, hook, exposed, flag, timer, deadline, firedAt,
          setAt, seen, result>>

Call == 1..Calls
Never == -1
Running == [why |-> "none", time |-> Never, fired |-> Never, by |-> {}]

Init ==
    /\ now = 0 /\ cur = 0 /\ at = "idle"
    /\ hook = FALSE /\ exposed = Never
    /\ flag = {}
    /\ timer = [k \in Call |-> "none"]
    /\ deadline = [k \in Call |-> Never]
    /\ firedAt = [k \in Call |-> Never]
    /\ setAt = [k \in Call |-> Never]
    /\ seen = Never
    /\ result = [k \in Call |-> Running]

(* Mutant: the native timer is not started. *)
BeginNoTimer ==
    /\ at = "idle" /\ cur < Calls
    /\ now + Timeout + Grace + Extra <= MaxTime
    /\ cur' = cur + 1
    /\ deadline' = [deadline EXCEPT ![cur'] = now + Timeout]
    /\ flag' = {}
    /\ hook' = TRUE
    /\ seen' = Never
    /\ exposed' = deadline'[cur']
    /\ at' = "body"
    /\ UNCHANGED <<now, timer, firedAt, setAt, result>>

(* `timed_ff` up to the body: deadline, cleared flag, timer, hook. *)
Begin ==
    /\ at = "idle" /\ cur < Calls
    /\ now + Timeout + Grace + Extra <= MaxTime
    /\ cur' = cur + 1
    /\ deadline' = [deadline EXCEPT ![cur'] = now + Timeout]
    /\ flag' = {}
    /\ timer' = [timer EXCEPT ![cur'] = "armed"]
    /\ hook' = TRUE
    /\ seen' = Never
    /\ exposed' = deadline'[cur']
    /\ at' = "body"
    /\ UNCHANGED <<now, firedAt, setAt, result>>

(* The client has cancelled call k: its Event is set. *)
Cancelled(k) == setAt[k] # Never

(* The native timer fired less than a grace ago: SDK loops may still bail. *)
InGrace(k) == firedAt[k] # Never /\ now < firedAt[k] + Grace

Due(k) == ~Cancelled(k) /\ ~InGrace(k) /\ now >= deadline[k]

(* Mutant: no timeout once the native cancel has fired. *)
ReasonsNoneAfterFire(k) ==
    IF Cancelled(k) THEN {"cancelled"}
    ELSE IF firedAt[k] # Never THEN {}
    ELSE IF Due(k) THEN {"timeout"} ELSE {}

(* What `profilefunc` raises at a profile event, in the order it checks.   *)
(* The wait box is polled every 300 ms, so that branch may also not be     *)
(* taken.                                                                  *)
Reasons(k) ==
    IF Cancelled(k) THEN {"cancelled"}
    ELSE IF InGrace(k) THEN {}
    ELSE IF Due(k) THEN {"timeout"}
    ELSE IF flag # {} /\ firedAt[k] = Never THEN {"user"}
    ELSE {}

(* What is kept of a body that ends: of one that was interrupted, also when *)
(* and, as its cause needs it, whether the timer had fired and who had set  *)
(* the flag.                                                               *)
Ended(why) ==
    result' = [result EXCEPT ![cur] =
                  [why |-> why,
                   time |-> IF why = "own" THEN Never ELSE now,
                   fired |-> IF why = "timeout" THEN firedAt[cur] ELSE Never,
                   by |-> IF why = "user" THEN flag ELSE {}]]

(* The hook raises in the body; CPython removes a hook that raises. *)
HookInterrupts ==
    /\ at = "body" /\ hook
    /\ \E why \in Reasons(cur) : Ended(why)
    /\ hook' = FALSE
    /\ at' = "cleanup"
    /\ UNCHANGED <<now, cur, exposed, flag, timer, deadline, firedAt,
                   setAt, seen>>

(* A bare `except:` of a script swallows it; the hook is gone all the same. *)
HookSwallowed ==
    /\ at = "body" /\ hook /\ cur \in Scripts
    /\ Reasons(cur) # {}
    /\ hook' = FALSE
    /\ UNCHANGED <<now, cur, at, exposed, flag, timer, deadline, firedAt,
                   setAt, seen, result>>

(* The watchdog of script tools, at a poll: it notes when it first saw the  *)
(* cancel.                                                                 *)
WatchdogNotices ==
    /\ at = "body" /\ cur \in Scripts
    /\ Cancelled(cur) /\ seen = Never
    /\ seen' = now
    /\ UNCHANGED <<now, cur, at, hook, exposed, flag, timer, deadline, firedAt,
                   setAt, result>>

(* Mutant: a cancel is due at once. *)
HardDueAtOnce ==
    \/ now >= deadline[cur] + Grace + Extra
    \/ seen # Never

(* `_due_at`: well after the deadline, or well after a cancel was noticed. *)
HardDue ==
    \/ now >= deadline[cur] + Grace + Extra
    \/ seen # Never /\ now >= seen + Extra

(* The ToolInterrupt it injects carries the default reason, "timeout",     *)
(* whichever of the two it was.                                            *)
WatchdogInterrupts ==
    /\ at = "body" /\ cur \in Scripts
    /\ HardDue
    /\ Ended("hard")
    /\ at' = "cleanup"
    /\ UNCHANGED <<now, cur, hook, exposed, flag, timer, deadline, firedAt,
                   setAt, seen>>

(* The body polls: check_cancelled looks at the exposed deadline and at the *)
(* flag, an SDK loop at the flag alone.  The cancel Event it asks for first *)
(* is that of the main thread, which never has one.                         *)
CheckCancelled ==
    /\ at = "body"
    /\ \/ exposed # Never /\ now >= exposed /\ Ended("deadline")
       \/ flag # {} /\ Ended("user")
    /\ at' = "cleanup"
    /\ UNCHANGED <<now, cur, hook, exposed, flag, timer, deadline, firedAt,
                   setAt, seen>>

BodyReturns ==
    /\ at = "body"
    /\ Ended("own")
    /\ at' = "cleanup"
    /\ UNCHANGED <<now, cur, hook, exposed, flag, timer, deadline, firedAt,
                   setAt, seen>>

(***************************************************************************)
(* The `finally` of `timed_ff`.  Its first call, sys.setprofile, is itself *)
(* a profile event for the hook it is about to remove.                     *)
(***************************************************************************)
RestoreProfile ==
    /\ at = "cleanup"
    /\ ~hook \/ Reasons(cur) \subseteq {"user"}
    /\ hook' = FALSE
    /\ at' = "restored"
    /\ UNCHANGED <<now, cur, exposed, flag, timer, deadline, firedAt,
                   setAt, seen, result>>

(* Mutant: a hook that raised stays installed. *)
HookInterruptsCleanUpKept ==
    /\ at = "cleanup" /\ hook
    /\ \E why \in Reasons(cur) : Ended(why)
    /\ at' = "idle"
    /\ UNCHANGED <<now, cur, hook, exposed, flag, timer, deadline, firedAt,
                   setAt, seen>>

(* The hook raises there: the rest of the `finally` is not executed. *)
HookInterruptsCleanUp ==
    /\ at = "cleanup" /\ hook
    /\ \E why \in Reasons(cur) : Ended(why)
    /\ hook' = FALSE
    /\ at' = "idle"
    /\ UNCHANGED <<now, cur, exposed, flag, timer, deadline, firedAt,
                   setAt, seen>>

ForgetDeadlineAndTimer ==
    /\ at = "restored"
    /\ exposed' = Never
    /\ timer' = IF timer[cur] = "armed" THEN [timer EXCEPT ![cur] = "over"] ELSE timer
    /\ at' = "clear"
    /\ UNCHANGED <<now, cur, hook, flag, deadline, firedAt, setAt, seen, result>>

ClearFlag ==
    /\ at = "clear"
    /\ flag' = {}
    /\ at' = "idle"
    /\ UNCHANGED <<now, cur, hook, exposed, timer, deadline, firedAt,
                   setAt, seen, result>>

(***************************************************************************)
(* The timer threads (`_fire_native_cancel`), the user and the client.     *)
(***************************************************************************)
TimerFires(k) ==
    /\ timer[k] = "armed" /\ now >= deadline[k]
    /\ now + Grace <= MaxTime      \* bound: the clock reaches the end of the grace
    /\ timer' = [timer EXCEPT ![k] = "firing"]
    /\ firedAt' = [firedAt EXCEPT ![k] = now]
    /\ UNCHANGED <<now, cur, at, hook, exposed, flag, deadline, setAt, seen, result>>

SetNativeFlag(k) ==
    /\ timer[k] = "firing"
    /\ timer' = [timer EXCEPT ![k] = "over"]
    /\ flag' = flag \union {[by |-> "timer", of |-> k]}
    /\ UNCHANGED <<now, cur, at, hook, exposed, deadline, firedAt, setAt, seen, result>>

(* A press or a cancel after the hook is gone changes nothing any more. *)
PressCancel ==
    /\ at \in {"body", "cleanup"}
    /\ flag' = flag \union {[by |-> "user", of |-> cur]}
    /\ UNCHANGED <<now, cur, at, hook, exposed, timer, deadline, firedAt, setAt, seen, result>>

ClientCancels ==
    /\ at \in {"body", "cleanup"} /\ ~Cancelled(cur)
    /\ setAt' = [setAt EXCEPT ![cur] = now]
    /\ UNCHANGED <<now, cur, at, hook, exposed, flag, timer, deadline,
                   firedAt, seen, result>>

Tick ==
    /\ now < MaxTime
    /\ now' = now + 1
    /\ UNCHANGED <<cur, at, hook, exposed, flag, timer, deadline, firedAt,
                   setAt, seen, result>>

CleanUp == RestoreProfile \/ HookInterruptsCleanUp \/ ForgetDeadlineAndTimer \/ ClearFlag

Next ==
    \/ Begin
    \/ HookInterrupts \/ HookSwallowed \/ WatchdogNotices \/ WatchdogInterrupts
    \/ CheckCancelled \/ BodyReturns
    \/ CleanUp
    \/ \E k \in Call : TimerFires(k) \/ SetNativeFlag(k)
    \/ PressCancel \/ ClientCancels \/ Tick

Spec == Init /\ [][Next]_vars

(* A body that makes Python calls keeps giving the hook its chance, the    *)
(* watchdog thread runs, and the main thread executes its clean-up.        *)
Fairness ==
    /\ WF_vars(HookInterrupts) /\ WF_vars(CleanUp)
    /\ WF_vars(WatchdogInterrupts) /\ WF_vars(Tick)

FairSpec == Spec /\ Fairness

(***************************************************************************)
(* Properties.                                                             *)
(***************************************************************************)
Whys == {"none", "own", "cancelled", "timeout", "deadline", "user", "hard"}
Raisers == [by : {"user", "timer"}, of : Call]

TypeOK ==
    /\ now \in 0..MaxTime /\ cur \in 0..Calls
    /\ at \in {"idle", "body", "cleanup", "restored", "clear"}
    /\ hook \in BOOLEAN /\ flag \subseteq Raisers
    /\ exposed \in Nat \union {Never}
    /\ timer \in [Call -> {"none", "armed", "firing", "over"}]
    /\ \A k \in Call : timer[k] = "none" <=> k > cur
    /\ deadline \in [Call -> Nat \union {Never}]
    /\ firedAt \in [Call -> Nat \union {Never}]
    /\ setAt \in [Call -> Nat \union {Never}] /\ seen \in Nat \union {Never}
    /\ result \in [Call -> [why : Whys, time : Nat \union {Never},
                         fired : Nat \union {Never}, by : SUBSET Raisers]]

(* Who set the flag that ends a body as "cancelled by the user": the user,  *)
(* while this tool ran, or a native timer that was over, this tool's own or *)
(* one that an earlier tool could not cancel any more.                     *)
Raised(k, time) ==
    \E r \in result[k].by :
        \/ r.by = "user" /\ r.of = k
        \/ r.by = "timer" /\ r.of <= k /\ time >= deadline[r.of]

(* The cause call k was ended for: as cancelled, its own Event is set; as   *)
(* timed out, its own deadline is over; by the watchdog, it is a script     *)
(* whose own limit is long over or that was cancelled a whole Extra ago     *)
(* (it is told "timed out" then too); as cancelled by the user, Raised.     *)
HasCause(k) ==
    LET r == result[k] IN
    /\ r.why = "cancelled" => Cancelled(k)
    /\ r.why \in {"timeout", "deadline"} => r.time >= deadline[k]
    /\ r.why = "hard" =>
           /\ k \in Scripts
           /\ \/ r.time >= deadline[k] + Grace + Extra
              \/ Cancelled(k) /\ r.time >= setAt[k] + Extra
    /\ r.why = "user" => Raised(k, r.time)

(* A body is interrupted for a cause, whatever earlier calls left behind in *)
(* the thread-local and in their timers; the late timer of an earlier tool  *)
(* is the one cause that is not its own.                                    *)
InterruptHasCause == \A k \in Call : HasCause(k)

(* The profile hook never outlives the tool it was installed for, not even *)
(* when it strikes in the clean-up that removes it.                        *)
HookNeverOutlives == at = "idle" => ~hook

(* Every tool gives the main thread back. *)
EveryCallEnds == (at # "idle") ~> (at = "idle")

(* A grace that has begun is respected: once the native cancel fired, a    *)
(* tool is told it timed out only a whole grace after it (sync.py,         *)
(* comment above _NATIVE_CANCEL_GRACE_SEC).  Apart are script tools, whose *)
(* watchdog counts from the deadline, and a timer that had not fired yet.  *)
GraceRespected ==
    \A k \in Call \ Scripts :
        result[k].why = "timeout" /\ result[k].fired # Never =>
            result[k].time >= result[k].fired + Grace

(* A body polls its own deadline, and between tools none is exposed,       *)
(* unless the hook struck in the clean-up of the last one.                 *)
DeadlineIsOwn ==
    /\ at = "body" => exposed = deadline[cur]
    /\ at = "idle" /\ exposed # Never => result[cur].why \in {"cancelled", "timeout", "user"}

(* A tool is interrupted for a cause of its own, a late timer of an earlier *)
(* tool apart, and not before its time.                                    *)
InterruptJustified == InterruptHasCause /\ GraceRespected

(* Neither the hook nor the deadline of a tool is there for the next one.  *)
NothingOutlivesTool == HookNeverOutlives /\ DeadlineIsOwn
=============================================================================
