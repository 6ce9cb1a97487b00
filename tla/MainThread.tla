----------------------------- MODULE MainThread -----------------------------
(***************************************************************************)
(* sync.py, `runned`: what a synchronized tool saves when it enters the    *)
(* IDA main thread and puts back when it leaves - the batch mode, the      *)
(* pre-call batch value, the profile hook, the exposed deadline, the       *)
(* reentrancy guard - and api_debug.py, where dbg_start keeps batch mode   *)
(* on and hands its restoration to a debugger hook that fires later.       *)
(* A tool body may call other tools (scripts do); a call that the guard    *)
(* refuses raises in the calling body, which may catch it and go on.       *)
(* The profile hook may raise at any Python or C call while it is in       *)
(* force, and CPython removes it then: in a body, which may catch it, but   *)
(* also where a nested tool enters or leaves, or in the very `finally` that *)
(* takes it off.  When it does so (a deadline, a cancel) is NativeCancel.   *)
(***************************************************************************)
EXTENDS Naturals, Sequences, SequencesExt

CONSTANTS
    Tools,      \* the @idasync tools
    Starters,   \* those that keep batch mode on: dbg_start
    MaxDepth,   \* bound: how deep tool bodies nest
    None

ASSUME MainThreadAssumption ==
    /\ Starters \subseteq Tools /\ MaxDepth \in Nat
    /\ None \notin Nat

VARIABLES
    frames,     \* the running bodies, innermost last: what each saved, and
                \* where its profile hook was lost, if it was
    entries,    \* length of call_stack
    batch,      \* IDA's batch mode
    pre,        \* _sync_state.pre_call_batch
    deadline,   \* _deadline_state.deadline: the depth of the body it is for
    profile,    \* sys.getprofile(): the depth of the body that set it, or 0
    hook,       \* restore value of the pending _dbg_start_batch_hook
    cut,        \* the profile hook struck in the last clean-up of a `timed_ff`
    nested,     \* the debugger hook was armed by a dbg_start that a tool called
    stray       \* a debugger hook was armed or fired out of place

vars == <<frames, entries, batch, pre, deadline, profile, hook, cut, nested, stray>>

Init ==
    /\ frames = <<>> /\ entries = 0
    /\ batch = 0 /\ pre = None
    /\ deadline = None /\ profile = 0
    /\ hook = None
    /\ cut = FALSE /\ nested = FALSE /\ stray = FALSE

(* dbg_start calls no tool. *)
MayCall == frames # <<>> => Last(frames).tool \notin Starters

(* `runned` and `timed_ff` from the guard to the body of tool t. *)
Push(t) ==
    /\ Len(frames) < MaxDepth /\ MayCall
    /\ frames' = Append(frames, [tool |-> t, batch |-> batch, pre |-> pre, profile |-> profile,
                                 armed |-> FALSE, struck |-> "no"])
    /\ entries' = entries + 1
    /\ batch' = 1
    /\ pre' = batch
    /\ deadline' = Len(frames')
    /\ profile' = Len(frames')
    /\ UNCHANGED <<hook, cut, nested, stray>>

(* Mutant: no guard. *)
EnterUnguarded(t) == Push(t)

Enter(t) == entries = 0 /\ Push(t)

(* The guard of `runned`: it takes the entry off before it raises. *)
RefuseNested ==
    /\ entries > 0 /\ MayCall
    /\ entries' = entries - 1
    /\ UNCHANGED <<frames, batch, pre, deadline, profile, hook, cut, nested, stray>>

(* The innermost body of fs goes on without its hook, which was lost there. *)
Struck(fs, there) ==
    IF fs = <<>> THEN fs
    ELSE [fs EXCEPT ![Len(fs)].struck = IF @ = "no" THEN there ELSE @]

(* The hook raises in the innermost body, which may catch it and go on. *)
HookRaises ==
    /\ frames # <<>> /\ profile # 0
    /\ frames' = Struck(frames, "body")
    /\ profile' = 0
    /\ UNCHANGED <<entries, batch, pre, deadline, hook, cut, nested, stray>>

(* The hook of the calling body raises in the `runned` of a nested tool,    *)
(* which has its entry by then but has not reached its `try`.              *)
EnterStruck ==
    /\ entries = 0 /\ Len(frames) < MaxDepth /\ MayCall
    /\ frames # <<>> /\ profile # 0
    /\ entries' = 1
    /\ \/ UNCHANGED <<batch, pre>>
       \/ batch' = 1 /\ pre' \in {pre, batch}
    /\ frames' = Struck(frames, "runned")
    /\ profile' = 0
    /\ UNCHANGED <<deadline, hook, cut, nested, stray>>

(* A dbg_start that completed has armed its hook, and leaves batch mode on. *)
Completes(completed) == completed /\ Last(frames).tool \in Starters => Last(frames).armed
Restored(completed) ==
    IF completed /\ Last(frames).tool \in Starters THEN batch ELSE Last(frames).batch

EntriesLeft == IF entries > 0 THEN entries - 1 ELSE 0

(* The two `finally` blocks when the innermost body is over. *)
LeaveWith(completed, oldPre, left) ==
    /\ frames # <<>> /\ Completes(completed)
    /\ frames' = Front(frames)
    /\ batch' = Restored(completed)
    /\ pre' = oldPre
    /\ profile' = Last(frames).profile
    /\ deadline' = None
    /\ entries' = left
    /\ cut' = FALSE
    /\ UNCHANGED <<hook, nested, stray>>

(* Mutants: the pre-call value is cleared, no entry is taken off. *)
LeaveForgetsPre(completed) == LeaveWith(completed, None, EntriesLeft)
LeaveNoPop(completed) == LeaveWith(completed, Last(frames).pre, entries)

Leave(completed) == LeaveWith(completed, Last(frames).pre, EntriesLeft)

(***************************************************************************)
(* The hook raises in the `finally` of `timed_ff`, at the latest in the    *)
(* call that takes it off: the hook of the calling body is not put back    *)
(* and the deadline stays.  `runned` gets the exception and cleans up.     *)
(***************************************************************************)
CleanUpStruck ==
    /\ frames # <<>> /\ profile # 0
    /\ frames' = Struck(Front(frames), "body")
    /\ batch' = Last(frames).batch
    /\ pre' = Last(frames).pre
    /\ profile' = 0
    /\ entries' = EntriesLeft
    /\ cut' = TRUE
    /\ UNCHANGED <<deadline, hook, nested, stray>>

(***************************************************************************)
(* `timed_ff` has put the hook of the calling body back, and that one      *)
(* raises in the `finally` of `runned`, before it puts the batch mode back, *)
(* or the pre-call value, or before it takes the entry off.                *)
(***************************************************************************)
LeaveStruck(completed) ==
    /\ frames # <<>> /\ Completes(completed)
    /\ Last(frames).profile # 0
    /\ frames' = Struck(Front(frames), "runned")
    /\ \/ UNCHANGED <<batch, pre, entries>>
       \/ batch' = Restored(completed) /\ UNCHANGED <<pre, entries>>
       \/ /\ batch' = Restored(completed) /\ pre' = Last(frames).pre
          /\ entries' \in {entries, EntriesLeft}
    /\ profile' = 0
    /\ deadline' = None
    /\ cut' = FALSE
    /\ UNCHANGED <<hook, nested, stray>>

(* A tool runs in fs that wants batch mode on: any but a dbg_start that has *)
(* armed its hook.                                                         *)
Inside(fs) == \E i \in DOMAIN fs : fs[i].tool \notin Starters \/ ~fs[i].armed

(***************************************************************************)
(* dbg_start: an earlier hook that is still pending restores at once.      *)
(* Out of place: the earlier one was armed elsewhere, or the batch mode     *)
(* dbg_start found is not its caller's but left on for the earlier one.     *)
(***************************************************************************)
ArmHookFor(value) ==
    /\ frames # <<>>
    /\ Last(frames).tool \in Starters /\ ~Last(frames).armed
    /\ frames' = [frames EXCEPT ![Len(frames)].armed = TRUE]
    /\ batch' = IF hook = None THEN batch ELSE hook
    /\ hook' = value
    /\ nested' = Inside(frames')
    /\ stray' = \/ stray
                \/ hook # None /\ nested # nested'
                \/ Last(frames).batch = 1 /\ ~nested'
    /\ UNCHANGED <<entries, pre, deadline, profile, cut>>

(* Mutant: the hook is given the batch mode of the tool, not of its caller. *)
ArmHookOwnBatch == ArmHookFor(batch)

ArmHook == ArmHookFor(IF pre = None THEN 0 ELSE pre)

(* A debugger event, or the fallback timer, while a body pumps events or   *)
(* no tool runs.  Out of place: in a tool, for a hook armed outside of all  *)
(* tools, or outside, for one armed in a tool that called dbg_start.       *)
HookRestores ==
    /\ hook # None
    /\ batch' = hook
    /\ hook' = None
    /\ stray' = (stray \/ nested # Inside(frames))
    /\ UNCHANGED <<frames, entries, pre, deadline, profile, cut, nested>>

Next ==
    \/ \E t \in Tools : Enter(t)
    \/ RefuseNested
    \/ HookRaises \/ EnterStruck \/ CleanUpStruck
    \/ \E completed \in BOOLEAN : Leave(completed) \/ LeaveStruck(completed)
    \/ ArmHook \/ HookRestores

Spec == Init /\ [][Next]_vars

(***************************************************************************)
(* Properties.                                                             *)
(***************************************************************************)
Value == {None, 0, 1}

Frame == [tool : Tools, batch : {0, 1}, pre : Value, profile : Nat, armed : BOOLEAN,
          struck : {"no", "body", "runned"}]

TypeOK ==
    /\ frames \in Seq(Frame)
    /\ Len(frames) <= MaxDepth
    /\ entries \in 0..1 /\ batch \in {0, 1} /\ pre \in Value /\ hook \in Value
    /\ deadline \in Nat \union {None} /\ profile \in Nat
    /\ cut \in BOOLEAN /\ nested \in BOOLEAN /\ stray \in BOOLEAN

Idle == frames = <<>>

(* However tool bodies nest, are refused and raise, and wherever the hook  *)
(* strikes, the main thread is left as it was found: an empty call stack,  *)
(* no pre-call value, no profile hook, and no deadline unless the hook     *)
(* struck in the clean-up that forgets it (runned and timed_ff, `finally`). *)
CleanAtIdle ==
    Idle => /\ entries = 0 /\ pre = None /\ profile = 0
            /\ deadline # None => cut

(* IDA shows dialogs again once no tool runs and no hook is pending        *)
(* (api_debug.py, module docstring: batch state is always restored), as    *)
(* long as no debugger hook was armed or fired out of place.               *)
BatchBack == Idle /\ hook = None /\ ~stray => batch = 0

(* As long as that holds, no body, of whatever depth, runs with dialogs    *)
(* enabled, which would block the main thread; a dbg_start is apart once it *)
(* has armed its hook.                                                     *)
BatchOnInside == Inside(frames) /\ ~stray => batch = 1

(* get_pre_call_batch tells a body what its own caller had, also after a   *)
(* nested tool left, unless the body's hook struck where a nested tool     *)
(* entered or left.                                                        *)
PreIsCallers == ~Idle /\ Last(frames).struck # "runned" => pre = Last(frames).batch

(* The profile hook in force is that of the innermost body, also after a   *)
(* nested tool left, and none when that body has lost it: never another's. *)
HookIsInnermost ==
    profile = IF Idle THEN 0 ELSE IF Last(frames).struck = "no" THEN Len(frames) ELSE 0

(* Batch mode is on inside tools and back outside them, when tools overlap *)
(* a pending hook, and when scripts call dbg_start, out of place apart.    *)
BatchKept == BatchBack /\ BatchOnInside

(* What a call saved is put back in the order of nesting. *)
SavedInOrder == PreIsCallers /\ HookIsInnermost
=============================================================================
