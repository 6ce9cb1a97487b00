-------------------------- MODULE NativeCancel_proofs -------------------------
(***************************************************************************)
(* For any number of calls, any time limits and any set of script tools: a *)
(* body is interrupted for reasons of its own call only and not before its *)
(* time, and neither its hook nor its deadline is there for the next one.  *)
(***************************************************************************)
EXTENDS NativeCancel, TLAPS

(* A call that has begun is the current one or an earlier one.             *)
Begun ==
    /\ at # "idle" => cur \in Call
    /\ \A k \in Call : k <= cur => deadline[k] \in Nat
    /\ \A k \in Call : k > cur => result[k].why = "none"

(* The hook goes before timed_ff is out of its `finally`, whichever way.   *)
HookInside == hook => at \in {"body", "cleanup"}

(* The exposed deadline is that of the running body; the clean-up forgets  *)
(* it, unless the hook ends the clean-up first.                            *)
ExposedIsOwn ==
    /\ at = "body" => exposed = deadline[cur]
    /\ at = "clear" => exposed = Never
    /\ at = "idle" => exposed = Never \/ result[cur].why \in {"cancelled", "timeout", "user"}

(* The watchdog has seen the cancel of the running script, if any.         *)
SeenIsOwn ==
    /\ \A k \in Call : Cancelled(k) => setAt[k] <= now
    /\ at = "body" /\ seen # Never => Cancelled(cur) /\ setAt[cur] <= seen

(* The flag is the running tool's user's, or that of a timer which is over. *)
FlagHasCause ==
    /\ \A k \in Call : timer[k] = "firing" => now >= deadline[k]
    /\ \A r \in flag :
           /\ r.by = "user" => r.of = cur
           /\ r.by = "timer" => r.of <= cur /\ now >= deadline[r.of]

IInv ==
    /\ TypeOK /\ Begun /\ HookInside /\ ExposedIsOwn
    /\ SeenIsOwn /\ FlagHasCause /\ InterruptJustified

LEMMA InitIInv == Init => IInv
<1> SUFFICES ASSUME Init PROVE IInv
  OBVIOUS
<1> USE NativeCancelAssumption DEF Init, Call, Never, Running
<1>1. TypeOK
  <2>1. \A k \in Call : timer[k] = "none" /\ k > cur
    OBVIOUS
  <2>2. Running \in [why : Whys, time : Nat \union {Never}, fired : Nat \union {Never}, by : SUBSET Raisers]
    BY DEF Whys
  <2>3. result \in [Call -> [why : Whys, time : Nat \union {Never}, fired : Nat \union {Never}, by : SUBSET Raisers]]
    BY <2>2
  <2>4. deadline \in [Call -> Nat \union {Never}] /\ firedAt \in [Call -> Nat \union {Never}]
    OBVIOUS
  <2>5. timer \in [Call -> {"none", "armed", "firing", "over"}] /\ setAt \in [Call -> Nat \union {Never}] /\ seen \in Nat \union {Never}
    OBVIOUS
  <2>6. \A k \in Call : timer[k] = "none" <=> k > cur
    BY <2>1
  <2>7. now \in 0..MaxTime /\ cur \in 0..Calls /\ exposed \in Nat \union {Never}
    OBVIOUS
  <2>8. at \in {"idle", "body", "cleanup", "restored", "clear"} /\ hook \in BOOLEAN /\ flag \subseteq Raisers
    OBVIOUS
  <2> HIDE NativeCancelAssumption DEF Init, Call, Never, Running
  <2>. QED
    BY <2>3, <2>4, <2>5, <2>6, <2>7, <2>8 DEF TypeOK
<1>2. Begun /\ HookInside /\ ExposedIsOwn
  BY DEF Begun, HookInside, ExposedIsOwn
<1>3. InterruptJustified
  BY DEF InterruptJustified, InterruptHasCause, HasCause, GraceRespected
<1>4. SeenIsOwn /\ FlagHasCause
  BY DEF SeenIsOwn, FlagHasCause, Cancelled
<1>. QED
  BY <1>1, <1>2, <1>3, <1>4 DEF IInv

(* A body that ends writes its own result and nobody else's. *)
LEMMA EndedWrites ==
    ASSUME TypeOK, cur \in Call, NEW why \in Whys, Ended(why)
    PROVE  /\ result' \in [Call -> [why : Whys, time : Nat \union {Never}, fired : Nat \union {Never}, by : SUBSET Raisers]]
           /\ result'[cur].why = why
           /\ why # "own" => result'[cur].time = now
           /\ why = "timeout" => result'[cur].fired = firedAt[cur]
           /\ why = "user" => result'[cur].by = flag
           /\ \A k \in Call \ {cur} : result'[k] = result[k]
<1> DEFINE r == [why |-> why, time |-> IF why = "own" THEN Never ELSE now,
                 fired |-> IF why = "timeout" THEN firedAt[cur] ELSE Never,
                 by |-> IF why = "user" THEN flag ELSE {}]
<1>1. r \in [why : Whys, time : Nat \union {Never}, fired : Nat \union {Never}, by : SUBSET Raisers]
  BY NativeCancelAssumption DEF TypeOK
<1>2. result' = [result EXCEPT ![cur] = r]
  BY DEF Ended
<1>3. result'[cur] = r
  BY <1>2 DEF TypeOK
<1>. QED
  BY <1>1, <1>2, <1>3 DEF TypeOK

(* What the profile hook raises. *)
LEMMA ReasonsAre ==
    ASSUME NEW k \in Call, NEW why \in Reasons(k)
    PROVE  /\ why \in {"cancelled", "timeout", "user"} /\ why \in Whys
           /\ why = "cancelled" => Cancelled(k)
           /\ why = "timeout" => Due(k)
  BY DEF Reasons, Whys

(* Every variable keeps its type, and one timer is started per call.       *)
LEMMA TypeStep == TypeOK /\ Begun /\ [Next]_vars => TypeOK'
<1> SUFFICES ASSUME TypeOK, Begun, [Next]_vars PROVE TypeOK'
  OBVIOUS
<1> USE NativeCancelAssumption DEF TypeOK, Begun, Call, Never, Whys
<1>1. CASE Begin
  <2>1. /\ cur' = cur + 1 /\ cur' \in Call /\ cur' \in 0..Calls
        /\ \A k \in Call : k > cur' <=> k > cur /\ k # cur'
    BY <1>1 DEF Begin
  <2>2. /\ timer' = [timer EXCEPT ![cur'] = "armed"]
        /\ deadline' = [deadline EXCEPT ![cur'] = now + Timeout]
        /\ exposed' = deadline'[cur']
    BY <1>1 DEF Begin
  <2>3. /\ timer' \in [Call -> {"none", "armed", "firing", "over"}]
        /\ \A k \in Call : timer'[k] = "none" <=> k > cur'
    BY <2>1, <2>2
  <2>4. deadline' \in [Call -> Nat \union {Never}] /\ exposed' \in Nat \union {Never}
    BY <2>1, <2>2
  <2>. QED
    BY <1>1, <2>1, <2>3, <2>4 DEF Begin
<1>2. CASE HookInterrupts
  <2>1. PICK why \in Reasons(cur) : Ended(why)
    BY <1>2 DEF HookInterrupts
  <2>2. cur \in Call /\ why \in Whys
    BY <1>2, <2>1, ReasonsAre DEF HookInterrupts
  <2>3. result' \in [Call -> [why : Whys, time : Nat \union {Never}, fired : Nat \union {Never}, by : SUBSET Raisers]]
    BY <2>1, <2>2, EndedWrites
  <2>. QED
    BY <1>2, <2>3 DEF HookInterrupts
<1>3. CASE HookSwallowed
  BY <1>3 DEF HookSwallowed
<1>4. CASE WatchdogInterrupts
  BY <1>4 DEF WatchdogInterrupts, Ended
<1>16. CASE WatchdogNotices
  BY <1>16 DEF WatchdogNotices
<1>5. CASE CheckCancelled
  <2>1. PICK why \in {"deadline", "user"} : Ended(why)
    BY <1>5 DEF CheckCancelled
  <2>2. cur \in Call /\ why \in Whys
    BY <1>5 DEF CheckCancelled
  <2>3. result' \in [Call -> [why : Whys, time : Nat \union {Never}, fired : Nat \union {Never}, by : SUBSET Raisers]]
    BY <2>1, <2>2, EndedWrites
  <2>. QED
    BY <1>5, <2>3 DEF CheckCancelled
<1>6. CASE BodyReturns
  BY <1>6 DEF BodyReturns, Ended
<1>7. CASE RestoreProfile
  BY <1>7 DEF RestoreProfile
<1>8. CASE HookInterruptsCleanUp
  <2>1. PICK why \in Reasons(cur) : Ended(why)
    BY <1>8 DEF HookInterruptsCleanUp
  <2>2. cur \in Call /\ why \in Whys
    BY <1>8, <2>1, ReasonsAre DEF HookInterruptsCleanUp
  <2>3. result' \in [Call -> [why : Whys, time : Nat \union {Never}, fired : Nat \union {Never}, by : SUBSET Raisers]]
    BY <2>1, <2>2, EndedWrites
  <2>. QED
    BY <1>8, <2>3 DEF HookInterruptsCleanUp
<1>9. CASE ForgetDeadlineAndTimer
  BY <1>9 DEF ForgetDeadlineAndTimer
<1>10. CASE ClearFlag
  BY <1>10 DEF ClearFlag
<1>11. ASSUME NEW k \in Call, TimerFires(k) \/ SetNativeFlag(k) PROVE TypeOK'
  <2>1. timer[k] # "none" /\ timer'[k] # "none" /\ \A l \in Call \ {k} : timer'[l] = timer[l]
    BY <1>11 DEF TimerFires, SetNativeFlag
  <2>2. timer' \in [Call -> {"none", "armed", "firing", "over"}]
    BY <1>11 DEF TimerFires, SetNativeFlag
  <2>3. \A l \in Call : timer'[l] = "none" <=> l > cur
    BY <2>1
  <2>4. CASE TimerFires(k)
    BY <2>2, <2>3, <2>4 DEF TimerFires
  <2>5. CASE SetNativeFlag(k)
    BY <2>2, <2>3, <2>5 DEF SetNativeFlag, Raisers
  <2>. QED
    BY <1>11, <2>4, <2>5
<1>12. CASE PressCancel
  BY <1>12 DEF PressCancel, Raisers
<1>13. CASE ClientCancels
  BY <1>13 DEF ClientCancels
<1>14. CASE Tick
  BY <1>14 DEF Tick
<1>15. CASE UNCHANGED vars
  BY <1>15 DEF vars
<1>. QED
  BY <1>1, <1>2, <1>3, <1>4, <1>5, <1>6, <1>7, <1>8, <1>9, <1>10, <1>11, <1>12, <1>13, <1>14,
     <1>15, <1>16 DEF Next, CleanUp

(* Only the current call ends.                                             *)
LEMMA BegunStep == TypeOK /\ Begun /\ [Next]_vars => Begun'
<1> SUFFICES ASSUME TypeOK, Begun, [Next]_vars PROVE Begun'
  OBVIOUS
<1> USE NativeCancelAssumption DEF TypeOK, Begun, Call, Never, Whys
<1>1. CASE Begin
  BY <1>1 DEF Begin
<1>2. CASE HookInterrupts
  BY <1>2 DEF HookInterrupts, Ended, Reasons, Due, InGrace
<1>3. CASE HookSwallowed
  BY <1>3 DEF HookSwallowed
<1>4. CASE WatchdogInterrupts
  BY <1>4 DEF WatchdogInterrupts, Ended
<1>16. CASE WatchdogNotices
  BY <1>16 DEF WatchdogNotices
<1>5. CASE CheckCancelled
  BY <1>5 DEF CheckCancelled, Ended
<1>6. CASE BodyReturns
  BY <1>6 DEF BodyReturns, Ended
<1>7. CASE RestoreProfile
  BY <1>7 DEF RestoreProfile
<1>8. CASE HookInterruptsCleanUp
  BY <1>8 DEF HookInterruptsCleanUp, Ended, Reasons, Due, InGrace
<1>9. CASE ForgetDeadlineAndTimer
  BY <1>9 DEF ForgetDeadlineAndTimer
<1>10. CASE ClearFlag
  BY <1>10 DEF ClearFlag
<1>11. ASSUME NEW k \in Call, TimerFires(k) \/ SetNativeFlag(k) PROVE Begun'
  BY <1>11 DEF TimerFires, SetNativeFlag
<1>12. CASE PressCancel
  BY <1>12 DEF PressCancel
<1>13. CASE ClientCancels
  BY <1>13 DEF ClientCancels
<1>14. CASE Tick
  BY <1>14 DEF Tick
<1>15. CASE UNCHANGED vars
  BY <1>15 DEF vars
<1>. QED
  BY <1>1, <1>2, <1>3, <1>4, <1>5, <1>6, <1>7, <1>8, <1>9, <1>10, <1>11, <1>12, <1>13, <1>14,
     <1>15, <1>16 DEF Next, CleanUp

(* Whoever leaves the body or its clean-up leaves without the hook.        *)
LEMMA HookStep == TypeOK /\ Begun /\ HookInside /\ [Next]_vars => HookInside'
<1> SUFFICES ASSUME TypeOK, Begun, HookInside, [Next]_vars PROVE HookInside'
  OBVIOUS
<1> USE NativeCancelAssumption DEF TypeOK, HookInside
<1>1. CASE Begin
  BY <1>1 DEF Begin
<1>2. CASE HookInterrupts
  BY <1>2 DEF HookInterrupts, Ended, Reasons, Due, InGrace
<1>3. CASE HookSwallowed
  BY <1>3 DEF HookSwallowed
<1>4. CASE WatchdogInterrupts
  BY <1>4 DEF WatchdogInterrupts, Ended
<1>16. CASE WatchdogNotices
  BY <1>16 DEF WatchdogNotices
<1>5. CASE CheckCancelled
  BY <1>5 DEF CheckCancelled, Ended
<1>6. CASE BodyReturns
  BY <1>6 DEF BodyReturns, Ended
<1>7. CASE RestoreProfile
  BY <1>7 DEF RestoreProfile
<1>8. CASE HookInterruptsCleanUp
  BY <1>8 DEF HookInterruptsCleanUp, Ended, Reasons, Due, InGrace
<1>9. CASE ForgetDeadlineAndTimer
  BY <1>9 DEF ForgetDeadlineAndTimer
<1>10. CASE ClearFlag
  BY <1>10 DEF ClearFlag
<1>11. ASSUME NEW k \in Call, TimerFires(k) \/ SetNativeFlag(k) PROVE HookInside'
  BY <1>11 DEF TimerFires, SetNativeFlag
<1>12. CASE PressCancel
  BY <1>12 DEF PressCancel
<1>13. CASE ClientCancels
  BY <1>13 DEF ClientCancels
<1>14. CASE Tick
  BY <1>14 DEF Tick
<1>15. CASE UNCHANGED vars
  BY <1>15 DEF vars
<1>. QED
  BY <1>1, <1>2, <1>3, <1>4, <1>5, <1>6, <1>7, <1>8, <1>9, <1>10, <1>11, <1>12, <1>13, <1>14,
     <1>15, <1>16 DEF Next, CleanUp

(* A deadline left exposed is that of a call that was interrupted.         *)
LEMMA ExposedStep == TypeOK /\ Begun /\ ExposedIsOwn /\ [Next]_vars => ExposedIsOwn'
<1> SUFFICES ASSUME TypeOK, Begun, ExposedIsOwn, [Next]_vars PROVE ExposedIsOwn'
  OBVIOUS
<1> USE NativeCancelAssumption DEF TypeOK, Begun, ExposedIsOwn, Call, Never
<1>1. CASE Begin
  BY <1>1 DEF Begin
<1>2. CASE HookInterrupts
  BY <1>2 DEF HookInterrupts, Ended, Reasons, Due, InGrace
<1>3. CASE HookSwallowed
  BY <1>3 DEF HookSwallowed
<1>4. CASE WatchdogInterrupts
  BY <1>4 DEF WatchdogInterrupts, Ended
<1>16. CASE WatchdogNotices
  BY <1>16 DEF WatchdogNotices
<1>5. CASE CheckCancelled
  BY <1>5 DEF CheckCancelled, Ended
<1>6. CASE BodyReturns
  BY <1>6 DEF BodyReturns, Ended
<1>7. CASE RestoreProfile
  BY <1>7 DEF RestoreProfile
<1>8. CASE HookInterruptsCleanUp
  BY <1>8 DEF HookInterruptsCleanUp, Ended, Reasons, Due, InGrace
<1>9. CASE ForgetDeadlineAndTimer
  BY <1>9 DEF ForgetDeadlineAndTimer
<1>10. CASE ClearFlag
  BY <1>10 DEF ClearFlag
<1>11. ASSUME NEW k \in Call, TimerFires(k) \/ SetNativeFlag(k) PROVE ExposedIsOwn'
  BY <1>11 DEF TimerFires, SetNativeFlag
<1>12. CASE PressCancel
  BY <1>12 DEF PressCancel
<1>13. CASE ClientCancels
  BY <1>13 DEF ClientCancels
<1>14. CASE Tick
  BY <1>14 DEF Tick
<1>15. CASE UNCHANGED vars
  BY <1>15 DEF vars
<1>. QED
  BY <1>1, <1>2, <1>3, <1>4, <1>5, <1>6, <1>7, <1>8, <1>9, <1>10, <1>11, <1>12, <1>13, <1>14,
     <1>15, <1>16 DEF Next, CleanUp

(* The watchdog's cancel_seen is set while the script runs, after its cancel. *)
LEMMA SeenStep == TypeOK /\ Begun /\ SeenIsOwn /\ [Next]_vars => SeenIsOwn'
<1> SUFFICES ASSUME TypeOK, Begun, SeenIsOwn, [Next]_vars PROVE SeenIsOwn'
  OBVIOUS
<1> USE NativeCancelAssumption DEF TypeOK, Begun, SeenIsOwn, Cancelled, Call, Never
<1>1. CASE Begin
  BY <1>1 DEF Begin
<1>2. CASE HookInterrupts \/ WatchdogInterrupts \/ CheckCancelled \/ BodyReturns \/ CleanUp
  BY <1>2 DEF HookInterrupts, WatchdogInterrupts, CheckCancelled, BodyReturns, CleanUp,
              RestoreProfile, HookInterruptsCleanUp, ForgetDeadlineAndTimer, ClearFlag
<1>3. CASE HookSwallowed \/ PressCancel \/ Tick
  BY <1>3 DEF HookSwallowed, PressCancel, Tick
<1>4. CASE WatchdogNotices
  BY <1>4 DEF WatchdogNotices
<1>5. ASSUME NEW k \in Call, TimerFires(k) \/ SetNativeFlag(k) PROVE SeenIsOwn'
  BY <1>5 DEF TimerFires, SetNativeFlag
<1>6. CASE ClientCancels
  BY <1>6 DEF ClientCancels
<1>7. CASE UNCHANGED vars
  BY <1>7 DEF vars
<1>. QED
  BY <1>1, <1>2, <1>3, <1>4, <1>5, <1>6, <1>7 DEF Next

(* Who sets the flag: the user of the running tool, or a timer at its end. *)
LEMMA FlagStep == TypeOK /\ Begun /\ FlagHasCause /\ [Next]_vars => FlagHasCause'
<1> SUFFICES ASSUME TypeOK, Begun, FlagHasCause, [Next]_vars PROVE FlagHasCause'
  OBVIOUS
<1> USE NativeCancelAssumption DEF TypeOK, Begun, FlagHasCause, Call, Never
<1>1. CASE Begin
  <2>1. /\ flag' = {} /\ now' = now /\ cur' \in Call
        /\ timer' = [timer EXCEPT ![cur'] = "armed"]
        /\ deadline' = [deadline EXCEPT ![cur'] = now + Timeout]
    BY <1>1 DEF Begin
  <2>2. \A k \in Call : timer'[k] = "firing" => k # cur' /\ timer[k] = "firing"
    BY <2>1
  <2>. QED
    BY <2>1, <2>2
<1>2. CASE HookInterrupts \/ WatchdogInterrupts \/ CheckCancelled \/ BodyReturns
  BY <1>2 DEF HookInterrupts, WatchdogInterrupts, CheckCancelled, BodyReturns
<1>3. CASE RestoreProfile \/ HookInterruptsCleanUp \/ HookSwallowed \/ WatchdogNotices \/ ClientCancels
  BY <1>3 DEF RestoreProfile, HookInterruptsCleanUp, HookSwallowed, WatchdogNotices, ClientCancels
<1>4. CASE ForgetDeadlineAndTimer
  BY <1>4 DEF ForgetDeadlineAndTimer
<1>5. CASE ClearFlag
  BY <1>5 DEF ClearFlag
<1>6. ASSUME NEW k \in Call, TimerFires(k) PROVE FlagHasCause'
  BY <1>6 DEF TimerFires
<1>7. ASSUME NEW k \in Call, SetNativeFlag(k) PROVE FlagHasCause'
  <2>1. k <= cur /\ now >= deadline[k]
    BY <1>7 DEF SetNativeFlag
  <2>. QED
    BY <1>7, <2>1 DEF SetNativeFlag
<1>8. CASE PressCancel
  BY <1>8 DEF PressCancel
<1>9. CASE Tick
  <2>1. /\ flag' = flag /\ cur' = cur /\ timer' = timer /\ deadline' = deadline /\ now' = now + 1
    BY <1>9 DEF Tick
  <2>2. \A k \in Call : timer'[k] = "firing" => now' >= deadline'[k]
    BY <2>1
  <2>3. \A r \in flag : r.of \in Call
    BY DEF Raisers
  <2>4. \A r \in flag : r.by = "timer" => r.of <= cur /\ now' >= deadline[r.of]
    BY <2>1, <2>3
  <2>. QED
    BY <2>1, <2>2, <2>4
<1>10. CASE UNCHANGED vars
  BY <1>10 DEF vars
<1>. QED
  BY <1>1, <1>2, <1>3, <1>4, <1>5, <1>6, <1>7, <1>8, <1>9, <1>10 DEF Next, CleanUp

(* A cause stays: no deadline of a call that has begun and no cancel moves. *)
LEMMA CauseStays ==
    ASSUME TypeOK, Begun, NEW k \in Call, HasCause(k), result'[k] = result[k],
           \A l \in Call : l <= cur => deadline'[l] = deadline[l],
           \A l \in Call : Cancelled(l) => setAt'[l] = setAt[l]
    PROVE  HasCause(k)'
<1> USE DEF Call
<1>1. CASE k > cur
  BY <1>1 DEF HasCause, Begun
<1>2. CASE k <= cur
  <2>1. deadline'[k] = deadline[k] /\ (Cancelled(k) => Cancelled(k)' /\ setAt'[k] = setAt[k])
    BY <1>2 DEF Cancelled
  <2>2. \A r \in result[k].by : r.of \in Call
    BY DEF TypeOK, Raisers
  <2>3. ASSUME result[k].why = "user" PROVE Raised(k, result[k].time)'
    <3>1. PICK r \in result[k].by :
             \/ r.by = "user" /\ r.of = k
             \/ r.by = "timer" /\ r.of <= k /\ result[k].time >= deadline[r.of]
      BY <2>3 DEF HasCause, Raised
    <3>2. r.of <= k => deadline'[r.of] = deadline[r.of]
      BY <1>2, <2>2 DEF TypeOK
    <3>. QED
      BY <3>1, <3>2 DEF Raised
  <2>. QED
    BY <2>1, <2>3 DEF HasCause
<1>. QED
  BY <1>1, <1>2 DEF TypeOK

(* A body that ends has the cause it ends for. *)
LEMMA CauseOfEnd ==
    ASSUME TypeOK, FlagHasCause, NEW k \in Call, k = cur, NEW why \in Whys, Ended(why),
           UNCHANGED <<deadline, setAt>>,
           why = "cancelled" => Cancelled(k),
           why \in {"timeout", "deadline"} => now >= deadline[k],
           why = "hard" =>
               /\ k \in Scripts
               /\ \/ now >= deadline[k] + Grace + Extra
                  \/ Cancelled(k) /\ now >= setAt[k] + Extra,
           why = "user" => flag # {}
    PROVE  HasCause(k)'
<1>1. /\ result'[k].why = why
      /\ why # "own" => result'[k].time = now
      /\ why = "user" => result'[k].by = flag
  BY EndedWrites
<1>2. Cancelled(k)' <=> Cancelled(k)
  BY DEF Cancelled
<1>3. ASSUME why = "user"
      PROVE  \E r \in result'[k].by :
                \/ r.by = "user" /\ r.of = k
                \/ r.by = "timer" /\ r.of <= k /\ result'[k].time >= deadline[r.of]
  <2>1. PICK r \in flag : TRUE
    BY <1>3
  <2>2. r.by \in {"user", "timer"}
    BY DEF TypeOK, Raisers
  <2>. QED
    BY <1>1, <1>3, <2>1, <2>2 DEF FlagHasCause
<1>4. CASE why = "user"
  BY <1>1, <1>3, <1>4 DEF HasCause, Raised
<1>5. CASE why # "user"
  BY <1>1, <1>2, <1>5 DEF HasCause
<1>. QED
  BY <1>4, <1>5

(* No mechanism strikes without its cause. *)
LEMMA CauseStep ==
    TypeOK /\ Begun /\ ExposedIsOwn /\ SeenIsOwn /\ FlagHasCause /\ InterruptHasCause /\ [Next]_vars
        => InterruptHasCause'
<1> SUFFICES ASSUME TypeOK, Begun, ExposedIsOwn, SeenIsOwn, FlagHasCause, InterruptHasCause,
                    [Next]_vars, NEW k \in Call
             PROVE  HasCause(k)'
  BY DEF InterruptHasCause, Call
<1>0. HasCause(k)
  BY DEF InterruptHasCause
<1>1. CASE UNCHANGED <<result, deadline, setAt>>
  BY <1>0, <1>1, CauseStays
<1>2. CASE Begin
  <2>1. \A l \in Call : l <= cur => deadline'[l] = deadline[l]
    BY <1>2, NativeCancelAssumption DEF Begin, TypeOK, Call
  <2>. QED
    BY <1>0, <1>2, <2>1, CauseStays DEF Begin
<1>3. CASE ClientCancels
  <2>1. \A l \in Call : Cancelled(l) => setAt'[l] = setAt[l]
    BY <1>3 DEF ClientCancels, TypeOK
  <2>. QED
    BY <1>0, <1>3, <2>1, CauseStays DEF ClientCancels
<1>4. ASSUME cur \in Call, k # cur, UNCHANGED <<deadline, setAt>>, NEW why \in Whys, Ended(why)
      PROVE  HasCause(k)'
  <2>1. result'[k] = result[k]
    BY <1>4, EndedWrites
  <2>. QED
    BY <1>0, <1>4, <2>1, CauseStays
<1>5. CASE HookInterrupts \/ HookInterruptsCleanUp
  <2>1. PICK why \in Reasons(cur) : Ended(why)
    BY <1>5 DEF HookInterrupts, HookInterruptsCleanUp
  <2>2. /\ cur \in Call /\ why \in Whys \ {"hard", "deadline"}
        /\ why = "cancelled" => Cancelled(cur)
        /\ why = "timeout" => now >= deadline[cur]
        /\ why = "user" => flag # {}
    BY <1>5, <2>1 DEF HookInterrupts, HookInterruptsCleanUp, Begun, Reasons, Due, Whys
  <2>3. UNCHANGED <<deadline, setAt>>
    BY <1>5 DEF HookInterrupts, HookInterruptsCleanUp
  <2>. QED
    BY <1>4, <2>1, <2>2, <2>3, CauseOfEnd
<1>6. CASE WatchdogInterrupts
  <2>1. /\ Ended("hard") /\ cur \in Call /\ cur \in Scripts /\ at = "body" /\ HardDue
        /\ UNCHANGED <<deadline, setAt>>
    BY <1>6 DEF WatchdogInterrupts, Begun
  <2>2. \/ now >= deadline[cur] + Grace + Extra
        \/ Cancelled(cur) /\ now >= setAt[cur] + Extra
    BY <2>1, NativeCancelAssumption DEF HardDue, SeenIsOwn, TypeOK, Cancelled
  <2>. QED
    BY <1>4, <2>1, <2>2, CauseOfEnd DEF Whys
<1>7. CASE CheckCancelled
  <2>1. PICK why \in {"deadline", "user"} :
           /\ Ended(why) /\ at = "body"
           /\ why = "deadline" => now >= exposed
           /\ why = "user" => flag # {}
    BY <1>7 DEF CheckCancelled
  <2>2. cur \in Call /\ why \in Whys /\ (why = "deadline" => now >= deadline[cur])
    BY <2>1 DEF Begun, ExposedIsOwn, Whys
  <2>3. UNCHANGED <<deadline, setAt>>
    BY <1>7 DEF CheckCancelled
  <2>. QED
    BY <1>4, <2>1, <2>2, <2>3, CauseOfEnd
<1>8. CASE BodyReturns
  <2>1. Ended("own") /\ cur \in Call /\ UNCHANGED <<deadline, setAt>>
    BY <1>8 DEF BodyReturns, Begun
  <2>. QED
    BY <1>4, <2>1, CauseOfEnd DEF Whys
<1>9. CASE \/ HookSwallowed \/ WatchdogNotices \/ RestoreProfile \/ ForgetDeadlineAndTimer \/ ClearFlag
           \/ PressCancel \/ Tick \/ UNCHANGED vars
           \/ \E l \in Call : TimerFires(l) \/ SetNativeFlag(l)
  BY <1>1, <1>9 DEF HookSwallowed, WatchdogNotices, RestoreProfile, ForgetDeadlineAndTimer, ClearFlag,
                    PressCancel, Tick, vars, TimerFires, SetNativeFlag
<1>. QED
  BY <1>2, <1>3, <1>5, <1>6, <1>7, <1>8, <1>9 DEF Next, CleanUp

(* A tool is told it timed out by a hook that saw no grace under way. *)
LEMMA GraceStep == TypeOK /\ Begun /\ GraceRespected /\ [Next]_vars => GraceRespected'
<1> SUFFICES ASSUME TypeOK, Begun, GraceRespected, [Next]_vars, NEW k \in Call \ Scripts,
                    result'[k].why = "timeout", result'[k].fired # Never
             PROVE  result'[k].time >= result'[k].fired + Grace
  BY DEF GraceRespected, Call
<1>1. CASE result'[k] = result[k]
  BY <1>1 DEF GraceRespected
<1>2. ASSUME cur \in Call, NEW why \in Whys, Ended(why), why # "timeout"
      PROVE  result'[k] = result[k]
  BY <1>2, EndedWrites
<1>3. CASE HookInterrupts \/ HookInterruptsCleanUp
  <2>1. PICK why \in Reasons(cur) : Ended(why)
    BY <1>3 DEF HookInterrupts, HookInterruptsCleanUp
  <2>2. cur \in Call /\ why \in Whys /\ (why = "timeout" => Due(cur))
    BY <1>3, <2>1, ReasonsAre DEF HookInterrupts, HookInterruptsCleanUp, Begun
  <2>3. CASE k # cur \/ why # "timeout"
    BY <1>1, <2>1, <2>2, <2>3, EndedWrites
  <2>4. CASE k = cur /\ why = "timeout"
    <3>1. result'[k].time = now /\ result'[k].fired = firedAt[k]
      BY <2>1, <2>2, <2>4, EndedWrites
    <3>. QED
      BY <2>2, <2>4, <3>1, NativeCancelAssumption DEF Due, InGrace, TypeOK, Never
  <2>. QED
    BY <2>3, <2>4
<1>4. CASE WatchdogInterrupts \/ CheckCancelled \/ BodyReturns
  <2>1. PICK why \in {"hard", "deadline", "user", "own"} : Ended(why)
    BY <1>4 DEF WatchdogInterrupts, CheckCancelled, BodyReturns
  <2>2. cur \in Call
    BY <1>4 DEF WatchdogInterrupts, CheckCancelled, BodyReturns, Begun
  <2>. QED
    BY <1>1, <1>2, <2>1, <2>2 DEF Whys
<1>5. CASE UNCHANGED result
  BY <1>1, <1>5
<1>6. CASE \/ Begin \/ HookSwallowed \/ WatchdogNotices \/ RestoreProfile \/ ForgetDeadlineAndTimer
           \/ ClearFlag \/ PressCancel \/ ClientCancels \/ Tick \/ UNCHANGED vars
           \/ \E l \in Call : TimerFires(l) \/ SetNativeFlag(l)
  BY <1>5, <1>6 DEF Begin, HookSwallowed, WatchdogNotices, RestoreProfile, ForgetDeadlineAndTimer,
                    ClearFlag, PressCancel, ClientCancels, Tick, vars, TimerFires, SetNativeFlag
<1>. QED
  BY <1>3, <1>4, <1>6 DEF Next, CleanUp

LEMMA IInvStep == IInv /\ [Next]_vars => IInv'
  BY TypeStep, BegunStep, HookStep, ExposedStep, SeenStep, FlagStep, CauseStep, GraceStep
  DEF IInv, InterruptJustified

LEMMA Invariance == Spec => []IInv
  BY InitIInv, IInvStep, PTL DEF Spec

(* Every variable keeps its type; exactly the calls that have begun have a *)
(* native timer.                                                           *)
THEOREM TypeCorrect == Spec => []TypeOK
<1>1. IInv => TypeOK
  BY DEF IInv
<1>. QED
  BY <1>1, Invariance, PTL

(* An interrupt has its cause in the call it ends, and respects its grace. *)
THEOREM InterruptJustifiedAlways == Spec => []InterruptJustified
<1>1. IInv => InterruptJustified
  BY DEF IInv
<1>. QED
  BY <1>1, Invariance, PTL

(* Between two tools there is no hook, and a deadline only when the hook   *)
(* struck in the clean-up.                                                 *)
THEOREM NothingOutlivesToolAlways == Spec => []NothingOutlivesTool
<1>1. IInv => NothingOutlivesTool
  BY DEF IInv, HookInside, ExposedIsOwn, NothingOutlivesTool, HookNeverOutlives, DeadlineIsOwn
<1>. QED
  BY <1>1, Invariance, PTL
=============================================================================
