------------------------ MODULE HardInterrupt_proofs ------------------------
(***************************************************************************)
(* For any number of script tools and of attempts: the watchdog's exception *)
(* strikes the script it was meant for - unless the profile hook raised in  *)
(* disarm() - and no script leaves its streams behind.                      *)
(***************************************************************************)
EXTENDS HardInterrupt, TLAPS

Inside == Places \ {"idle", "gone"}

(* The sentinel frame is on the stack exactly while the script, its reply   *)
(* and its disarm() run, and the streams are _run_code's only up to there. *)
Stack ==
    /\ at \in Inside => live = cur /\ cur # 0
    /\ at \notin Inside => live = 0
    /\ captured => at \in {"script", "result", "handler", "restore"}

(* A watchdog that may still inject has an attempt left, and none has *)
(* started before its script.                                         *)
Attempts ==
    \A k \in Call :
        /\ wd[k] # "over" => attempts[k] < MaxAttempts
        /\ k > cur => wd[k] = "off"

(* A watchdog about to inject still has its script before it, which cannot *)
(* take the lock meanwhile; an earlier exception is still the script's, or  *)
(* that of its error reply if the hook came first.                         *)
Aim ==
    ~ cut =>
        /\ pending => live # 0
        /\ \A k \in Call : wd[k] = "injecting" =>
              /\ live = k /\ at # "locked"
              /\ pending => at = "script" \/ (at = "handler" /\ ~ hook)

IInv == TypeOK /\ Stack /\ Attempts /\ Aim

LEMMA InitIInv == Init => IInv
<1> SUFFICES ASSUME Init PROVE IInv
  OBVIOUS
<1> USE HardInterruptAssumption DEF Init
<1>1. TypeOK
  <2>1. attempts \in [Call -> 0..MaxAttempts]
    <3>1. 0 \in 0..MaxAttempts
      OBVIOUS
    <3>. QED
      BY <3>1
  <2>2. cur \in 0..Calls /\ live \in 0..Calls
    OBVIOUS
  <2>. QED
    BY <2>1, <2>2 DEF TypeOK, Places
<1>2. Stack /\ Attempts /\ Aim
  BY DEF Stack, Attempts, Aim, Inside, Places, Call
<1>. QED
  BY <1>1, <1>2 DEF IInv

(* Where an exception can lead. *)
LEMMA StruckFacts ==
  ASSUME NEW from \in Places, NEW to \in Struck(from)
  PROVE  /\ to \in Places
         /\ to = "gone" => from \in {"disarm", "locked"}
         /\ from \in {"disarm", "locked"} => to = "gone"
         /\ to = "idle" => from = "gone"
         /\ from = "gone" => to = "idle"
         /\ to # "locked" /\ from \notin {"idle", "restore", "awaiting"}
         /\ to \in {"result", "script"} => from = "script"
         /\ from \in {"script", "result"} => to \in {"script", "handler"}
         /\ from = "handler" => to = "restore"
         /\ from = "return" => to = "disarm"
  BY DEF Struck, Places

(* A script starts with a watchdog that has all its attempts. *)
LEMMA StartKeepsAttempts ==
  ASSUME TypeOK, Attempts, Start
  PROVE  Attempts'
<1>1. cur \in Nat /\ cur < Calls /\ cur' = cur + 1 /\ cur' \in Call
  BY HardInterruptAssumption DEF TypeOK, Start, Call
<1>2. wd' = [wd EXCEPT ![cur'] = "waiting"] /\ attempts' = attempts /\ DOMAIN wd = Call
  BY DEF TypeOK, Start
<1>3. cur' > cur /\ ~ (cur' > cur')
  BY <1>1
<1>4. wd[cur'] = "off"
  BY <1>1, <1>3 DEF Attempts
<1>5. attempts[cur'] < MaxAttempts
  BY <1>1, <1>4 DEF Attempts
<1> SUFFICES ASSUME NEW k \in Call
             PROVE  /\ wd'[k] # "over" => attempts'[k] < MaxAttempts
                    /\ k > cur' => wd'[k] = "off"
  BY DEF Attempts
<1>6. CASE k = cur'
  BY <1>6, <1>2, <1>3, <1>5
<1>7. CASE k # cur'
  <2>1. wd'[k] = wd[k]
    BY <1>2, <1>7
  <2>2. k > cur' => k > cur
    BY <1>1, HardInterruptAssumption DEF Call
  <2>. QED
    BY <1>2, <2>1, <2>2 DEF Attempts
<1>. QED
  BY <1>6, <1>7

(* An injection uses up one attempt. *)
LEMMA InjectKeeps ==
  ASSUME IInv, NEW k \in Call, Inject(k)
  PROVE  IInv'
<1>1. TypeOK /\ Stack /\ Attempts /\ Aim
  BY DEF IInv
<1>2. attempts[k] \in 0..MaxAttempts /\ attempts \in [Call -> 0..MaxAttempts]
  BY <1>1 DEF TypeOK
<1>3. wd[k] = "injecting" /\ wd \in [Call -> {"off", "waiting", "injecting", "over"}]
  BY <1>1 DEF TypeOK, Inject
<1>4. attempts[k] < MaxAttempts
  BY <1>1, <1>3 DEF Attempts
<1>5. attempts[k] + 1 \in 0..MaxAttempts
  BY <1>2, <1>4, HardInterruptAssumption
<1>6. attempts' = [attempts EXCEPT ![k] = attempts[k] + 1] /\ attempts'[k] = attempts[k] + 1
  BY <1>2 DEF Inject
<1>7. PICK w : /\ w = "over" \/ w = "waiting"
               /\ wd' = [wd EXCEPT ![k] = w]
               /\ w # "over" => attempts[k] + 1 < MaxAttempts
  <2>1. CASE attempts'[k] >= MaxAttempts
    BY <2>1, <1>6 DEF Inject
  <2>2. CASE ~ (attempts'[k] >= MaxAttempts)
    <3>1. attempts[k] + 1 < MaxAttempts
      BY <2>2, <1>5, <1>6, HardInterruptAssumption
    <3>. QED
      BY <2>2, <3>1 DEF Inject
  <2>. QED
    BY <2>1, <2>2
<1>8. TypeOK'
  <2>1. attempts' \in [Call -> 0..MaxAttempts]
    BY <1>2, <1>5, <1>6
  <2>2. wd' \in [Call -> {"off", "waiting", "injecting", "over"}]
    BY <1>3, <1>7
  <2>. QED
    BY <1>1, <2>1, <2>2 DEF TypeOK, Inject
<1>9. Stack'
  BY <1>1 DEF Stack, Inject
<1>10. Attempts'
  <2> SUFFICES ASSUME NEW j \in Call
               PROVE  /\ wd'[j] # "over" => attempts'[j] < MaxAttempts
                      /\ j > cur' => wd'[j] = "off"
    BY DEF Attempts
  <2>1. CASE j = k
    <3>1. wd'[k] = w /\ k <= cur /\ cur' = cur
      BY <1>1, <1>3, <1>7, HardInterruptAssumption DEF Attempts, Inject, TypeOK, Call
    <3>. QED
      BY <2>1, <3>1, <1>1, <1>6, <1>7, HardInterruptAssumption DEF TypeOK, Call
  <2>2. CASE j # k
    BY <2>2, <1>1, <1>2, <1>3, <1>6, <1>7 DEF Attempts, Inject
  <2>. QED
    BY <2>1, <2>2
<1>11. Aim'
  <2>1. ~ cut => live = k /\ at # "locked"
    BY <1>1, <1>3 DEF Aim
  <2>2. k # 0
    BY HardInterruptAssumption DEF Call
  <2>3. \A j \in Call : wd'[j] = "injecting" => j # k /\ wd[j] = "injecting"
    BY <1>3, <1>7
  <2>4. cut' = cut /\ live' = live /\ at' = at /\ hook' = hook
    BY DEF Inject
  <2>5. ~ cut => \A j \in Call : wd'[j] # "injecting"
    BY <1>1, <2>1, <2>3 DEF Aim
  <2>. QED
    BY <2>1, <2>2, <2>4, <2>5 DEF Aim
<1>. QED
  BY <1>8, <1>9, <1>10, <1>11 DEF IInv

LEMMA NextIInv == IInv /\ [Next]_vars => IInv'
<1> SUFFICES ASSUME IInv, [Next]_vars PROVE IInv'
  OBVIOUS
<1>a. 0 \in 0..Calls /\ live \in 0..Calls
  BY HardInterruptAssumption DEF IInv, TypeOK
<1>b. \A k \in Call : k # 0
  BY HardInterruptAssumption DEF Call
<1> USE HardInterruptAssumption DEF IInv, TypeOK, Stack, Attempts, Aim, Inside, Places, main, dog
<1>1. CASE Start
  <2>5. cur' \in Call /\ cur' \in 0..Calls /\ cur' # 0
    BY <1>1 DEF Start, Call
  <2>1. TypeOK'
    BY <1>1, <2>5 DEF Start
  <2>2. Stack'
    BY <1>1, <2>5 DEF Start
  <2>3. Attempts'
    BY <1>1, StartKeepsAttempts
  <2>4. Aim'
    <3>1. at = "idle" /\ live = 0
      BY <1>1 DEF Start
    <3>2. ~ cut => ~ pending /\ \A k \in Call : wd[k] # "injecting"
      BY <1>b, <3>1
    <3>3. \A k \in Call : wd'[k] = "injecting" => wd[k] = "injecting"
      BY <1>1 DEF Start
    <3>. QED
      BY <1>1, <3>2, <3>3 DEF Start
  <2>. QED
    BY <2>1, <2>2, <2>3, <2>4
<1>2. CASE ScriptEnds
  BY <1>2 DEF ScriptEnds, Go
<1>3. CASE MakeReply \/ MakeErrorReply
  <2>1. TypeOK'
    BY <1>3 DEF MakeReply, MakeErrorReply, Go
  <2>2. Stack'
    BY <1>3 DEF MakeReply, MakeErrorReply, Go
  <2>3. Attempts'
    BY <1>3 DEF MakeReply, MakeErrorReply, Go
  <2>4. Aim'
    BY <1>3 DEF MakeReply, MakeErrorReply, Go
  <2>. QED
    BY <2>1, <2>2, <2>3, <2>4
<1>4. CASE RestoreStreams
  BY <1>4 DEF RestoreStreams, Go
<1>5. CASE LeaveScript \/ EnterDisarm
  <2>1. CASE LeaveScript
    BY <2>1 DEF LeaveScript, Go
  <2>2. CASE EnterDisarm
    BY <2>2 DEF EnterDisarm, Go
  <2>. QED
    BY <1>5, <2>1, <2>2
<1>6. CASE TakeLock
  BY <1>6 DEF TakeLock, Go
<1>7. CASE Disarm
  <2>5. done' \in [Call -> BOOLEAN]
    BY <1>7 DEF Disarm
  <2>6. live' \in 0..Calls /\ at' \in Places
    BY <1>7 DEF Disarm, Go
  <2>7. UNCHANGED <<cur, captured, hook, pending, limit, dog, cut>>
    BY <1>7 DEF Disarm, Go
  <2>1. TypeOK'
    BY <2>5, <2>6, <2>7
  <2>2. Stack'
    BY <1>7 DEF Disarm, Go
  <2>3. Attempts'
    BY <1>7 DEF Disarm, Go
  <2>4. Aim'
    BY <1>7 DEF Disarm, Go
  <2>. QED
    BY <2>1, <2>2, <2>3, <2>4
<1>8. CASE LeaveTimed
  BY <1>8 DEF LeaveTimed, Go
<1>9. CASE HookRaises
  <2>5. at \in Places /\ at' \in Struck(at)
    BY <1>9 DEF HookRaises
  <2>6. at' \in Places
    BY <2>5, StruckFacts
  <2>7. /\ live' \in 0..Calls
        /\ hook' \in BOOLEAN /\ cut' \in BOOLEAN /\ pending' \in BOOLEAN
    <3>1. live' = 0 \/ live' = live
      BY <1>9 DEF HookRaises
    <3>2. hook' \in BOOLEAN
      BY <1>9 DEF HookRaises
    <3>3. cut' \in BOOLEAN
      BY <1>9 DEF HookRaises
    <3>4. pending' \in BOOLEAN
      BY <1>9 DEF HookRaises
    <3>. QED
      BY <3>1, <1>a, <3>2, <3>3, <3>4
  <2>8. UNCHANGED <<cur, captured, limit, dog, done>>
    BY <1>9 DEF HookRaises
  <2>1. TypeOK'
    BY <2>6, <2>7, <2>8
  <2>2. Stack'
    BY <1>9, <2>5, <2>6, StruckFacts DEF HookRaises
  <2>3. Attempts'
    BY <1>9, <2>5, <2>6, StruckFacts DEF HookRaises
  <2>4. Aim'
    BY <1>9, <2>5, <2>6, StruckFacts DEF HookRaises
  <2>. QED
    BY <2>1, <2>2, <2>3, <2>4
<1>10. CASE Deliver
  <2>5. at \in Places /\ at' \in Struck(at)
    BY <1>10 DEF Deliver
  <2>6. at' \in Places
    BY <2>5, StruckFacts
  <2>7. /\ live' \in 0..Calls
        /\ hook' \in BOOLEAN /\ cut' \in BOOLEAN /\ pending' \in BOOLEAN
    <3>1. live' = 0 \/ live' = live
      BY <1>10 DEF Deliver
    <3>2. hook' \in BOOLEAN
      BY <1>10 DEF Deliver
    <3>3. cut' \in BOOLEAN
      BY <1>10 DEF Deliver
    <3>4. pending' \in BOOLEAN
      BY <1>10 DEF Deliver
    <3>. QED
      BY <3>1, <1>a, <3>2, <3>3, <3>4
  <2>8. UNCHANGED <<cur, captured, limit, dog, done>>
    BY <1>10 DEF Deliver
  <2>1. TypeOK'
    BY <2>6, <2>7, <2>8
  <2>2. Stack'
    BY <1>10, <2>5, <2>6, StruckFacts DEF Deliver
  <2>3. Attempts'
    BY <1>10, <2>5, <2>6, StruckFacts DEF Deliver
  <2>4. Aim'
    BY <1>10, <2>5, <2>6, StruckFacts DEF Deliver
  <2>. QED
    BY <2>1, <2>2, <2>3, <2>4
<1>11. ASSUME NEW k \in Call, Overdue(k) PROVE IInv'
  BY <1>11 DEF Overdue
<1>12. ASSUME NEW k \in Call, Look(k) PROVE IInv'
  BY <1>12 DEF Look
<1>13. ASSUME NEW k \in Call, Inject(k) PROVE IInv'
  BY <1>13, InjectKeeps
<1>14. ASSUME NEW k \in Call, Retire(k) PROVE IInv'
  BY <1>14 DEF Retire
<1>15. CASE UNCHANGED vars
  BY <1>15 DEF vars
<1>. QED
  BY <1>1, <1>2, <1>3, <1>4, <1>5, <1>6, <1>7, <1>8, <1>9, <1>10, <1>11, <1>12, <1>13, <1>14, <1>15
  DEF Next, RunCode, Guarded, Watchdog

LEMMA Invariant == Spec => []IInv
  BY InitIInv, NextIInv, PTL DEF Spec

(* Every variable keeps its type; no watchdog injects too often. *)
THEOREM TypeCorrect == Spec => []TypeOK
<1>1. IInv => TypeOK
  BY DEF IInv
<1>. QED
  BY Invariant, <1>1, PTL

(* No interrupt and no stream of a script is there for the next tool        *)
(* (_HardInterruptWatchdog, _guarded_body and the `finally` of _run_code).  *)
THEOREM ScriptLeavesNothingAlways == Spec => []ScriptLeavesNothing
<1>1. IInv => InterruptHitsScript
  BY DEF IInv, Aim, InterruptHitsScript
<1>2. IInv => OutputPutBack
  BY HardInterruptAssumption DEF IInv, TypeOK, Stack, Inside, Places, OutputPutBack
<1>. QED
  BY Invariant, <1>1, <1>2, PTL DEF ScriptLeavesNothing
=============================================================================
