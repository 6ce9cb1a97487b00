-------------------------- MODULE ToolCalls_proofs --------------------------
(***************************************************************************)
(* Proofs about ToolCalls (and Admission), for any workers, ids, requests  *)
(* and bounds.                                                             *)
(***************************************************************************)
EXTENDS ToolCalls, FiniteSetTheorems, TLAPS

(* tools/list shows a registered tool exactly when tools/call under the    *)
(* same flags admits it.                                                   *)
THEOREM ListedIffAdmitted ==
    ASSUME NEW f \in Flags, NEW t \in Registered
    PROVE  t \in Listed(f) <=> Verdict(f, t) = "admitted"
  <1>1. t \in Listed(f) <=> /\ ~RefusedUnsafe(f, t)
                           /\ ~RefusedGroup(f, t)
                           /\ ~RefusedProfile(f, t)
    BY DEF Listed, RefusedUnsafe, RefusedGroup, RefusedProfile
  <1>2. Verdict(f, t) = "admitted" <=> /\ ~RefusedUnsafe(f, t)
                                      /\ ~RefusedGroup(f, t)
                                      /\ ~RefusedProfile(f, t)
    <2>1. CASE RefusedUnsafe(f, t)
      BY <2>1 DEF Verdict
    <2>2. CASE ~RefusedUnsafe(f, t) /\ RefusedGroup(f, t)
      BY <2>2 DEF Verdict
    <2>3. CASE ~RefusedUnsafe(f, t) /\ ~RefusedGroup(f, t) /\ RefusedProfile(f, t)
      BY <2>3 DEF Verdict
    <2>4. CASE ~RefusedUnsafe(f, t) /\ ~RefusedGroup(f, t) /\ ~RefusedProfile(f, t)
      BY <2>4 DEF Verdict
    <2> QED BY <2>1, <2>2, <2>3, <2>4
  <1> QED BY <1>1, <1>2

(* Sending the token a refusal asks for is progress: with the server's own *)
(* token no refusal asks for a token again.                                *)
THEOREM TokenHintHelps ==
    ASSUME NEW f \in Flags, NEW t \in Names
    PROVE  Verdict([f EXCEPT !.token = AuthToken], t) # "needs token"
  <1>1. AuthOk([f EXCEPT !.token = AuthToken])
    BY DEF AuthOk, Flags
  <1>2. ASSUME NEW g, AuthOk(g)
        PROVE  Verdict(g, t) # "needs token"
    <2>1. CASE RefusedUnsafe(g, t)
      BY <1>2, <2>1 DEF Verdict
    <2>2. CASE ~RefusedUnsafe(g, t) /\ RefusedGroup(g, t)
      BY <1>2, <2>2 DEF Verdict
    <2>3. CASE ~RefusedUnsafe(g, t) /\ ~RefusedGroup(g, t) /\ RefusedProfile(g, t)
      BY <2>3 DEF Verdict
    <2>4. CASE ~RefusedUnsafe(g, t) /\ ~RefusedGroup(g, t) /\ ~RefusedProfile(g, t)
      BY <2>4 DEF Verdict
    <2> QED BY <2>1, <2>2, <2>3, <2>4
  <1> QED BY <1>1, <1>2

-----------------------------------------------------------------------------
(***************************************************************************)
(* The inductive invariant.  The gate's permit is out exactly while a call *)
(* holds it: one direction gives mutual exclusion, and mutual exclusion is *)
(* what keeps the table's entries from overwriting each other.             *)
(***************************************************************************)
HoldersTakePermit ==
    GateOn => \A w \in Workers : Holds(w) => gate = 0

(* Only tools/call requests are ever between the gate and the audit. *)
CallsOnly ==
    \A w \in Workers :
        pc[w] \notin {"idle", "queued", "main", "reply"} => IsCall(w)

GateInv == TypeOK /\ CallsOnly /\ HoldersTakePermit /\ OneCallAtATime

(* Counting one more keeps a function to Nat one. *)
LEMMA CountOneMore ==
    ASSUME NEW S, NEW f \in [S -> Nat], NEW x
    PROVE  [f EXCEPT ![x] = @ + 1] \in [S -> Nat]
  <1>1. CASE x \in S
    BY <1>1
  <1>2. CASE x \notin S
    BY <1>2
  <1> QED BY <1>1, <1>2

LEMMA InitGateInv == Init => GateInv
  <1> SUFFICES ASSUME Init PROVE GateInv
    OBVIOUS
  <1> USE ToolCallsAssumption DEF Init
  <1>1. TypeOK
    BY DEF TypeOK, Locations, Outcomes, NoRequest
  <1>2. HoldersTakePermit /\ OneCallAtATime /\ CallsOnly
    BY DEF HoldersTakePermit, OneCallAtATime, CallsOnly, Holds, IsCall, NoRequest
  <1> QED BY <1>1, <1>2 DEF GateInv

LEMMA TypeOKStep == GateInv /\ [Next]_vars => TypeOK'
  <1> SUFFICES ASSUME GateInv, [Next]_vars PROVE TypeOK'
    OBVIOUS
  <1> USE ToolCallsAssumption DEF GateInv, TypeOK, Locations, Outcomes, Goto, Ends
  <1>1. ASSUME NEW w \in Workers, NEW r \in Requests, Admit(w, r) \/ Refuse(w, r)
        PROVE  TypeOK'
    BY <1>1 DEF Admit, Refuse, Receive
  <1>2. ASSUME NEW w \in Workers, ReadResource(w) PROVE TypeOK'
    BY <1>2 DEF ReadResource, Receive
  <1>3. ASSUME NEW w \in Workers, NEW i \in Ids, HandleCancelled(w, i) PROVE TypeOK'
    BY <1>3 DEF HandleCancelled
  <1>4. ASSUME NEW w \in Workers, AcquireGate(w) PROVE TypeOK'
    BY <1>4 DEF AcquireGate
  <1>5. ASSUME NEW w \in Workers, RejectBusy(w) PROVE TypeOK'
    BY <1>5 DEF RejectBusy
  <1>6. ASSUME NEW w \in Workers, Register(w) PROVE TypeOK'
    BY <1>6 DEF Register
  <1>7. ASSUME NEW w \in Workers, RegisterRaises(w) PROVE TypeOK'
    BY <1>7 DEF RegisterRaises
  <1>8. ASSUME NEW w \in Workers, Post(w) PROVE TypeOK'
    BY <1>8 DEF Post
  <1>9. ASSUME NEW w \in Workers, FailOnWorker(w) PROVE TypeOK'
    BY <1>9 DEF FailOnWorker
  <1>10. ASSUME NEW w \in Workers, Unregister(w) PROVE TypeOK'
    BY <1>10 DEF Unregister
  <1>11. ASSUME NEW w \in Workers, Release(w) PROVE TypeOK'
    <2>1. GateOn => gate = 0
      BY <1>11 DEF Release, HoldersTakePermit, Holds, Holding, CallsOnly
    <2> QED BY <1>11, <2>1 DEF Release
  <1>12. ASSUME NEW w \in Workers, Record(w) PROVE TypeOK'
    <2>1. stats' \in [calls : Nat, errors : Nat, busy : Nat]
      BY <1>12 DEF Record
    <2> QED BY <1>12, <2>1 DEF Record
  <1>13. ASSUME NEW w \in Workers, WriteAudit(w) PROVE TypeOK'
    BY <1>13 DEF WriteAudit
  <1>14. ASSUME NEW w \in Workers, Reply(w) PROVE TypeOK'
    <2>1. answers' \in [BOOLEAN \X Outcomes -> Nat]
      BY <1>14, CountOneMore DEF Reply
    <2> QED BY <1>14, <2>1 DEF Reply
  <1>15. ASSUME NEW w \in Workers, RunOnMain(w) PROVE TypeOK'
    BY <1>15 DEF RunOnMain
  <1>16. ASSUME NEW w \in Workers, FinishOnMain(w) PROVE TypeOK'
    BY <1>16 DEF FinishOnMain, LeaveMain
  <1>17. ASSUME NEW w \in Workers, InterruptOnMain(w) PROVE TypeOK'
    BY <1>17 DEF InterruptOnMain, LeaveMain
  <1>18. CASE UNCHANGED vars
    BY <1>18 DEF vars
  <1> QED
    BY <1>1, <1>2, <1>3, <1>4, <1>5, <1>6, <1>7, <1>8, <1>9, <1>10, <1>11, <1>12, <1>13, <1>14,
       <1>15, <1>16, <1>17, <1>18
    DEF Next, WorkerStep, BodyEnds

LEMMA CallsOnlyStep == GateInv /\ [Next]_vars => CallsOnly'
  <1> SUFFICES ASSUME GateInv, [Next]_vars PROVE CallsOnly'
    OBVIOUS
  <1> USE ToolCallsAssumption DEF GateInv, CallsOnly, TypeOK, Goto, IsCall
  <1>1. ASSUME NEW w \in Workers, NEW r \in Requests, Admit(w, r) \/ Refuse(w, r)
        PROVE  CallsOnly'
    BY <1>1 DEF Admit, Refuse, Receive, CallOf
  <1>2. ASSUME NEW w \in Workers, ReadResource(w) PROVE CallsOnly'
    BY <1>2 DEF ReadResource, Receive, ReadOf
  <1>3. ASSUME NEW w \in Workers, NEW i \in Ids, HandleCancelled(w, i) PROVE CallsOnly'
    BY <1>3 DEF HandleCancelled
  <1>4. ASSUME NEW w \in Workers, AcquireGate(w) PROVE CallsOnly'
    BY <1>4 DEF AcquireGate
  <1>5. ASSUME NEW w \in Workers, RejectBusy(w) PROVE CallsOnly'
    BY <1>5 DEF RejectBusy
  <1>6. ASSUME NEW w \in Workers, Register(w) PROVE CallsOnly'
    BY <1>6 DEF Register
  <1>7. ASSUME NEW w \in Workers, RegisterRaises(w) PROVE CallsOnly'
    BY <1>7 DEF RegisterRaises
  <1>8. ASSUME NEW w \in Workers, Post(w) PROVE CallsOnly'
    BY <1>8 DEF Post
  <1>9. ASSUME NEW w \in Workers, FailOnWorker(w) PROVE CallsOnly'
    BY <1>9 DEF FailOnWorker
  <1>10. ASSUME NEW w \in Workers, Unregister(w) PROVE CallsOnly'
    BY <1>10 DEF Unregister
  <1>11. ASSUME NEW w \in Workers, Release(w) PROVE CallsOnly'
    BY <1>11 DEF Release
  <1>12. ASSUME NEW w \in Workers, Record(w) PROVE CallsOnly'
    BY <1>12 DEF Record
  <1>13. ASSUME NEW w \in Workers, WriteAudit(w) PROVE CallsOnly'
    BY <1>13 DEF WriteAudit
  <1>14. ASSUME NEW w \in Workers, Reply(w) PROVE CallsOnly'
    BY <1>14 DEF Reply, NoRequest
  <1>15. ASSUME NEW w \in Workers, RunOnMain(w) PROVE CallsOnly'
    BY <1>15 DEF RunOnMain
  <1>16. ASSUME NEW w \in Workers, FinishOnMain(w) PROVE CallsOnly'
    BY <1>16 DEF FinishOnMain, LeaveMain
  <1>17. ASSUME NEW w \in Workers, InterruptOnMain(w) PROVE CallsOnly'
    BY <1>17 DEF InterruptOnMain, LeaveMain
  <1>18. CASE UNCHANGED vars
    BY <1>18 DEF vars
  <1> QED
    BY <1>1, <1>2, <1>3, <1>4, <1>5, <1>6, <1>7, <1>8, <1>9, <1>10, <1>11, <1>12, <1>13, <1>14,
       <1>15, <1>16, <1>17, <1>18
    DEF Next, WorkerStep, BodyEnds


LEMMA MutexStep == GateInv /\ [Next]_vars => (HoldersTakePermit /\ OneCallAtATime)'
  <1> SUFFICES ASSUME GateInv, [Next]_vars PROVE (HoldersTakePermit /\ OneCallAtATime)'
    OBVIOUS
  <1> USE ToolCallsAssumption
  DEF GateInv, CallsOnly, HoldersTakePermit, OneCallAtATime, Holds, Holding, TypeOK, Goto, IsCall
  <1>1. ASSUME NEW w \in Workers, NEW r \in Requests, Admit(w, r) \/ Refuse(w, r)
        PROVE  (HoldersTakePermit /\ OneCallAtATime)'
    <2>1. \A v \in Workers : Holds(v)' => Holds(v)
      BY <1>1 DEF Admit, Refuse, Receive
    <2>2. gate' = gate
      BY <1>1 DEF Admit, Refuse
    <2> QED BY <2>1, <2>2
  <1>2. ASSUME NEW w \in Workers, ReadResource(w) PROVE (HoldersTakePermit /\ OneCallAtATime)'
    BY <1>2 DEF ReadResource, Receive, ReadOf
  <1>3. ASSUME NEW w \in Workers, NEW i \in Ids, HandleCancelled(w, i) PROVE (HoldersTakePermit /\ OneCallAtATime)'
    BY <1>3 DEF HandleCancelled
  <1>4. ASSUME NEW w \in Workers, AcquireGate(w) PROVE (HoldersTakePermit /\ OneCallAtATime)'
    BY <1>4 DEF AcquireGate
  <1>5. ASSUME NEW w \in Workers, RejectBusy(w) PROVE (HoldersTakePermit /\ OneCallAtATime)'
    BY <1>5 DEF RejectBusy
  <1>6. ASSUME NEW w \in Workers, Register(w) PROVE (HoldersTakePermit /\ OneCallAtATime)'
    BY <1>6 DEF Register
  <1>7. ASSUME NEW w \in Workers, RegisterRaises(w) PROVE (HoldersTakePermit /\ OneCallAtATime)'
    BY <1>7 DEF RegisterRaises
  <1>8. ASSUME NEW w \in Workers, Post(w) PROVE (HoldersTakePermit /\ OneCallAtATime)'
    BY <1>8 DEF Post
  <1>9. ASSUME NEW w \in Workers, FailOnWorker(w) PROVE (HoldersTakePermit /\ OneCallAtATime)'
    BY <1>9 DEF FailOnWorker
  <1>10. ASSUME NEW w \in Workers, Unregister(w) PROVE (HoldersTakePermit /\ OneCallAtATime)'
    BY <1>10 DEF Unregister
  <1>11. ASSUME NEW w \in Workers, Release(w) PROVE (HoldersTakePermit /\ OneCallAtATime)'
    BY <1>11 DEF Release
  <1>12. ASSUME NEW w \in Workers, Record(w) PROVE (HoldersTakePermit /\ OneCallAtATime)'
    BY <1>12 DEF Record
  <1>13. ASSUME NEW w \in Workers, WriteAudit(w) PROVE (HoldersTakePermit /\ OneCallAtATime)'
    BY <1>13 DEF WriteAudit
  <1>14. ASSUME NEW w \in Workers, Reply(w) PROVE (HoldersTakePermit /\ OneCallAtATime)'
    BY <1>14 DEF Reply, NoRequest
  <1>15. ASSUME NEW w \in Workers, RunOnMain(w) PROVE (HoldersTakePermit /\ OneCallAtATime)'
    BY <1>15 DEF RunOnMain
  <1>16. ASSUME NEW w \in Workers, FinishOnMain(w) PROVE (HoldersTakePermit /\ OneCallAtATime)'
    BY <1>16 DEF FinishOnMain, LeaveMain
  <1>17. ASSUME NEW w \in Workers, InterruptOnMain(w) PROVE (HoldersTakePermit /\ OneCallAtATime)'
    BY <1>17 DEF InterruptOnMain, LeaveMain
  <1>18. CASE UNCHANGED vars
    BY <1>18 DEF vars
  <1> QED
    BY <1>1, <1>2, <1>3, <1>4, <1>5, <1>6, <1>7, <1>8, <1>9, <1>10, <1>11, <1>12, <1>13, <1>14,
       <1>15, <1>16, <1>17, <1>18
    DEF Next, WorkerStep, BodyEnds

(* The permit is out while a call holds the gate. *)
THEOREM GateInvariant == Spec => []GateInv
  <1>1. Init => GateInv
    BY InitGateInv
  <1>2. GateInv /\ [Next]_vars => GateInv'
    BY TypeOKStep, CallsOnlyStep, MutexStep DEF GateInv
  <1> QED BY <1>1, <1>2, PTL DEF Spec

(* The variables keep their types. *)
THEOREM TypeCorrect == Spec => []TypeOK
  <1>1. GateInv => TypeOK
    BY DEF GateInv
  <1> QED BY <1>1, GateInvariant, PTL

(* With the gate on, at most one tools/call is in progress. *)
THEOREM MutualExclusion == Spec => []OneCallAtATime
  <1>1. GateInv => OneCallAtATime
    BY DEF GateInv
  <1> QED BY <1>1, GateInvariant, PTL

-----------------------------------------------------------------------------
(***************************************************************************)
(* The table of pending ids.                                               *)
(***************************************************************************)
TableInv == CancelReachesCall /\ NoStaleEntry

LEMMA TableStep ==
    GateInv /\ TableInv /\ [Next]_vars => TableInv'
  <1> SUFFICES ASSUME GateInv /\ TableInv, [Next]_vars PROVE TableInv'
    OBVIOUS
  <1> USE ToolCallsAssumption
  DEF GateInv, TableInv, CancelReachesCall, NoStaleEntry, InTable, TypeOK, Goto, IsCall
  <1>1. ASSUME NEW w \in Workers, NEW r \in Requests, Admit(w, r) \/ Refuse(w, r)
        PROVE  TableInv'
    BY <1>1 DEF Admit, Refuse, Receive, CallOf
  <1>2. ASSUME NEW w \in Workers, ReadResource(w) PROVE TableInv'
    BY <1>2 DEF ReadResource, Receive, ReadOf
  <1>3. ASSUME NEW w \in Workers, NEW i \in Ids, HandleCancelled(w, i) PROVE TableInv'
    BY <1>3 DEF HandleCancelled
  <1>4. ASSUME NEW w \in Workers, AcquireGate(w) PROVE TableInv'
    BY <1>4 DEF AcquireGate
  <1>5. ASSUME NEW w \in Workers, RejectBusy(w) PROVE TableInv'
    BY <1>5 DEF RejectBusy
  <1>6. ASSUME NEW w \in Workers, Register(w) PROVE TableInv'
    <2>1. /\ pc[w] = "register" /\ IsCall(w)
          /\ pc' = [pc EXCEPT ![w] = "dispatch"] /\ req' = req
          /\ pending' = IF req[w].id \in Ids
                        THEN [pending EXCEPT ![req[w].id] = w] ELSE pending
      BY <1>6 DEF Register, CallsOnly
    <2>2. ASSUME GateOn, NEW v \in Workers, InTable(v)' PROVE v = w
      BY <2>1, <2>2 DEF OneCallAtATime, Holds, Holding
    <2>3. CancelReachesCall'
      BY <2>1, <2>2
    <2>4. NoStaleEntry'
      BY <2>1
    <2> QED BY <2>3, <2>4
  <1>7. ASSUME NEW w \in Workers, RegisterRaises(w) PROVE TableInv'
    BY <1>7 DEF RegisterRaises
  <1>8. ASSUME NEW w \in Workers, Post(w) PROVE TableInv'
    BY <1>8 DEF Post
  <1>9. ASSUME NEW w \in Workers, FailOnWorker(w) PROVE TableInv'
    BY <1>9 DEF FailOnWorker
  <1>10. ASSUME NEW w \in Workers, Unregister(w) PROVE TableInv'
    <2>1. /\ pc[w] = "finally" /\ IsCall(w)
          /\ pc' = [pc EXCEPT ![w] = "release"] /\ req' = req
          /\ pending' = IF req[w].id \in Ids
                        THEN [pending EXCEPT ![req[w].id] = NoWorker] ELSE pending
      BY <1>10 DEF Unregister, CallsOnly
    <2>2. ASSUME GateOn, NEW v \in Workers PROVE ~InTable(v)'
      BY <2>1, <2>2 DEF OneCallAtATime, Holds, Holding
    <2>3. CancelReachesCall'
      BY <2>2
    <2>4. NoStaleEntry'
      BY <2>1
    <2> QED BY <2>3, <2>4
  <1>11. ASSUME NEW w \in Workers, Release(w) PROVE TableInv'
    BY <1>11 DEF Release
  <1>12. ASSUME NEW w \in Workers, Record(w) PROVE TableInv'
    BY <1>12 DEF Record
  <1>13. ASSUME NEW w \in Workers, WriteAudit(w) PROVE TableInv'
    BY <1>13 DEF WriteAudit
  <1>14. ASSUME NEW w \in Workers, Reply(w) PROVE TableInv'
    BY <1>14 DEF Reply, NoRequest
  <1>15. ASSUME NEW w \in Workers, RunOnMain(w) PROVE TableInv'
    BY <1>15 DEF RunOnMain
  <1>16. ASSUME NEW w \in Workers, FinishOnMain(w) PROVE TableInv'
    BY <1>16 DEF FinishOnMain, LeaveMain
  <1>17. ASSUME NEW w \in Workers, InterruptOnMain(w) PROVE TableInv'
    BY <1>17 DEF InterruptOnMain, LeaveMain
  <1>18. CASE UNCHANGED vars
    BY <1>18 DEF vars
  <1> QED
    BY <1>1, <1>2, <1>3, <1>4, <1>5, <1>6, <1>7, <1>8, <1>9, <1>10, <1>11, <1>12, <1>13, <1>14,
       <1>15, <1>16, <1>17, <1>18
    DEF Next, WorkerStep, BodyEnds

LEMMA TableInvariant == Spec => []TableInv
  <1>1. Init => TableInv
    BY DEF Init, TableInv, CancelReachesCall, NoStaleEntry, InTable, IsCall, NoRequest
  <1>2. GateInv /\ TableInv /\ [Next]_vars => TableInv'
    BY TableStep
  <1> QED BY <1>1, <1>2, GateInvariant, PTL DEF Spec

(* The table names calls in flight only, gate or no gate, and with the     *)
(* gate on the entry of every call in flight is its own.                   *)
THEOREM TableExactAlways == Spec => []TableExact
  <1>1. TableInv => TableExact
    BY DEF TableInv, TableExact
  <1> QED BY <1>1, TableInvariant, PTL

-----------------------------------------------------------------------------
(***************************************************************************)
(* What runs was admitted.                                                 *)
(***************************************************************************)
AdmittedInv ==
    \A w \in Workers :
        /\ IsCall(w) /\ pc[w] \notin {"idle", "reply"} =>
              Verdict(req[w].flags, req[w].tool) = "admitted"
        /\ IsCall(w) /\ pc[w] \in {"queued", "main"} => req[w].tool \in Registered


LEMMA AdmittedStep ==
    GateInv /\ AdmittedInv /\ [Next]_vars => AdmittedInv'
  <1> SUFFICES ASSUME GateInv /\ AdmittedInv, [Next]_vars PROVE AdmittedInv'
    OBVIOUS
  <1> USE ToolCallsAssumption DEF GateInv, AdmittedInv, TypeOK, Goto, IsCall
  <1>1. ASSUME NEW w \in Workers, NEW r \in Requests, Admit(w, r) \/ Refuse(w, r)
        PROVE  AdmittedInv'
    BY <1>1 DEF Admit, Refuse, Receive, CallOf
  <1>2. ASSUME NEW w \in Workers, ReadResource(w) PROVE AdmittedInv'
    BY <1>2 DEF ReadResource, Receive, ReadOf
  <1>3. ASSUME NEW w \in Workers, NEW i \in Ids, HandleCancelled(w, i) PROVE AdmittedInv'
    BY <1>3 DEF HandleCancelled
  <1>4. ASSUME NEW w \in Workers, AcquireGate(w) PROVE AdmittedInv'
    BY <1>4 DEF AcquireGate
  <1>5. ASSUME NEW w \in Workers, RejectBusy(w) PROVE AdmittedInv'
    BY <1>5 DEF RejectBusy
  <1>6. ASSUME NEW w \in Workers, Register(w) PROVE AdmittedInv'
    BY <1>6 DEF Register
  <1>7. ASSUME NEW w \in Workers, RegisterRaises(w) PROVE AdmittedInv'
    BY <1>7 DEF RegisterRaises
  <1>8. ASSUME NEW w \in Workers, Post(w) PROVE AdmittedInv'
    BY <1>8 DEF Post
  <1>9. ASSUME NEW w \in Workers, FailOnWorker(w) PROVE AdmittedInv'
    BY <1>9 DEF FailOnWorker
  <1>10. ASSUME NEW w \in Workers, Unregister(w) PROVE AdmittedInv'
    BY <1>10 DEF Unregister
  <1>11. ASSUME NEW w \in Workers, Release(w) PROVE AdmittedInv'
    BY <1>11 DEF Release
  <1>12. ASSUME NEW w \in Workers, Record(w) PROVE AdmittedInv'
    BY <1>12 DEF Record
  <1>13. ASSUME NEW w \in Workers, WriteAudit(w) PROVE AdmittedInv'
    BY <1>13 DEF WriteAudit
  <1>14. ASSUME NEW w \in Workers, Reply(w) PROVE AdmittedInv'
    BY <1>14 DEF Reply, NoRequest
  <1>15. ASSUME NEW w \in Workers, RunOnMain(w) PROVE AdmittedInv'
    BY <1>15 DEF RunOnMain
  <1>16. ASSUME NEW w \in Workers, FinishOnMain(w) PROVE AdmittedInv'
    BY <1>16 DEF FinishOnMain, LeaveMain
  <1>17. ASSUME NEW w \in Workers, InterruptOnMain(w) PROVE AdmittedInv'
    BY <1>17 DEF InterruptOnMain, LeaveMain
  <1>18. CASE UNCHANGED vars
    BY <1>18 DEF vars
  <1> QED
    BY <1>1, <1>2, <1>3, <1>4, <1>5, <1>6, <1>7, <1>8, <1>9, <1>10, <1>11, <1>12, <1>13, <1>14,
       <1>15, <1>16, <1>17, <1>18
    DEF Next, WorkerStep, BodyEnds

(* A body runs only for a call that tools/list shows under its flags. *)
THEOREM OnlyListed == Spec => []OnlyListedRun
  <1>1. Init => AdmittedInv
    BY DEF Init, AdmittedInv, IsCall, NoRequest
  <1>2. GateInv /\ AdmittedInv /\ [Next]_vars => AdmittedInv'
    BY AdmittedStep
  <1>3. GateInv /\ AdmittedInv => OnlyListedRun
    <2> SUFFICES ASSUME GateInv, AdmittedInv, NEW w \in Workers,
                        IsCall(w), pc[w] \in {"queued", "main"}
                 PROVE  req[w].tool \in Listed(req[w].flags)
      BY DEF OnlyListedRun
    <2>1. req[w].flags \in Flags
      BY ToolCallsAssumption DEF GateInv, TypeOK, IsCall, CallOf, ReadOf, NoRequest
    <2>2. req[w].tool \in Registered /\ Verdict(req[w].flags, req[w].tool) = "admitted"
      BY DEF AdmittedInv
    <2> QED BY <2>1, <2>2, ListedIffAdmitted
  <1> QED BY <1>1, <1>2, <1>3, GateInvariant, PTL DEF Spec

-----------------------------------------------------------------------------
(***************************************************************************)
(* The gate is not lost, provided every id can key a dict; the run         *)
(* gate_lost shows what happens to a client whose id cannot.               *)
(***************************************************************************)
AllHashable == \A r \in Requests : r.id \notin Unhashable


LEMMA GateKeptStep ==
    AllHashable /\ GateInv /\ GateNotLost /\ [Next]_vars => GateNotLost'
  <1> SUFFICES ASSUME AllHashable /\ GateInv /\ GateNotLost, [Next]_vars PROVE GateNotLost'
    OBVIOUS
  <1> USE ToolCallsAssumption
  DEF GateInv, CallsOnly, GateNotLost, Holds, Holding, TypeOK, Goto, IsCall
  <1>1. ASSUME NEW w \in Workers, NEW r \in Requests, Admit(w, r) \/ Refuse(w, r)
        PROVE  GateNotLost'
    BY <1>1 DEF Admit, Refuse, Receive, CallOf
  <1>2. ASSUME NEW w \in Workers, ReadResource(w) PROVE GateNotLost'
    BY <1>2 DEF ReadResource, Receive, ReadOf
  <1>3. ASSUME NEW w \in Workers, NEW i \in Ids, HandleCancelled(w, i) PROVE GateNotLost'
    BY <1>3 DEF HandleCancelled
  <1>4. ASSUME NEW w \in Workers, AcquireGate(w) PROVE GateNotLost'
    BY <1>4 DEF AcquireGate
  <1>5. ASSUME NEW w \in Workers, RejectBusy(w) PROVE GateNotLost'
    BY <1>5 DEF RejectBusy
  <1>6. ASSUME NEW w \in Workers, Register(w) PROVE GateNotLost'
    BY <1>6 DEF Register
  <1>7. ASSUME NEW w \in Workers, RegisterRaises(w) PROVE GateNotLost'
    <2>1. IsCall(w)
      BY <1>7 DEF RegisterRaises
    <2>2. req[w].id \notin Unhashable
      BY <2>1 DEF AllHashable, CallOf, ReadOf, NoRequest
    <2> QED BY <1>7, <2>2 DEF RegisterRaises
  <1>8. ASSUME NEW w \in Workers, Post(w) PROVE GateNotLost'
    BY <1>8 DEF Post
  <1>9. ASSUME NEW w \in Workers, FailOnWorker(w) PROVE GateNotLost'
    BY <1>9 DEF FailOnWorker
  <1>10. ASSUME NEW w \in Workers, Unregister(w) PROVE GateNotLost'
    BY <1>10 DEF Unregister
  <1>11. ASSUME NEW w \in Workers, Release(w) PROVE GateNotLost'
    BY <1>11 DEF Release
  <1>12. ASSUME NEW w \in Workers, Record(w) PROVE GateNotLost'
    BY <1>12 DEF Record
  <1>13. ASSUME NEW w \in Workers, WriteAudit(w) PROVE GateNotLost'
    BY <1>13 DEF WriteAudit
  <1>14. ASSUME NEW w \in Workers, Reply(w) PROVE GateNotLost'
    BY <1>14 DEF Reply, NoRequest
  <1>15. ASSUME NEW w \in Workers, RunOnMain(w) PROVE GateNotLost'
    BY <1>15 DEF RunOnMain
  <1>16. ASSUME NEW w \in Workers, FinishOnMain(w) PROVE GateNotLost'
    BY <1>16 DEF FinishOnMain, LeaveMain
  <1>17. ASSUME NEW w \in Workers, InterruptOnMain(w) PROVE GateNotLost'
    BY <1>17 DEF InterruptOnMain, LeaveMain
  <1>18. CASE UNCHANGED vars
    BY <1>18 DEF vars
  <1> QED
    BY <1>1, <1>2, <1>3, <1>4, <1>5, <1>6, <1>7, <1>8, <1>9, <1>10, <1>11, <1>12, <1>13, <1>14,
       <1>15, <1>16, <1>17, <1>18
    DEF Next, WorkerStep, BodyEnds

(* A taken gate is held by a call that is on its way to give it back. *)
THEOREM GateNeverLost ==
    ASSUME AllHashable
    PROVE  Spec => []GateNotLost
  <1>1. Init => GateNotLost
    BY DEF Init, GateNotLost
  <1>2. GateInv /\ GateNotLost /\ [Next]_vars => GateNotLost'
    BY AllHashable, GateKeptStep
  <1> QED BY <1>1, <1>2, GateInvariant, PTL DEF Spec

-----------------------------------------------------------------------------
(***************************************************************************)
(* ToolCalls implements SerialCalls when the gate is on.                   *)
(***************************************************************************)
(* A call that has run its body carries that body's outcome, and a worker  *)
(* at rest has no call.                                                    *)
OutcomeInv ==
    \A w \in Workers :
        /\ pc[w] \in {"finally", "release", "record", "audit"} => outcome[w] \in Ran
        /\ pc[w] = "idle" => ~IsCall(w)


LEMMA OutcomeStep ==
    GateInv /\ OutcomeInv /\ [Next]_vars => OutcomeInv'
  <1> SUFFICES ASSUME GateInv /\ OutcomeInv, [Next]_vars PROVE OutcomeInv'
    OBVIOUS
  <1> USE ToolCallsAssumption DEF GateInv, CallsOnly, OutcomeInv, Ran, Ends, TypeOK, Goto, IsCall
  <1>1. ASSUME NEW w \in Workers, NEW r \in Requests, Admit(w, r) \/ Refuse(w, r)
        PROVE  OutcomeInv'
    BY <1>1 DEF Admit, Refuse, Receive, CallOf
  <1>2. ASSUME NEW w \in Workers, ReadResource(w) PROVE OutcomeInv'
    BY <1>2 DEF ReadResource, Receive, ReadOf
  <1>3. ASSUME NEW w \in Workers, NEW i \in Ids, HandleCancelled(w, i) PROVE OutcomeInv'
    BY <1>3 DEF HandleCancelled
  <1>4. ASSUME NEW w \in Workers, AcquireGate(w) PROVE OutcomeInv'
    BY <1>4 DEF AcquireGate
  <1>5. ASSUME NEW w \in Workers, RejectBusy(w) PROVE OutcomeInv'
    BY <1>5 DEF RejectBusy
  <1>6. ASSUME NEW w \in Workers, Register(w) PROVE OutcomeInv'
    BY <1>6 DEF Register
  <1>7. ASSUME NEW w \in Workers, RegisterRaises(w) PROVE OutcomeInv'
    BY <1>7 DEF RegisterRaises
  <1>8. ASSUME NEW w \in Workers, Post(w) PROVE OutcomeInv'
    BY <1>8 DEF Post
  <1>9. ASSUME NEW w \in Workers, FailOnWorker(w) PROVE OutcomeInv'
    BY <1>9 DEF FailOnWorker
  <1>10. ASSUME NEW w \in Workers, Unregister(w) PROVE OutcomeInv'
    BY <1>10 DEF Unregister
  <1>11. ASSUME NEW w \in Workers, Release(w) PROVE OutcomeInv'
    BY <1>11 DEF Release
  <1>12. ASSUME NEW w \in Workers, Record(w) PROVE OutcomeInv'
    BY <1>12 DEF Record
  <1>13. ASSUME NEW w \in Workers, WriteAudit(w) PROVE OutcomeInv'
    BY <1>13 DEF WriteAudit
  <1>14. ASSUME NEW w \in Workers, Reply(w) PROVE OutcomeInv'
    BY <1>14 DEF Reply, NoRequest
  <1>15. ASSUME NEW w \in Workers, RunOnMain(w) PROVE OutcomeInv'
    BY <1>15 DEF RunOnMain
  <1>16. ASSUME NEW w \in Workers, FinishOnMain(w) PROVE OutcomeInv'
    BY <1>16 DEF FinishOnMain, LeaveMain
  <1>17. ASSUME NEW w \in Workers, InterruptOnMain(w) PROVE OutcomeInv'
    BY <1>17 DEF InterruptOnMain, LeaveMain
  <1>18. CASE UNCHANGED vars
    BY <1>18 DEF vars
  <1> QED
    BY <1>1, <1>2, <1>3, <1>4, <1>5, <1>6, <1>7, <1>8, <1>9, <1>10, <1>11, <1>12, <1>13, <1>14,
       <1>15, <1>16, <1>17, <1>18
    DEF Next, WorkerStep, BodyEnds

(* Under mutual exclusion the holder is the one call that holds the gate. *)
LEMMA HolderIs ==
    ASSUME GateOn, OneCallAtATime
    PROVE  /\ \A w \in Workers : Holds(w) => HolderBar = w
           /\ (\A w \in Workers : ~Holds(w)) => HolderBar = NoWorker
  BY DEF OneCallAtATime, HolderBar

LEMMA HolderNext ==
    ASSUME GateOn, OneCallAtATime'
    PROVE  /\ \A w \in Workers : Holds(w)' => HolderBar' = w
           /\ (\A w \in Workers : ~Holds(w)') => HolderBar' = NoWorker
  BY DEF OneCallAtATime, HolderBar

SerialInv == GateInv /\ OutcomeInv /\ GateNotLost

PhaseBar == [w \in Workers |-> PhaseOf(w)]

(* A step that changes no call's holding and no phase is a stutter. *)
LEMMA Stutter ==
    ASSUME GateOn, OneCallAtATime, OneCallAtATime',
           \A v \in Workers : (Holds(v)' <=> Holds(v)) /\ PhaseOf(v)' = PhaseOf(v)
    PROVE  HolderBar' = HolderBar /\ PhaseBar' = PhaseBar
  <1>1. HolderBar' = HolderBar
    <2>1. CASE \E v \in Workers : Holds(v)
      BY <2>1, HolderIs, HolderNext
    <2>2. CASE \A v \in Workers : ~Holds(v)
      BY <2>2, HolderIs, HolderNext
    <2> QED BY <2>1, <2>2
  <1>2. PhaseBar' = PhaseBar
    BY DEF PhaseBar
  <1> QED BY <1>1, <1>2

(* A step that moves one call's phase moves the abstract one. *)
LEMMA OneMoves ==
    ASSUME NEW w \in Workers, NEW from, NEW to,
           PhaseOf(w) = from, PhaseOf(w)' = to,
           \A v \in Workers \ {w} : PhaseOf(v)' = PhaseOf(v)
    PROVE  PhaseBar[w] = from /\ PhaseBar' = [PhaseBar EXCEPT ![w] = to]
  BY DEF PhaseBar

LEMMA SerialStep ==
    ASSUME GateOn, AllHashable, SerialInv, SerialInv', [Next]_vars
    PROVE  [Serial!Next]_(Serial!vars)
  <1> USE ToolCallsAssumption
  <1> DEFINE Same == HolderBar' = HolderBar /\ PhaseBar' = PhaseBar
             Others(w) == \A v \in Workers \ {w} :
                             (Holds(v)' <=> Holds(v)) /\ PhaseOf(v)' = PhaseOf(v)
             Step == [Serial!Next]_(Serial!vars)
  <1>a. OneCallAtATime /\ OneCallAtATime'
    BY DEF SerialInv, GateInv
  <1>b. TypeOK /\ CallsOnly /\ HoldersTakePermit /\ GateNotLost /\ OutcomeInv
    BY DEF SerialInv, GateInv
  <1>c. Same => Step
    BY DEF Serial!vars, PhaseBar
  <1>d. ASSUME NEW w \in Workers, Others(w),
               Holds(w)' <=> Holds(w), PhaseOf(w)' = PhaseOf(w)
        PROVE  Step
    BY <1>a, <1>c, <1>d, Stutter
  <1>e. ASSUME NEW w \in Workers, Others(w), PhaseOf(w) = "idle",
               PhaseOf(w)' = "asked", ~Holds(w), ~Holds(w)'
        PROVE  Step
    <2>1. HolderBar' = HolderBar
      <3>1. CASE \E v \in Workers : Holds(v)
        BY <1>a, <1>e, <3>1, HolderIs, HolderNext
      <3>2. CASE \A v \in Workers : ~Holds(v)
        BY <1>a, <1>e, <3>2, HolderIs, HolderNext
      <3> QED BY <3>1, <3>2
    <2>2. Serial!Ask(w)
      BY <1>e, <2>1, OneMoves DEF Serial!Ask, Serial!Go, PhaseBar
    <2> QED BY <2>2 DEF Serial!Next
  <1> USE DEF TypeOK, Goto, Holds, Holding, PhaseOf, IsCall
  <1>1. ASSUME NEW w \in Workers, NEW r \in Requests, Admit(w, r) PROVE Step
    <2>1. Others(w)
      BY <1>b, <1>1 DEF Admit, Receive
    <2>2. PhaseOf(w) = "idle" /\ ~Holds(w)
      BY <1>b, <1>1 DEF Admit, Receive, OutcomeInv
    <2>3. PhaseOf(w)' = "asked" /\ ~Holds(w)'
      BY <1>b, <1>1 DEF Admit, Receive, CallOf
    <2> QED BY <1>e, <2>1, <2>2, <2>3
  <1>2. ASSUME NEW w \in Workers, NEW r \in Requests, Refuse(w, r) PROVE Step
    <2>1. Others(w)
      BY <1>b, <1>2 DEF Refuse, Receive, Ends
    <2>2. PhaseOf(w) = "idle" /\ ~Holds(w)
      BY <1>b, <1>2 DEF Refuse, Receive, OutcomeInv
    <2>3. PhaseOf(w)' = "idle" /\ ~Holds(w)'
      BY <1>b, <1>2 DEF Refuse, Receive, CallOf, Ends
    <2> QED BY <1>d, <2>1, <2>2, <2>3
  <1>3. ASSUME NEW w \in Workers, ReadResource(w) PROVE Step
    <2>1. Others(w)
      BY <1>b, <1>3 DEF ReadResource, Receive
    <2>2. PhaseOf(w) = "idle" /\ ~Holds(w)
      BY <1>b, <1>3 DEF ReadResource, Receive, OutcomeInv
    <2>3. PhaseOf(w)' = "idle" /\ ~Holds(w)'
      BY <1>b, <1>3 DEF ReadResource, Receive, ReadOf
    <2> QED BY <1>d, <2>1, <2>2, <2>3
  <1>4. ASSUME NEW w \in Workers, NEW i \in Ids, HandleCancelled(w, i) PROVE Step
    <2>1. Others(w) /\ (Holds(w)' <=> Holds(w)) /\ PhaseOf(w)' = PhaseOf(w)
      BY <1>4 DEF HandleCancelled
    <2> QED BY <1>d, <2>1
  <1>5. ASSUME NEW w \in Workers, AcquireGate(w) PROVE Step
    <2>1. Others(w)
      BY <1>b, <1>5 DEF AcquireGate
    <2>2. PhaseOf(w) = "asked" /\ PhaseOf(w)' = "running" /\ Holds(w)'
      BY <1>b, <1>5 DEF AcquireGate, CallsOnly
    <2>3. \A v \in Workers : ~Holds(v)
      <3>1. gate # 0
        BY <1>b, <1>5 DEF AcquireGate
      <3> QED BY <1>b, <3>1 DEF HoldersTakePermit
    <2>4. HolderBar = NoWorker /\ HolderBar' = w
      BY <1>a, <2>2, <2>3, HolderIs, HolderNext
    <2>5. Serial!Start(w)
      BY <2>1, <2>2, <2>4, OneMoves DEF Serial!Start, Serial!Go, PhaseBar
    <2> QED BY <2>5 DEF Serial!Next
  <1>6. ASSUME NEW w \in Workers, RejectBusy(w) PROVE Step
    <2>1. Others(w)
      BY <1>b, <1>6 DEF RejectBusy, Ends
    <2>2. PhaseOf(w) = "asked" /\ ~Holds(w)
      BY <1>b, <1>6 DEF RejectBusy, CallsOnly
    <2>3. PhaseOf(w)' = "busy" /\ ~Holds(w)'
      BY <1>b, <1>6 DEF RejectBusy, CallsOnly, Ends
    <2>4. PICK v \in Workers : Holds(v)
      BY <1>b, <1>6 DEF RejectBusy, GateNotLost
    <2>5. v # w /\ Holds(v)'
      BY <2>1, <2>2, <2>4
    <2>6. HolderBar = v /\ HolderBar' = v
      BY <1>a, <2>4, <2>5, HolderIs, HolderNext
    <2>7. Serial!TurnAway(w)
      BY <2>1, <2>2, <2>3, <2>6, OneMoves DEF Serial!TurnAway, Serial!Go, PhaseBar
    <2> QED BY <2>7 DEF Serial!Next
  <1>7. ASSUME NEW w \in Workers, Register(w) PROVE Step
    <2>1. Others(w)
      BY <1>b, <1>7 DEF Register
    <2>2. (Holds(w)' <=> Holds(w)) /\ PhaseOf(w)' = PhaseOf(w)
      BY <1>b, <1>7 DEF Register, CallsOnly
    <2> QED BY <1>d, <2>1, <2>2
  <1>8. ASSUME NEW w \in Workers, Post(w) PROVE Step
    <2>1. Others(w)
      BY <1>b, <1>8 DEF Post
    <2>2. (Holds(w)' <=> Holds(w)) /\ PhaseOf(w)' = PhaseOf(w)
      BY <1>b, <1>8 DEF Post, CallsOnly
    <2> QED BY <1>d, <2>1, <2>2
  <1>9. ASSUME NEW w \in Workers, FailOnWorker(w) PROVE Step
    <2>1. Others(w)
      BY <1>b, <1>9 DEF FailOnWorker, Ends
    <2>2. (Holds(w)' <=> Holds(w)) /\ PhaseOf(w)' = PhaseOf(w)
      BY <1>b, <1>9 DEF FailOnWorker, CallsOnly, Ends
    <2> QED BY <1>d, <2>1, <2>2
  <1>10. ASSUME NEW w \in Workers, RunOnMain(w) PROVE Step
    <2>1. Others(w)
      BY <1>b, <1>10 DEF RunOnMain
    <2>2. (Holds(w)' <=> Holds(w)) /\ PhaseOf(w)' = PhaseOf(w)
      BY <1>b, <1>10 DEF RunOnMain
    <2> QED BY <1>d, <2>1, <2>2
  <1>11. ASSUME NEW w \in Workers, FinishOnMain(w) PROVE Step
    <2>1. Others(w)
      BY <1>b, <1>11 DEF FinishOnMain, LeaveMain, Ends
    <2>2. (Holds(w)' <=> Holds(w)) /\ PhaseOf(w)' = PhaseOf(w)
      BY <1>b, <1>11 DEF FinishOnMain, LeaveMain, Ends
    <2> QED BY <1>d, <2>1, <2>2
  <1>12. ASSUME NEW w \in Workers, InterruptOnMain(w) PROVE Step
    <2>1. Others(w)
      BY <1>b, <1>12 DEF InterruptOnMain, LeaveMain, Ends
    <2>2. (Holds(w)' <=> Holds(w)) /\ PhaseOf(w)' = PhaseOf(w)
      BY <1>b, <1>12 DEF InterruptOnMain, LeaveMain, Ends
    <2> QED BY <1>d, <2>1, <2>2
  <1>13. ASSUME NEW w \in Workers, Unregister(w) PROVE Step
    <2>1. Others(w)
      BY <1>b, <1>13 DEF Unregister
    <2>2. (Holds(w)' <=> Holds(w)) /\ PhaseOf(w)' = PhaseOf(w)
      BY <1>b, <1>13 DEF Unregister, CallsOnly
    <2> QED BY <1>d, <2>1, <2>2
  <1>14. ASSUME NEW w \in Workers, Record(w) PROVE Step
    <2>1. Others(w)
      BY <1>b, <1>14 DEF Record
    <2>2. (Holds(w)' <=> Holds(w)) /\ PhaseOf(w)' = PhaseOf(w)
      BY <1>b, <1>14 DEF Record, CallsOnly, OutcomeInv, Ran
    <2> QED BY <1>d, <2>1, <2>2
  <1>15. ASSUME NEW w \in Workers, WriteAudit(w) PROVE Step
    <2>1. Others(w)
      BY <1>b, <1>15 DEF WriteAudit
    <2>2. (Holds(w)' <=> Holds(w)) /\ PhaseOf(w)' = PhaseOf(w)
      BY <1>b, <1>15 DEF WriteAudit, CallsOnly, OutcomeInv, Ran
    <2> QED BY <1>d, <2>1, <2>2
  <1>16. ASSUME NEW w \in Workers, RegisterRaises(w) PROVE Step
    <2>1. IsCall(w)
      BY <1>b, <1>16 DEF RegisterRaises, CallsOnly
    <2>2. req[w].id \notin Unhashable
      BY <1>b, <2>1, AllHashable DEF AllHashable, CallOf, ReadOf, NoRequest
    <2> QED BY <1>16, <2>2 DEF RegisterRaises
  <1>17. ASSUME NEW w \in Workers, Release(w) PROVE Step
    <2>1. Others(w)
      BY <1>b, <1>17 DEF Release
    <2>2. PhaseOf(w) = "running" /\ Holds(w)
      BY <1>b, <1>17 DEF Release, CallsOnly
    <2>3. PhaseOf(w)' = "done" /\ ~Holds(w)'
      BY <1>b, <1>17 DEF Release, CallsOnly
    <2>4. \A v \in Workers : ~Holds(v)'
      BY <1>a, <2>1, <2>2, <2>3 DEF OneCallAtATime
    <2>5. HolderBar = w /\ HolderBar' = NoWorker
      BY <1>a, <2>2, <2>4, HolderIs, HolderNext
    <2>6. Serial!Finish(w)
      BY <2>1, <2>2, <2>3, <2>5, OneMoves DEF Serial!Finish, Serial!Go, PhaseBar
    <2> QED BY <2>6 DEF Serial!Next
  <1>18. ASSUME NEW w \in Workers, Reply(w) PROVE Step
    <2>1. Others(w)
      BY <1>b, <1>18 DEF Reply
    <2>2. PhaseOf(w) \in {"idle", "busy", "done"} /\ ~Holds(w)
      BY <1>b, <1>18 DEF Reply
    <2>3. PhaseOf(w)' = "idle" /\ ~Holds(w)'
      BY <1>b, <1>18 DEF Reply, NoRequest
    <2>4. CASE PhaseOf(w) = "idle"
      BY <1>d, <2>1, <2>2, <2>3, <2>4
    <2>5. CASE PhaseOf(w) # "idle"
      <3>1. HolderBar' = HolderBar
        <4>1. CASE \E v \in Workers : Holds(v)
          BY <1>a, <2>1, <2>2, <2>3, <4>1, HolderIs, HolderNext
        <4>2. CASE \A v \in Workers : ~Holds(v)
          BY <1>a, <2>1, <2>2, <2>3, <4>2, HolderIs, HolderNext
        <4> QED BY <4>1, <4>2
      <3>2. Serial!Answer(w)
        BY <2>1, <2>2, <2>3, <2>5, <3>1, OneMoves
        DEF Serial!Answer, Serial!Go, PhaseBar
      <3> QED BY <3>2 DEF Serial!Next
    <2> QED BY <2>4, <2>5
  <1>19. CASE UNCHANGED vars
    <2>1. \A v \in Workers : (Holds(v)' <=> Holds(v)) /\ PhaseOf(v)' = PhaseOf(v)
      BY <1>19 DEF vars
    <2> QED BY <1>a, <1>c, <2>1, Stutter
  <1> QED
    BY <1>1, <1>2, <1>3, <1>4, <1>5, <1>6, <1>7, <1>8, <1>9, <1>10, <1>11, <1>12, <1>13, <1>14,
       <1>15, <1>16, <1>17, <1>18, <1>19
    DEF Next, WorkerStep, BodyEnds

(* Calls are serialised and turned away only while another one is in       *)
(* progress: with the gate on and ids that can key a dict, every behaviour *)
(* of ToolCalls is one of SerialCalls.                                     *)
THEOREM ImplementsSerialCalls ==
    ASSUME GateOn, AllHashable
    PROVE  Spec => Serial!SafetySpec
  <1>1. Init => Serial!Init
    <2> SUFFICES ASSUME Init PROVE Serial!Init
      OBVIOUS
    <2>1. \A w \in Workers : ~Holds(w) /\ PhaseOf(w) = "idle"
      BY DEF Init, Holds, PhaseOf, IsCall, NoRequest
    <2>2. HolderBar = NoWorker
      BY <2>1 DEF HolderBar
    <2> QED BY <2>1, <2>2 DEF Serial!Init
  <1>2. Spec => []OutcomeInv
    <2>1. Init => OutcomeInv
      BY DEF Init, OutcomeInv, IsCall, NoRequest
    <2>2. GateInv /\ OutcomeInv /\ [Next]_vars => OutcomeInv'
      BY OutcomeStep
    <2> QED BY <2>1, <2>2, GateInvariant, PTL DEF Spec
  <1>3. Spec => []SerialInv
    <2>1. GateInv /\ OutcomeInv /\ GateNotLost => SerialInv
      BY DEF SerialInv
    <2>2. Spec => []GateNotLost
      BY AllHashable, GateNeverLost
    <2> QED BY <1>2, <2>1, <2>2, GateInvariant, PTL
  <1>4. SerialInv /\ SerialInv' /\ [Next]_vars => [Serial!Next]_(Serial!vars)
    BY GateOn, AllHashable, SerialStep
  <1> QED BY <1>1, <1>3, <1>4, PTL DEF Spec, Serial!SafetySpec

-----------------------------------------------------------------------------
(***************************************************************************)
(* The counters of server_health and the audit file.  A call is open from  *)
(* the moment it is counted until its reply is sent.                       *)
(***************************************************************************)
Open(at, os) == {w \in Workers : IsCall(w) /\ pc[w] \in at /\ outcome[w] \in os}

OpenAudited(os) ==
    {w \in Workers : IsCall(w) /\ pc[w] = "reply" /\ outcome[w] \in os /\ Audited(req[w].tool)}

(* A call on its way from the tool to the audit has an outcome of a tool,  *)
(* and only a call to be audited is on its way to the audit.               *)
RanInv ==
    \A w \in Workers :
        /\ pc[w] \in {"finally", "release", "record", "audit"} => outcome[w] \in Ran
        /\ pc[w] = "audit" => Audited(req[w].tool)

Failed == Ran \ {"ok"}

(* Replies to all calls, and to audited calls, with outcome in os. *)
AllTold(os) == Answered(TRUE, os) + Answered(FALSE, os)

AuditedTold(os) == Answered(TRUE, os)

(* The five numbers, each with the replies and the open calls it tells of. *)
CallsTold ==
    stats.calls = AllTold(Ran) + Cardinality(Open({"audit", "reply"}, Ran))

ErrorsTold ==
    stats.errors = AllTold(Failed) + Cardinality(Open({"audit", "reply"}, Failed))

BusyTold ==
    stats.busy = answers[<<TRUE, "busy">>] + answers[<<FALSE, "busy">>]
                 + Cardinality(Open({"reply"}, {"busy"}))

OkTold == audit.ok = AuditedTold({"ok"}) + Cardinality(OpenAudited({"ok"}))

FailedTold == audit.failed = AuditedTold(Failed) + Cardinality(OpenAudited(Failed))

Ledger == CallsTold /\ ErrorsTold /\ BusyTold /\ OkTold /\ FailedTold

LedgerInv == GateInv /\ RanInv /\ Ledger

LEMMA RanStep == GateInv /\ RanInv /\ [Next]_vars => RanInv'
  <1> SUFFICES ASSUME GateInv, RanInv, [Next]_vars PROVE RanInv'
    OBVIOUS
  <1> USE DEF GateInv, TypeOK, RanInv, Ran, Goto, Ends
  <1>1. ASSUME NEW w \in Workers, NEW r \in Requests, Admit(w, r) \/ Refuse(w, r)
        PROVE  RanInv'
    BY <1>1 DEF Admit, Refuse, Receive
  <1>2. ASSUME NEW w \in Workers, ReadResource(w) \/ RunOnMain(w) PROVE RanInv'
    BY <1>2 DEF ReadResource, Receive, RunOnMain
  <1>3. ASSUME NEW w \in Workers, NEW i \in Ids, HandleCancelled(w, i) PROVE RanInv'
    BY <1>3 DEF HandleCancelled
  <1>4. ASSUME NEW w \in Workers, AcquireGate(w) \/ RejectBusy(w) PROVE RanInv'
    BY <1>4 DEF AcquireGate, RejectBusy
  <1>5. ASSUME NEW w \in Workers, Register(w) \/ RegisterRaises(w) PROVE RanInv'
    BY <1>5 DEF Register, RegisterRaises
  <1>6. ASSUME NEW w \in Workers, Post(w) \/ FailOnWorker(w) PROVE RanInv'
    BY <1>6 DEF Post, FailOnWorker
  <1>7. ASSUME NEW w \in Workers, FinishOnMain(w) \/ InterruptOnMain(w) PROVE RanInv'
    BY <1>7 DEF FinishOnMain, InterruptOnMain, LeaveMain
  <1>8. ASSUME NEW w \in Workers, Unregister(w) \/ Release(w) PROVE RanInv'
    BY <1>8 DEF Unregister, Release
  <1>9. ASSUME NEW w \in Workers, Record(w) \/ WriteAudit(w) \/ Reply(w) PROVE RanInv'
    BY <1>9 DEF Record, WriteAudit, Reply
  <1>10. CASE UNCHANGED vars
    BY <1>10 DEF vars
  <1> QED
    BY <1>1, <1>2, <1>3, <1>4, <1>5, <1>6, <1>7, <1>8, <1>9, <1>10 DEF Next, WorkerStep, BodyEnds

(* Open calls can be counted. *)
LEMMA OpenFinite ==
    /\ \A at, os : IsFiniteSet(Open(at, os)) /\ Cardinality(Open(at, os)) \in Nat
    /\ \A os : IsFiniteSet(OpenAudited(os)) /\ Cardinality(OpenAudited(os)) \in Nat
  <1>1. \A S \in SUBSET Workers : IsFiniteSet(S) /\ Cardinality(S) \in Nat
    BY ToolCallsAssumption, FS_Subset, FS_CardinalityType
  <1> QED BY <1>1 DEF Open, OpenAudited

(* A step that neither opens nor answers a call leaves the ledger alone. *)
Counted(w) == IsCall(w) /\ pc[w] \in {"audit", "reply"} /\ outcome[w] \in Ran \union {"busy"}

OnlyMoves(w) ==
    \A v \in Workers \ {w} : pc'[v] = pc[v] /\ req'[v] = req[v] /\ outcome'[v] = outcome[v]

LEMMA Undisturbed ==
    ASSUME Ledger, NEW w \in Workers, OnlyMoves(w), ~ Counted(w), ~ Counted(w)',
           UNCHANGED <<stats, audit, answers>>
    PROVE  Ledger'
  <1>1. ASSUME NEW v \in Workers PROVE Counted(v)' <=> Counted(v)
    BY DEF OnlyMoves, Counted, IsCall
  <1>2. ASSUME NEW at \in {{"audit", "reply"}, {"reply"}}, NEW os \in {Ran, Failed, {"busy"}}
        PROVE  Open(at, os)' = Open(at, os)
    BY DEF OnlyMoves, Counted, IsCall, Open, Failed
  <1>3. ASSUME NEW os \in {{"ok"}, Failed} PROVE OpenAudited(os)' = OpenAudited(os)
    BY DEF OnlyMoves, Counted, IsCall, OpenAudited, Failed, Ran
  <1>4. /\ Open({"audit", "reply"}, Ran)' = Open({"audit", "reply"}, Ran)
        /\ Open({"audit", "reply"}, Failed)' = Open({"audit", "reply"}, Failed)
        /\ Open({"reply"}, {"busy"})' = Open({"reply"}, {"busy"})
    BY <1>2
  <1>5. OpenAudited({"ok"})' = OpenAudited({"ok"}) /\ OpenAudited(Failed)' = OpenAudited(Failed)
    BY <1>3
  <1> QED
    BY <1>4, <1>5
    DEF Ledger, CallsTold, ErrorsTold, BusyTold, OkTold, FailedTold, AllTold, AuditedTold, Answered

(* The sums over the replies are naturals. *)
LEMMA ToldNat ==
    ASSUME TypeOK, NEW os
    PROVE  AllTold(os) \in Nat /\ AuditedTold(os) \in Nat
  <1>1. ASSUME NEW b \in BOOLEAN PROVE Answered(b, os) \in Nat
    <2>1. \A o \in Outcomes : answers[<<b, o>>] \in Nat
      BY DEF TypeOK
    <2> QED BY <2>1 DEF Answered, Outcomes
  <1>2. PICK m, n : m = Answered(TRUE, os) /\ n = Answered(FALSE, os)
    OBVIOUS
  <1>3. m \in Nat /\ n \in Nat
    BY <1>1, <1>2
  <1>4. m + n \in Nat
    BY <1>3
  <1> QED BY <1>2, <1>3, <1>4 DEF AllTold, AuditedTold

LEMMA ToldSame ==
    ASSUME UNCHANGED answers, NEW os
    PROVE  AllTold(os)' = AllTold(os) /\ AuditedTold(os)' = AuditedTold(os)
  BY DEF AllTold, AuditedTold, Answered

(* One reply more raises the sums its outcome belongs to by one. *)
LEMMA AnsweredMore ==
    ASSUME TypeOK, NEW b \in BOOLEAN, NEW o \in Outcomes,
           answers' = [answers EXCEPT ![<<b, o>>] = @ + 1],
           NEW c \in BOOLEAN, NEW os \in {Ran, Failed, {"ok"}}
    PROVE  /\ Answered(c, os) \in Nat
           /\ Answered(c, os)' = IF c = b /\ o \in os THEN Answered(c, os) + 1
                                 ELSE Answered(c, os)
  <1>1. \A p \in Outcomes : answers[<<c, p>>] \in Nat
    BY DEF TypeOK
  <1>2. \A p \in Outcomes : answers'[<<c, p>>] = IF c = b /\ p = o
                                                 THEN answers[<<c, p>>] + 1
                                                 ELSE answers[<<c, p>>]
    BY <1>1 DEF TypeOK
  <1> QED BY <1>1, <1>2 DEF Answered, Outcomes, Ran, Failed

LEMMA ToldMore ==
    ASSUME TypeOK, NEW b \in BOOLEAN, NEW o \in Outcomes,
           answers' = [answers EXCEPT ![<<b, o>>] = @ + 1],
           NEW os \in {Ran, Failed, {"ok"}}
    PROVE  /\ AllTold(os)' = IF o \in os THEN AllTold(os) + 1 ELSE AllTold(os)
           /\ AuditedTold(os)' = IF b /\ o \in os THEN AuditedTold(os) + 1
                                 ELSE AuditedTold(os)
  <1>1. \A c \in BOOLEAN :
          /\ Answered(c, os) \in Nat
          /\ Answered(c, os)' = IF c = b /\ o \in os THEN Answered(c, os) + 1
                                ELSE Answered(c, os)
    BY AnsweredMore
  <1>2. PICK m, n, m1, n1 :
          /\ m = Answered(TRUE, os) /\ n = Answered(FALSE, os)
          /\ m1 = Answered(TRUE, os)' /\ n1 = Answered(FALSE, os)'
    OBVIOUS
  <1>3. /\ m \in Nat /\ n \in Nat
        /\ m1 = IF b /\ o \in os THEN m + 1 ELSE m
        /\ n1 = IF ~ b /\ o \in os THEN n + 1 ELSE n
    BY <1>1, <1>2
  <1>4. m1 + n1 = IF o \in os THEN (m + n) + 1 ELSE m + n
    BY <1>3
  <1> QED BY <1>2, <1>3, <1>4 DEF AllTold, AuditedTold

LEMMA RejectBusyLedger ==
    ASSUME LedgerInv, NEW w \in Workers, RejectBusy(w)
    PROVE  Ledger'
  <1>1. /\ pc[w] = "gate" /\ pc' = [pc EXCEPT ![w] = "reply"] /\ req' = req
        /\ outcome' = [outcome EXCEPT ![w] = "busy"] /\ IsCall(w)
        /\ stats' = [stats EXCEPT !.busy = @ + 1] /\ UNCHANGED <<audit, answers>>
    BY DEF RejectBusy, Goto, Ends, LedgerInv, GateInv, CallsOnly
  <1>2. stats'.calls = stats.calls /\ stats'.errors = stats.errors /\ stats'.busy = stats.busy + 1
    BY <1>1 DEF LedgerInv, GateInv, TypeOK
  <1>3. /\ pc'[w] = "reply" /\ outcome'[w] = "busy" /\ IsCall(w)'
        /\ OnlyMoves(w)
    BY <1>1 DEF LedgerInv, GateInv, TypeOK, OnlyMoves, IsCall
  <1>4. \A os \in {Ran, Failed} : Open({"audit", "reply"}, os)' = Open({"audit", "reply"}, os)
    BY <1>1, <1>3 DEF OnlyMoves, Open, IsCall, Failed, Ran
  <1>5. \A os \in {{"ok"}, Failed} : OpenAudited(os)' = OpenAudited(os)
    BY <1>1, <1>3 DEF OnlyMoves, OpenAudited, IsCall, Failed, Ran
  <1>6. /\ Open({"reply"}, {"busy"})' = Open({"reply"}, {"busy"}) \cup {w}
        /\ w \notin Open({"reply"}, {"busy"})
    BY <1>1, <1>3 DEF OnlyMoves, Open, IsCall
  <1>7. Cardinality(Open({"reply"}, {"busy"})') = Cardinality(Open({"reply"}, {"busy"})) + 1
    BY <1>6, OpenFinite, FS_AddElement
  <1>8. \A os : AllTold(os)' = AllTold(os) /\ AuditedTold(os)' = AuditedTold(os)
    BY <1>1, ToldSame
  <1>9. CallsTold' /\ ErrorsTold'
    BY <1>2, <1>4, <1>8 DEF LedgerInv, Ledger, CallsTold, ErrorsTold
  <1>10. BusyTold'
    <2>1. answers[<<TRUE, "busy">>] \in Nat /\ answers[<<FALSE, "busy">>] \in Nat
      BY DEF LedgerInv, GateInv, TypeOK, Outcomes
    <2>2. Cardinality(Open({"reply"}, {"busy"})) \in Nat /\ stats.busy \in Nat
      BY OpenFinite DEF LedgerInv, GateInv, TypeOK
    <2>3. stats.busy = answers[<<TRUE, "busy">>] + answers[<<FALSE, "busy">>]
                       + Cardinality(Open({"reply"}, {"busy"}))
      BY DEF LedgerInv, Ledger, BusyTold
    <2>4. stats'.busy = answers'[<<TRUE, "busy">>] + answers'[<<FALSE, "busy">>]
                        + Cardinality(Open({"reply"}, {"busy"})')
      <3>1. answers' = answers /\ stats'.busy = stats.busy + 1
        BY <1>1, <1>2
      <3> HIDE DEF Open
      <3> QED BY <3>1, <1>7, <2>1, <2>2, <2>3
    <2> QED BY <2>4 DEF BusyTold
  <1>11. OkTold' /\ FailedTold'
    BY <1>1, <1>5, <1>8 DEF LedgerInv, Ledger, OkTold, FailedTold
  <1> QED BY <1>9, <1>10, <1>11 DEF Ledger

LEMMA RecordLedger ==
    ASSUME GateOn, LedgerInv, NEW w \in Workers, Record(w)
    PROVE  Ledger'
  <1>1. /\ pc[w] = "record" /\ pc' = [pc EXCEPT ![w] = pc'[w]] /\ pc'[w] \in {"audit", "reply"}
        /\ req' = req /\ outcome' = outcome /\ IsCall(w) /\ outcome[w] \in Ran
        /\ ~ Audited(req[w].tool) <=> pc'[w] = "reply"
        /\ UNCHANGED <<audit, answers>>
    BY DEF Record, Goto, LedgerInv, GateInv, TypeOK, CallsOnly, RanInv
  <1>2. /\ stats'.calls = stats.calls + 1
        /\ stats'.errors = stats.errors + (IF outcome[w] = "ok" THEN 0 ELSE 1)
        /\ stats'.busy = stats.busy
        /\ stats.calls \in Nat /\ stats.errors \in Nat
    BY DEF Record, LedgerInv, GateInv, TypeOK
  <1>3. IsCall(w)' /\ OnlyMoves(w)
    BY <1>1 DEF LedgerInv, GateInv, TypeOK, OnlyMoves, IsCall
  <1>4. ASSUME NEW os \in {Ran, Failed}
        PROVE  Cardinality(Open({"audit", "reply"}, os)')
               = Cardinality(Open({"audit", "reply"}, os)) + (IF outcome[w] \in os THEN 1 ELSE 0)
    <2>1. CASE outcome[w] \in os
      <3>1. /\ Open({"audit", "reply"}, os)' = Open({"audit", "reply"}, os) \cup {w}
            /\ w \notin Open({"audit", "reply"}, os)
        BY <1>1, <1>3, <2>1 DEF OnlyMoves, Open, IsCall
      <3> QED BY <3>1, <2>1, OpenFinite, FS_AddElement
    <2>2. CASE outcome[w] \notin os
      <3>1. Open({"audit", "reply"}, os)' = Open({"audit", "reply"}, os)
        BY <1>1, <1>3, <2>2 DEF OnlyMoves, Open, IsCall
      <3> QED BY <3>1, <2>2, OpenFinite
    <2> QED BY <2>1, <2>2
  <1>5. Open({"reply"}, {"busy"})' = Open({"reply"}, {"busy"})
    BY <1>1, <1>3 DEF OnlyMoves, Open, IsCall, Ran
  <1>6. \A os \in {{"ok"}, Failed} : OpenAudited(os)' = OpenAudited(os)
    BY <1>1, <1>3 DEF OnlyMoves, OpenAudited, IsCall
  <1>7. \A os : AllTold(os)' = AllTold(os) /\ AuditedTold(os)' = AuditedTold(os)
    BY <1>1, ToldSame
  <1>8. /\ AllTold(Ran) \in Nat /\ AllTold(Failed) \in Nat
        /\ Cardinality(Open({"audit", "reply"}, Ran)) \in Nat
        /\ Cardinality(Open({"audit", "reply"}, Failed)) \in Nat
    BY ToldNat, OpenFinite DEF LedgerInv, GateInv
  <1>9. CallsTold'
    <2>1. Cardinality(Open({"audit", "reply"}, Ran)') = Cardinality(Open({"audit", "reply"}, Ran)) + 1
      BY <1>1, <1>4
    <2>2. stats.calls = AllTold(Ran) + Cardinality(Open({"audit", "reply"}, Ran))
      BY DEF LedgerInv, Ledger, CallsTold
    <2>3. stats'.calls = AllTold(Ran) + Cardinality(Open({"audit", "reply"}, Ran)')
      BY <1>2, <1>8, <2>1, <2>2
    <2> QED BY <1>7, <2>3 DEF CallsTold
  <1>10. ErrorsTold'
    <2>1. PICK d \in {0, 1} :
            /\ stats'.errors = stats.errors + d
            /\ Cardinality(Open({"audit", "reply"}, Failed)')
               = Cardinality(Open({"audit", "reply"}, Failed)) + d
      BY <1>1, <1>2, <1>4 DEF Failed, Ran
    <2>2. stats.errors = AllTold(Failed) + Cardinality(Open({"audit", "reply"}, Failed))
      BY DEF LedgerInv, Ledger, ErrorsTold
    <2>3. stats'.errors = AllTold(Failed) + Cardinality(Open({"audit", "reply"}, Failed)')
      BY <1>2, <1>8, <2>1, <2>2
    <2> QED BY <1>7, <2>3 DEF ErrorsTold
  <1>11. BusyTold'
    BY <1>1, <1>2, <1>5 DEF LedgerInv, Ledger, BusyTold
  <1>12. OkTold' /\ FailedTold'
    BY <1>1, <1>6, <1>7 DEF LedgerInv, Ledger, OkTold, FailedTold
  <1> QED BY <1>9, <1>10, <1>11, <1>12 DEF Ledger

LEMMA WriteAuditLedger ==
    ASSUME LedgerInv, NEW w \in Workers, WriteAudit(w)
    PROVE  Ledger'
  <1>1. /\ pc[w] = "audit" /\ pc' = [pc EXCEPT ![w] = "reply"]
        /\ req' = req /\ outcome' = outcome /\ IsCall(w) /\ outcome[w] \in Ran
        /\ Audited(req[w].tool) /\ UNCHANGED <<stats, answers>>
    BY DEF WriteAudit, Goto, LedgerInv, GateInv, CallsOnly, RanInv
  <1>2. /\ audit'.ok = audit.ok + (IF outcome[w] = "ok" THEN 1 ELSE 0)
        /\ audit'.failed = audit.failed + (IF outcome[w] = "ok" THEN 0 ELSE 1)
        /\ audit.ok \in Nat /\ audit.failed \in Nat
    BY DEF WriteAudit, LedgerInv, GateInv, TypeOK
  <1>3. pc'[w] = "reply" /\ IsCall(w)' /\ OnlyMoves(w)
    BY <1>1 DEF LedgerInv, GateInv, TypeOK, OnlyMoves, IsCall
  <1>4. \A os \in {Ran, Failed} : Open({"audit", "reply"}, os)' = Open({"audit", "reply"}, os)
    BY <1>1, <1>3 DEF OnlyMoves, Open, IsCall
  <1>5. Open({"reply"}, {"busy"})' = Open({"reply"}, {"busy"})
    BY <1>1, <1>3 DEF OnlyMoves, Open, IsCall, Ran
  <1>6. ASSUME NEW os \in {{"ok"}, Failed}
        PROVE  Cardinality(OpenAudited(os)')
               = Cardinality(OpenAudited(os)) + (IF outcome[w] \in os THEN 1 ELSE 0)
    <2>1. CASE outcome[w] \in os
      <3>1. OpenAudited(os)' = OpenAudited(os) \cup {w} /\ w \notin OpenAudited(os)
        BY <1>1, <1>3, <2>1 DEF OnlyMoves, OpenAudited, IsCall
      <3> QED BY <3>1, <2>1, OpenFinite, FS_AddElement
    <2>2. CASE outcome[w] \notin os
      <3>1. OpenAudited(os)' = OpenAudited(os)
        BY <1>1, <1>3, <2>2 DEF OnlyMoves, OpenAudited, IsCall
      <3> QED BY <3>1, <2>2, OpenFinite
    <2> QED BY <2>1, <2>2
  <1>7. \A os : AllTold(os)' = AllTold(os) /\ AuditedTold(os)' = AuditedTold(os)
    BY <1>1, ToldSame
  <1>8. /\ AuditedTold({"ok"}) \in Nat /\ AuditedTold(Failed) \in Nat
        /\ Cardinality(OpenAudited({"ok"})) \in Nat
        /\ Cardinality(OpenAudited(Failed)) \in Nat
    BY ToldNat, OpenFinite DEF LedgerInv, GateInv
  <1>9. CallsTold' /\ ErrorsTold'
    BY <1>1, <1>4, <1>7 DEF LedgerInv, Ledger, CallsTold, ErrorsTold
  <1>10. BusyTold'
    BY <1>1, <1>5 DEF LedgerInv, Ledger, BusyTold
  <1>11. OkTold'
    <2>1. PICK d \in {0, 1} :
            /\ audit'.ok = audit.ok + d
            /\ Cardinality(OpenAudited({"ok"})') = Cardinality(OpenAudited({"ok"})) + d
      BY <1>2, <1>6
    <2>2. audit.ok = AuditedTold({"ok"}) + Cardinality(OpenAudited({"ok"}))
      BY DEF LedgerInv, Ledger, OkTold
    <2>3. audit'.ok = AuditedTold({"ok"}) + Cardinality(OpenAudited({"ok"})')
      BY <1>2, <1>8, <2>1, <2>2
    <2> QED BY <1>7, <2>3 DEF OkTold
  <1>12. FailedTold'
    <2>1. PICK d \in {0, 1} :
            /\ audit'.failed = audit.failed + d
            /\ Cardinality(OpenAudited(Failed)') = Cardinality(OpenAudited(Failed)) + d
      BY <1>1, <1>2, <1>6 DEF Failed, Ran
    <2>2. audit.failed = AuditedTold(Failed) + Cardinality(OpenAudited(Failed))
      BY DEF LedgerInv, Ledger, FailedTold
    <2>3. audit'.failed = AuditedTold(Failed) + Cardinality(OpenAudited(Failed)')
      BY <1>2, <1>8, <2>1, <2>2
    <2> QED BY <1>7, <2>3 DEF FailedTold
  <1> QED BY <1>9, <1>10, <1>11, <1>12 DEF Ledger

LEMMA ReplyLedger ==
    ASSUME LedgerInv, NEW w \in Workers, Reply(w)
    PROVE  Ledger'
  <1>1. /\ pc[w] = "reply" /\ pc'[w] = "idle" /\ OnlyMoves(w)
        /\ ~ IsCall(w)' /\ UNCHANGED <<stats, audit>>
    BY DEF Reply, Goto, LedgerInv, GateInv, TypeOK, IsCall, NoRequest, OnlyMoves
  <1>2. CASE ~ IsCall(w)
    <2>1. UNCHANGED <<stats, audit, answers>> /\ ~ Counted(w) /\ ~ Counted(w)'
      BY <1>1, <1>2 DEF Reply, Counted
    <2> QED BY <1>1, <2>1, Undisturbed DEF LedgerInv
  <1>3. CASE IsCall(w)
    <2> DEFINE b == Audited(req[w].tool)
               o == outcome[w]
    <2>1. /\ b \in BOOLEAN /\ o \in Outcomes
          /\ answers' = [answers EXCEPT ![<<b, o>>] = @ + 1]
      BY <1>3 DEF Reply, LedgerInv, GateInv, TypeOK, Audited
    <2>2. ASSUME NEW os \in {Ran, Failed}
          PROVE  Cardinality(Open({"audit", "reply"}, os)')
                 = IF o \in os THEN Cardinality(Open({"audit", "reply"}, os)) - 1
                   ELSE Cardinality(Open({"audit", "reply"}, os))
      <3>1. Open({"audit", "reply"}, os)' = Open({"audit", "reply"}, os) \ {w}
        BY <1>1 DEF Open, OnlyMoves, IsCall
      <3>2. w \in Open({"audit", "reply"}, os) <=> o \in os
        BY <1>1, <1>3 DEF Open
      <3> QED BY <3>1, <3>2, OpenFinite, FS_RemoveElement
    <2>3. Cardinality(Open({"reply"}, {"busy"})')
          = IF o = "busy" THEN Cardinality(Open({"reply"}, {"busy"})) - 1
            ELSE Cardinality(Open({"reply"}, {"busy"}))
      <3>1. Open({"reply"}, {"busy"})' = Open({"reply"}, {"busy"}) \ {w}
        BY <1>1 DEF Open, OnlyMoves, IsCall
      <3>2. w \in Open({"reply"}, {"busy"}) <=> o = "busy"
        BY <1>1, <1>3 DEF Open
      <3> QED BY <3>1, <3>2, OpenFinite, FS_RemoveElement
    <2>4. ASSUME NEW os \in {{"ok"}, Failed}
          PROVE  Cardinality(OpenAudited(os)')
                 = IF b /\ o \in os THEN Cardinality(OpenAudited(os)) - 1
                   ELSE Cardinality(OpenAudited(os))
      <3>1. OpenAudited(os)' = OpenAudited(os) \ {w}
        BY <1>1 DEF OpenAudited, OnlyMoves, IsCall
      <3>2. w \in OpenAudited(os) <=> b /\ o \in os
        BY <1>1, <1>3 DEF OpenAudited
      <3> QED BY <3>1, <3>2, OpenFinite, FS_RemoveElement
    <2>5. ASSUME NEW os \in {Ran, Failed, {"ok"}}
          PROVE  /\ AllTold(os)' = IF o \in os THEN AllTold(os) + 1 ELSE AllTold(os)
                 /\ AuditedTold(os)' = IF b /\ o \in os THEN AuditedTold(os) + 1
                                       ELSE AuditedTold(os)
                 /\ AllTold(os) \in Nat /\ AuditedTold(os) \in Nat
      BY <2>1, ToldMore, ToldNat DEF LedgerInv, GateInv
    <2> HIDE DEF b, o
    <2>6. CallsTold' /\ ErrorsTold'
      <3>1. ASSUME NEW os \in {Ran, Failed}
            PROVE  (AllTold(os) + Cardinality(Open({"audit", "reply"}, os)))'
                   = AllTold(os) + Cardinality(Open({"audit", "reply"}, os))
        BY <2>2, <2>5, OpenFinite
      <3> QED BY <1>1, <3>1 DEF LedgerInv, Ledger, CallsTold, ErrorsTold
    <2>7. BusyTold'
      <3>1. PICK m, n, m1, n1 :
              /\ m \in Nat /\ n \in Nat
              /\ m = answers[<<TRUE, "busy">>] /\ n = answers[<<FALSE, "busy">>]
              /\ m1 = answers'[<<TRUE, "busy">>] /\ n1 = answers'[<<FALSE, "busy">>]
        BY DEF LedgerInv, GateInv, TypeOK, Outcomes
      <3>2. /\ m1 = IF b /\ o = "busy" THEN m + 1 ELSE m
            /\ n1 = IF ~ b /\ o = "busy" THEN n + 1 ELSE n
        BY <2>1, <3>1 DEF LedgerInv, GateInv, TypeOK, Outcomes
      <3>3. m1 + n1 + Cardinality(Open({"reply"}, {"busy"})')
            = m + n + Cardinality(Open({"reply"}, {"busy"}))
        BY <2>3, <3>1, <3>2, OpenFinite
      <3> QED BY <1>1, <3>1, <3>3 DEF LedgerInv, Ledger, BusyTold
    <2>8. OkTold' /\ FailedTold'
      <3>1. ASSUME NEW os \in {{"ok"}, Failed}
            PROVE  (AuditedTold(os) + Cardinality(OpenAudited(os)))'
                   = AuditedTold(os) + Cardinality(OpenAudited(os))
        BY <2>4, <2>5, OpenFinite
      <3> QED BY <1>1, <3>1 DEF LedgerInv, Ledger, OkTold, FailedTold
    <2> QED BY <2>6, <2>7, <2>8 DEF Ledger
  <1> QED BY <1>2, <1>3

LEMMA LedgerStep ==
    ASSUME GateOn, LedgerInv, [Next]_vars
    PROVE  Ledger'
  <1>a. Ledger /\ TypeOK /\ CallsOnly
    BY DEF LedgerInv, GateInv
  <1>b. ASSUME NEW w \in Workers, OnlyMoves(w), ~ Counted(w), ~ Counted(w)',
               UNCHANGED <<stats, audit, answers>>
        PROVE  Ledger'
    BY <1>a, <1>b, Undisturbed
  <1> USE DEF TypeOK, Goto, Ends, Counted, IsCall, Ran
  <1>1. ASSUME NEW w \in Workers, NEW r \in Requests, Admit(w, r) PROVE Ledger'
    <2>1. OnlyMoves(w) /\ ~ Counted(w) /\ ~ Counted(w)'
      BY <1>a, <1>1 DEF Admit, Receive, OnlyMoves
    <2> QED BY <1>b, <1>1, <2>1 DEF Admit
  <1>2. ASSUME NEW w \in Workers, NEW r \in Requests, Refuse(w, r) PROVE Ledger'
    <2>1. OnlyMoves(w) /\ ~ Counted(w) /\ ~ Counted(w)'
      BY <1>a, <1>2 DEF Refuse, Receive, OnlyMoves
    <2> QED BY <1>b, <1>2, <2>1 DEF Refuse
  <1>3. ASSUME NEW w \in Workers, ReadResource(w) PROVE Ledger'
    <2>1. OnlyMoves(w) /\ ~ Counted(w) /\ ~ Counted(w)'
      BY <1>a, <1>3 DEF ReadResource, Receive, OnlyMoves
    <2> QED BY <1>b, <1>3, <2>1 DEF ReadResource
  <1>4. ASSUME NEW w \in Workers, NEW i \in Ids, HandleCancelled(w, i) PROVE Ledger'
    <2>1. OnlyMoves(w) /\ ~ Counted(w) /\ ~ Counted(w)'
      BY <1>a, <1>4 DEF HandleCancelled, OnlyMoves
    <2> QED BY <1>b, <1>4, <2>1 DEF HandleCancelled
  <1>5. ASSUME NEW w \in Workers, AcquireGate(w) \/ Register(w) \/ RegisterRaises(w)
        PROVE  Ledger'
    <2>1. OnlyMoves(w) /\ ~ Counted(w) /\ ~ Counted(w)'
      BY <1>a, <1>5 DEF AcquireGate, Register, RegisterRaises, OnlyMoves
    <2> QED BY <1>b, <1>5, <2>1 DEF AcquireGate, Register, RegisterRaises
  <1>6. ASSUME NEW w \in Workers, Post(w) \/ FailOnWorker(w) \/ RunOnMain(w)
        PROVE  Ledger'
    <2>1. OnlyMoves(w) /\ ~ Counted(w) /\ ~ Counted(w)'
      BY <1>a, <1>6 DEF Post, FailOnWorker, RunOnMain, OnlyMoves
    <2> QED BY <1>b, <1>6, <2>1 DEF Post, FailOnWorker, RunOnMain
  <1>7. ASSUME NEW w \in Workers, BodyEnds(w) PROVE Ledger'
    <2>1. PICK out \in {"ok", "error", "cancelled"} : LeaveMain(w, out)
      BY <1>7 DEF BodyEnds, FinishOnMain, InterruptOnMain
    <2>2. OnlyMoves(w) /\ ~ Counted(w) /\ ~ Counted(w)'
      BY <1>a, <2>1 DEF LeaveMain, OnlyMoves
    <2> QED BY <1>b, <2>1, <2>2 DEF LeaveMain
  <1>8. ASSUME NEW w \in Workers, Unregister(w) \/ Release(w) PROVE Ledger'
    <2>1. OnlyMoves(w) /\ ~ Counted(w) /\ ~ Counted(w)'
      BY <1>a, <1>8, GateOn DEF Unregister, Release, OnlyMoves
    <2> QED BY <1>b, <1>8, <2>1 DEF Unregister, Release
  <1>9. CASE UNCHANGED vars
    <2>1. /\ Open({"audit", "reply"}, Ran)' = Open({"audit", "reply"}, Ran)
          /\ Open({"audit", "reply"}, Failed)' = Open({"audit", "reply"}, Failed)
          /\ Open({"reply"}, {"busy"})' = Open({"reply"}, {"busy"})
          /\ OpenAudited({"ok"})' = OpenAudited({"ok"})
          /\ OpenAudited(Failed)' = OpenAudited(Failed)
      BY <1>9 DEF vars, Open, OpenAudited
    <2> QED
      BY <1>a, <1>9, <2>1
      DEF vars, Ledger, CallsTold, ErrorsTold, BusyTold, OkTold, FailedTold,
          AllTold, AuditedTold, Answered
  <1> QED
    BY <1>1, <1>2, <1>3, <1>4, <1>5, <1>6, <1>7, <1>8, <1>9, GateOn,
       RejectBusyLedger, RecordLedger, WriteAuditLedger, ReplyLedger
    DEF Next, WorkerStep

LEMMA InitLedger == Init => RanInv /\ Ledger
  <1> SUFFICES ASSUME Init PROVE RanInv /\ Ledger
    OBVIOUS
  <1>1. RanInv
    BY DEF Init, RanInv
  <1>2. \A at, os : Open(at, os) = {} /\ OpenAudited(os) = {}
    BY DEF Init, Open, OpenAudited, IsCall, NoRequest
  <1>3. \A b \in BOOLEAN, o \in Outcomes : answers[<<b, o>>] = 0
    BY DEF Init
  <1>4. ASSUME NEW b \in BOOLEAN, NEW os PROVE Answered(b, os) = 0
    <2>1. answers[<<b, "ok">>] = 0 /\ answers[<<b, "error">>] = 0 /\ answers[<<b, "cancelled">>] = 0
      BY <1>3 DEF Outcomes
    <2> QED BY <2>1 DEF Answered
  <1>5. ASSUME NEW os PROVE AllTold(os) = 0 /\ AuditedTold(os) = 0
    <2>1. PICK m, n : m = Answered(TRUE, os) /\ n = Answered(FALSE, os)
      OBVIOUS
    <2>2. m = 0 /\ n = 0
      BY <1>4, <2>1
    <2>3. m + n = 0
      BY <2>2
    <2> QED BY <2>1, <2>2, <2>3 DEF AllTold, AuditedTold
  <1>6. Cardinality({}) = 0
    BY FS_EmptySet
  <1>7. /\ stats.calls = 0 /\ stats.errors = 0 /\ stats.busy = 0
        /\ audit.ok = 0 /\ audit.failed = 0
    BY DEF Init
  <1>8. CallsTold /\ ErrorsTold
    <2>1. \A os : AllTold(os) + Cardinality(Open({"audit", "reply"}, os)) = 0
      BY <1>2, <1>5, <1>6
    <2> QED BY <1>7, <2>1 DEF CallsTold, ErrorsTold
  <1>9. BusyTold
    <2>1. PICK m, n : m = answers[<<TRUE, "busy">>] /\ n = answers[<<FALSE, "busy">>]
      OBVIOUS
    <2>2. m = 0 /\ n = 0
      BY <1>3, <2>1 DEF Outcomes
    <2>3. m + n + Cardinality(Open({"reply"}, {"busy"})) = 0
      BY <1>2, <1>6, <2>2
    <2> QED BY <1>7, <2>1, <2>3 DEF BusyTold
  <1>10. OkTold /\ FailedTold
    <2>1. \A os : AuditedTold(os) + Cardinality(OpenAudited(os)) = 0
      BY <1>2, <1>5, <1>6
    <2> QED BY <1>7, <2>1 DEF OkTold, FailedTold
  <1> QED BY <1>1, <1>8, <1>9, <1>10 DEF Ledger

(* With the gate on, the counters of server_health and the records of the  *)
(* audit file are those of the replies: every executed call is counted and *)
(* (when unsafe or of an extension) recorded exactly once before its reply,*)
(* as a failure exactly when the reply is one; every turned-away call      *)
(* counts as busy.  Without the gate `_mcp_tools_call` records nothing.    *)
THEOREM LedgerAlwaysTells == GateOn => (Spec => []LedgerMatchesReplies)
  <1> SUFFICES ASSUME GateOn PROVE Spec => []LedgerMatchesReplies
    OBVIOUS
  <1>1. Init => RanInv /\ Ledger
    BY InitLedger
  <1>2. GateInv /\ RanInv /\ Ledger /\ [Next]_vars => RanInv' /\ Ledger'
    BY RanStep, LedgerStep, GateOn DEF LedgerInv
  <1>3. Ledger => LedgerMatchesReplies
    <2>1. /\ Unanswered({"audit", "reply"}, Ran) = Cardinality(Open({"audit", "reply"}, Ran))
          /\ Unanswered({"audit", "reply"}, Failed) = Cardinality(Open({"audit", "reply"}, Failed))
          /\ Unanswered({"reply"}, {"busy"}) = Cardinality(Open({"reply"}, {"busy"}))
      BY DEF Unanswered, Open
    <2>2. Ledger => StatsMatchReplies
      BY <2>1
      DEF Ledger, CallsTold, ErrorsTold, BusyTold, AllTold, StatsMatchReplies, Failed
    <2>3. Ledger => AuditMatchesReplies
      BY DEF Ledger, OkTold, FailedTold, AuditedTold, OpenAudited, AuditMatchesReplies, Failed
    <2> QED BY <2>2, <2>3 DEF LedgerMatchesReplies
  <1> QED BY <1>1, <1>2, <1>3, GateInvariant, PTL DEF Spec

(* `_record_call` and `_write_audit` of the finally, and the count of a      *)
(* busy answer, all hang on the gate.                                       *)
Unrecorded ==
    /\ stats = [calls |-> 0, errors |-> 0, busy |-> 0]
    /\ audit = [ok |-> 0, failed |-> 0]

NoneRecords == \A w \in Workers : pc[w] \notin {"record", "audit"}

LEMMA UnrecordedStep ==
    ASSUME ~ GateOn, TypeOK, Unrecorded, NoneRecords, [Next]_vars
    PROVE  Unrecorded' /\ NoneRecords'
  <1> USE DEF TypeOK, Unrecorded, NoneRecords, Goto
  <1>1. CASE UNCHANGED vars
    BY <1>1 DEF vars
  <1>2. ASSUME NEW w \in Workers, NEW r \in Requests, Admit(w, r) \/ Refuse(w, r)
        PROVE  Unrecorded' /\ NoneRecords'
    BY <1>2 DEF Admit, Refuse, Receive
  <1>3. ASSUME NEW w \in Workers, ReadResource(w) PROVE Unrecorded' /\ NoneRecords'
    BY <1>3 DEF ReadResource, Receive
  <1>4. ASSUME NEW w \in Workers, NEW i \in Ids, HandleCancelled(w, i)
        PROVE  Unrecorded' /\ NoneRecords'
    BY <1>4 DEF HandleCancelled
  <1>5. ASSUME NEW w \in Workers, AcquireGate(w) \/ Register(w) \/ RegisterRaises(w)
        PROVE  Unrecorded' /\ NoneRecords'
    BY <1>5 DEF AcquireGate, Register, RegisterRaises
  <1>6. ASSUME NEW w \in Workers, Post(w) \/ FailOnWorker(w) \/ RunOnMain(w)
        PROVE  Unrecorded' /\ NoneRecords'
    BY <1>6 DEF Post, FailOnWorker, RunOnMain
  <1>7. ASSUME NEW w \in Workers, BodyEnds(w) PROVE Unrecorded' /\ NoneRecords'
    BY <1>7 DEF BodyEnds, FinishOnMain, InterruptOnMain, LeaveMain
  <1>8. ASSUME NEW w \in Workers, Unregister(w) \/ Release(w) \/ Reply(w)
        PROVE  Unrecorded' /\ NoneRecords'
    BY <1>8, ~ GateOn DEF Unregister, Release, Reply
  <1>9. ASSUME NEW w \in Workers, RejectBusy(w) \/ Record(w) \/ WriteAudit(w)
        PROVE  FALSE
    BY <1>9, ~ GateOn DEF RejectBusy, Record, WriteAudit
  <1> QED
    BY <1>1, <1>2, <1>3, <1>4, <1>5, <1>6, <1>7, <1>8, <1>9 DEF Next, WorkerStep

(* With `max_concurrent_tools = 0` the tools run all the same, but no call  *)
(* is ever counted or audited, unsafe ones included (mcp.py:1282), although *)
(* the audit log is meant to hold every mutating call (README.md:83).       *)
THEOREM UngatedIsUnrecorded == ~ GateOn => (Spec => []Unrecorded)
  <1> SUFFICES ASSUME ~ GateOn PROVE Spec => []Unrecorded
    OBVIOUS
  <1>1. Init => Unrecorded /\ NoneRecords
    BY DEF Init, Unrecorded, NoneRecords
  <1>2. TypeOK /\ Unrecorded /\ NoneRecords /\ [Next]_vars => Unrecorded' /\ NoneRecords'
    BY UnrecordedStep, ~ GateOn
  <1> QED BY <1>1, <1>2, TypeCorrect, PTL DEF Spec

=============================================================================
