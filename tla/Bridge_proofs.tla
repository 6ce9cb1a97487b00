----------------------------- MODULE Bridge_proofs -----------------------------
(***************************************************************************)
(* For any finite number of calls and any number of crashes: inFlight      *)
(* counts what is out, the footer says what the bridge knows, and a busy   *)
(* IDA is not taken for a dead one.                                        *)
(***************************************************************************)
EXTENDS Bridge, FiniteSetTheorems, TLAPS

Waiting == {c \in Calls : phase[c] = "waiting"}

(* The footer never calls offline what the bridge believes to be there,    *)
(* nor online what it believes to be gone, and says busy while a request   *)
(* is out.  (It may say busy of an IDA that is gone: ida_status puts that  *)
(* there and leaves lastOnline alone.)                                     *)
FooterTells ==
    /\ IF lastOnline THEN footer # "offline" ELSE footer # "online"
    /\ lastOnline /\ inFlight > 0 => footer = "busy"

IInv == TypeOK /\ FooterTells

(* inFlight is a number: the waiting calls are finitely many.              *)
LEMMA WaitingFinite ==
    /\ IsFiniteSet(Waiting) /\ Cardinality(Waiting) \in Nat
    /\ Cardinality({c \in Calls : phase[c] = "waiting"}) = Cardinality(Waiting)
  BY BridgeAssumption, FS_Subset, FS_CardinalityType DEF Waiting

LEMMA InFlightNat == TypeOK => inFlight \in Nat
  BY WaitingFinite DEF TypeOK

(* A call that starts is counted, and one that settles is taken out again. *)
LEMMA CallCounted ==
    ASSUME TypeOK, NEW c \in Calls, phase[c] = "new", phase' = [phase EXCEPT ![c] = "waiting"]
    PROVE  Cardinality(Waiting') = Cardinality(Waiting) + 1
<1>1. Waiting' = Waiting \cup {c} /\ c \notin Waiting
  BY DEF TypeOK, Waiting
<1>. QED
  BY <1>1, WaitingFinite, FS_AddElement

LEMMA SettleCounted ==
    ASSUME TypeOK, NEW c \in Calls, phase[c] = "waiting", phase' = [phase EXCEPT ![c] = "over"]
    PROVE  Cardinality(Waiting') = Cardinality(Waiting) - 1
<1>1. Waiting' = Waiting \ {c} /\ c \in Waiting
  BY DEF TypeOK, Waiting
<1>. QED
  BY <1>1, WaitingFinite, FS_RemoveElement

LEMMA InitIInv == Init => IInv
<1> SUFFICES ASSUME Init PROVE IInv
  OBVIOUS
<1>1. {c \in Calls : phase[c] = "waiting"} = {}
  BY DEF Init
<1>2. inFlight = Cardinality({c \in Calls : phase[c] = "waiting"}) + (IF status = "call" THEN 1 ELSE 0)
  BY <1>1, FS_EmptySet DEF Init
<1>3. TypeOK
  BY <1>2 DEF Init, TypeOK
<1>4. FooterTells
  BY DEF Init, FooterTells
<1>. QED
  BY <1>3, <1>4 DEF IInv

(* Every variable keeps its type, and inFlight its count. *)
LEMMA TypeStep == TypeOK /\ [Next]_vars => TypeOK'
<1> SUFFICES ASSUME TypeOK, [Next]_vars PROVE TypeOK'
  OBVIOUS
<1> USE BridgeAssumption, WaitingFinite DEF TypeOK, server, view
<1>1. ASSUME NEW c \in Calls, CallTool(c) PROVE TypeOK'
  <2>1. Cardinality(Waiting') = Cardinality(Waiting) + 1
    BY <1>1, CallCounted DEF CallTool
  <2>2. footer' \in {"online", "busy", "offline"}
    BY <1>1 DEF CallTool, RefreshFooter, StatusText
  <2>. QED
    BY <1>1, <2>1, <2>2 DEF CallTool, Waiting
<1>2. ASSUME NEW c \in Calls, Settle(c), cancels' \in SUBSET Calls, hold' \in BOOLEAN PROVE TypeOK'
  <2>1. Cardinality(Waiting') = Cardinality(Waiting) - 1
    BY <1>2, SettleCounted DEF Settle
  <2>2. footer' \in {"online", "busy", "offline"}
    BY <1>2 DEF Settle, RefreshFooter, StatusText
  <2>. QED
    BY <1>2, <2>1, <2>2 DEF Settle, Waiting
<1>3. ASSUME NEW c \in Calls, Arrive(c) \/ ToolEnds(c) PROVE TypeOK'
  BY <1>3 DEF Arrive, ToolEnds
<1>4. ASSUME NEW c \in Calls, DeliverCancel(c) \/ LoseCancel(c) PROVE TypeOK'
  BY <1>4 DEF DeliverCancel, LoseCancel
<1>5. CASE HoldOver \/ GoDown \/ ComeUp
  BY <1>5 DEF HoldOver, GoDown, ComeUp
<1>6. CASE CheckBegin \/ PingAnswered \/ ListEnds
  BY <1>6 DEF CheckBegin, PingAnswered, ListEnds, SeenOnline, StatusText
<1>7. CASE PingFails
  BY <1>7 DEF PingFails, PingFailsTo
<1>8. CASE SwitchLevel
  BY <1>8 DEF SwitchLevel, SeenOnline, StatusText
<1>9. CASE StatusPing
  BY <1>9 DEF StatusPing, RefreshFooter, StatusText
<1>10. CASE StatusAnswered
  BY <1>10 DEF StatusAnswered, StatusText
<1>11. CASE StatusFails
  <2>1. /\ inFlight' = inFlight - 1 /\ status = "call" /\ status' = "idle" /\ phase' = phase
        /\ footer' \in {"busy", "offline"} /\ lastOnline' \in BOOLEAN
    BY <1>11 DEF StatusFails
  <2>2. inFlight' = Cardinality(Waiting)
    BY <2>1 DEF Waiting
  <2>3. hold' \in BOOLEAN /\ UNCHANGED <<server, cancels, tools, check>>
    BY <1>11 DEF StatusFails
  <2>. QED
    BY <2>1, <2>2, <2>3 DEF Waiting
<1>12. CASE UNCHANGED vars
  BY <1>12 DEF vars
<1>. QED
  BY <1>1, <1>2, <1>3, <1>4, <1>5, <1>6, <1>7, <1>8, <1>9, <1>10, <1>11, <1>12
  DEF Next, CallEnds, CheckStep, StatusStep, GetReply, ConnectionFails, GiveUp

(* The footer follows whoever changes what it is about. *)
LEMMA FooterStep == IInv /\ [Next]_vars => FooterTells'
<1> SUFFICES ASSUME IInv, [Next]_vars PROVE FooterTells'
  OBVIOUS
<1> USE InFlightNat DEF IInv, TypeOK, FooterTells, server, view
<1>1. ASSUME NEW c \in Calls, CallTool(c) PROVE FooterTells'
  BY <1>1 DEF CallTool, RefreshFooter, StatusText
<1>2. ASSUME NEW c \in Calls, Settle(c) PROVE FooterTells'
  BY <1>2 DEF Settle, RefreshFooter, StatusText
<1>3. ASSUME NEW c \in Calls, Arrive(c) \/ ToolEnds(c) PROVE FooterTells'
  BY <1>3 DEF Arrive, ToolEnds
<1>4. ASSUME NEW c \in Calls, DeliverCancel(c) \/ LoseCancel(c) PROVE FooterTells'
  BY <1>4 DEF DeliverCancel, LoseCancel
<1>5. CASE HoldOver \/ GoDown \/ ComeUp
  BY <1>5 DEF HoldOver, GoDown, ComeUp
<1>6. CASE CheckBegin \/ PingAnswered \/ ListEnds
  BY <1>6 DEF CheckBegin, PingAnswered, ListEnds, SeenOnline, StatusText
<1>7. CASE PingFails
  BY <1>7 DEF PingFails, PingFailsTo
<1>8. CASE SwitchLevel
  BY <1>8 DEF SwitchLevel, SeenOnline, StatusText
<1>9. CASE StatusPing
  BY <1>9 DEF StatusPing, RefreshFooter, StatusText
<1>10. CASE StatusAnswered
  BY <1>10 DEF StatusAnswered, StatusText
<1>11. CASE StatusFails
  BY <1>11 DEF StatusFails
<1>12. CASE UNCHANGED vars
  BY <1>12 DEF vars
<1>. QED
  BY <1>1, <1>2, <1>3, <1>4, <1>5, <1>6, <1>7, <1>8, <1>9, <1>10, <1>11, <1>12
  DEF Next, CallEnds, CheckStep, StatusStep, GetReply, ConnectionFails, GiveUp

LEMMA IInvStep == IInv /\ [Next]_vars => IInv'
  BY TypeStep, FooterStep DEF IInv

LEMMA Invariance == Spec => []IInv
  BY InitIInv, IInvStep, PTL DEF Spec

(* inFlight is the number of calls that wait, and ida_status.              *)
THEOREM TypeCorrect == Spec => []TypeOK
<1>1. IInv => TypeOK
  BY DEF IInv
<1>. QED
  BY <1>1, Invariance, PTL

(* The footer contradicts nothing the bridge knows: not lastOnline, and    *)
(* not that one of its requests is out (refreshFooterQuietly).             *)
THEOREM FooterTellsAlways == Spec => []FooterTells
<1>1. IInv => FooterTells
  BY DEF IInv
<1>. QED
  BY <1>1, Invariance, PTL

(* What was online is called offline only when nothing is out or has just  *)
(* timed out ("Busy vs offline"), whatever fails in between.               *)
THEOREM BusyIsNotOfflineAlways == Spec => BusyIsNotOffline
<1> DEFINE Says == lastOnline /\ ~lastOnline' /\ ~SwitchLevel => ~(inFlight' > 0 \/ hold')
<1>1. ASSUME Next PROVE Says
  <2> SUFFICES ASSUME lastOnline, ~lastOnline', ~SwitchLevel PROVE ~(inFlight' > 0 \/ hold')
    OBVIOUS
  <2> USE DEF server, view
  <2>1. ASSUME NEW c \in Calls PROVE ~ (CallTool(c) \/ Settle(c) \/ Arrive(c) \/ ToolEnds(c)
                                        \/ DeliverCancel(c) \/ LoseCancel(c))
    BY DEF CallTool, Settle, Arrive, ToolEnds, DeliverCancel, LoseCancel
  <2>2. ~ (HoldOver \/ GoDown \/ ComeUp \/ CheckBegin \/ PingAnswered \/ ListEnds)
    BY DEF HoldOver, GoDown, ComeUp, CheckBegin, PingAnswered, ListEnds, SeenOnline
  <2>3. ~ (StatusPing \/ StatusAnswered)
    BY DEF StatusPing, StatusAnswered
  <2>4. PingFails \/ StatusFails
    BY <1>1, <2>1, <2>2, <2>3
    DEF Next, CallEnds, CheckStep, StatusStep, GetReply, ConnectionFails, GiveUp
  <2>5. CASE PingFails
    BY <2>5 DEF PingFails, PingFailsTo, LikelyBusy
  <2>6. CASE StatusFails
    BY <2>6 DEF StatusFails
  <2>. QED
    BY <2>4, <2>5, <2>6
<1>2. [Next]_vars => [Says]_vars
  BY <1>1
<1>. QED
  BY <1>2, PTL DEF Spec, BusyIsNotOffline
=============================================================================
