---------------------------- MODULE SerialCalls ----------------------------
(***************************************************************************)
(* What the server promises its clients about tool calls (README, "What    *)
(* the IDA UI does while a tool runs"): tools run one at a time, a call    *)
(* that finds another one in progress is turned away as busy at once, a    *)
(* call that finds none is run, and every call is answered.                *)
(***************************************************************************)
CONSTANTS Workers, NoWorker

VARIABLES
    holder,   \* whose call is in progress, NoWorker if none
    phase     \* what each connection's current call has come to

vars == <<holder, phase>>

Phases == {"idle", "asked", "running", "done", "busy"}

Init == holder = NoWorker /\ phase = [w \in Workers |-> "idle"]

Go(w, from, to) == phase[w] = from /\ phase' = [phase EXCEPT ![w] = to]

Ask(w) == Go(w, "idle", "asked") /\ UNCHANGED holder

Start(w) == holder = NoWorker /\ Go(w, "asked", "running") /\ holder' = w

TurnAway(w) == holder # NoWorker /\ Go(w, "asked", "busy") /\ UNCHANGED holder

Finish(w) == holder = w /\ Go(w, "running", "done") /\ holder' = NoWorker

Answer(w) ==
    /\ \/ Go(w, "done", "idle")
       \/ Go(w, "busy", "idle")
    /\ UNCHANGED holder

Next == \E w \in Workers :
            Ask(w) \/ Start(w) \/ TurnAway(w) \/ Finish(w) \/ Answer(w)

Fairness == \A w \in Workers :
                /\ WF_vars(Start(w) \/ TurnAway(w))
                /\ WF_vars(Finish(w))
                /\ WF_vars(Answer(w))

SafetySpec == Init /\ [][Next]_vars

Spec == SafetySpec /\ Fairness
============================================================================
