-------------------------- MODULE MainThread_proofs --------------------------
(***************************************************************************)
(* MainThread for any tools and any nesting depth.  The saved values form  *)
(* a chain: every frame holds what the frame below it had in force, and    *)
(* the values in force are those the innermost frame set - save for what   *)
(* the body whose hook struck has lost.                                    *)
(***************************************************************************)
EXTENDS MainThread, SequenceTheorems, TLAPS

(* The hook the innermost body of fs has in force. *)
HookOf(fs) == IF fs = <<>> THEN 0 ELSE IF fs[Len(fs)].struck = "no" THEN Len(fs) ELSE 0

(* Each frame saved the hook of the body below, and that body's pre-call    *)
(* value, unless the hook of that body struck in `runned`.                 *)
ChainOf(fs) ==
    \A i \in 1..Len(fs) :
        IF i = 1 THEN fs[i].profile = 0 /\ fs[i].pre = None
        ELSE /\ fs[i].profile = (IF fs[i - 1].struck = "no" THEN i - 1 ELSE 0)
             /\ fs[i - 1].struck = "runned" \/ fs[i].pre = fs[i - 1].batch

(* Only the innermost body is a dbg_start, and its pre-call value is right. *)
OnTop(fs) ==
    \A i \in 1..Len(fs) :
        /\ i < Len(fs) => fs[i].tool \notin Starters
        /\ fs[i].struck = "runned" => fs[i].tool \notin Starters

PreOf(fs, p) ==
    IF fs = <<>> THEN p = None ELSE fs[Len(fs)].struck = "runned" \/ p = fs[Len(fs)].batch

InForce ==
    /\ profile = HookOf(frames) /\ PreOf(frames, pre)
    /\ frames = <<>> => entries = 0 /\ (deadline # None => cut)

IInv == TypeOK /\ ChainOf(frames) /\ OnTop(frames) /\ InForce

LEMMA InitIInv == Init => IInv
<1> SUFFICES ASSUME Init PROVE IInv
  OBVIOUS
<1>1. frames = <<>> /\ Len(frames) = 0 /\ frames \in Seq(Frame)
  BY DEF Init
<1>2. TypeOK
  <2>1. /\ entries \in 0..1 /\ batch \in {0, 1} /\ pre \in Value /\ hook \in Value
        /\ deadline \in Nat \union {None} /\ profile \in Nat
    BY DEF Init, Value
  <2>2. cut \in BOOLEAN /\ nested \in BOOLEAN /\ stray \in BOOLEAN
    BY DEF Init
  <2>. QED
    BY <1>1, <2>1, <2>2, MainThreadAssumption DEF TypeOK
<1>3. ChainOf(frames) /\ OnTop(frames) /\ InForce
  BY <1>1 DEF Init, ChainOf, OnTop, InForce, HookOf, PreOf
<1>. QED
  BY <1>2, <1>3 DEF IInv

(* What popping the last element of a sequence leaves. *)
LEMMA PopFacts ==
  ASSUME NEW S, NEW s \in Seq(S), s # <<>>
  PROVE  /\ Len(s) \in Nat /\ Len(s) > 0 /\ s[Len(s)] \in S
         /\ SubSeq(s, 1, Len(s) - 1) \in Seq(S)
         /\ Len(SubSeq(s, 1, Len(s) - 1)) = Len(s) - 1
         /\ \A i \in 1..(Len(s) - 1) : SubSeq(s, 1, Len(s) - 1)[i] = s[i]
<1>1. Len(s) \in Nat /\ Len(s) > 0 /\ s[Len(s)] \in S
  OBVIOUS
<1>2. \A i \in 1..(Len(s) - 1) : s[i] \in S
  OBVIOUS
<1>3. Len(s) - 1 \in Int /\ (1 <= Len(s) - 1 \/ Len(s) = 1)
  <2>1. \A k \in Nat : k > 0 => k - 1 \in Int /\ (1 <= k - 1 \/ k = 1)
    OBVIOUS
  <2>. QED BY <1>1, <2>1
<1> DEFINE r == SubSeq(s, 1, Len(s) - 1)
<1>4. /\ r \in Seq(S)
      /\ Len(r) = IF 1 <= Len(s) - 1 THEN Len(s) - 1 - 1 + 1 ELSE 0
      /\ \A i \in 1..(Len(s) - 1 - 1 + 1) : r[i] = s[1 + i - 1]
  <2> HIDE DEF r
  <2>. QED BY <1>2, <1>3, SubSeqProperties DEF r
<1> HIDE DEF r
<1>5. Len(r) = Len(s) - 1
  BY <1>1, <1>3, <1>4
<1>6. ASSUME NEW i \in 1..(Len(s) - 1) PROVE r[i] = s[i]
  BY <1>1, <1>4, <1>6
<1>. QED
  BY <1>1, <1>4, <1>5, <1>6 DEF r


(* What losing its hook does to the innermost body of fs. *)
LEMMA StruckFacts ==
  ASSUME NEW fs \in Seq(Frame), NEW there \in {"body", "runned"}
  PROVE  /\ Struck(fs, there) \in Seq(Frame)
         /\ Len(Struck(fs, there)) = Len(fs)
         /\ Struck(fs, there) = <<>> <=> fs = <<>>
         /\ \A i \in 1..Len(fs) :
               /\ Struck(fs, there)[i].tool = fs[i].tool
               /\ Struck(fs, there)[i].batch = fs[i].batch
               /\ Struck(fs, there)[i].pre = fs[i].pre
               /\ Struck(fs, there)[i].profile = fs[i].profile
               /\ Struck(fs, there)[i].armed = fs[i].armed
               /\ Struck(fs, there)[i].struck =
                     IF i = Len(fs) /\ fs[i].struck = "no" THEN there ELSE fs[i].struck
<1>1. CASE fs = <<>>
  BY <1>1 DEF Struck
<1>2. CASE fs # <<>>
  <2> DEFINE n == Len(fs)
             g == [fs[n] EXCEPT !.struck = IF @ = "no" THEN there ELSE @]
  <2>1. n \in 1..Len(fs) /\ fs[n] \in Frame
    BY <1>2, PopFacts
  <2>2. /\ g \in Frame /\ g.tool = fs[n].tool /\ g.batch = fs[n].batch /\ g.pre = fs[n].pre
        /\ g.profile = fs[n].profile /\ g.armed = fs[n].armed
        /\ g.struck = IF fs[n].struck = "no" THEN there ELSE fs[n].struck
    BY <2>1 DEF Frame
  <2>3. Struck(fs, there) = [fs EXCEPT ![n] = g]
    BY <1>2 DEF Struck
  <2> HIDE DEF g
  <2>4. /\ [fs EXCEPT ![n] = g] \in Seq(Frame) /\ Len([fs EXCEPT ![n] = g]) = Len(fs)
        /\ \A i \in 1..Len(fs) : [fs EXCEPT ![n] = g][i] = IF i = n THEN g ELSE fs[i]
    BY <2>1, <2>2, ExceptSeq
  <2>5. Struck(fs, there) # <<>>
    BY <2>1, <2>3, <2>4
  <2>. QED
    BY <1>2, <2>2, <2>3, <2>4, <2>5
<1>. QED
  BY <1>1, <1>2

(* The chain stands when the innermost body loses its hook. *)
LEMMA StruckChain ==
  ASSUME NEW fs \in Seq(Frame), ChainOf(fs), OnTop(fs), NEW there \in {"body", "runned"},
         fs # <<>> /\ there = "runned" => fs[Len(fs)].tool \notin Starters
  PROVE  ChainOf(Struck(fs, there)) /\ OnTop(Struck(fs, there)) /\ HookOf(Struck(fs, there)) = 0
<1> DEFINE s == Struck(fs, there)
<1>1. /\ s \in Seq(Frame) /\ Len(s) = Len(fs) /\ (s = <<>> <=> fs = <<>>) /\ Len(fs) \in Nat
      /\ \A i \in 1..Len(fs) :
            /\ s[i].tool = fs[i].tool /\ s[i].batch = fs[i].batch
            /\ s[i].pre = fs[i].pre /\ s[i].profile = fs[i].profile
            /\ s[i].struck = IF i = Len(fs) /\ fs[i].struck = "no" THEN there ELSE fs[i].struck
  BY StruckFacts
<1> HIDE DEF s
<1>2. ChainOf(s)
  <2> SUFFICES ASSUME NEW i \in 1..Len(fs)
               PROVE  IF i = 1 THEN s[i].profile = 0 /\ s[i].pre = None
                      ELSE /\ s[i].profile = (IF s[i - 1].struck = "no" THEN i - 1 ELSE 0)
                           /\ s[i - 1].struck = "runned" \/ s[i].pre = s[i - 1].batch
    BY <1>1 DEF ChainOf
  <2>1. i # 1 => i - 1 \in 1..Len(fs) /\ i - 1 # Len(fs)
    BY <1>1
  <2>2. i # 1 => s[i - 1].struck = fs[i - 1].struck /\ s[i - 1].batch = fs[i - 1].batch
    BY <1>1, <2>1
  <2>. QED
    BY <1>1, <2>1, <2>2 DEF ChainOf
<1>3. OnTop(s)
  BY <1>1 DEF OnTop
<1>4. HookOf(s) = 0
  <2>1. CASE fs # <<>>
    <3>1. Len(fs) \in 1..Len(fs)
      BY <2>1, PopFacts
    <3>. QED
      BY <1>1, <2>1, <3>1 DEF HookOf
  <2>. QED
    BY <1>1, <2>1 DEF HookOf
<1>. QED
  BY <1>2, <1>3, <1>4 DEF s

(* ... and when that body is over: the frame below is innermost again, and  *)
(* what was saved is what that one has in force.                           *)
LEMMA PopChain ==
  ASSUME NEW fs \in Seq(Frame), fs # <<>>, ChainOf(fs), OnTop(fs)
  PROVE  LET f == fs[Len(fs)]  r == Front(fs) IN
         /\ r \in Seq(Frame) /\ Len(r) = Len(fs) - 1 /\ f \in Frame
         /\ \A i \in 1..Len(r) : r[i] = fs[i] /\ r[i].tool \notin Starters
         /\ ChainOf(r) /\ OnTop(r)
         /\ f.profile = HookOf(r) /\ PreOf(r, f.pre)
<1> DEFINE n == Len(fs)
           r == SubSeq(fs, 1, n - 1)
<1>1. Front(fs) = r
  BY DEF Front
<1>2. /\ n \in Nat /\ n > 0 /\ fs[n] \in Frame
      /\ r \in Seq(Frame) /\ Len(r) = n - 1
      /\ \A i \in 1..(n - 1) : r[i] = fs[i]
  BY PopFacts
<1> HIDE DEF r
<1>3. \A i \in 1..Len(r) : r[i] = fs[i] /\ r[i].tool \notin Starters
  BY <1>2 DEF OnTop
<1>4. ChainOf(r)
  <2> SUFFICES ASSUME NEW i \in 1..(n - 1)
               PROVE  IF i = 1 THEN r[i].profile = 0 /\ r[i].pre = None
                      ELSE /\ r[i].profile = (IF r[i - 1].struck = "no" THEN i - 1 ELSE 0)
                           /\ r[i - 1].struck = "runned" \/ r[i].pre = r[i - 1].batch
    BY <1>2 DEF ChainOf
  <2>1. i \in 1..n /\ (i # 1 => i - 1 \in 1..(n - 1))
    BY <1>2
  <2>. QED
    BY <1>2, <2>1 DEF ChainOf
<1>5. OnTop(r)
  BY <1>2, <1>3 DEF OnTop
<1>6. n \in 1..n /\ (n # 1 => n - 1 \in 1..(n - 1))
  BY <1>2
<1>7. CASE n = 1
  <2>1. r = <<>> /\ fs[1].profile = 0 /\ fs[1].pre = None
    BY <1>2, <1>6, <1>7 DEF ChainOf
  <2>. QED
    BY <1>1, <1>2, <1>3, <1>4, <1>5, <1>7, <2>1 DEF HookOf, PreOf
<1>8. CASE n # 1
  <2>1. /\ r # <<>> /\ r[n - 1] = fs[n - 1]
        /\ fs[n].profile = (IF fs[n - 1].struck = "no" THEN n - 1 ELSE 0)
        /\ fs[n - 1].struck = "runned" \/ fs[n].pre = fs[n - 1].batch
    BY <1>2, <1>6, <1>8 DEF ChainOf
  <2>. QED
    BY <1>1, <1>2, <1>3, <1>4, <1>5, <2>1 DEF HookOf, PreOf
<1>. QED
  BY <1>7, <1>8

LEMMA EnterIInv == ASSUME IInv, NEW t \in Tools, Enter(t) PROVE IInv'
<1> DEFINE f == [tool |-> t, batch |-> batch, pre |-> pre, profile |-> profile, armed |-> FALSE,
                 struck |-> "no"]
<1>1. /\ f \in Frame /\ frames \in Seq(Frame) /\ MayCall
      /\ frames' = Append(frames, f) /\ Len(frames) < MaxDepth
      /\ entries' = 1 /\ batch' = 1 /\ pre' = batch
      /\ deadline' = Len(frames') /\ profile' = Len(frames')
      /\ UNCHANGED <<hook, cut, nested, stray>>
  BY DEF Enter, Push, Frame, Value, IInv, TypeOK
<1>2. /\ frames' \in Seq(Frame) /\ Len(frames') = Len(frames) + 1 /\ Len(frames) \in Nat
      /\ frames' # <<>> /\ frames'[Len(frames')] = f
      /\ \A i \in 1..Len(frames) : frames'[i] = frames[i]
  <2> HIDE DEF f
  <2>. QED BY <1>1
<1>3. f.struck = "no" /\ f.batch = batch /\ f.pre = pre /\ f.profile = profile
  OBVIOUS
<1> HIDE DEF f
<1>4. TypeOK'
  BY <1>1, <1>2, MainThreadAssumption DEF IInv, TypeOK, Value
<1>5. frames # <<>> => Len(frames) \in 1..Len(frames)
  BY <1>1, PopFacts
<1>6. ChainOf(frames')
  <2> SUFFICES ASSUME NEW i \in 1..Len(frames')
               PROVE  IF i = 1 THEN frames'[i].profile = 0 /\ frames'[i].pre = None
                      ELSE /\ frames'[i].profile = (IF frames'[i - 1].struck = "no" THEN i - 1 ELSE 0)
                           /\ frames'[i - 1].struck = "runned" \/ frames'[i].pre = frames'[i - 1].batch
    BY DEF ChainOf
  <2>1. i # 1 => i - 1 \in 1..Len(frames)
    BY <1>2
  <2>2. CASE i = Len(frames')
    <3>1. i = 1 <=> frames = <<>>
      BY <1>1, <1>2, <1>5, <2>2
    <3>. QED
      BY <1>2, <1>3, <2>1, <2>2, <3>1 DEF IInv, InForce, HookOf, PreOf
  <2>3. CASE i \in 1..Len(frames)
    BY <1>2, <2>1, <2>3 DEF IInv, ChainOf
  <2>. QED
    BY <1>2, <2>2, <2>3
<1>7. OnTop(frames')
  <2>1. frames # <<>> => frames[Len(frames)].tool \notin Starters
    BY <1>1 DEF MayCall, Last
  <2>2. \A i \in 1..Len(frames') : i = Len(frames') \/ i \in 1..Len(frames)
    BY <1>2
  <2>3. \A i \in 1..Len(frames) : frames[i].tool \notin Starters
    BY <1>1, <2>1 DEF IInv, OnTop
  <2>. QED
    BY <1>2, <1>3, <2>2, <2>3 DEF OnTop
<1>8. InForce'
  BY <1>1, <1>2, <1>3 DEF InForce, HookOf, PreOf
<1>. QED
  BY <1>4, <1>6, <1>7, <1>8 DEF IInv

LEMMA HookRaisesIInv == ASSUME IInv, HookRaises PROVE IInv'
<1>1. /\ frames' = Struck(frames, "body") /\ frames # <<>> /\ profile' = 0
      /\ UNCHANGED <<entries, batch, pre, deadline, hook, cut, nested, stray>>
  BY DEF HookRaises
<1>2. frames \in Seq(Frame) /\ Len(frames) \in 1..Len(frames)
  BY <1>1, PopFacts DEF IInv, TypeOK
<1>3. ChainOf(frames') /\ OnTop(frames') /\ HookOf(frames') = 0
  BY <1>1, <1>2, StruckChain DEF IInv
<1>4. /\ frames' \in Seq(Frame) /\ Len(frames') = Len(frames) /\ frames' # <<>>
      /\ frames'[Len(frames)].batch = frames[Len(frames)].batch
      /\ frames[Len(frames)].struck = "runned" => frames'[Len(frames)].struck = "runned"
  BY <1>1, <1>2, StruckFacts
<1>5. TypeOK'
  BY <1>1, <1>4 DEF IInv, TypeOK
<1>6. InForce'
  BY <1>1, <1>3, <1>4 DEF IInv, InForce, PreOf
<1>. QED
  BY <1>3, <1>5, <1>6 DEF IInv

LEMMA EnterStruckIInv == ASSUME IInv, EnterStruck PROVE IInv'
<1>1. /\ frames' = Struck(frames, "runned") /\ frames # <<>> /\ profile' = 0 /\ profile # 0
      /\ entries' = 1 /\ batch' \in {batch, 1} /\ pre' \in {pre, batch} /\ MayCall
      /\ UNCHANGED <<deadline, hook, cut, nested, stray>>
  BY DEF EnterStruck
<1>2. frames \in Seq(Frame) /\ Len(frames) \in 1..Len(frames)
  BY <1>1, PopFacts DEF IInv, TypeOK
<1>3. ChainOf(frames') /\ OnTop(frames') /\ HookOf(frames') = 0
  BY <1>1, <1>2, StruckChain DEF IInv, MayCall, Last
<1>4. /\ frames' \in Seq(Frame) /\ Len(frames') = Len(frames) /\ frames' # <<>>
      /\ frames'[Len(frames)].struck = "runned"
  BY <1>1, <1>2, StruckFacts DEF IInv, InForce, HookOf
<1>5. TypeOK'
  BY <1>1, <1>4 DEF IInv, TypeOK, Value
<1>6. InForce'
  BY <1>1, <1>3, <1>4 DEF IInv, InForce, PreOf
<1>. QED
  BY <1>3, <1>5, <1>6 DEF IInv

(* The entry a body leaves is the last one. *)
LEMMA EntriesLeftIs == TypeOK => EntriesLeft = 0
  BY DEF TypeOK, EntriesLeft

LEMMA LeaveIInv == ASSUME IInv, NEW completed \in BOOLEAN, Leave(completed) PROVE IInv'
<1>1. /\ frames # <<>> /\ frames' = Front(frames)
      /\ batch' \in {batch, frames[Len(frames)].batch}
      /\ pre' = frames[Len(frames)].pre /\ profile' = frames[Len(frames)].profile
      /\ deadline' = None /\ entries' = 0
      /\ cut' = FALSE /\ UNCHANGED <<hook, nested, stray>>
  BY EntriesLeftIs DEF Leave, LeaveWith, Restored, Last, IInv
<1>2. /\ frames' \in Seq(Frame) /\ Len(frames') = Len(frames) - 1 /\ frames[Len(frames)] \in Frame
      /\ ChainOf(frames') /\ OnTop(frames')
      /\ frames[Len(frames)].profile = HookOf(frames') /\ PreOf(frames', frames[Len(frames)].pre)
  BY <1>1, PopChain DEF IInv, TypeOK
<1>3. TypeOK'
  <2>1. frames[Len(frames)].batch \in {0, 1} /\ frames[Len(frames)].pre \in Value /\ frames[Len(frames)].profile \in Nat
    BY <1>2 DEF Frame
  <2>2. Len(frames') <= MaxDepth
    BY <1>1, <1>2, PopFacts, MainThreadAssumption DEF IInv, TypeOK
  <2>3. batch' \in {0, 1} /\ pre' \in Value /\ profile' \in Nat /\ entries' \in 0..1
    BY <1>1, <2>1 DEF IInv, TypeOK
  <2>. QED
    BY <1>1, <1>2, <2>2, <2>3 DEF IInv, TypeOK
<1>4. InForce'
  BY <1>1, <1>2 DEF InForce
<1>. QED
  BY <1>2, <1>3, <1>4 DEF IInv

LEMMA CleanUpStruckIInv == ASSUME IInv, CleanUpStruck PROVE IInv'
<1> DEFINE r == Front(frames)
<1>1. /\ frames # <<>> /\ frames' = Struck(r, "body")
      /\ batch' = frames[Len(frames)].batch /\ pre' = frames[Len(frames)].pre
      /\ profile' = 0 /\ deadline' = deadline /\ entries' = 0
      /\ cut' = TRUE /\ UNCHANGED <<hook, nested, stray>>
  BY EntriesLeftIs DEF CleanUpStruck, Last, IInv
<1>2. /\ r \in Seq(Frame) /\ Len(r) = Len(frames) - 1 /\ frames[Len(frames)] \in Frame
      /\ ChainOf(r) /\ OnTop(r) /\ PreOf(r, frames[Len(frames)].pre)
  BY <1>1, PopChain DEF IInv, TypeOK
<1> HIDE DEF r
<1>3. ChainOf(frames') /\ OnTop(frames') /\ HookOf(frames') = 0
  BY <1>1, <1>2, StruckChain
<1>4. /\ frames' \in Seq(Frame) /\ Len(frames') = Len(r) /\ (frames' = <<>> <=> r = <<>>)
      /\ r # <<>> => /\ frames'[Len(r)].batch = r[Len(r)].batch
                     /\ r[Len(r)].struck = "runned" => frames'[Len(r)].struck = "runned"
  <2>1. r # <<>> => Len(r) \in 1..Len(r)
    BY <1>2, PopFacts
  <2>. QED
    BY <1>1, <1>2, <2>1, StruckFacts
<1>5. TypeOK'
  <2>1. frames[Len(frames)].batch \in {0, 1} /\ frames[Len(frames)].pre \in Value
    BY <1>2 DEF Frame
  <2>2. Len(frames') <= MaxDepth
    BY <1>1, <1>2, <1>4, PopFacts, MainThreadAssumption DEF IInv, TypeOK
  <2>. QED
    BY <1>1, <1>4, <2>1, <2>2 DEF IInv, TypeOK
<1>6. InForce'
  BY <1>1, <1>2, <1>3, <1>4 DEF InForce, PreOf
<1>. QED
  BY <1>3, <1>5, <1>6 DEF IInv

LEMMA LeaveStruckIInv == ASSUME IInv, NEW completed \in BOOLEAN, LeaveStruck(completed) PROVE IInv'
<1> DEFINE r == Front(frames)
<1>1. /\ frames # <<>> /\ frames' = Struck(r, "runned")
      /\ batch' \in {batch, frames[Len(frames)].batch} /\ pre' \in {pre, frames[Len(frames)].pre}
      /\ profile' = 0 /\ frames[Len(frames)].profile # 0 /\ deadline' = None /\ entries' \in {entries, 0}
      /\ cut' = FALSE /\ UNCHANGED <<hook, nested, stray>>
  BY EntriesLeftIs DEF LeaveStruck, Restored, Last, IInv
<1>2. /\ r \in Seq(Frame) /\ Len(r) = Len(frames) - 1 /\ frames[Len(frames)] \in Frame
      /\ ChainOf(r) /\ OnTop(r) /\ frames[Len(frames)].profile = HookOf(r)
      /\ \A i \in 1..Len(r) : r[i].tool \notin Starters
  BY <1>1, PopChain DEF IInv, TypeOK
<1> HIDE DEF r
<1>3. r # <<>> /\ r[Len(r)].struck = "no"
  BY <1>1, <1>2 DEF HookOf
<1>4. Len(r) \in 1..Len(r)
  BY <1>2, <1>3, PopFacts
<1>5. ChainOf(frames') /\ OnTop(frames') /\ HookOf(frames') = 0
  BY <1>1, <1>2, <1>4, StruckChain
<1>6. /\ frames' \in Seq(Frame) /\ Len(frames') = Len(r) /\ frames' # <<>>
      /\ frames'[Len(r)].struck = "runned"
  BY <1>1, <1>2, <1>3, <1>4, StruckFacts
<1>7. TypeOK'
  <2>1. frames[Len(frames)].batch \in {0, 1} /\ frames[Len(frames)].pre \in Value
    BY <1>2 DEF Frame
  <2>2. Len(frames') <= MaxDepth
    BY <1>1, <1>2, <1>6, PopFacts, MainThreadAssumption DEF IInv, TypeOK
  <2>3. batch' \in {0, 1} /\ pre' \in Value /\ profile' \in Nat /\ entries' \in 0..1
    BY <1>1, <2>1 DEF IInv, TypeOK
  <2>. QED
    BY <1>1, <1>6, <2>2, <2>3 DEF IInv, TypeOK
<1>8. InForce'
  BY <1>1, <1>5, <1>6 DEF InForce, PreOf
<1>. QED
  BY <1>5, <1>7, <1>8 DEF IInv

(* What arming its hook does to the innermost body. *)
LEMMA ArmedFacts ==
  ASSUME IInv, ArmHook
  PROVE  /\ frames # <<>> /\ Len(frames) \in 1..Len(frames)
         /\ frames' \in Seq(Frame) /\ Len(frames') = Len(frames) /\ frames' # <<>>
         /\ \A i \in 1..Len(frames) :
               /\ frames'[i].tool = frames[i].tool /\ frames'[i].batch = frames[i].batch
               /\ frames'[i].pre = frames[i].pre /\ frames'[i].profile = frames[i].profile
               /\ frames'[i].struck = frames[i].struck
               /\ frames'[i].armed = (i = Len(frames) \/ frames[i].armed)
<1> DEFINE n == Len(frames)
           g == [frames[n] EXCEPT !.armed = TRUE]
<1>1. frames # <<>> /\ frames' = [frames EXCEPT ![n] = g]
  BY DEF ArmHook, ArmHookFor
<1>2. frames \in Seq(Frame) /\ n \in 1..Len(frames) /\ frames[n] \in Frame
  BY <1>1, PopFacts DEF IInv, TypeOK
<1>3. /\ g \in Frame /\ g.batch = frames[n].batch /\ g.tool = frames[n].tool /\ g.armed = TRUE
      /\ g.pre = frames[n].pre /\ g.profile = frames[n].profile /\ g.struck = frames[n].struck
  BY <1>2 DEF Frame
<1> HIDE DEF g
<1>4. /\ frames' \in Seq(Frame) /\ Len(frames') = Len(frames)
      /\ \A i \in 1..Len(frames) : frames'[i] = IF i = n THEN g ELSE frames[i]
  BY <1>1, <1>2, <1>3, ExceptSeq
<1>5. ASSUME NEW i \in 1..Len(frames) PROVE frames'[i].armed = (i = n \/ frames[i].armed)
  <2>1. frames[i] \in Frame
    BY <1>2
  <2>2. frames[i].armed \in BOOLEAN
    BY <2>1 DEF Frame
  <2>3. CASE i = n
    BY <1>3, <1>4, <2>3
  <2>4. CASE i # n
    BY <1>4, <2>2, <2>4
  <2>. QED
    BY <2>3, <2>4
<1>6. frames' # <<>>
  BY <1>2, <1>4
<1>. QED
  BY <1>1, <1>2, <1>3, <1>4, <1>5, <1>6

LEMMA ArmHookIInv == ASSUME IInv, ArmHook PROVE IInv'
<1>1. /\ batch' \in {batch, hook} /\ (hook = None => batch' = batch)
      /\ hook' \in {0, pre} /\ (pre = None => hook' = 0)
      /\ nested' \in BOOLEAN /\ stray' \in BOOLEAN
      /\ UNCHANGED <<entries, pre, deadline, profile, cut>>
  BY DEF ArmHook, ArmHookFor, Inside
<1>2. TypeOK'
  BY <1>1, ArmedFacts, MainThreadAssumption DEF IInv, TypeOK, Value
<1>3. ChainOf(frames')
  <2> SUFFICES ASSUME NEW i \in 1..Len(frames)
               PROVE  IF i = 1 THEN frames'[i].profile = 0 /\ frames'[i].pre = None
                      ELSE /\ frames'[i].profile = (IF frames'[i - 1].struck = "no" THEN i - 1 ELSE 0)
                           /\ frames'[i - 1].struck = "runned" \/ frames'[i].pre = frames'[i - 1].batch
    BY ArmedFacts DEF ChainOf
  <2>1. i # 1 => i - 1 \in 1..Len(frames)
    BY ArmedFacts
  <2>. QED
    BY <2>1, ArmedFacts DEF IInv, ChainOf
<1>4. OnTop(frames')
  BY ArmedFacts DEF IInv, OnTop
<1>5. InForce'
  BY <1>1, ArmedFacts DEF IInv, InForce, HookOf, PreOf
<1>. QED
  BY <1>2, <1>3, <1>4, <1>5 DEF IInv

LEMMA NextIInv == IInv /\ [Next]_vars => IInv'
<1> SUFFICES ASSUME IInv, [Next]_vars PROVE IInv'
  OBVIOUS
<1>1. CASE RefuseNested
  <2>1. frames # <<>>
    BY <1>1 DEF RefuseNested, IInv, InForce
  <2>. QED
    BY <1>1, <2>1 DEF RefuseNested, IInv, TypeOK, InForce
<1>2. CASE HookRestores
  <2>1. stray' \in BOOLEAN
    BY <1>2 DEF HookRestores, Inside
  <2>. QED
    BY <1>2, <2>1, MainThreadAssumption DEF HookRestores, IInv, TypeOK, InForce, Value
<1>3. CASE UNCHANGED vars
  BY <1>3 DEF vars, IInv, TypeOK, InForce
<1>. QED
  BY EnterIInv, HookRaisesIInv, EnterStruckIInv, LeaveIInv, CleanUpStruckIInv, LeaveStruckIInv,
     ArmHookIInv, <1>1, <1>2, <1>3 DEF Next

LEMMA Invariant == Spec => []IInv
  BY InitIInv, NextIInv, PTL DEF Spec

(* The values are of their kinds, and call_stack never holds two entries. *)
THEOREM TypeCorrect == Spec => []TypeOK
<1>1. IInv => TypeOK
  BY DEF IInv
<1>. QED
  BY Invariant, <1>1, PTL

(* However bodies nest, are refused and raise, and wherever hooks strike,  *)
(* nothing of them is left on the main thread but the deadline of a tool   *)
(* whose clean-up was struck.                                              *)
THEOREM CleanAtIdleAlways == Spec => []CleanAtIdle
<1>1. IInv => CleanAtIdle
  BY DEF IInv, InForce, HookOf, PreOf, CleanAtIdle, Idle
<1>. QED
  BY Invariant, <1>1, PTL

(* A body, nested or not, is told the batch mode of its own caller, unless  *)
(* its hook struck in a nested `runned`; and the profile hook in force is   *)
(* the innermost body's or, when that one has lost it, none.               *)
THEOREM SavedInOrderAlways == Spec => []SavedInOrder
<1>1. IInv => PreIsCallers
  BY DEF IInv, InForce, PreOf, PreIsCallers, Idle, Last
<1>2. IInv => HookIsInnermost
  BY DEF IInv, InForce, HookOf, HookIsInnermost, Idle, Last
<1>. QED
  BY Invariant, <1>1, <1>2, PTL DEF SavedInOrder

(***************************************************************************)
(* Batch mode.  A tool called by a tool finds it on.  An outermost tool    *)
(* finds it off, or left on for the pending hook of a dbg_start, which      *)
(* will put 0 back.                                                        *)
(***************************************************************************)
LeftOn == hook # None /\ ~nested

Levels ==
    /\ hook # None => hook = IF nested THEN 1 ELSE 0
    /\ Inside(frames) => batch = 1
    /\ ~Inside(frames) /\ batch = 1 => LeftOn
    /\ \A i \in 1..Len(frames) : i # 1 => frames[i].batch = 1
    /\ frames # <<>> /\ frames[1].batch = 1 => Inside(frames) /\ LeftOn

BatchInv == IInv /\ (~stray => Levels)

(* Who runs inside: any tool under which another one runs, and an           *)
(* outermost one that is not a dbg_start with its hook armed.              *)
LEMMA InsideIs ==
  ASSUME NEW fs \in Seq(Frame), OnTop(fs)
  PROVE  Inside(fs) <=> fs # <<>> /\ (Len(fs) = 1 => fs[1].tool \notin Starters \/ ~fs[1].armed)
<1>1. DOMAIN fs = 1..Len(fs) /\ Len(fs) \in Nat
  OBVIOUS
<1>2. CASE Len(fs) > 1
  <2>1. 1 \in 1..Len(fs) /\ fs[1].tool \notin Starters /\ fs # <<>>
    BY <1>1, <1>2 DEF OnTop
  <2>. QED
    BY <1>1, <1>2, <2>1 DEF Inside
<1>3. CASE Len(fs) = 1
  <2>1. \A i \in 1..Len(fs) : i = 1
    BY <1>3
  <2>2. 1 \in 1..Len(fs) /\ fs # <<>>
    BY <1>3
  <2>. QED
    BY <1>1, <1>3, <2>1, <2>2 DEF Inside
<1>4. CASE Len(fs) = 0
  <2>1. fs = <<>> /\ 1..Len(fs) = {}
    BY <1>4
  <2>. QED
    BY <1>1, <2>1 DEF Inside
<1>. QED
  BY <1>1, <1>2, <1>3, <1>4

(* A body loses its hook: nobody's place changes. *)
LEMMA StruckInside ==
  ASSUME NEW fs \in Seq(Frame), NEW there \in {"body", "runned"}
  PROVE  Inside(Struck(fs, there)) <=> Inside(fs)
<1> DEFINE s == Struck(fs, there)
<1>1. /\ s \in Seq(Frame) /\ Len(s) = Len(fs)
      /\ \A i \in 1..Len(fs) : s[i].tool = fs[i].tool /\ s[i].armed = fs[i].armed
  BY StruckFacts
<1> HIDE DEF s
<1>2. DOMAIN s = 1..Len(fs) /\ DOMAIN fs = 1..Len(fs)
  BY <1>1
<1>3. Inside(s) <=> Inside(fs)
  BY <1>1, <1>2 DEF Inside
<1>. QED
  BY <1>3 DEF s

LEMMA EnterBatch == ASSUME BatchInv, NEW t \in Tools, Enter(t) PROVE BatchInv'
<1> DEFINE f == [tool |-> t, batch |-> batch, pre |-> pre, profile |-> profile, armed |-> FALSE,
                 struck |-> "no"]
<1>1. /\ f \in Frame /\ frames' = Append(frames, f) /\ frames \in Seq(Frame)
      /\ batch' = 1 /\ MayCall /\ UNCHANGED <<hook, nested, stray>>
  BY DEF Enter, Push, Frame, Value, BatchInv, IInv, TypeOK
<1>2. /\ Len(frames) \in Nat /\ Len(frames') = Len(frames) + 1
      /\ frames'[Len(frames')] = f /\ frames' # <<>>
      /\ \A i \in 1..Len(frames) : frames'[i] = frames[i]
  <2> HIDE DEF f
  <2>. QED BY <1>1
<1>3. f.armed = FALSE /\ f.batch = batch
  OBVIOUS
<1> HIDE DEF f
<1>4. IInv'
  BY EnterIInv DEF BatchInv
<1>5. Inside(frames')
  <2>1. Len(frames') \in DOMAIN frames' /\ ~frames'[Len(frames')].armed
    BY <1>2, <1>3, <1>4 DEF IInv, TypeOK
  <2>. QED
    BY <2>1 DEF Inside
<1>6. frames # <<>> => Inside(frames) /\ Len(frames) \in 1..Len(frames)
  <2>1. ASSUME frames # <<>> PROVE Len(frames) \in DOMAIN frames /\ frames[Len(frames)].tool \notin Starters
    BY <1>1, <2>1, PopFacts DEF MayCall, Last
  <2>. QED
    BY <1>1, <2>1 DEF Inside
<1>7. ASSUME ~stray, Levels PROVE Levels'
  <2>1. ASSUME NEW i \in 1..Len(frames'), i # 1 PROVE frames'[i].batch = 1
    <3>1. CASE i = Len(frames')
      <4>1. frames # <<>>
        BY <1>1, <1>2, <2>1, <3>1
      <4>. QED
        BY <1>2, <1>3, <1>6, <1>7, <3>1, <4>1 DEF Levels
    <3>2. CASE i \in 1..Len(frames)
      BY <1>2, <1>7, <2>1, <3>2 DEF Levels
    <3>. QED
      BY <1>2, <3>1, <3>2
  <2>2. frames'[1].batch = 1 => LeftOn
    <3>1. CASE frames = <<>>
      <4>1. frames'[1] = f /\ ~Inside(frames)
        BY <1>1, <1>2, <3>1 DEF Inside
      <4>. QED
        BY <1>3, <1>7, <4>1 DEF Levels
    <3>2. CASE frames # <<>>
      BY <1>2, <1>6, <1>7, <3>2 DEF Levels
    <3>. QED
      BY <3>1, <3>2
  <2>3. (LeftOn' <=> LeftOn) /\ (hook' # None => hook' = IF nested' THEN 1 ELSE 0)
    BY <1>1, <1>7 DEF Levels, LeftOn
  <2>. QED
    BY <1>1, <1>5, <2>1, <2>2, <2>3 DEF Levels
<1>. QED
  BY <1>1, <1>4, <1>7 DEF BatchInv

(* Of a nested body, the one below wants batch mode on. *)
LEMMA PopInside ==
  ASSUME IInv, frames # <<>>
  PROVE  /\ Len(frames) \in 1..Len(frames)
         /\ Len(frames) = 1 => Front(frames) = <<>> /\ ~Inside(Front(frames))
         /\ Len(frames) # 1 => /\ Front(frames) # <<>> /\ Inside(Front(frames)) /\ Inside(frames)
                               /\ 1 \in 1..Len(Front(frames))
<1> DEFINE r == Front(frames)
<1>1. /\ frames \in Seq(Frame) /\ r \in Seq(Frame) /\ Len(r) = Len(frames) - 1
      /\ \A i \in 1..Len(r) : r[i] = frames[i] /\ r[i].tool \notin Starters
  BY PopChain DEF IInv, TypeOK
<1>2. Len(frames) \in 1..Len(frames)
  BY <1>1, PopFacts
<1> HIDE DEF r
<1>3. CASE Len(frames) = 1
  <2>1. r = <<>> /\ DOMAIN r = {}
    BY <1>1, <1>3
  <2>. QED
    BY <1>2, <1>3, <2>1 DEF Inside, r
<1>4. CASE Len(frames) # 1
  <2>1. 1 \in 1..Len(r) /\ 1 \in DOMAIN r /\ 1 \in DOMAIN frames /\ r # <<>>
    BY <1>1, <1>2, <1>4
  <2>2. r[1].tool \notin Starters /\ frames[1].tool \notin Starters
    BY <1>1, <2>1
  <2>. QED
    BY <1>2, <1>4, <2>1, <2>2 DEF Inside, r
<1>. QED
  BY <1>3, <1>4

(* However the innermost body leaves: with the batch mode it found, with    *)
(* the one in force when it is a dbg_start that completed or was struck in *)
(* a nested `runned`.                                                      *)
LEMMA LeaveLevels ==
  ASSUME IInv, Levels, ~stray, frames # <<>>, UNCHANGED <<hook, nested>>,
         NEW r \in Seq(Frame), Len(r) = Len(frames) - 1, Inside(r) <=> Inside(Front(frames)),
         \A i \in 1..Len(r) : r[i].batch = frames[i].batch,
         frames' = r,
         \/ batch' = frames[Len(frames)].batch
         \/ batch' = batch /\ Len(frames) # 1
         \/ batch' = batch /\ frames[Len(frames)].tool \in Starters /\ frames[Len(frames)].armed
  PROVE  Levels'
<1>1. /\ Len(frames) \in 1..Len(frames) /\ frames \in Seq(Frame) /\ Len(frames) \in Nat
  BY PopInside DEF IInv, TypeOK
<1>2. CASE Len(frames) = 1
  <2>1. r = <<>> /\ ~Inside(r) /\ Len(r) = 0
    BY <1>2, PopInside
  <2>2. batch' = 1 => LeftOn
    <3>1. CASE batch' = frames[1].batch
      BY <3>1 DEF Levels
    <3>2. CASE batch' = batch /\ frames[1].tool \in Starters /\ frames[1].armed
      <4>1. ~Inside(frames)
        BY <1>1, <1>2, <3>2, InsideIs DEF IInv
      <4>. QED
        BY <3>2, <4>1 DEF Levels
    <3>. QED
      BY <1>2, <3>1, <3>2
  <2>. QED
    BY <2>1, <2>2 DEF Levels, LeftOn
<1>3. CASE Len(frames) # 1
  <2>1. Inside(r) /\ Inside(frames) /\ 1 \in 1..Len(r)
    <3>1. Len(r) >= 1
      BY <1>1, <1>3
    <3>. QED
      BY <1>3, <3>1, PopInside
  <2>2. batch' = 1
    BY <1>1, <1>3, <2>1 DEF Levels
  <2>3. \A i \in 1..Len(r) : i \in 1..Len(frames)
    BY <1>1
  <2>. QED
    BY <1>1, <2>1, <2>2, <2>3 DEF Levels, LeftOn
<1>. QED
  BY <1>2, <1>3

LEMMA LeaveBatch ==
  ASSUME BatchInv, NEW completed \in BOOLEAN,
         Leave(completed) \/ LeaveStruck(completed) \/ CleanUpStruck
  PROVE  BatchInv'
<1> DEFINE n == Len(frames)
<1>1. /\ frames # <<>> /\ UNCHANGED <<hook, nested, stray>>
      /\ frames' = Front(frames) \/ frames' = Struck(Front(frames), "body")
            \/ frames' = Struck(Front(frames), "runned")
      /\ \/ batch' = frames[n].batch
         \/ batch' = batch /\ frames[n].profile # 0
         \/ batch' = batch /\ frames[n].tool \in Starters /\ frames[n].armed
  <2>1. CASE Leave(completed)
    BY <2>1 DEF Leave, LeaveWith, Completes, Restored, Last
  <2>2. CASE LeaveStruck(completed)
    BY <2>2 DEF LeaveStruck, Completes, Restored, Last
  <2>3. CASE CleanUpStruck
    BY <2>3 DEF CleanUpStruck, Last
  <2>. QED
    BY <2>1, <2>2, <2>3
<1>2. IInv'
  BY LeaveIInv, LeaveStruckIInv, CleanUpStruckIInv DEF BatchInv
<1>3. /\ Front(frames) \in Seq(Frame) /\ Len(Front(frames)) = n - 1 /\ frames[n].profile = HookOf(Front(frames))
      /\ \A i \in 1..Len(Front(frames)) : Front(frames)[i] = frames[i]
  BY <1>1, PopChain DEF BatchInv, IInv, TypeOK
<1>4. frames[n].profile # 0 => n # 1
  BY <1>1, <1>3, PopInside DEF BatchInv, HookOf
<1>5. /\ frames' \in Seq(Frame) /\ Len(frames') = n - 1 /\ (Inside(frames') <=> Inside(Front(frames)))
      /\ \A i \in 1..Len(frames') : frames'[i].batch = frames[i].batch
  <2>1. CASE frames' = Front(frames)
    BY <1>3, <2>1
  <2>2. ASSUME NEW w \in {"body", "runned"}, frames' = Struck(Front(frames), w)
        PROVE  /\ frames' \in Seq(Frame) /\ Len(frames') = n - 1
               /\ Inside(frames') <=> Inside(Front(frames))
               /\ \A i \in 1..Len(frames') : frames'[i].batch = frames[i].batch
    <3> DEFINE r == Front(frames)
    <3>1. /\ r \in Seq(Frame) /\ Len(r) = n - 1
          /\ \A i \in 1..Len(r) : r[i].batch = frames[i].batch
      BY <1>3
    <3> HIDE DEF r
    <3>2. /\ Struck(r, w) \in Seq(Frame) /\ Len(Struck(r, w)) = Len(r)
          /\ Inside(Struck(r, w)) <=> Inside(r)
          /\ \A i \in 1..Len(r) : Struck(r, w)[i].batch = r[i].batch
      BY <3>1, StruckFacts, StruckInside
    <3>3. frames' = Struck(r, w)
      BY <2>2 DEF r
    <3>4. /\ frames' \in Seq(Frame) /\ Len(frames') = n - 1
          /\ Inside(frames') <=> Inside(r)
          /\ \A i \in 1..Len(frames') : frames'[i].batch = frames[i].batch
      BY <3>1, <3>2, <3>3
    <3>. QED
      BY <3>4 DEF r
  <2>. QED
    BY <1>1, <2>1, <2>2
<1>6. ~stray => Levels'
  BY <1>1, <1>4, <1>5, LeaveLevels DEF BatchInv
<1>. QED
  BY <1>1, <1>2, <1>6 DEF BatchInv

LEMMA StruckBatch == ASSUME BatchInv, HookRaises \/ EnterStruck PROVE BatchInv'
<1>1. /\ frames # <<>> /\ UNCHANGED <<hook, nested, stray>> /\ batch' \in {batch, 1}
      /\ frames' = Struck(frames, "body") \/ frames' = Struck(frames, "runned")
      /\ batch' # batch => MayCall
  BY DEF HookRaises, EnterStruck
<1>2. IInv'
  BY HookRaisesIInv, EnterStruckIInv DEF BatchInv
<1>3. /\ frames \in Seq(Frame) /\ Len(frames') = Len(frames) /\ frames' # <<>>
      /\ (Inside(frames') <=> Inside(frames)) /\ Len(frames) \in 1..Len(frames)
      /\ \A i \in 1..Len(frames) : frames'[i].batch = frames[i].batch
  <2>1. frames \in Seq(Frame) /\ Len(frames) \in 1..Len(frames)
    BY <1>1, PopFacts DEF BatchInv, IInv, TypeOK
  <2>2. ASSUME NEW w \in {"body", "runned"}
        PROVE  /\ Len(Struck(frames, w)) = Len(frames) /\ Struck(frames, w) # <<>>
               /\ Inside(Struck(frames, w)) <=> Inside(frames)
               /\ \A i \in 1..Len(frames) : Struck(frames, w)[i].batch = frames[i].batch
    BY <1>1, <2>1, StruckFacts, StruckInside
  <2>. QED
    BY <1>1, <2>1, <2>2
<1>4. MayCall => Inside(frames)
  <2>1. MayCall => frames[Len(frames)].tool \notin Starters /\ Len(frames) \in DOMAIN frames
    BY <1>1, <1>3 DEF MayCall, Last
  <2>. QED
    BY <2>1 DEF Inside
<1>5. ASSUME ~stray, Levels PROVE Levels'
  <2>1. 1 \in 1..Len(frames) /\ frames'[1].batch = frames[1].batch
    BY <1>3
  <2>2. Inside(frames) => batch' = 1
    BY <1>1, <1>5 DEF Levels
  <2>3. ~Inside(frames) => batch' = batch
    BY <1>1, <1>4
  <2>. QED
    BY <1>1, <1>3, <1>5, <2>1, <2>2, <2>3 DEF Levels, LeftOn
<1>. QED
  BY <1>1, <1>2, <1>5 DEF BatchInv

LEMMA ArmHookBatch == ASSUME BatchInv, ArmHook PROVE BatchInv'
<1> DEFINE n == Len(frames)
<1>1. /\ frames[n].tool \in Starters /\ ~frames[n].armed
      /\ batch' = IF hook = None THEN batch ELSE hook
      /\ hook' = IF pre = None THEN 0 ELSE pre
      /\ nested' = Inside(frames')
      /\ ~stray' => /\ ~stray /\ (hook # None => nested = nested')
                    /\ frames[n].batch = 1 => nested'
  BY DEF ArmHook, ArmHookFor, Last
<1>2. IInv'
  BY ArmHookIInv DEF BatchInv
<1>3. /\ frames \in Seq(Frame) /\ n \in 1..Len(frames) /\ frames[n] \in Frame /\ frames[n].batch \in {0, 1}
  <2>1. frames \in Seq(Frame) /\ n \in 1..Len(frames)
    BY ArmedFacts DEF BatchInv, IInv, TypeOK
  <2>2. frames[n] \in Frame
    BY <2>1
  <2>. QED
    BY <2>1, <2>2 DEF Frame
<1>4. hook' = frames[n].batch /\ hook' # None
  <2>1. frames[n].struck # "runned" /\ frames # <<>>
    BY <1>1, <1>3, ArmedFacts DEF BatchInv, IInv, OnTop
  <2>2. pre = frames[n].batch
    BY <2>1 DEF BatchInv, IInv, InForce, PreOf
  <2>. QED
    BY <1>1, <1>3, <2>2, MainThreadAssumption
<1>5. Inside(frames) /\ (nested' <=> n # 1)
  <2>1. n \in DOMAIN frames
    BY <1>3
  <2>2. Inside(frames)
    BY <1>1, <2>1 DEF Inside
  <2>3. /\ frames' \in Seq(Frame) /\ OnTop(frames') /\ frames' # <<>> /\ Len(frames') = n
        /\ n = 1 => frames'[1].tool \in Starters /\ frames'[1].armed
    BY <1>1, <1>2, <1>3, ArmedFacts DEF BatchInv, IInv
  <2>4. Inside(frames') <=> n # 1
    BY <2>3, InsideIs
  <2>. QED
    BY <1>1, <2>2, <2>4
<1>6. ASSUME ~stray', Levels, ~stray PROVE Levels'
  <2>1. CASE n = 1
    <3>1. ~nested' /\ frames[n].batch = 0
      BY <1>1, <1>3, <1>5, <1>6, <2>1
    <3>2. 1..Len(frames') = {1} /\ frames'[1].batch = 0
      BY <1>3, <2>1, <3>1, ArmedFacts DEF BatchInv
    <3>3. Inside(frames)' = nested'
      BY <1>1
    <3>. QED
      BY <1>4, <3>1, <3>2, <3>3 DEF Levels, LeftOn
  <2>2. CASE n # 1
    <3>0. nested' /\ 1 \in 1..n
      BY <1>3, <1>5, <2>2
    <3>1. Inside(frames)' /\ nested' /\ 1 \in 1..n /\ frames[n].batch = 1
      BY <1>1, <1>3, <1>6, <2>2, <3>0 DEF Levels
    <3>2. batch' = 1
      BY <1>1, <1>5, <1>6, <3>1 DEF Levels
    <3>3. frames[1].batch # 1
      BY <1>1, <1>3, <1>6, <3>1, ArmedFacts DEF Levels, LeftOn, BatchInv
    <3>. QED
      BY <1>4, <1>6, <3>1, <3>2, <3>3, ArmedFacts DEF Levels, LeftOn, BatchInv
  <2>. QED
    BY <2>1, <2>2
<1>. QED
  BY <1>1, <1>2, <1>6 DEF BatchInv

LEMMA HookRestoresBatch == ASSUME BatchInv, HookRestores PROVE BatchInv'
<1>1. /\ hook # None /\ batch' = hook /\ hook' = None /\ UNCHANGED <<frames, nested>>
      /\ ~stray' => ~stray /\ nested = Inside(frames)
  BY DEF HookRestores
<1>2. IInv'
  BY <1>1, NextIInv DEF BatchInv, Next
<1>3. Inside(frames') <=> Inside(frames)
  BY <1>1
<1>4. ASSUME ~stray', ~stray, Levels PROVE Levels'
  BY <1>1, <1>3, <1>4 DEF Levels, LeftOn
<1>. QED
  BY <1>1, <1>2, <1>4 DEF BatchInv

LEMMA NextBatch == BatchInv /\ [Next]_vars => BatchInv'
<1> SUFFICES ASSUME BatchInv, [Next]_vars PROVE BatchInv'
  OBVIOUS
<1>1. IInv'
  BY NextIInv DEF BatchInv
<1>2. CASE RefuseNested
  BY <1>1, <1>2 DEF RefuseNested, BatchInv, Levels, LeftOn, Inside
<1>3. CASE UNCHANGED vars
  BY <1>1, <1>3 DEF vars, BatchInv, Levels, LeftOn, Inside
<1>. QED
  BY EnterBatch, LeaveBatch, StruckBatch, ArmHookBatch, HookRestoresBatch, <1>2, <1>3 DEF Next

LEMMA InitBatch == Init => BatchInv
<1> SUFFICES ASSUME Init PROVE BatchInv
  OBVIOUS
<1>1. ~Inside(frames)
  BY DEF Init, Inside
<1>. QED
  BY <1>1, InitIInv DEF Init, BatchInv, Levels, LeftOn

(* As long as no debugger hook is armed or fires out of place: no body runs *)
(* with dialogs enabled, at any depth, and IDA shows them again once no     *)
(* tool runs and no hook is pending (api_debug.py, module docstring), also  *)
(* when tools overlap a pending hook and when scripts call dbg_start.      *)
THEOREM BatchKeptAlways == Spec => []BatchKept
<1>1. BatchInv => BatchKept
  <2>1. Idle => ~Inside(frames)
    BY DEF Idle, Inside
  <2>. QED
    BY <2>1 DEF BatchInv, IInv, TypeOK, Levels, LeftOn, BatchKept, BatchBack, BatchOnInside
<1>. QED
  BY InitBatch, NextBatch, <1>1, PTL DEF Spec
=============================================================================
